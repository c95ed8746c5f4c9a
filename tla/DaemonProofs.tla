----------------------------- MODULE DaemonProofs ---------------------------
(***************************************************************************)
(* Proofs about Daemon: a daemon that has the machine for itself is named  *)
(* by both files as long as it serves, for every number of daemons, of     *)
(* clients and of faults, and whatever files a killed one left behind;     *)
(* every client is in one place.  And about Serving: the frecency of the   *)
(* services is kept, and of their engines those used last.                 *)
(***************************************************************************)
EXTENDS Daemon, Serving, FiniteSetTheorems, WellFoundedInduction, TLAPS

(* A daemon that no other has overlapped with is the only one alive.       *)
IsAlone ==
  \A d, e \in Daemons : (Alive(d) /\ d \notin shared /\ Alive(e)) => e = d

(* From the moment it has written a file until it removes it the file      *)
(* names it.  FoundWhileAlone leaves out the time it loads, when the files  *)
(* are there and nobody is accepted yet.                                   *)
Written == {"named", "load", "check", "accept", "drain"}
IsNamed ==
  \A d \in Daemons :
    (main[d] \in Written /\ d \notin shared)
      => pidFile = d /\ (main[d] # "named" => portFile = d)

FoundInv == main \in [Daemons -> Pcs] /\ IsAlone /\ IsNamed

-----------------------------------------------------------------------------
(* A daemon that dies, or goes on without touching the files, is one less  *)
(* alive or the same.                                                      *)
LEMMA MovesKeepFoundInv ==
  ASSUME FoundInv, UNCHANGED <<files, shared>>,
         NEW d, NEW pc \in Pcs, main' = [main EXCEPT ![d] = pc],
         d \in Daemons => /\ pc # "gone" => Alive(d)
                          /\ pc \in Written => pc # "named" /\ main[d] \in Written \ {"named"}
                          /\ pc # "unborn"
  PROVE  FoundInv'
<1>1. main' \in [Daemons -> Pcs]
  BY DEF FoundInv
<1>2. \A e \in Daemons : e # d => main'[e] = main[e]
  BY DEF FoundInv
<1>3. d \in Daemons => main'[d] = pc
  BY DEF FoundInv
<1>4. \A e \in Daemons : Alive(e)' => Alive(e)
  BY <1>2, <1>3 DEF Alive
<1>5. IsAlone'
  BY <1>4 DEF FoundInv, IsAlone
<1>6. IsNamed'
  BY <1>2, <1>3 DEF FoundInv, IsNamed, files
<1>. QED
  BY <1>1, <1>5, <1>6 DEF FoundInv

(* A daemon that is not alone may write or remove the files: no other one  *)
(* is alone either.                                                        *)
LEMMA OthersAreNotAlone ==
  ASSUME FoundInv, NEW d \in Daemons, Alive(d),
         NEW e \in Daemons, e # d, main[e] \in Written
  PROVE  e \in shared
BY DEF FoundInv, IsAlone, Alive, Written

(* What leaves daemons and files alone keeps the invariant.                *)
LEMMA RestKeepsFoundInv ==
  ASSUME FoundInv, UNCHANGED <<main, files, shared>>
  PROVE  FoundInv'
BY DEF FoundInv, IsAlone, IsNamed, Alive, files

(* Starting removes a stale port file, and later writes both.              *)
LEMMA StartUpKeepsFoundInv ==
  ASSUME FoundInv, NEW d \in Daemons, StartUp(d)
  PROVE  FoundInv'
<1>0. UNCHANGED shared /\ Starts(d)
  BY DEF StartUp, history
<1>1. Alive(d)
  BY <1>0 DEF Starts, Alive
<1>2. PICK pc \in {"bound", "named", "load", "check"} :
        /\ main' = [main EXCEPT ![d] = pc]
        /\ \/ pc = "bound"
           \/ pc = "named" /\ pidFile' = d
           \/ pc = "load" /\ main[d] = "named" /\ portFile' = d /\ pidFile' = pidFile
           \/ pc = "check" /\ main[d] = "load" /\ UNCHANGED files
  BY <1>0 DEF Starts
<1>3. main' \in [Daemons -> Pcs] /\ main'[d] = pc
      /\ \A e \in Daemons : e # d => main'[e] = main[e]
  BY <1>2 DEF FoundInv, Pcs
<1>4. \A e \in Daemons : Alive(e)' <=> Alive(e)
  BY <1>1, <1>2, <1>3 DEF Alive
<1>5. IsAlone'
  BY <1>0, <1>4 DEF FoundInv, IsAlone
<1>6. ASSUME NEW e \in Daemons, e \notin shared', main'[e] \in Written
      PROVE  pidFile' = e /\ (main'[e] # "named" => portFile' = e)
  <2>1. CASE e = d
    <3>1. main[d] \in Written =>
            pidFile = d /\ (main[d] # "named" => portFile = d)
      BY <1>0, <1>6, <2>1 DEF FoundInv, IsNamed
    <3>. QED
      BY <1>2, <1>3, <1>6, <2>1, <3>1 DEF files, Written
  <2>2. CASE e # d
    BY <1>0, <1>1, <1>3, <1>6, <2>2, OthersAreNotAlone
  <2>. QED
    BY <2>1, <2>2
<1>. QED
  BY <1>3, <1>5, <1>6 DEF FoundInv, IsNamed

(* Shutting down removes the files, when the daemon serves no longer.      *)
LEMMA ShutDownKeepsFoundInv ==
  ASSUME FoundInv, NEW d \in Daemons, ShutDown(d)
  PROVE  FoundInv'
<1>1. /\ Alive(d) /\ UNCHANGED shared
      /\ \E pc \in {"rmpid", "gone"} : main' = [main EXCEPT ![d] = pc]
  BY DEF ShutDown, Alive, Dies, history
<1>2. /\ main' \in [Daemons -> Pcs]
      /\ main'[d] \in {"rmpid", "gone"}
      /\ \A e \in Daemons : e # d => main'[e] = main[e]
  BY <1>1 DEF FoundInv, Pcs
<1>3. IsAlone'
  BY <1>1, <1>2 DEF FoundInv, IsAlone, Alive
<1>4. IsNamed'
  BY <1>1, <1>2, OthersAreNotAlone DEF IsNamed, Written
<1>. QED
  BY <1>2, <1>3, <1>4 DEF FoundInv

(* A daemon that is spawned next to another is marked, and so is the other.*)
LEMMA SpawnKeepsFoundInv ==
  ASSUME FoundInv, NEW c \in Clients, Spawn(c)
  PROVE  FoundInv'
<1>. DEFINE others == {e \in Daemons : Alive(e)}
<1>1. PICK d : /\ main' = [main EXCEPT ![d] = "clear"]
               /\ shared' = IF others = {} THEN shared
                            ELSE shared \cup others \cup {d}
               /\ UNCHANGED files
  BY DEF Spawn
<1>2. /\ main' \in [Daemons -> Pcs]
      /\ \A e \in Daemons : main'[e] = IF e = d THEN "clear" ELSE main[e]
  BY <1>1 DEF FoundInv, Pcs
<1>3. IsAlone'
  BY <1>1, <1>2 DEF FoundInv, IsAlone, Alive
<1>4. IsNamed'
  BY <1>1, <1>2 DEF FoundInv, IsNamed, files, Written
<1>. QED
  BY <1>2, <1>3, <1>4 DEF FoundInv

(* stop by the pid file kills a daemon that loads.                         *)
LEMMA SignalKeepsFoundInv ==
  ASSUME FoundInv, NEW c \in Clients, Signal(c)
  PROVE  FoundInv'
<1>1. /\ UNCHANGED <<files, shared>>
      /\ \/ UNCHANGED main
         \/ main' = [main EXCEPT ![pidFile] = "gone"]
  BY DEF Signal, Dies, servers, history
<1>2. CASE main' = [main EXCEPT ![pidFile] = "gone"]
  BY <1>1, <1>2, MovesKeepFoundInv DEF Pcs, Written
<1>. QED
  BY <1>1, <1>2, RestKeepsFoundInv

-----------------------------------------------------------------------------
(* A daemon that was never alive next to another is reached by port and    *)
(* pid file while it serves: stale files of a killed one are replaced      *)
(* before it serves, and only a daemon that overlaps can remove them       *)
(* (search-server/src/main.rs, main).                                      *)
THEOREM AloneIsFound == Spec => []FoundWhileAlone
<1>1. Init => FoundInv
  BY DEF Init, FoundInv, IsAlone, IsNamed, Alive, Pcs, Written
<1>2. FoundInv /\ [Next]_vars => FoundInv'
  <2>. SUFFICES ASSUME FoundInv, [Next]_vars PROVE FoundInv'
    OBVIOUS
  <2>1. ASSUME NEW c \in Clients,
               \/ \E cmd \in Commands : Begin(c, cmd)
               \/ ReadPort(c) \/ Connect(c) \/ Lost(c) \/ Deadline(c)
        PROVE  FoundInv'
    <3>1. UNCHANGED <<main, files, shared>>
      <4>1. \A cmd \in Commands : Begin(c, cmd) => UNCHANGED <<main, files, shared>>
        BY DEF Begin, servers, history
      <4>2. ReadPort(c) \/ Lost(c) \/ Deadline(c) => UNCHANGED <<main, files, shared>>
        BY DEF ReadPort, Lost, Deadline, servers, history
      <4>3. Connect(c) => UNCHANGED <<main, files, shared>>
        BY DEF Connect, history
      <4>. QED
        BY <2>1, <4>1, <4>2, <4>3
    <3>. QED
      BY <3>1, RestKeepsFoundInv
  <2>2. ASSUME NEW c \in Clients, Spawn(c) \/ Signal(c) PROVE FoundInv'
    BY <2>2, SpawnKeepsFoundInv, SignalKeepsFoundInv
  <2>3. ASSUME NEW d \in Daemons, StartUp(d) \/ ShutDown(d) PROVE FoundInv'
    BY <2>3, StartUpKeepsFoundInv, ShutDownKeepsFoundInv
  <2>4. ASSUME NEW d \in Daemons, Check(d) \/ Accept(d) PROVE FoundInv'
    <3>1. PICK pc \in {"check", "accept", "drain"} :
            /\ main' = [main EXCEPT ![d] = pc]
            /\ main[d] \in {"check", "accept"}
            /\ UNCHANGED <<files, shared>>
      BY <2>4 DEF Check, Accept, history
    <3>. QED
      BY <3>1, MovesKeepFoundInv DEF Pcs, Alive, Written
  <2>6. ASSUME NEW d \in Daemons, Death(d) PROVE FoundInv'
    <3>1. /\ main' = [main EXCEPT ![d] = "gone"]
          /\ UNCHANGED <<files, shared>>
      BY <2>6 DEF Death, Dies
    <3>. QED
      BY <3>1, MovesKeepFoundInv DEF Pcs, Written
  <2>7. ASSUME NEW d \in Daemons, Take(d) \/ Answer(d) \/ Panic(d)
        PROVE  FoundInv'
    BY <2>7, RestKeepsFoundInv DEF Take, Answer, Panic, history
  <2>8. CASE UNCHANGED vars
    BY <2>8, RestKeepsFoundInv DEF vars, servers, history
  <2>. QED
    BY <2>1, <2>2, <2>3, <2>4, <2>6, <2>7, <2>8
    DEF Next, ClientStep, MainStep, WorkerStep
<1>3. FoundInv => FoundWhileAlone
  BY DEF FoundInv, IsNamed, FoundWhileAlone, Serving, Written
<1>. QED
  BY <1>1, <1>2, <1>3, PTL DEF Spec

-----------------------------------------------------------------------------
(* Places of clients.                                                      *)

(* Sequences of clients, and one that is served: nobody is twice in them.  *)
Once(s) == \A i, j \in 1..Len(s) : s[i] = s[j] => i = j
Placed(b, q, w) ==
  /\ Once(b) /\ Once(q)
  /\ \A i \in 1..Len(b), j \in 1..Len(q) : b[i] # q[j]
  /\ \A i \in 1..Len(b) : b[i] # w
  /\ \A i \in 1..Len(q) : q[i] # w
Members(b, q, w) ==
  {b[i] : i \in 1..Len(b)} \cup {q[i] : i \in 1..Len(q)} \cup ({w} \cap Clients)

(* A client that has no command is idle, and one that connects or waits    *)
(* has a daemon.                                                           *)
ClientType ==
  [cmd : Commands \cup {"none"},
   pc : {"idle", "port", "connect", "wait", "spawn", "pid"},
   to : Daemons \cup {Missing}, spawned : BOOLEAN]
ClientState ==
  {r \in ClientType : /\ r.cmd = "none" => r.pc = "idle"
                      /\ r.pc \in {"connect", "wait"} => r.to \in Daemons}

(* Who waits for a daemon: the connections it has, and the one it serves.  *)
Waiting(d) == Members(backlog[d], queue[d], worker[d])
WaitsFor(c, d) == client[c].pc = "wait" /\ client[c].to = d

PlaceInv ==
  /\ main \in [Daemons -> Pcs]
  /\ shutdown \in [Daemons -> BOOLEAN]
  /\ backlog \in [Daemons -> Seq(Clients)]
  /\ queue \in [Daemons -> Seq(Clients)]
  /\ worker \in [Daemons -> Clients \cup {"free", "dead"}]
  /\ portFile \in Daemons \cup {Missing}
  /\ pidFile \in Daemons \cup {Missing}
  /\ client \in [Clients -> ClientState]
  /\ \A d \in Daemons : Placed(backlog[d], queue[d], worker[d])
  /\ \A d \in Daemons : \A c \in Waiting(d) : WaitsFor(c, d)

(* A connection that is new, is handed on, or is dropped.                  *)
LEMMA ArrivalIsPlaced ==
  ASSUME NEW b \in Seq(Clients), NEW q \in Seq(Clients),
         NEW w \in Clients \cup {"free", "dead"}, Placed(b, q, w),
         NEW c \in Clients, c \notin Members(b, q, w)
  PROVE  /\ Placed(Append(b, c), q, w)
         /\ Members(Append(b, c), q, w) = Members(b, q, w) \cup {c}
<1>. DEFINE a == Append(b, c)
<1>1. /\ Len(a) = Len(b) + 1 /\ a[Len(b) + 1] = c
      /\ \A i \in 1..Len(b) : a[i] = b[i]
      /\ Len(b) \in Nat
  OBVIOUS
<1>2. /\ \A i \in 1..Len(b) : b[i] # c
      /\ \A i \in 1..Len(q) : q[i] # c
      /\ w # c
  BY DEF Members
<1>. HIDE DEF a
<1>3. \A i \in 1..Len(a) : i \in 1..Len(b) \/ i = Len(b) + 1
  BY <1>1
<1>4. Once(a)
  BY <1>1, <1>2, <1>3 DEF Once, Placed
<1>5. Placed(a, q, w)
  BY <1>1, <1>2, <1>3, <1>4 DEF Placed
<1>6. {a[i] : i \in 1..Len(a)} = {b[i] : i \in 1..Len(b)} \cup {c}
  BY <1>1, <1>3
<1>. QED
  BY <1>5, <1>6 DEF a, Members

(* The first of a queue leaves it: the others stay, once each.             *)
LEMMA DepartureIsPlaced ==
  ASSUME NEW s \in Seq(Clients), s # <<>>, Once(s)
  PROVE  /\ s[1] \in Clients /\ Tail(s) \in Seq(Clients) /\ Once(Tail(s))
         /\ {Tail(s)[i] : i \in 1..Len(Tail(s))} = {s[i] : i \in 1..Len(s)} \ {s[1]}
         /\ s[1] \in {s[i] : i \in 1..Len(s)}
<1>. DEFINE t == Tail(s)
<1>1. /\ Len(s) \in Nat /\ 1 \in 1..Len(s) /\ t \in Seq(Clients)
      /\ Len(t) = Len(s) - 1 /\ s[1] \in Clients
      /\ \A i \in 1..Len(t) : t[i] = s[i + 1]
  OBVIOUS
<1>. HIDE DEF t
<1>2. \A i \in 1..Len(t) : i + 1 \in 1..Len(s)
  BY <1>1
<1>3. Once(t)
  BY <1>1, <1>2 DEF Once
<1>4. ASSUME NEW i \in 1..Len(t) PROVE t[i] \in {s[j] : j \in 1..Len(s)} \ {s[1]}
  BY <1>1, <1>2 DEF Once
<1>5. ASSUME NEW j \in 1..Len(s), s[j] # s[1] PROVE s[j] \in {t[i] : i \in 1..Len(t)}
  <2>1. j - 1 \in 1..Len(t) /\ t[j - 1] = s[j]
    BY <1>1, <1>5
  <2>. QED
    BY <2>1
<1>6. {t[i] : i \in 1..Len(t)} = {s[i] : i \in 1..Len(s)} \ {s[1]}
  <2>1. {t[i] : i \in 1..Len(t)} \subseteq {s[i] : i \in 1..Len(s)} \ {s[1]}
    BY ONLY <1>4
  <2>2. {s[i] : i \in 1..Len(s)} \ {s[1]} \subseteq {t[i] : i \in 1..Len(t)}
    BY ONLY <1>5
  <2>. QED
    BY ONLY <2>1, <2>2
<1>7. s[1] \in {s[i] : i \in 1..Len(s)}
  BY <1>1
<1>. QED
  BY <1>1, <1>3, <1>6, <1>7 DEF t

(* Placed by its members: what Accept and Take hand on.                    *)
LEMMA PlacedBySets ==
  ASSUME NEW b, NEW q, NEW w
  PROVE  Placed(b, q, w) <=>
           /\ Once(b) /\ Once(q)
           /\ {b[i] : i \in 1..Len(b)} \cap {q[i] : i \in 1..Len(q)} = {}
           /\ w \notin {b[i] : i \in 1..Len(b)} \cup {q[i] : i \in 1..Len(q)}
BY DEF Placed

(* The main loop hands the first of the backlog on to the queue, or drops  *)
(* it (accept).                                                            *)
LEMMA HandOnIsPlaced ==
  ASSUME NEW b \in Seq(Clients), NEW q \in Seq(Clients),
         NEW w \in Clients \cup {"free", "dead"}, Placed(b, q, w), b # <<>>
  PROVE  /\ Placed(Tail(b), Append(q, b[1]), w) /\ Placed(Tail(b), q, w)
         /\ Members(Tail(b), Append(q, b[1]), w) = Members(b, q, w)
         /\ Members(Tail(b), q, w) \subseteq Members(b, q, w)
<1>1. /\ b[1] \in Clients /\ Tail(b) \in Seq(Clients) /\ Once(Tail(b))
      /\ {Tail(b)[i] : i \in 1..Len(Tail(b))} = {b[i] : i \in 1..Len(b)} \ {b[1]}
      /\ b[1] \in {b[i] : i \in 1..Len(b)}
  BY DepartureIsPlaced DEF Placed
<1>2. /\ Placed(q, <<>>, w) /\ b[1] \notin Members(q, <<>>, w)
  BY <1>1 DEF Placed, Members, Once
<1>3. /\ Once(Append(q, b[1]))
      /\ {Append(q, b[1])[i] : i \in 1..Len(Append(q, b[1]))}
           = {q[i] : i \in 1..Len(q)} \cup {b[1]}
  <2>. DEFINE a == Append(q, b[1])
  <2>1. /\ Len(a) = Len(q) + 1 /\ a[Len(q) + 1] = b[1]
        /\ \A i \in 1..Len(q) : a[i] = q[i]
        /\ Len(q) \in Nat
    BY <1>1
  <2>3. Once(a)
    <3>1. <<>> \in Seq(Clients)
      OBVIOUS
    <3>2. Placed(Append(q, b[1]), <<>>, w)
      BY <1>1, <1>2, <3>1, ArrivalIsPlaced
    <3>. QED
      BY <3>2 DEF Placed
  <2>. HIDE DEF a
  <2>2. \A i \in 1..Len(a) : i \in 1..Len(q) \/ i = Len(q) + 1
    BY <2>1
  <2>4. {a[i] : i \in 1..Len(a)} = {q[i] : i \in 1..Len(q)} \cup {b[1]}
    BY <2>1, <2>2
  <2>. QED
    BY <2>3, <2>4 DEF a
<1>. QED
  BY <1>1, <1>3, PlacedBySets DEF Members

(* A free worker takes the first of the queue.                             *)
LEMMA TakeIsPlaced ==
  ASSUME NEW b \in Seq(Clients), NEW q \in Seq(Clients),
         Placed(b, q, "free"), q # <<>>
  PROVE  /\ Placed(b, Tail(q), q[1])
         /\ Members(b, Tail(q), q[1]) = Members(b, q, "free")
<1>1. /\ q[1] \in Clients /\ Tail(q) \in Seq(Clients) /\ Once(Tail(q))
      /\ {Tail(q)[i] : i \in 1..Len(Tail(q))} = {q[i] : i \in 1..Len(q)} \ {q[1]}
      /\ q[1] \in {q[i] : i \in 1..Len(q)}
  BY DepartureIsPlaced DEF Placed
<1>2. "free" \notin Clients
  BY DaemonAssumption DEF DaemonAssumption
<1>. QED
  BY <1>1, <1>2, PlacedBySets DEF Members

(* The client of the worker leaves, and whole queues may go with it.       *)
LEMMA LeavingIsPlaced ==
  ASSUME NEW b \in Seq(Clients), NEW q \in Seq(Clients),
         NEW w \in Clients \cup {"free", "dead"}, Placed(b, q, w),
         NEW v \in {"free", "dead"}
  PROVE  /\ Placed(b, q, v) /\ Placed(b, <<>>, v) /\ Placed(<<>>, <<>>, v)
         /\ Members(b, q, v) = Members(b, q, w) \ {w}
         /\ Members(b, <<>>, v) \subseteq Members(b, q, w) \ {w}
         /\ Members(<<>>, <<>>, v) = {}
<1>1. v \notin Clients
  BY DaemonAssumption DEF DaemonAssumption
<1>2. \A i \in 1..Len(b) : b[i] \in Clients
  OBVIOUS
<1>3. \A i \in 1..Len(q) : q[i] \in Clients
  OBVIOUS
<1>. QED
  BY <1>1, <1>2, <1>3 DEF Placed, Members, Once

(* A client that does not wait is in no place.                             *)
LEMMA OthersHaveNoPlace ==
  ASSUME PlaceInv, NEW c \in Clients, client[c].pc # "wait",
         NEW d \in Daemons
  PROVE  c \notin Waiting(d)
BY DEF PlaceInv, WaitsFor

(* What a step has to show: of the clients, when no daemon's places change *)
LEMMA ClientsKeepPlaces ==
  ASSUME PlaceInv, UNCHANGED <<backlog, queue, worker>>,
         main' \in [Daemons -> Pcs], shutdown' \in [Daemons -> BOOLEAN],
         portFile' \in Daemons \cup {Missing}, pidFile' \in Daemons \cup {Missing},
         client' \in [Clients -> ClientState],
         \A d \in Daemons : \A c \in Waiting(d) : client'[c] = client[c]
  PROVE  PlaceInv'
<1>1. \A d \in Daemons : Waiting(d)' = Waiting(d)
  BY DEF Waiting
<1>2. \A d \in Daemons : \A c \in Waiting(d) : WaitsFor(c, d)'
  BY DEF PlaceInv, WaitsFor
<1>. QED
  BY <1>1, <1>2 DEF PlaceInv

(* and of one daemon, when its places change.                              *)
LEMMA DaemonKeepsPlaces ==
  ASSUME PlaceInv,
         main' \in [Daemons -> Pcs], shutdown' \in [Daemons -> BOOLEAN],
         portFile' \in Daemons \cup {Missing}, pidFile' \in Daemons \cup {Missing},
         client' \in [Clients -> ClientState],
         NEW d \in Daemons, NEW b \in Seq(Clients), NEW q \in Seq(Clients),
         NEW w \in Clients \cup {"free", "dead"},
         backlog' = [backlog EXCEPT ![d] = b],
         queue' = [queue EXCEPT ![d] = q],
         worker' = [worker EXCEPT ![d] = w],
         Placed(b, q, w),
         \A c \in Members(b, q, w) : client'[c].pc = "wait" /\ client'[c].to = d,
         \A e \in Daemons \ {d} : \A c \in Waiting(e) : client'[c] = client[c]
  PROVE  PlaceInv'
<1>1. /\ backlog' \in [Daemons -> Seq(Clients)]
      /\ queue' \in [Daemons -> Seq(Clients)]
      /\ worker' \in [Daemons -> Clients \cup {"free", "dead"}]
  BY DEF PlaceInv
<1>2. /\ backlog'[d] = b /\ queue'[d] = q /\ worker'[d] = w
      /\ \A e \in Daemons \ {d} : /\ backlog'[e] = backlog[e]
                                  /\ queue'[e] = queue[e]
                                  /\ worker'[e] = worker[e]
  BY DEF PlaceInv
<1>3. /\ Waiting(d)' = Members(b, q, w)
      /\ \A e \in Daemons \ {d} : Waiting(e)' = Waiting(e)
  BY <1>2 DEF Waiting
<1>4. \A e \in Daemons : Placed(backlog[e], queue[e], worker[e])'
  BY <1>2 DEF PlaceInv
<1>5. \A c \in Waiting(d)' : WaitsFor(c, d)'
  BY <1>3 DEF WaitsFor
<1>6. \A e \in Daemons \ {d} : \A c \in Waiting(e)' : WaitsFor(c, e)'
  BY <1>3 DEF PlaceInv, WaitsFor
<1>7. \A e \in Daemons : \A c \in Waiting(e)' : WaitsFor(c, e)'
  BY <1>5, <1>6
<1>. QED
  BY <1>1, <1>4, <1>7 DEF PlaceInv

(* The places of a daemon that has died.                                   *)
LEMMA NoPlaces ==
  Placed(<<>>, <<>>, "free") /\ Members(<<>>, <<>>, "free") = {}
BY DaemonAssumption DEF DaemonAssumption, Placed, Members, Once

(* A daemon dies: whoever waited for it is in no place any more.           *)
LEMMA DeathKeepsPlaces ==
  ASSUME PlaceInv, NEW d \in Daemons, Dies(d),
         portFile' \in Daemons \cup {Missing}, pidFile' \in Daemons \cup {Missing},
         client' \in [Clients -> ClientState],
         \A e \in Daemons : \A c \in Waiting(e) : client'[c] = client[c]
  PROVE  PlaceInv'
<1>1. /\ main' \in [Daemons -> Pcs] /\ shutdown' \in [Daemons -> BOOLEAN]
      /\ backlog' = [backlog EXCEPT ![d] = <<>>]
      /\ queue' = [queue EXCEPT ![d] = <<>>]
      /\ worker' = [worker EXCEPT ![d] = "free"]
  BY DEF PlaceInv, Dies, Pcs
<1>2. <<>> \in Seq(Clients)
  OBVIOUS
<1>. QED
  BY <1>1, <1>2, NoPlaces, DaemonKeepsPlaces

(* Where a client goes when it ends its command or has found no daemon.    *)
LEMMA IdleIsClientState == Idle \in ClientState
BY DEF Idle, ClientState, ClientType, Commands

(* A client goes on to another point of its command.                       *)
LEMMA GotoIsClientState ==
  ASSUME client \in [Clients -> ClientState], NEW c \in Clients,
         client[c].pc # "idle",
         NEW pc \in {"port", "spawn", "pid", "wait"}, Goto(c, pc),
         pc = "wait" => client[c].pc = "connect"
  PROVE  /\ client' \in [Clients -> ClientState]
         /\ \A e \in Clients \ {c} : client'[e] = client[e]
         /\ client'[c].pc = pc
         /\ pc = "wait" => client'[c].to = client[c].to
<1>. DEFINE r == [cmd |-> client[c].cmd, pc |-> pc,
                  to |-> IF pc = "wait" THEN client[c].to ELSE Missing,
                  spawned |-> client[c].spawned]
<1>1. client[c] \in ClientState
  OBVIOUS
<1>2. r \in ClientState
  BY <1>1 DEF ClientState, ClientType
<1>3. /\ client' = [e \in Clients |-> client'[e]]
      /\ \A e \in Clients \ {c} : client'[e] = client[e]
  BY DEF Goto
<1>4. client'[c] = r
  <2>1. client[c] = [cmd |-> client[c].cmd, pc |-> client[c].pc, to |-> client[c].to,
                     spawned |-> client[c].spawned]
    BY <1>1 DEF ClientState, ClientType
  <2>. QED
    BY <2>1 DEF Goto
<1>. HIDE DEF r
<1>5. client' \in [Clients -> ClientState]
  BY <1>2, <1>3, <1>4
<1>6. r.pc = pc /\ (pc = "wait" => r.to = client[c].to)
  BY DEF r
<1>. QED
  BY <1>3, <1>4, <1>5, <1>6

(* A command that ends leaves its client idle.                             *)
LEMMA EndsIsClientState ==
  ASSUME client \in [Clients -> ClientState], NEW c \in Clients, Ends(c)
  PROVE  /\ client' \in [Clients -> ClientState]
         /\ \A e \in Clients \ {c} : client'[e] = client[e]
BY IdleIsClientState DEF Ends

(* A client that got no answer goes on as its command says.                *)
LEMMA WithoutDaemonIsClientState ==
  ASSUME client \in [Clients -> ClientState], NEW c \in Clients,
         client[c].pc # "idle", WithoutDaemon(c) \/ Unanswered(c)
  PROVE  /\ client' \in [Clients -> ClientState]
         /\ \A e \in Clients \ {c} : client'[e] = client[e]
<1>1. client[c].cmd \in {"search", "stop", "start"}
  BY DEF ClientState, ClientType, Commands
<1>2. Ends(c) \/ Goto(c, "pid") \/ Goto(c, "port") \/ Goto(c, "spawn")
  BY <1>1 DEF WithoutDaemon, Unanswered
<1>. QED
  BY <1>2, EndsIsClientState, GotoIsClientState

(* Who is in a backlog, a queue or with a worker is a client.              *)
LEMMA WaitingAreClients ==
  ASSUME PlaceInv, NEW d \in Daemons
  PROVE  Waiting(d) \subseteq Clients
BY DEF PlaceInv, Waiting, Members

(* A client that is not waiting, or is in no place, may change.            *)
LEMMA OneClientKeepsPlaces ==
  ASSUME PlaceInv, UNCHANGED <<backlog, queue, worker>>,
         main' \in [Daemons -> Pcs], shutdown' \in [Daemons -> BOOLEAN],
         portFile' \in Daemons \cup {Missing}, pidFile' \in Daemons \cup {Missing},
         NEW c \in Clients, \A d \in Daemons : c \notin Waiting(d),
         client' \in [Clients -> ClientState],
         \A e \in Clients \ {c} : client'[e] = client[e]
  PROVE  PlaceInv'
BY WaitingAreClients, ClientsKeepPlaces

(* The steps of clients keep everyone in one place.                        *)
LEMMA ClientStepsKeepPlaces ==
  ASSUME PlaceInv, NEW c \in Clients,
         \/ \E cmd \in Commands : Begin(c, cmd)
         \/ ReadPort(c) \/ Connect(c) \/ Lost(c) \/ Spawn(c) \/ Deadline(c) \/ Signal(c)
  PROVE  PlaceInv'
<1>0. /\ main \in [Daemons -> Pcs] /\ shutdown \in [Daemons -> BOOLEAN]
      /\ portFile \in Daemons \cup {Missing} /\ pidFile \in Daemons \cup {Missing}
      /\ client \in [Clients -> ClientState]
  BY DEF PlaceInv
<1>1. ASSUME NEW cmd \in Commands, Begin(c, cmd) PROVE PlaceInv'
  <2>. DEFINE r == [cmd |-> cmd, pc |-> "port", to |-> Missing, spawned |-> FALSE]
  <2>1. client' = [client EXCEPT ![c] = r] /\ UNCHANGED <<servers, files>>
    BY <1>1 DEF Begin, history
  <2>2. r \in ClientState
    BY DEF ClientState, ClientType, Commands
  <2>3. client[c].pc # "wait"
    <3>1. client[c] = Idle /\ Idle.pc = "idle"
      BY <1>1 DEF Begin, Idle
    <3>. QED
      BY <3>1
  <2>. HIDE DEF r
  <2>4. client' \in [Clients -> ClientState] /\ \A e \in Clients \ {c} : client'[e] = client[e]
    BY <1>0, <2>1, <2>2
  <2>. QED
    BY <1>0, <2>1, <2>3, <2>4, OthersHaveNoPlace, OneClientKeepsPlaces DEF servers, files
<1>2. ASSUME ReadPort(c) PROVE PlaceInv'
  <2>1. client[c].pc = "port" /\ UNCHANGED <<servers, files>>
    BY <1>2 DEF ReadPort
  <2>2. client' \in [Clients -> ClientState] /\ \A e \in Clients \ {c} : client'[e] = client[e]
    <3>1. CASE portFile = Missing
      <4>1. WithoutDaemon(c)
        BY <1>2, <3>1 DEF ReadPort
      <4>. QED
        BY <1>0, <2>1, <4>1, WithoutDaemonIsClientState
    <3>2. CASE portFile # Missing
      <4>. DEFINE r == [cmd |-> client[c].cmd, pc |-> "connect", to |-> portFile,
                        spawned |-> client[c].spawned]
      <4>1. client[c] \in ClientState /\ portFile \in Daemons
        BY <1>0, <3>2
      <4>2. r \in ClientState
        BY <2>1, <4>1 DEF ClientState, ClientType
      <4>3. client' = [client EXCEPT ![c].pc = "connect", ![c].to = portFile]
        BY <1>2, <3>2 DEF ReadPort
      <4>4. client[c] = [cmd |-> client[c].cmd, pc |-> client[c].pc, to |-> client[c].to,
                         spawned |-> client[c].spawned]
        BY <4>1 DEF ClientState, ClientType
      <4>5. client'[c] = r
        BY <1>0, <4>3, <4>4
      <4>. HIDE DEF r
      <4>. QED
        BY <1>0, <4>2, <4>3, <4>5
    <3>. QED
      BY <3>1, <3>2
  <2>. QED
    BY <1>0, <2>1, <2>2, OthersHaveNoPlace, OneClientKeepsPlaces DEF servers, files
<1>3. ASSUME Connect(c) PROVE PlaceInv'
  <2>1. /\ client[c].pc = "connect" /\ UNCHANGED <<main, shutdown, queue, worker, files>>
        /\ client[c] \in ClientState
    BY <1>0, <1>3 DEF Connect
  <2>2. CASE ~Listens(client[c].to)
    <3>1. WithoutDaemon(c) /\ UNCHANGED backlog
      BY <1>3, <2>2 DEF Connect
    <3>2. client' \in [Clients -> ClientState] /\ \A e \in Clients \ {c} : client'[e] = client[e]
      BY <1>0, <2>1, <3>1, WithoutDaemonIsClientState
    <3>. QED
      BY <1>0, <2>1, <3>1, <3>2, OthersHaveNoPlace, OneClientKeepsPlaces DEF files
  <2>3. CASE Listens(client[c].to)
    <3>. DEFINE d == client[c].to
    <3>0. d \in Daemons
      BY <2>1 DEF ClientState
    <3>1. /\ backlog' = [backlog EXCEPT ![d] = Append(backlog[d], c)]
          /\ Goto(c, "wait")
      BY <1>3, <2>3 DEF Connect
    <3>2. /\ client' \in [Clients -> ClientState]
          /\ \A e \in Clients \ {c} : client'[e] = client[e]
          /\ client'[c].pc = "wait" /\ client'[c].to = d
      BY <1>0, <2>1, <3>1, GotoIsClientState
    <3>. HIDE DEF d
    <3>3. /\ backlog[d] \in Seq(Clients) /\ queue[d] \in Seq(Clients)
          /\ worker[d] \in Clients \cup {"free", "dead"}
          /\ Placed(backlog[d], queue[d], worker[d])
          /\ c \notin Members(backlog[d], queue[d], worker[d])
      BY <2>1, <3>0, OthersHaveNoPlace DEF PlaceInv, Waiting
    <3>4. /\ Placed(Append(backlog[d], c), queue[d], worker[d])
          /\ Members(Append(backlog[d], c), queue[d], worker[d]) = Waiting(d) \cup {c}
      BY <3>3, ArrivalIsPlaced DEF Waiting
    <3>5. \A e \in Daemons : \A x \in Waiting(e) : client'[x] = client[x]
      BY <2>1, <3>2, OthersHaveNoPlace, WaitingAreClients
    <3>6. \A x \in Waiting(d) : client[x].pc = "wait" /\ client[x].to = d
      BY <3>0 DEF PlaceInv, WaitsFor
    <3>7. /\ Append(backlog[d], c) \in Seq(Clients)
          /\ queue' = [queue EXCEPT ![d] = queue[d]]
          /\ worker' = [worker EXCEPT ![d] = worker[d]]
      BY <2>1, <3>0, <3>3 DEF PlaceInv
    <3>8. \A x \in Members(Append(backlog[d], c), queue[d], worker[d]) :
            client'[x].pc = "wait" /\ client'[x].to = d
      BY <3>0, <3>2, <3>4, <3>5, <3>6
    <3>9. /\ main' \in [Daemons -> Pcs] /\ shutdown' \in [Daemons -> BOOLEAN]
          /\ portFile' \in Daemons \cup {Missing} /\ pidFile' \in Daemons \cup {Missing}
      BY <1>0, <2>1 DEF files
    <3>. QED
      BY <3>0, <3>1, <3>2, <3>3, <3>4, <3>5, <3>7, <3>8, <3>9, DaemonKeepsPlaces
  <2>. QED
    BY <2>2, <2>3
<1>4. ASSUME Lost(c) PROVE PlaceInv'
  <2>1. /\ client[c].pc = "wait" /\ Unanswered(c) /\ UNCHANGED <<servers, files>>
        /\ worker[client[c].to] # c
        /\ ~Contains(backlog[client[c].to], c) /\ ~Contains(queue[client[c].to], c)
    BY <1>4 DEF Lost
  <2>2. client' \in [Clients -> ClientState] /\ \A e \in Clients \ {c} : client'[e] = client[e]
    BY <1>0, <2>1, WithoutDaemonIsClientState
  <2>3. \A d \in Daemons : c \notin Waiting(d)
    <3>. SUFFICES ASSUME NEW d \in Daemons, c \in Waiting(d) PROVE FALSE
      OBVIOUS
    <3>1. client[c].to = d
      BY DEF PlaceInv, WaitsFor
    <3>2. worker[d] = c \/ Contains(backlog[d], c) \/ Contains(queue[d], c)
      BY DEF Waiting, Members, Contains
    <3>. QED
      BY <2>1, <3>1, <3>2
  <2>. QED
    BY <1>0, <2>1, <2>2, <2>3, OneClientKeepsPlaces DEF servers, files
<1>5. ASSUME Spawn(c) PROVE PlaceInv'
  <2>1. /\ client[c].pc = "spawn"
        /\ main' = [main EXCEPT ![Min(Unborn)] = "clear"]
        /\ client' = [client EXCEPT ![c].pc = "port", ![c].spawned = TRUE]
        /\ UNCHANGED <<shutdown, backlog, queue, worker, files>>
    BY <1>5 DEF Spawn
  <2>2. client' \in [Clients -> ClientState] /\ \A e \in Clients \ {c} : client'[e] = client[e]
    <3>. DEFINE r == [cmd |-> client[c].cmd, pc |-> "port", to |-> client[c].to,
                      spawned |-> TRUE]
    <3>1. client[c] \in ClientState
      BY <1>0
    <3>2. r \in ClientState
      BY <2>1, <3>1 DEF ClientState, ClientType
    <3>4. client[c] = [cmd |-> client[c].cmd, pc |-> client[c].pc, to |-> client[c].to,
                       spawned |-> client[c].spawned]
      BY <3>1 DEF ClientState, ClientType
    <3>5. client'[c] = r
      BY <1>0, <2>1, <3>4
    <3>. HIDE DEF r
    <3>. QED
      BY <1>0, <2>1, <3>2, <3>5
  <2>3. main' \in [Daemons -> Pcs]
    BY <1>0, <2>1 DEF Pcs
  <2>. QED
    BY <1>0, <2>1, <2>2, <2>3, OthersHaveNoPlace, OneClientKeepsPlaces DEF files
<1>6. ASSUME Deadline(c) PROVE PlaceInv'
  <2>1. client[c].pc # "wait" /\ Ends(c) /\ UNCHANGED <<servers, files>>
    BY <1>6 DEF Deadline
  <2>2. client' \in [Clients -> ClientState] /\ \A e \in Clients \ {c} : client'[e] = client[e]
    BY <1>0, <2>1, EndsIsClientState
  <2>. QED
    BY <1>0, <2>1, <2>2, OthersHaveNoPlace, OneClientKeepsPlaces DEF servers, files
<1>7. ASSUME Signal(c) PROVE PlaceInv'
  <2>1. client[c].pc # "wait" /\ Ends(c) /\ UNCHANGED files
    BY <1>7 DEF Signal
  <2>2. client' \in [Clients -> ClientState] /\ \A e \in Clients \ {c} : client'[e] = client[e]
    BY <1>0, <2>1, EndsIsClientState
  <2>3. \/ UNCHANGED servers
        \/ pidFile \in Daemons /\ Dies(pidFile)
        \/ /\ shutdown' = [shutdown EXCEPT ![pidFile] = TRUE]
           /\ UNCHANGED <<main, backlog, queue, worker>>
    BY <1>0, <1>7 DEF Signal
  <2>4. CASE pidFile \in Daemons /\ Dies(pidFile)
    <3>1. \A e \in Daemons : \A x \in Waiting(e) : client'[x] = client[x]
      BY <2>1, <2>2, OthersHaveNoPlace, WaitingAreClients
    <3>. QED
      BY <1>0, <2>1, <2>2, <2>4, <3>1, DeathKeepsPlaces DEF files
  <2>5. CASE \/ UNCHANGED servers
             \/ /\ shutdown' = [shutdown EXCEPT ![pidFile] = TRUE]
                /\ UNCHANGED <<main, backlog, queue, worker>>
    <3>1. /\ main' \in [Daemons -> Pcs] /\ shutdown' \in [Daemons -> BOOLEAN]
          /\ UNCHANGED <<backlog, queue, worker>>
      BY <1>0, <2>5 DEF servers
    <3>. QED
      BY <1>0, <2>1, <2>2, <3>1, OthersHaveNoPlace, OneClientKeepsPlaces DEF files
  <2>. QED
    BY <2>3, <2>4, <2>5
<1>. QED
  BY <1>1, <1>2, <1>3, <1>4, <1>5, <1>6, <1>7

(* So do the steps of daemons, their panics and deaths.                    *)
LEMMA DaemonStepsKeepPlaces ==
  ASSUME PlaceInv, NEW d \in Daemons,
         MainStep(d) \/ WorkerStep(d) \/ Panic(d) \/ Death(d)
  PROVE  PlaceInv'
<1>. DEFINE b == backlog[d]
            q == queue[d]
            w == worker[d]
<1>0. /\ main \in [Daemons -> Pcs] /\ shutdown \in [Daemons -> BOOLEAN]
      /\ portFile \in Daemons \cup {Missing} /\ pidFile \in Daemons \cup {Missing}
      /\ client \in [Clients -> ClientState]
      /\ b \in Seq(Clients) /\ q \in Seq(Clients) /\ w \in Clients \cup {"free", "dead"}
      /\ Placed(b, q, w)
      /\ backlog = [backlog EXCEPT ![d] = b]
      /\ queue = [queue EXCEPT ![d] = q]
      /\ worker = [worker EXCEPT ![d] = w]
      /\ \A c \in Members(b, q, w) : client[c].pc = "wait" /\ client[c].to = d
  BY DEF PlaceInv, Waiting, WaitsFor
<1>. HIDE DEF b, q, w
<1>1. CASE StartUp(d) \/ Check(d)
  <2>1. /\ main' \in [Daemons -> Pcs] /\ UNCHANGED <<shutdown, backlog, queue, worker, client>>
    BY <1>0, <1>1 DEF StartUp, Starts, Check, MustStop, Pcs
  <2>2. portFile' \in Daemons \cup {Missing} /\ pidFile' \in Daemons \cup {Missing}
    BY <1>0, <1>1 DEF StartUp, Starts, Check, files
  <2>. QED
    BY <1>0, <2>1, <2>2, ClientsKeepPlaces
<1>2. CASE ShutDown(d)
  <2>1. CASE main[d] = "rmpid"
    BY <1>0, <1>2, <2>1, DeathKeepsPlaces DEF ShutDown
  <2>2. CASE main[d] # "rmpid"
    <3>1. /\ main' \in [Daemons -> Pcs] /\ UNCHANGED <<shutdown, backlog, queue, worker, client>>
          /\ portFile' \in Daemons \cup {Missing} /\ pidFile' = pidFile
      BY <1>0, <1>2, <2>2 DEF ShutDown, Pcs
    <3>. QED
      BY <1>0, <3>1, ClientsKeepPlaces
  <2>. QED
    BY <2>1, <2>2
<1>3. CASE Death(d)
  BY <1>0, <1>3, DeathKeepsPlaces DEF Death, files
<1>4. CASE Accept(d)
  <2>1. /\ main' \in [Daemons -> Pcs] /\ UNCHANGED <<shutdown, worker, files, client>>
    BY <1>0, <1>4 DEF Accept, Pcs
  <2>2. CASE b = <<>>
    BY <1>0, <1>4, <2>1, <2>2, ClientsKeepPlaces DEF Accept, files, b
  <2>3. CASE b # <<>>
    <3>1. /\ Placed(Tail(b), Append(q, b[1]), w) /\ Placed(Tail(b), q, w)
          /\ Members(Tail(b), Append(q, b[1]), w) = Members(b, q, w)
          /\ Members(Tail(b), q, w) \subseteq Members(b, q, w)
      BY <1>0, <2>3, HandOnIsPlaced
    <3>2. /\ Tail(b) \in Seq(Clients) /\ Append(q, b[1]) \in Seq(Clients)
      BY <1>0, <2>3
    <3>3. /\ backlog' = [backlog EXCEPT ![d] = Tail(b)]
          /\ \/ queue' = [queue EXCEPT ![d] = q]
             \/ queue' = [queue EXCEPT ![d] = Append(q, b[1])]
          /\ worker' = [worker EXCEPT ![d] = w]
      BY <1>0, <1>4, <2>1, <2>3 DEF Accept, b, q
    <3>. QED
      BY <1>0, <2>1, <3>1, <3>2, <3>3, DaemonKeepsPlaces DEF files
  <2>. QED
    BY <2>2, <2>3
<1>5. CASE Take(d)
  <2>1. /\ w = "free" /\ q # <<>>
        /\ queue' = [queue EXCEPT ![d] = Tail(q)]
        /\ worker' = [worker EXCEPT ![d] = q[1]]
        /\ UNCHANGED <<main, shutdown, backlog, files, client>>
    BY <1>5 DEF Take, q, w
  <2>2. /\ Placed(b, Tail(q), q[1])
        /\ Members(b, Tail(q), q[1]) = Members(b, q, w)
    BY <1>0, <2>1, TakeIsPlaced
  <2>3. Tail(q) \in Seq(Clients) /\ q[1] \in Clients /\ backlog' = [backlog EXCEPT ![d] = b]
    BY <1>0, <2>1
  <2>. QED
    BY <1>0, <2>1, <2>2, <2>3, DaemonKeepsPlaces DEF files
<1>6. CASE Answer(d)
  <2>1. /\ w \in Clients /\ worker' = [worker EXCEPT ![d] = "free"]
        /\ Ends(w) /\ shutdown' = [shutdown EXCEPT ![d] = @ \/ client[w].cmd = "stop"]
        /\ UNCHANGED <<main, backlog, queue, files>>
    BY <1>6 DEF Answer, w
  <2>2. /\ client' \in [Clients -> ClientState]
        /\ \A e \in Clients \ {w} : client'[e] = client[e]
    BY <1>0, <2>1, EndsIsClientState
  <2>3. /\ Placed(b, q, "free") /\ Members(b, q, "free") = Members(b, q, w) \ {w}
    BY <1>0, LeavingIsPlaced
  <2>4. \A c \in Members(b, q, "free") : client'[c].pc = "wait" /\ client'[c].to = d
    BY <1>0, <2>2, <2>3, WaitingAreClients DEF Waiting, b, q, w
  <2>5. \A e \in Daemons \ {d} : \A c \in Waiting(e) : client'[c] = client[c]
    <3>1. w \in Members(b, q, w)
      BY <2>1 DEF Members
    <3>2. \A e \in Daemons \ {d} : w \notin Waiting(e)
      BY <1>0, <3>1 DEF PlaceInv, WaitsFor
    <3>. QED
      BY <2>2, <3>2, WaitingAreClients
  <2>6. shutdown' \in [Daemons -> BOOLEAN]
    BY <1>0, <2>1
  <2>7. /\ backlog' = [backlog EXCEPT ![d] = b] /\ queue' = [queue EXCEPT ![d] = q]
        /\ main' \in [Daemons -> Pcs]
        /\ portFile' \in Daemons \cup {Missing} /\ pidFile' \in Daemons \cup {Missing}
    BY <1>0, <2>1 DEF files
  <2>8. "free" \in Clients \cup {"free", "dead"}
    OBVIOUS
  <2>. QED
    BY <1>0, <2>1, <2>2, <2>3, <2>4, <2>5, <2>6, <2>7, <2>8, DaemonKeepsPlaces
<1>7. CASE Panic(d)
  <2>1. /\ worker' = [worker EXCEPT ![d] = "dead"] /\ queue' = [queue EXCEPT ![d] = <<>>]
        /\ UNCHANGED <<main, shutdown, backlog, files, client>>
    BY <1>7 DEF Panic
  <2>2. /\ Placed(b, <<>>, "dead") /\ Members(b, <<>>, "dead") \subseteq Members(b, q, w)
    BY <1>0, LeavingIsPlaced
  <2>3. /\ backlog' = [backlog EXCEPT ![d] = b] /\ <<>> \in Seq(Clients)
        /\ "dead" \in Clients \cup {"free", "dead"}
    BY <1>0, <2>1
  <2>. QED
    BY <1>0, <2>1, <2>2, <2>3, DaemonKeepsPlaces DEF files
<1>. QED
  BY <1>1, <1>2, <1>3, <1>4, <1>5, <1>6, <1>7 DEF MainStep, WorkerStep

(* Three sequences with nobody twice make one with nobody twice.           *)
LEMMA PlacedIsInjective ==
  ASSUME NEW b \in Seq(Clients), NEW q \in Seq(Clients),
         NEW w \in Clients \cup {"free", "dead"}, Placed(b, q, w)
  PROVE  LET waiting == b \o q \o (IF w \in Clients THEN <<w>> ELSE <<>>)
         IN  /\ IsInjective(waiting)
             /\ \A i \in DOMAIN waiting : waiting[i] \in Members(b, q, w)
<1>. DEFINE last == IF w \in Clients THEN <<w>> ELSE <<>>
            all == b \o q \o last
<1>1. /\ Len(b) \in Nat /\ Len(q) \in Nat /\ Len(last) \in {0, 1}
      /\ last \in Seq(Clients)
      /\ Len(last) = 1 => w \in Clients /\ last[1] = w
  OBVIOUS
<1>. HIDE DEF last
<1>2. /\ all \in Seq(Clients)
      /\ DOMAIN all = 1..(Len(b) + Len(q) + Len(last))
  BY <1>1
<1>3. \A i \in DOMAIN all :
        \/ i \in 1..Len(b) /\ all[i] = b[i]
        \/ i - Len(b) \in 1..Len(q) /\ all[i] = q[i - Len(b)]
        \/ i = Len(b) + Len(q) + 1 /\ all[i] = w /\ w \in Clients
  <2>. SUFFICES ASSUME NEW i \in DOMAIN all
                PROVE  \/ i \in 1..Len(b) /\ all[i] = b[i]
                       \/ i - Len(b) \in 1..Len(q) /\ all[i] = q[i - Len(b)]
                       \/ i = Len(b) + Len(q) + 1 /\ all[i] = w /\ w \in Clients
    OBVIOUS
  <2>1. i \in 1..(Len(b) + Len(q) + Len(last))
    BY <1>2
  <2>2. CASE i \in 1..Len(b)
    BY <1>1, <2>2
  <2>3. CASE i - Len(b) \in 1..Len(q)
    BY <1>1, <2>1, <2>3
  <2>4. CASE i = Len(b) + Len(q) + 1
    <3>1. Len(last) = 1
      BY <1>1, <2>1, <2>4
    <3>2. all[i] = last[1]
      BY <1>1, <2>4, <3>1
    <3>. QED
      BY <1>1, <2>4, <3>1, <3>2
  <2>5. \/ i \in 1..Len(b) \/ i - Len(b) \in 1..Len(q)
        \/ i = Len(b) + Len(q) + 1
    <3>1. PICK m \in Nat, n \in Nat, k \in {0, 1} :
            m = Len(b) /\ n = Len(q) /\ k = Len(last)
      BY <1>1
    <3>. HIDE DEF all
    <3>2. i \in 1..(m + n + k)
      BY <2>1, <3>1
    <3>3. i \in 1..m \/ i - m \in 1..n \/ i = m + n + 1
      BY <3>2
    <3>. QED
      BY <3>1, <3>3
  <2>. QED
    BY <2>2, <2>3, <2>4, <2>5
<1>. HIDE DEF all
<1>4. \A i \in DOMAIN all : all[i] \in Members(b, q, w)
  BY <1>3 DEF Members
<1>5. ASSUME NEW i \in DOMAIN all, NEW j \in DOMAIN all, all[i] = all[j]
      PROVE  i = j
  <2>1. i \in Int /\ j \in Int
    BY <1>1, <1>2
  <2>2. ASSUME i \in 1..Len(b), all[i] = b[i] PROVE i = j
    BY <1>1, <1>3, <1>5, <2>1, <2>2 DEF Placed, Once
  <2>3. ASSUME i - Len(b) \in 1..Len(q), all[i] = q[i - Len(b)] PROVE i = j
    <3>1. CASE j \in 1..Len(b) /\ all[j] = b[j]
      BY <1>5, <2>3, <3>1 DEF Placed
    <3>2. CASE j - Len(b) \in 1..Len(q) /\ all[j] = q[j - Len(b)]
      <4>1. i - Len(b) = j - Len(b)
        BY <1>5, <2>3, <3>2 DEF Placed, Once
      <4>. QED
        BY <1>1, <2>1, <4>1
    <3>3. CASE all[j] = w
      BY <1>5, <2>3, <3>3 DEF Placed
    <3>. QED
      BY <1>3, <3>1, <3>2, <3>3
  <2>4. ASSUME i = Len(b) + Len(q) + 1, all[i] = w PROVE i = j
    BY <1>3, <1>5, <2>4 DEF Placed
  <2>. QED
    BY <1>3, <2>2, <2>3, <2>4
<1>. QED
  BY <1>4, <1>5 DEF IsInjective, all, last

(* Every client is in at most one place of one daemon, the one it waits    *)
(* for: no connection is lost track of, answered twice, or held by two     *)
(* daemons, through panics, deaths, signals and restarts.                  *)
THEOREM TypeCorrect == Spec => []TypeOK
<1>1. Init => PlaceInv
  <2>. SUFFICES ASSUME Init PROVE PlaceInv
    OBVIOUS
  <2>1. \A d \in Daemons : /\ backlog[d] = <<>> /\ queue[d] = <<>> /\ worker[d] = "free"
    BY DEF Init
  <2>2. \A d \in Daemons : /\ Placed(backlog[d], queue[d], worker[d]) /\ Waiting(d) = {}
    BY <2>1, NoPlaces DEF Waiting
  <2>3. /\ main \in [Daemons -> Pcs] /\ shutdown \in [Daemons -> BOOLEAN]
        /\ worker \in [Daemons -> Clients \cup {"free", "dead"}]
        /\ client \in [Clients -> ClientState]
        /\ portFile = Missing /\ pidFile = Missing
    BY IdleIsClientState DEF Init, Pcs
  <2>4. /\ backlog \in [Daemons -> Seq(Clients)] /\ queue \in [Daemons -> Seq(Clients)]
    BY DEF Init
  <2>. QED
    BY <2>2, <2>3, <2>4 DEF PlaceInv
<1>2. PlaceInv /\ [Next]_vars => PlaceInv'
  <2>. SUFFICES ASSUME PlaceInv, [Next]_vars PROVE PlaceInv'
    OBVIOUS
  <2>1. CASE UNCHANGED vars
    BY <2>1, ClientsKeepPlaces DEF PlaceInv, vars, servers, files
  <2>. QED
    BY <2>1, ClientStepsKeepPlaces, DaemonStepsKeepPlaces DEF Next, ClientStep
<1>3. PlaceInv => TypeOK
  <2>. SUFFICES ASSUME PlaceInv PROVE TypeOK
    OBVIOUS
  <2>1. ASSUME NEW d \in Daemons
        PROVE  LET waiting == backlog[d] \o queue[d] \o
                                (IF worker[d] \in Clients THEN <<worker[d]>> ELSE <<>>)
               IN  /\ IsInjective(waiting)
                   /\ \A i \in DOMAIN waiting :
                        client[waiting[i]].pc = "wait" /\ client[waiting[i]].to = d
    <3>. DEFINE waiting == backlog[d] \o queue[d] \o
                             (IF worker[d] \in Clients THEN <<worker[d]>> ELSE <<>>)
    <3>1. /\ backlog[d] \in Seq(Clients) /\ queue[d] \in Seq(Clients)
          /\ worker[d] \in Clients \cup {"free", "dead"}
          /\ Placed(backlog[d], queue[d], worker[d])
      BY DEF PlaceInv
    <3>2. /\ IsInjective(waiting)
          /\ \A i \in DOMAIN waiting : waiting[i] \in Waiting(d)
      BY <3>1, PlacedIsInjective DEF Waiting
    <3>. HIDE DEF waiting
    <3>3. \A i \in DOMAIN waiting :
            client[waiting[i]].pc = "wait" /\ client[waiting[i]].to = d
      BY <3>2 DEF PlaceInv, WaitsFor
    <3>. QED
      BY <3>2, <3>3 DEF waiting
  <2>2. \A c \in Clients : /\ client[c].cmd \in Commands \cup {"none"}
                           /\ client[c].to \in Daemons \cup {Missing}
    BY DEF PlaceInv, ClientState, ClientType
  <2>3. /\ main \in [Daemons -> Pcs] /\ shutdown \in [Daemons -> BOOLEAN]
        /\ worker \in [Daemons -> Clients \cup {"free", "dead"}]
        /\ portFile \in Daemons \cup {Missing} /\ pidFile \in Daemons \cup {Missing}
    BY DEF PlaceInv
  <2>. QED
    BY ONLY <2>1, <2>2, <2>3 DEF TypeOK
<1>. QED
  BY <1>1, <1>2, <1>3, PTL DEF Spec

-----------------------------------------------------------------------------
(***************************************************************************)
(* The services of a daemon (Serving).                                     *)
(***************************************************************************)

(* The store of a root.                                                    *)

Numbers == SUBSET Nat
FileType == [kind : {"missing", "torn", "mixed", "whole"}, touches : Numbers]
WorkType ==
  [pc : {"idle", "local", "open", "write", "rename"}, root : Roots \cup {NoRoot},
   store : Numbers, at : {"tmp", "file", "gone"}]

(* A process that is within a flush of the store of r.                     *)
Flushes(w, r) == work[w].root = r /\ work[w].pc \in {"open", "write", "rename"}

(* Types, as far as they matter; and of the two threads of the daemon only *)
(* one flushes a store, which stays as it is in memory meanwhile.          *)
Kinds ==
  /\ made \in Nat
  /\ work \in [Writers -> WorkType]
  /\ \A w \in Writers : work[w].pc # "idle" => work[w].root \in Roots
  /\ file \in [Roots -> FileType] /\ tmp \in [Roots -> FileType]
  /\ frec \in [Roots -> Numbers] /\ promised \in [Roots -> Numbers]
  /\ alone \in [Roots -> BOOLEAN]
  /\ known \subseteq Roots
Threads ==
  /\ phase = "down" => known = {}
  /\ left \subseteq known
  /\ \A r \in Roots : r \notin known => frec[r] = {}
  /\ phase # "up" => work["worker"] = Resting
  /\ \A w \in Daemon :
       work[w] = Resting \/ \E r \in known : Flushes(w, r) /\ work[w].store = frec[r]
  /\ \A r \in Roots : ~(Flushes("worker", r) /\ Flushes("main", r))

(* A store that no two processes held at a time is held by one: a command *)
(* line, or the daemon.                                                    *)
OneHolder(r) ==
  /\ \A c, d \in CommandLines : Flushes(c, r) /\ Flushes(d, r) => c = d
  /\ \A c \in CommandLines : Flushes(c, r) => r \notin known

(* It flushes what it read from the file, and more, through a temporary    *)
(* file that is its own.                                                   *)
OwnFile(w, r) ==
  /\ work[w].at = "tmp" /\ file[r].touches \subseteq work[w].store
  /\ work[w].pc = "write" => tmp[r] = Torn
  /\ work[w].pc = "rename" => tmp[r] = Whole(work[w].store)

(* What was promised is in the file, what is in the file is in the memory  *)
(* of the daemon, and that is in the file when a leaving daemon has        *)
(* flushed it.                                                             *)
Remembers(r) ==
  /\ file[r].kind \in {"missing", "whole"}
  /\ promised[r] \subseteq file[r].touches
  /\ r \in known => file[r].touches \subseteq frec[r]
  /\ (phase = "leaving" /\ r \notin left /\ work["main"].root # r) =>
       frec[r] \subseteq file[r].touches
RootInv(r) ==
  alone[r] => /\ OneHolder(r) /\ Remembers(r)
              /\ \A w \in Writers : Flushes(w, r) => OwnFile(w, r)
StoreInv == Kinds /\ Threads /\ \A r \in Roots : RootInv(r)

(* Command lines are not threads of the daemon.                            *)
LEMMA Processes ==
  /\ CommandLines \subseteq Writers /\ {"worker", "main"} \subseteq Writers
  /\ \A c \in CommandLines : c # "worker" /\ c # "main" /\ c \notin Daemon
  /\ Resting \in WorkType /\ Resting.pc = "idle" /\ Resting.root = NoRoot
  /\ \A r \in Roots : r # NoRoot
  /\ \A r \in Roots, s \in Numbers : Flush(r, s) \in WorkType
BY ServingAssumption DEF Writers, Daemon, Resting, Flush, WorkType, Numbers

(* A root whose store nobody touches keeps its invariant.                  *)
LEMMA OtherRoot ==
  ASSUME NEW r \in Roots, RootInv(r),
         alone'[r] => alone[r],
         r \in known' <=> r \in known,
         file'[r] = file[r] /\ tmp'[r] = tmp[r] /\ frec'[r] = frec[r],
         promised'[r] = promised[r],
         \A w \in Writers : Flushes(w, r)' => Flushes(w, r) /\ work'[w] = work[w],
         (phase' = "leaving" /\ r \notin left' /\ work'["main"].root # r) =>
           phase = "leaving" /\ r \notin left /\ work["main"].root # r
  PROVE  RootInv(r)'
<1>. SUFFICES ASSUME alone'[r]
              PROVE  /\ OneHolder(r)' /\ Remembers(r)'
                     /\ \A w \in Writers : Flushes(w, r)' => OwnFile(w, r)'
  BY DEF RootInv
<1>1. /\ OneHolder(r) /\ Remembers(r)
      /\ \A w \in Writers : Flushes(w, r) => OwnFile(w, r)
  BY DEF RootInv
<1>2. OneHolder(r)'
  BY <1>1, Processes DEF OneHolder
<1>3. Remembers(r)'
  BY <1>1 DEF Remembers
<1>4. ASSUME NEW w \in Writers, Flushes(w, r)' PROVE OwnFile(w, r)'
  BY <1>1, <1>4 DEF OwnFile
<1>. QED
  BY <1>2, <1>3, <1>4

(* Who flushes a store with one holder flushes alone.                      *)
LEMMA OnlyOne ==
  ASSUME Kinds, Threads, NEW r \in Roots, OneHolder(r),
         NEW w \in Writers, NEW u \in Writers, Flushes(w, r), Flushes(u, r)
  PROVE  u = w
BY Processes DEF OneHolder, Threads, Writers, Daemon, Flushes, Resting

(* A step of one process in a flush leaves the others, and the two threads *)
(* of the daemon apart.                                                    *)
LEMMA FlushStepThreads ==
  ASSUME Kinds, Threads, NEW w \in Writers,
         UNCHANGED <<phase, left, known, frec>>,
         work' \in [Writers -> WorkType],
         \A u \in Writers :
           \/ work'[u] = Resting
           \/ /\ work'[u].root = work[u].root /\ work'[u].store = work[u].store
              /\ work[u] # Resting
              /\ work'[u].pc \in {"open", "write", "rename"} <=>
                   work[u].pc \in {"open", "write", "rename"}
           \/ work'[u] = work[u]
  PROVE  Threads'
BY Processes DEF Threads, Flushes, Daemon

(* Creating the temporary file: no other process of this root had it.      *)
LEMMA OpenTmpKeeps ==
  ASSUME StoreInv, NEW w \in Writers, OpenTmp(w)
  PROVE  StoreInv'
<1>. DEFINE q == [work[w] EXCEPT !.pc = "write"]
<1>1. PICK r \in Roots :
        /\ Kinds /\ Threads /\ r = work[w].root /\ Flushes(w, r)
        /\ work[w] \in WorkType /\ work[w].pc = "open"
  BY DEF StoreInv, Kinds, OpenTmp, Flushes
<1>2. /\ q \in WorkType /\ q.pc = "write" /\ q.root = r
      /\ q.store = work[w].store /\ q.at = work[w].at
  BY <1>1 DEF WorkType
<1>3. /\ tmp' = [tmp EXCEPT ![r] = Torn] /\ work' = [work EXCEPT ![w] = q]
      /\ UNCHANGED <<phase, left, known, frec, file, made, alone, promised>>
  BY <1>1 DEF OpenTmp, bounds, Kinds
<1>. HIDE DEF q
<1>4. /\ work'[w] = q /\ \A u \in Writers : u # w => work'[u] = work[u]
      /\ tmp'[r] = Torn /\ \A x \in Roots : x # r => tmp'[x] = tmp[x]
  BY <1>1, <1>3 DEF Kinds
<1>5. Torn \in FileType
  BY DEF Torn, Content, FileType, Numbers
<1>6. Kinds'
  BY <1>1, <1>2, <1>3, <1>4, <1>5 DEF Kinds
<1>7. Threads'
  <2>1. work'[w].pc \in {"open", "write", "rename"} /\ work[w] # Resting
    BY <1>1, <1>2, <1>4 DEF Resting
  <2>. QED
    BY <1>1, <1>2, <1>3, <1>4, <1>6, <2>1, FlushStepThreads DEF Kinds
<1>8. ASSUME NEW x \in Roots PROVE RootInv(x)'
  <2>1. CASE x # r
    <3>1. \A u \in Writers : Flushes(u, x)' => Flushes(u, x) /\ work'[u] = work[u]
      BY <1>2, <1>4, <2>1 DEF Flushes
    <3>2. work'["main"].root = work["main"].root
      BY <1>2, <1>4, <1>1, Processes
    <3>3. RootInv(x) /\ tmp'[x] = tmp[x]
      BY <1>4, <2>1 DEF StoreInv
    <3>. QED
      BY <1>3, <3>1, <3>2, <3>3, OtherRoot
  <2>2. CASE x = r
    <3>. SUFFICES ASSUME alone[r]
                  PROVE  /\ OneHolder(r)' /\ Remembers(r)'
                         /\ \A u \in Writers : Flushes(u, r)' => OwnFile(u, r)'
      BY <1>3, <2>2 DEF RootInv
    <3>1. /\ OneHolder(r) /\ Remembers(r)
          /\ \A u \in Writers : Flushes(u, r) => OwnFile(u, r)
      BY <1>1 DEF StoreInv, RootInv
    <3>2. \A u \in Writers : Flushes(u, r)' <=> Flushes(u, r)
      BY <1>1, <1>2, <1>4 DEF Flushes
    <3>3. \A u \in Writers : Flushes(u, r) => u = w
      BY <1>1, <3>1, OnlyOne
    <3>4. OneHolder(r)'
      BY <1>3, <3>1, <3>2, Processes DEF OneHolder
    <3>5. Remembers(r)'
      BY <1>2, <1>3, <1>4, <3>1, <1>1 DEF Remembers
    <3>6. OwnFile(w, r)'
      BY <1>1, <1>2, <1>3, <1>4, <3>1 DEF OwnFile
    <3>. QED
      BY <3>2, <3>3, <3>4, <3>5, <3>6
  <2>. QED
    BY <2>1, <2>2
<1>. QED
  BY <1>6, <1>7, <1>8 DEF StoreInv

(* Writing it: it was empty, so it is whole afterwards.                    *)
LEMMA WriteTmpKeeps ==
  ASSUME StoreInv, NEW w \in Writers, WriteTmp(w)
  PROVE  StoreInv'
<1>. DEFINE q == [work[w] EXCEPT !.pc = "rename"]
<1>1. PICK r \in Roots :
        /\ Kinds /\ Threads /\ r = work[w].root /\ Flushes(w, r)
        /\ work[w] \in WorkType /\ work[w].pc = "write"
  BY DEF StoreInv, Kinds, WriteTmp, Flushes
<1>2. /\ q \in WorkType /\ q.pc = "rename" /\ q.root = r
      /\ q.store = work[w].store /\ q.at = work[w].at
  BY <1>1 DEF WorkType
<1>3. /\ work' = [work EXCEPT ![w] = q]
      /\ UNCHANGED <<phase, left, known, frec, made, alone, promised>>
  BY <1>1 DEF WriteTmp, bounds, Kinds
<1>. HIDE DEF q
<1>4. work'[w] = q /\ \A u \in Writers : u # w => work'[u] = work[u]
  BY <1>1, <1>3 DEF Kinds
<1>5. Whole(work[w].store) \in FileType /\ Mixed \in FileType
  BY <1>1 DEF Whole, Mixed, Content, FileType, WorkType, Numbers
<1>6. \A old : Filled(w, old) \subseteq FileType
  BY <1>5 DEF Filled
<1>7. /\ file' \in [Roots -> FileType] /\ tmp' \in [Roots -> FileType]
      /\ \A x \in Roots : x # r => file'[x] = file[x] /\ tmp'[x] = tmp[x]
      /\ work[w].at = "tmp" => /\ file'[r] = file[r]
                               /\ tmp'[r] \in Filled(w, tmp[r])
  <2>1. CASE work[w].at = "tmp"
    <3>1. PICK c \in Filled(w, tmp[r]) : tmp' = [tmp EXCEPT ![r] = c] /\ UNCHANGED file
      BY <1>1, <2>1 DEF WriteTmp
    <3>2. c \in FileType
      BY <1>6
    <3>. QED
      BY <1>1, <3>1, <3>2 DEF Kinds
  <2>2. CASE work[w].at = "file"
    <3>1. PICK c \in Filled(w, file[r]) : file' = [file EXCEPT ![r] = c] /\ UNCHANGED tmp
      BY <1>1, <2>2 DEF WriteTmp
    <3>2. c \in FileType
      BY <1>6
    <3>. QED
      BY <1>1, <2>2, <3>1, <3>2 DEF Kinds
  <2>3. CASE work[w].at = "gone"
    BY <1>1, <2>3 DEF WriteTmp, Kinds, disk
  <2>. QED
    BY <1>1, <2>1, <2>2, <2>3 DEF WorkType
<1>8. Kinds'
  BY <1>1, <1>2, <1>3, <1>4, <1>7 DEF Kinds
<1>9. Threads'
  <2>1. work'[w].pc \in {"open", "write", "rename"} /\ work[w] # Resting
    BY <1>1, <1>2, <1>4 DEF Resting
  <2>. QED
    BY <1>1, <1>2, <1>3, <1>4, <1>8, <2>1, FlushStepThreads DEF Kinds
<1>10. ASSUME NEW x \in Roots PROVE RootInv(x)'
  <2>1. CASE x # r
    <3>1. \A u \in Writers : Flushes(u, x)' => Flushes(u, x) /\ work'[u] = work[u]
      BY <1>2, <1>4, <2>1 DEF Flushes
    <3>2. work'["main"].root = work["main"].root
      BY <1>2, <1>4, <1>1, Processes
    <3>3. RootInv(x) /\ tmp'[x] = tmp[x] /\ file'[x] = file[x]
      BY <1>7, <2>1 DEF StoreInv
    <3>. QED
      BY <1>3, <3>1, <3>2, <3>3, OtherRoot
  <2>2. CASE x = r
    <3>. SUFFICES ASSUME alone[r]
                  PROVE  /\ OneHolder(r)' /\ Remembers(r)'
                         /\ \A u \in Writers : Flushes(u, r)' => OwnFile(u, r)'
      BY <1>3, <2>2 DEF RootInv
    <3>1. /\ OneHolder(r) /\ Remembers(r)
          /\ \A u \in Writers : Flushes(u, r) => OwnFile(u, r)
      BY <1>1 DEF StoreInv, RootInv
    <3>2. \A u \in Writers : Flushes(u, r)' <=> Flushes(u, r)
      BY <1>1, <1>2, <1>4 DEF Flushes
    <3>3. \A u \in Writers : Flushes(u, r) => u = w
      BY <1>1, <3>1, OnlyOne
    <3>4. OneHolder(r)'
      BY <1>3, <3>1, <3>2, Processes DEF OneHolder
    <3>5. work[w].at = "tmp" /\ tmp[r] = Torn
      BY <1>1, <3>1 DEF OwnFile
    <3>6. file'[r] = file[r] /\ tmp'[r] = Whole(work[w].store)
      BY <1>7, <3>5 DEF Filled
    <3>7. Remembers(r)'
      BY <1>2, <1>3, <1>4, <3>1, <3>6, Processes, <1>1 DEF Remembers
    <3>8. OwnFile(w, r)'
      BY <1>1, <1>2, <1>4, <3>1, <3>6 DEF OwnFile
    <3>. QED
      BY <3>2, <3>3, <3>4, <3>7, <3>8
  <2>. QED
    BY <2>1, <2>2
<1>. QED
  BY <1>8, <1>9, <1>10 DEF StoreInv

(* The rename: what was in frecency.json is in the store that replaces it. *)
LEMMA RenameKeeps ==
  ASSUME StoreInv, NEW w \in Writers, Rename(w)
  PROVE  StoreInv'
<1>1. PICK r \in Roots :
        /\ Kinds /\ Threads /\ r = work[w].root /\ Flushes(w, r)
        /\ work[w] \in WorkType /\ work[w].pc = "rename"
  BY DEF StoreInv, Kinds, Rename, Flushes
<1>2. UNCHANGED <<phase, left, known, frec, made, alone>>
  BY DEF Rename, bounds
<1>3. /\ work' \in [Writers -> WorkType] /\ work'[w] = Resting
      /\ \A u \in Writers : u # w =>
           /\ work'[u].root = work[u].root /\ work'[u].pc = work[u].pc
           /\ work'[u].store = work[u].store
           /\ work[u].root # r => work'[u] = work[u]
           /\ work'[u] = work[u] \/ (Flushes(u, r) /\ work[u] # Resting)
  <2>1. CASE tmp[r] = NoFile
    BY <1>1, <2>1, Processes DEF Rename, Kinds
  <2>2. CASE tmp[r] # NoFile
    <3>1. work' = [u \in Writers |-> IF u = w THEN Resting ELSE Moved(u, r)]
      BY <1>1, <2>2 DEF Rename
    <3>2. ASSUME NEW u \in Writers
          PROVE  /\ Moved(u, r) \in WorkType
                 /\ Moved(u, r).root = work[u].root /\ Moved(u, r).pc = work[u].pc
                 /\ Moved(u, r).store = work[u].store
                 /\ work[u].root # r => Moved(u, r) = work[u]
                 /\ Moved(u, r) = work[u] \/ (Flushes(u, r) /\ work[u] # Resting)
      <4>1. work[u] \in WorkType
        BY <1>1 DEF Kinds
      <4>2. CASE work[u].root # r \/ work[u].pc \notin {"write", "rename"}
        BY <4>1, <4>2 DEF Moved
      <4>3. CASE ~(work[u].root # r \/ work[u].pc \notin {"write", "rename"})
        <5>. DEFINE at == IF work[u].at = "tmp" THEN "file" ELSE "gone"
        <5>1. Moved(u, r) = [work[u] EXCEPT !.at = at]
          BY <4>1, <4>3 DEF Moved
        <5>2. at \in {"file", "gone"}
          OBVIOUS
        <5>. HIDE DEF at
        <5>. QED
          BY <4>1, <4>3, <5>1, <5>2 DEF WorkType, Flushes, Resting
      <4>. QED
        BY <4>2, <4>3
    <3>. QED
      BY <3>1, <3>2, Processes
  <2>. QED
    BY <2>1, <2>2
<1>4. /\ file' \in [Roots -> FileType] /\ tmp' \in [Roots -> FileType]
      /\ promised' \in [Roots -> Numbers]
      /\ \A x \in Roots : x # r =>
           file'[x] = file[x] /\ tmp'[x] = tmp[x] /\ promised'[x] = promised[x]
      /\ tmp[r] # NoFile => /\ file'[r] = tmp[r]
                             /\ promised'[r] = promised[r] \cup work[w].store
  <2>1. CASE tmp[r] = NoFile
    BY <1>1, <2>1 DEF Rename, Kinds, disk
  <2>2. CASE tmp[r] # NoFile
    <3>1. /\ file' = [file EXCEPT ![r] = tmp[r]]
          /\ tmp' = [tmp EXCEPT ![r] = NoFile]
          /\ promised' = [promised EXCEPT ![r] = @ \cup work[w].store]
      BY <1>1, <2>2 DEF Rename
    <3>2. NoFile \in FileType /\ tmp[r] \in FileType
          /\ promised[r] \cup work[w].store \in Numbers
      BY <1>1 DEF NoFile, Content, FileType, Numbers, Kinds, WorkType
    <3>. QED
      BY <1>1, <2>2, <3>1, <3>2 DEF Kinds
  <2>. QED
    BY <2>1, <2>2
<1>5. Kinds'
  BY <1>1, <1>2, <1>3, <1>4, Processes DEF Kinds
<1>6. Threads'
  BY <1>1, <1>2, <1>3, FlushStepThreads DEF Flushes
<1>7. ASSUME NEW x \in Roots PROVE RootInv(x)'
  <2>1. CASE x # r
    <3>1. \A u \in Writers : Flushes(u, x)' => Flushes(u, x) /\ work'[u] = work[u]
      BY <1>3, <2>1 DEF Flushes, Resting
    <3>2. work'["main"].root # x => work["main"].root # x
      BY <1>3, <1>1, <2>1, Processes
    <3>3. /\ RootInv(x) /\ tmp'[x] = tmp[x] /\ file'[x] = file[x]
          /\ promised'[x] = promised[x]
      BY <1>4, <2>1 DEF StoreInv
    <3>. QED
      BY <1>2, <3>1, <3>2, <3>3, OtherRoot
  <2>2. CASE x = r
    <3>. SUFFICES ASSUME alone[r]
                  PROVE  /\ OneHolder(r)' /\ Remembers(r)'
                         /\ \A u \in Writers : Flushes(u, r)' => OwnFile(u, r)'
      BY <1>2, <2>2 DEF RootInv
    <3>1. OneHolder(r) /\ Remembers(r) /\ OwnFile(w, r)
      BY <1>1 DEF StoreInv, RootInv
    <3>2. \A u \in Writers : ~Flushes(u, r)'
      <4>1. \A u \in Writers : Flushes(u, r) => u = w
        BY <1>1, <3>1, OnlyOne
      <4>. QED
        BY <1>3, <4>1 DEF Flushes, Resting
    <3>3. OneHolder(r)'
      BY <3>2, Processes DEF OneHolder
    <3>4. tmp[r] = Whole(work[w].store) /\ file[r].touches \subseteq work[w].store
      BY <1>1, <3>1 DEF OwnFile
    <3>5. /\ file'[r].kind = "whole" /\ file'[r].touches = work[w].store
          /\ promised'[r] = promised[r] \cup work[w].store
      BY <1>4, <3>4 DEF Whole, NoFile, Content
    <3>6. r \in known => work[w].store = frec[r]
      BY <1>1, <3>1 DEF OneHolder, Threads, Writers, Daemon, Flushes, Resting
    <3>7. (phase = "leaving" /\ r \notin left /\ work'["main"].root # r) =>
            frec[r] \subseteq work[w].store
      <4>1. CASE w = "main"
        BY <1>1, <3>6, <4>1 DEF Threads, Daemon, Flushes, Resting
      <4>2. CASE w # "main"
        BY <1>3, <3>1, <3>4, <4>2, Processes DEF Remembers
      <4>. QED
        BY <4>1, <4>2
    <3>8. Remembers(r)'
      BY <1>2, <3>1, <3>4, <3>5, <3>6, <3>7 DEF Remembers
    <3>. QED
      BY <3>2, <3>3, <3>8
  <2>. QED
    BY <2>1, <2>2
<1>. QED
  BY <1>5, <1>6, <1>7 DEF StoreInv
(* A request to the service of a root, which may open the store, add to it *)
(* and flush it; a client whose search failed may search by itself.        *)
LEMMA ServiceKeeps ==
  ASSUME StoreInv, NEW r \in Roots, Serves(r), NEW store \in Numbers,
         StoreOf(r) \subseteq store, Service(r, store),
         UNCHANGED <<phase, left, file, tmp, promised>>, made' \in Nat,
         \/ UNCHANGED work
         \/ work' = [work EXCEPT !["worker"] = Flush(r, store)]
         \/ \E c \in CommandLines :
              /\ work[c] = Resting
              /\ work' = [work EXCEPT ![c] = [Resting EXCEPT !.pc = "local", !.root = r]]
  PROVE  StoreInv'
<1>1. /\ Kinds /\ Threads /\ phase = "up" /\ work["worker"] = Resting
      /\ work["main"].root # r
  BY DEF StoreInv, Serves
<1>2. /\ work' \in [Writers -> WorkType]
      /\ \A u \in Writers :
           \/ work'[u] = work[u]
           \/ u = "worker" /\ work'[u] = Flush(r, store)
           \/ u \in CommandLines /\ work'[u].pc = "local" /\ work'[u].root = r
  <2>1. CASE work' = [work EXCEPT !["worker"] = Flush(r, store)]
    <3>. DEFINE q == Flush(r, store)
    <3>1. q \in WorkType
      BY Processes
    <3>. HIDE DEF q
    <3>. QED
      BY <1>1, <2>1, <3>1 DEF Kinds, q
  <2>2. ASSUME NEW c \in CommandLines,
               work' = [work EXCEPT ![c] = [Resting EXCEPT !.pc = "local", !.root = r]]
        PROVE  /\ work' \in [Writers -> WorkType]
               /\ \A u \in Writers :
                    \/ work'[u] = work[u]
                    \/ u \in CommandLines /\ work'[u].pc = "local" /\ work'[u].root = r
    <3>. DEFINE q == [Resting EXCEPT !.pc = "local", !.root = r]
    <3>1. q \in WorkType /\ q.pc = "local" /\ q.root = r
      BY DEF Resting, WorkType, Numbers
    <3>. HIDE DEF q
    <3>. QED
      BY <1>1, <2>2, <3>1 DEF Kinds, q
  <2>. QED
    BY <1>1, <2>1, <2>2 DEF Kinds<1>3. /\ known' = known \cup {r} /\ frec' = [frec EXCEPT ![r] = store]
      /\ alone' = [alone EXCEPT ![r] = @ /\ (r \in known \/ ~HeldByClient(r))]
  BY DEF Service
<1>4. /\ frec' \in [Roots -> Numbers] /\ frec'[r] = store
      /\ \A x \in Roots : x # r => frec'[x] = frec[x] /\ alone'[x] = alone[x]
      /\ alone' \in [Roots -> BOOLEAN]
      /\ alone'[r] => alone[r] /\ (r \in known \/ ~HeldByClient(r))
  <2>. DEFINE fresh == alone[r] /\ (r \in known \/ ~HeldByClient(r))
  <2>1. alone' = [alone EXCEPT ![r] = fresh] /\ fresh \in BOOLEAN
    BY <1>1, <1>3 DEF Kinds
  <2>2. fresh => alone[r] /\ (r \in known \/ ~HeldByClient(r))
    OBVIOUS
  <2>. HIDE DEF fresh
  <2>3. alone' \in [Roots -> BOOLEAN] /\ alone'[r] = fresh
        /\ \A x \in Roots : x # r => alone'[x] = alone[x]
    BY <1>1, <2>1 DEF Kinds
  <2>4. /\ frec' \in [Roots -> Numbers] /\ frec'[r] = store
        /\ \A x \in Roots : x # r => frec'[x] = frec[x]
    BY <1>1, <1>3 DEF Kinds
  <2>. QED
    BY <2>2, <2>3, <2>4
<1>5. Kinds'
  BY <1>1, <1>2, <1>3, <1>4, Processes DEF Kinds, Flush
<1>6. work'["main"] = work["main"]
  BY <1>2, Processes
<1>7. Threads'
  <2>1. /\ phase' = "down" => known' = {}
        /\ left' \subseteq known'
        /\ \A x \in Roots : x \notin known' => frec'[x] = {}
        /\ phase' # "up" => work'["worker"] = Resting
    BY <1>1, <1>3, <1>4 DEF Threads
  <2>2. work'["worker"] = Resting \/ work'["worker"] = Flush(r, store)
    BY <1>1, <1>2, Processes
  <2>3. work["main"] = Resting \/ \E x \in known \ {r} :
          Flushes("main", x) /\ work["main"].store = frec[x]
    BY <1>1 DEF Threads, Daemon, Flushes
  <2>4. ASSUME NEW w \in Daemon
        PROVE  work'[w] = Resting \/ \E x \in known' : Flushes(w, x)' /\ work'[w].store = frec'[x]
    <3>1. CASE w = "worker"
      BY <1>3, <1>4, <2>2, <3>1 DEF Flush, Flushes
    <3>2. CASE w = "main"
      <4>1. CASE work["main"] = Resting
        BY <1>6, <3>2, <4>1
      <4>2. ASSUME NEW x \in known \ {r},
                   Flushes("main", x) /\ work["main"].store = frec[x]
            PROVE  x \in known' /\ Flushes(w, x)' /\ work'[w].store = frec'[x]
        BY <1>1, <1>3, <1>4, <1>6, <3>2, <4>2 DEF Flushes, Kinds
      <4>. QED
        BY <2>3, <4>1, <4>2
    <3>. QED
      BY <3>1, <3>2 DEF Daemon
  <2>5. \A x \in Roots : ~(Flushes("worker", x)' /\ Flushes("main", x)')
    <3>1. \A x \in Roots : Flushes("worker", x)' => x = r
      BY <2>2 DEF Flush, Flushes, Resting
    <3>. QED
      BY <1>1, <1>6, <3>1 DEF Flushes
  <2>. QED
    BY <2>1, <2>4, <2>5 DEF Threads
<1>8. \A u \in Writers, x \in Roots :
        Flushes(u, x)' => \/ Flushes(u, x) /\ work'[u] = work[u]
                          \/ u = "worker" /\ x = r /\ work'[u] = Flush(r, store)
  BY <1>2 DEF Flush, Flushes
<1>9. ASSUME NEW x \in Roots PROVE RootInv(x)'
  <2>1. CASE x # r
    <3>1. RootInv(x) /\ (x \in known' <=> x \in known)
      BY <1>3, <2>1 DEF StoreInv
    <3>2. frec'[x] = frec[x] /\ (alone'[x] => alone[x])
      BY <1>4, <2>1
    <3>3. \A u \in Writers : Flushes(u, x)' => Flushes(u, x) /\ work'[u] = work[u]
      BY <1>8, <2>1
    <3>. QED
      BY <1>6, <3>1, <3>2, <3>3, OtherRoot
  <2>2. CASE x = r
    <3>. SUFFICES ASSUME alone'[r]
                  PROVE  /\ OneHolder(r)' /\ Remembers(r)'
                         /\ \A u \in Writers : Flushes(u, r)' => OwnFile(u, r)'
      BY <2>2 DEF RootInv
    <3>1. /\ OneHolder(r) /\ Remembers(r)
          /\ \A u \in Writers : Flushes(u, r) => OwnFile(u, r)
          /\ r \in known \/ ~HeldByClient(r)
      BY <1>4 DEF StoreInv, RootInv
    <3>2. file[r].touches \subseteq store
      BY <3>1 DEF Remembers, StoreOf
    <3>3. \A c \in CommandLines : ~Flushes(c, r)
      BY <3>1 DEF OneHolder, HeldByClient, Flushes
    <3>4. \A u \in Writers : Flushes(u, r)' => u = "worker" /\ work'[u] = Flush(r, store)
      <4>1. ~Flushes("main", r)
        BY <1>1 DEF Flushes
      <4>2. ~Flushes("worker", r)
        BY <1>1 DEF Flushes, Resting
      <4>. QED
        BY <1>8, <3>3, <4>1, <4>2 DEF Writers, Daemon
    <3>5. OneHolder(r)'
      BY <3>4, Processes DEF OneHolder
    <3>6. Remembers(r)'
      BY <1>1, <1>4, <3>1, <3>2 DEF Remembers
    <3>7. \A u \in Writers : Flushes(u, r)' => OwnFile(u, r)'
      BY <3>2, <3>4 DEF OwnFile, Flush
    <3>. QED
      BY <3>5, <3>6, <3>7
  <2>. QED
    BY <2>1, <2>2
<1>. QED
  BY <1>5, <1>7, <1>9 DEF StoreInv

(* The main loop begins a flush.                                           *)
LEMMA FlushRootKeeps ==
  ASSUME StoreInv, NEW r \in Roots, FlushRoot(r)
  PROVE  StoreInv'
<1>. DEFINE q == Flush(r, frec[r])
<1>1. /\ Kinds /\ Threads /\ work["main"] = Resting /\ work["worker"].root # r
      /\ r \in known
  BY DEF StoreInv, FlushRoot, Due, Threads
<1>2. /\ left' = left \ {r} /\ work' = [work EXCEPT !["main"] = q]
      /\ UNCHANGED <<phase, known, frec, file, tmp, made, alone, promised>>
  BY DEF FlushRoot, disk, bounds
<1>3. q \in WorkType /\ q.pc = "open" /\ q.root = r /\ q.store = frec[r] /\ q.at = "tmp"
  BY <1>1, Processes DEF Flush, Kinds
<1>. HIDE DEF q
<1>4. /\ work' \in [Writers -> WorkType] /\ work'["main"] = q
      /\ \A u \in Writers : u # "main" => work'[u] = work[u]
  BY <1>1, <1>2, <1>3, Processes DEF Kinds
<1>5. Kinds'
  BY <1>1, <1>2, <1>3, <1>4 DEF Kinds
<1>6. work'["worker"] = work["worker"]
  BY <1>4, Processes
<1>7. Threads'
  <2>1. ASSUME NEW w \in Daemon
        PROVE  work'[w] = Resting \/ \E x \in known' : Flushes(w, x)' /\ work'[w].store = frec'[x]
    BY <1>1, <1>2, <1>3, <1>4, <1>6 DEF Threads, Daemon, Flushes
  <2>2. \A x \in Roots : ~(Flushes("worker", x)' /\ Flushes("main", x)')
    BY <1>1, <1>3, <1>4, <1>6 DEF Flushes
  <2>. QED
    BY <1>1, <1>2, <1>6, <2>1, <2>2 DEF Threads
<1>8. ASSUME NEW x \in Roots PROVE RootInv(x)'
  <2>1. CASE x # r
    <3>1. \A u \in Writers : Flushes(u, x)' => Flushes(u, x) /\ work'[u] = work[u]
      BY <1>3, <1>4, <2>1 DEF Flushes
    <3>2. x \notin left' => x \notin left
      BY <1>2, <2>1
    <3>3. work["main"].root # x
      BY <1>1, Processes
    <3>4. RootInv(x)
      BY DEF StoreInv
    <3>. QED
      BY <1>2, <3>1, <3>2, <3>3, <3>4, OtherRoot
  <2>2. CASE x = r
    <3>. SUFFICES ASSUME alone[r]
                  PROVE  /\ OneHolder(r)' /\ Remembers(r)'
                         /\ \A u \in Writers : Flushes(u, r)' => OwnFile(u, r)'
      BY <1>2, <2>2 DEF RootInv
    <3>1. OneHolder(r) /\ Remembers(r)
      BY DEF StoreInv, RootInv
    <3>2. \A u \in Writers : Flushes(u, r)' => u = "main"
      <4>1. \A c \in CommandLines : ~Flushes(c, r)
        BY <1>1, <3>1 DEF OneHolder
      <4>. QED
        BY <1>1, <1>4, <4>1 DEF Flushes, Writers, Daemon
    <3>3. OneHolder(r)'
      BY <3>2, Processes DEF OneHolder
    <3>4. Remembers(r)'
      BY <1>2, <1>3, <1>4, <3>1 DEF Remembers
    <3>5. OwnFile("main", r)'
      BY <1>1, <1>2, <1>3, <1>4, <3>1 DEF OwnFile, Remembers
    <3>. QED
      BY <3>2, <3>3, <3>4, <3>5
  <2>. QED
    BY <2>1, <2>2
<1>. QED
  BY <1>5, <1>7, <1>8 DEF StoreInv
(* A process that is not within a flush afterwards, or is as before, and   *)
(* stores that stay as they are.                                           *)
LEMMA RestKeeps ==
  ASSUME StoreInv, made' \in Nat,
         UNCHANGED <<left, known, file, tmp, frec, promised, alone>>,
         phase' = phase \/ (phase = "down" /\ phase' = "up"),
         \/ UNCHANGED work
         \/ \E c \in CommandLines, q \in WorkType :
              /\ q.pc \in {"idle", "local"} /\ (q.pc # "idle" => q.root \in Roots)
              /\ work' = [work EXCEPT ![c] = q]
  PROVE  StoreInv'
<1>1. Kinds /\ Threads
  BY DEF StoreInv
<1>2. /\ work' \in [Writers -> WorkType]
      /\ \A u \in Writers :
           \/ work'[u] = work[u]
           \/ /\ u \in CommandLines /\ work'[u].pc \in {"idle", "local"}
              /\ work'[u].pc # "idle" => work'[u].root \in Roots
  BY <1>1 DEF Kinds
<1>3. Kinds'
  BY <1>1, <1>2 DEF Kinds
<1>4. work'["worker"] = work["worker"] /\ work'["main"] = work["main"]
  BY <1>2, Processes
<1>5. Threads'
  BY <1>1, <1>4 DEF Threads, Daemon, Flushes
<1>6. ASSUME NEW x \in Roots PROVE RootInv(x)'
  <2>1. \A u \in Writers : Flushes(u, x)' => Flushes(u, x) /\ work'[u] = work[u]
    BY <1>2 DEF Flushes
  <2>2. RootInv(x)
    BY DEF StoreInv
  <2>. QED
    BY <1>4, <2>1, <2>2, OtherRoot
<1>. QED
  BY <1>3, <1>5, <1>6 DEF StoreInv

(* A command line reads the store, adds to it and begins to flush it.      *)
LEMMA ReadsKeep ==
  ASSUME StoreInv, NEW c \in CommandLines, NEW r \in Roots, Reads(c, r),
         work[c].pc \in {"idle", "local"}
  PROVE  StoreInv'
<1>. DEFINE store == Touch(file[r].touches)
            q == Flush(r, store)
            fresh == alone[r] /\ ~Held(r)
<1>1. Kinds /\ Threads
  BY DEF StoreInv
<1>2. /\ work' = [work EXCEPT ![c] = q]
      /\ alone' = [alone EXCEPT ![r] = fresh]
      /\ UNCHANGED <<phase, left, known, frec, file, tmp, promised>>
      /\ made' = made + 1
  BY <1>1 DEF Reads, Touched, disk, Kinds
<1>3. store \in Numbers /\ file[r].touches \subseteq store
  BY <1>1, <1>2 DEF Touch, Kinds, FileType, Numbers
<1>4. q \in WorkType /\ q.pc = "open" /\ q.root = r /\ q.store = store /\ q.at = "tmp"
  <2>. HIDE DEF store
  <2>. QED
    BY <1>3, Processes DEF Flush
<1>5. fresh \in BOOLEAN /\ (fresh => alone[r] /\ r \notin known /\ ~HeldByClient(r))
  BY <1>1 DEF Held, Kinds
<1>. HIDE DEF q, fresh, store
<1>6. /\ work' \in [Writers -> WorkType] /\ work'[c] = q
      /\ \A u \in Writers : u # c => work'[u] = work[u]
      /\ alone' \in [Roots -> BOOLEAN] /\ alone'[r] = fresh
      /\ \A x \in Roots : x # r => alone'[x] = alone[x]
  BY <1>1, <1>2, <1>4, <1>5, Processes DEF Kinds
<1>7. Kinds'
  BY <1>1, <1>2, <1>4, <1>6 DEF Kinds
<1>8. work'["worker"] = work["worker"] /\ work'["main"] = work["main"]
  BY <1>6, Processes
<1>9. Threads'
  BY <1>1, <1>2, <1>8 DEF Threads, Daemon, Flushes
<1>10. ASSUME NEW x \in Roots PROVE RootInv(x)'
  <2>1. CASE x # r
    <3>1. \A u \in Writers : Flushes(u, x)' => Flushes(u, x) /\ work'[u] = work[u]
      BY <1>4, <1>6, <2>1 DEF Flushes
    <3>2. RootInv(x) /\ alone'[x] = alone[x]
      BY <1>6, <2>1 DEF StoreInv
    <3>. QED
      BY <1>2, <1>8, <3>1, <3>2, OtherRoot
  <2>2. CASE x = r
    <3>. SUFFICES ASSUME fresh
                  PROVE  /\ OneHolder(r)' /\ Remembers(r)'
                         /\ \A u \in Writers : Flushes(u, r)' => OwnFile(u, r)'
      BY <1>6, <2>2 DEF RootInv
    <3>1. Remembers(r) /\ r \notin known /\ ~HeldByClient(r)
      BY <1>5 DEF StoreInv, RootInv
    <3>2. \A u \in Writers : ~Flushes(u, r)
      <4>1. \A d \in CommandLines : ~Flushes(d, r)
        BY <3>1 DEF HeldByClient, Flushes
      <4>2. \A w \in Daemon : ~Flushes(w, r)
        BY <1>1, <3>1 DEF Threads, Flushes, Resting
      <4>. QED
        BY <4>1, <4>2 DEF Writers
    <3>3. \A u \in Writers : Flushes(u, r)' => u = c
      BY <1>6, <3>2 DEF Flushes
    <3>4. OneHolder(r)'
      BY <1>2, <3>1, <3>3, Processes DEF OneHolder
    <3>5. Remembers(r)'
      BY <1>2, <1>8, <3>1 DEF Remembers
    <3>6. OwnFile(c, r)'
      BY <1>2, <1>3, <1>4, <1>6 DEF OwnFile
    <3>. QED
      BY <3>3, <3>4, <3>5, <3>6
  <2>. QED
    BY <2>1, <2>2
<1>. QED
  BY <1>7, <1>9, <1>10 DEF StoreInv

(* The way out of the main loop, and a kill on the way.                    *)
LEMMA WaysOutKeep ==
  ASSUME StoreInv, Leave \/ Down \/ KillDaemon
  PROVE  StoreInv'
<1>1. Kinds /\ Threads
  BY DEF StoreInv
<1>2. CASE Leave
  <2>1. /\ phase' = "leaving" /\ left' = known /\ work["worker"] = Resting
        /\ UNCHANGED <<known, frec, file, tmp, work, made, alone, promised>>
    BY <1>2 DEF Leave, ToFlush, disk, bounds
  <2>2. Kinds' /\ Threads'
    BY <1>1, <2>1 DEF Kinds, Threads, Flushes
  <2>3. ASSUME NEW x \in Roots, alone[x]
        PROVE  /\ OneHolder(x)' /\ Remembers(x)'
               /\ \A u \in Writers : Flushes(u, x)' => OwnFile(u, x)'
    <3>1. /\ OneHolder(x) /\ Remembers(x)
          /\ \A u \in Writers : Flushes(u, x) => OwnFile(u, x)
      BY <2>3 DEF StoreInv, RootInv
    <3>2. OneHolder(x)' /\ \A u \in Writers : Flushes(u, x)' => OwnFile(u, x)'
      BY <2>1, <3>1 DEF OneHolder, OwnFile, Flushes
    <3>3. Remembers(x)'
      BY <1>1, <2>1, <3>1 DEF Remembers, Threads
    <3>. QED
      BY <3>2, <3>3
  <2>. QED
    BY <2>1, <2>2, <2>3 DEF StoreInv, RootInv
<1>3. CASE Down \/ KillDaemon
  <2>1. /\ phase' = "down" /\ known' = {} /\ left' = {}
        /\ frec' = [x \in Roots |-> {}]
        /\ UNCHANGED <<file, tmp, made, alone>>
    BY <1>3 DEF Down, KillDaemon, Forgets, Faulty, disk, bounds
  <2>2. /\ work' \in [Writers -> WorkType]
        /\ work'["worker"] = Resting /\ work'["main"] = Resting
        /\ \A u \in Writers : work'[u] = work[u] \/ work'[u] = Resting
    <3>1. CASE Down
      BY <1>1, <3>1 DEF Down, Kinds, Threads
    <3>2. CASE KillDaemon
      <4>1. work' = [w \in Writers |-> IF w \in Daemon THEN Resting ELSE work[w]]
        BY <3>2 DEF KillDaemon
      <4>. QED
        BY <1>1, <4>1, Processes DEF Kinds, Daemon
    <3>. QED
      BY <1>3, <3>1, <3>2
  <2>3. /\ promised' \in [Roots -> Numbers]
        /\ \A x \in Roots :
             \/ promised'[x] = promised[x]
             \/ /\ promised'[x] = promised[x] \cup frec[x]
                /\ phase = "leaving" /\ x \notin left /\ work["main"].root # x
    <3>1. CASE Down
      <4>1. /\ promised' = [x \in Roots |-> promised[x] \cup frec[x]]
            /\ phase = "leaving" /\ left = {} /\ work["main"] = Resting
        BY <3>1 DEF Down
      <4>2. \A x \in Roots : promised[x] \cup frec[x] \in Numbers
        BY <1>1 DEF Kinds, Numbers
      <4>. QED
        BY <4>1, <4>2, Processes
    <3>2. CASE KillDaemon
      BY <1>1, <3>2 DEF KillDaemon, Kinds
    <3>. QED
      BY <1>3, <3>1, <3>2
  <2>4. Kinds'
    BY <1>1, <2>1, <2>2, <2>3, Processes DEF Kinds, Numbers
  <2>5. Threads'
    BY <2>1, <2>2 DEF Threads, Daemon, Flushes, Resting
  <2>6. ASSUME NEW x \in Roots, alone[x]
        PROVE  /\ OneHolder(x)' /\ Remembers(x)'
               /\ \A u \in Writers : Flushes(u, x)' => OwnFile(u, x)'
    <3>1. /\ OneHolder(x) /\ Remembers(x)
          /\ \A u \in Writers : Flushes(u, x) => OwnFile(u, x)
      BY <2>6 DEF StoreInv, RootInv
    <3>2. \A u \in Writers : Flushes(u, x)' => Flushes(u, x) /\ work'[u] = work[u]
      BY <2>2 DEF Flushes, Resting
    <3>3. OneHolder(x)' /\ \A u \in Writers : Flushes(u, x)' => OwnFile(u, x)'
      BY <2>1, <3>1, <3>2, Processes DEF OneHolder, OwnFile
    <3>4. Remembers(x)'
      BY <2>1, <2>3, <3>1 DEF Remembers
    <3>. QED
      BY <3>3, <3>4
  <2>. QED
    BY <2>1, <2>4, <2>5, <2>6 DEF StoreInv, RootInv
<1>. QED
  BY <1>2, <1>3

(* The inductive invariant of the stores and their files, for every kill   *)
(* and every interleaving of daemon and command lines.                     *)
LEMMA StoreInvHolds == ServeSpec => []StoreInv
<1>1. ServeInit => StoreInv
  <2>. SUFFICES ASSUME ServeInit PROVE StoreInv
    OBVIOUS
  <2>1. /\ phase = "down" /\ left = {} /\ known = {} /\ made = 0
        /\ frec = [r \in Roots |-> {}] /\ promised = [r \in Roots |-> {}]
        /\ file = [r \in Roots |-> NoFile] /\ tmp = [r \in Roots |-> NoFile]
        /\ work = [w \in Writers |-> Resting] /\ alone = [r \in Roots |-> TRUE]
    BY DEF ServeInit
  <2>2. NoFile \in FileType /\ NoFile.kind = "missing" /\ {} \in Numbers
    BY DEF NoFile, Content, FileType, Numbers
  <2>3. \A w \in Writers : work[w] = Resting
    BY <2>1
  <2>4. Kinds
    BY <2>1, <2>2, <2>3, Processes DEF Kinds
  <2>5. \A w \in Writers, r \in Roots : ~Flushes(w, r)
    BY <2>3 DEF Flushes, Resting
  <2>6. Threads
    BY <2>1, <2>3, <2>5, Processes DEF Threads, Daemon
  <2>7. ASSUME NEW r \in Roots PROVE RootInv(r)
    BY <2>1, <2>2, <2>5, Processes DEF RootInv, OneHolder, Remembers
  <2>. QED
    BY <2>4, <2>6, <2>7 DEF StoreInv
<1>2. StoreInv /\ [ServeNext]_serveVars => StoreInv'
  <2>. SUFFICES ASSUME StoreInv, [ServeNext]_serveVars PROVE StoreInv'
    OBVIOUS
  <2>0. Kinds /\ Threads /\ made \in Nat
    BY DEF StoreInv, Kinds
  <2>1. CASE UNCHANGED serveVars
    <3>1. UNCHANGED <<made, left, known, file, tmp, frec, promised, alone, phase, work>>
      BY <2>1 DEF serveVars, bounds, disk
    <3>. QED
      BY <2>0, <3>1, RestKeeps
  <2>2. ASSUME NEW w \in Writers, FlushStep(w) PROVE StoreInv'
    BY <2>2, OpenTmpKeeps, WriteTmpKeeps, RenameKeeps DEF FlushStep
  <2>3. ASSUME NEW r \in Roots, Serves(r)
        PROVE  /\ StoreOf(r) \in Numbers
               /\ made' \in Nat => Touch(StoreOf(r)) \in Numbers
               /\ StoreOf(r) \subseteq Touch(StoreOf(r))
    BY <2>0 DEF StoreOf, Kinds, FileType, Numbers, Touch
  <2>4. ASSUME NEW r \in Roots, Search(r) \/ MakeReady(r) \/ Select(r) \/ Resume(r)
        PROVE  StoreInv'
    <3>1. /\ Serves(r) /\ made' \in Nat /\ UNCHANGED <<phase, left, file, tmp, promised>>
      <4>1. CASE Search(r)
        <5>1. Serves(r) /\ Touched /\ UNCHANGED <<phase, left, disk, promised>>
          BY <4>1, Zenon DEF Search
        <5>. QED
          BY <2>0, <5>1 DEF Touched, disk
      <4>2. CASE MakeReady(r)
        BY <2>0, <4>2 DEF MakeReady, Called, disk
      <4>3. CASE Select(r) \/ Resume(r)
        BY <2>0, <4>3 DEF Select, Resume, Records, Touched, disk
      <4>. QED
        BY <2>4, <4>1, <4>2, <4>3
    <3>2. \E store \in {StoreOf(r), Touch(StoreOf(r))} :
            /\ Service(r, store)
            /\ UNCHANGED work \/ work' = [work EXCEPT !["worker"] = Flush(r, store)]
      BY <2>4 DEF Search, MakeReady, Select, Resume, Records, Touch, Restore
    <3>. QED
      BY <2>3, <3>1, <3>2, ServiceKeeps
  <2>5. ASSUME NEW c \in CommandLines, NEW r \in Roots, SearchFails(c, r) PROVE StoreInv'
    <3>1. /\ Serves(r) /\ made' \in Nat /\ UNCHANGED <<phase, left, file, tmp, promised>>
          /\ Service(r, StoreOf(r)) /\ work[c] = Resting
          /\ work' = [work EXCEPT ![c] = [Resting EXCEPT !.pc = "local", !.root = r]]
      BY <2>0, <2>5 DEF SearchFails, Called, disk
    <3>. QED
      BY <2>3, <3>1, ServiceKeeps
  <2>6. ASSUME NEW c \in CommandLines, NEW r \in Roots, SearchAlone(c, r) PROVE StoreInv'
    <3>. DEFINE q == [Resting EXCEPT !.pc = "local", !.root = r]
    <3>1. q \in WorkType /\ q.pc = "local" /\ q.root = r
      BY DEF Resting, WorkType, Numbers
    <3>2. /\ UNCHANGED <<phase, left, known, file, tmp, frec, promised, alone, made>>
          /\ work' = [work EXCEPT ![c] = q]
      BY <2>6 DEF SearchAlone, Called, disk
    <3>. HIDE DEF q
    <3>. QED
      BY <2>0, <3>1, <3>2, RestKeeps
  <2>7. ASSUME NEW c \in CommandLines, NoHits(c) \/ KillClient(c) PROVE StoreInv'
    <3>1. /\ UNCHANGED <<phase, left, known, file, tmp, frec, promised, alone, made>>
          /\ work' = [work EXCEPT ![c] = Resting]
      BY <2>7 DEF NoHits, KillClient, Faulty, disk, bounds
    <3>. QED
      BY <2>0, <3>1, Processes, RestKeeps
  <2>8. ASSUME NEW c \in CommandLines, RecordHits(c) PROVE StoreInv'
    <3>1. work[c].pc = "local" /\ work[c].root \in Roots /\ Reads(c, work[c].root)
      BY <2>0, <2>8, Processes DEF RecordHits, Kinds
    <3>. QED
      BY <3>1, ReadsKeep
  <2>9. ASSUME NEW c \in CommandLines, NEW r \in Roots, SelectAlone(c, r) PROVE StoreInv'
    BY <2>9, ReadsKeep, Processes DEF SelectAlone
  <2>10. CASE Start \/ \E r \in Roots, s \in {"absent", "good", "broken"} : ChangeIndex(r, s)
    <3>1. /\ UNCHANGED <<left, known, file, tmp, frec, promised, alone, made, work>>
          /\ phase' = phase \/ (phase = "down" /\ phase' = "up")
      BY <2>10 DEF Start, ChangeIndex, Called, Faulty, disk
    <3>. QED
      BY <2>0, <3>1, RestKeeps
  <2>. QED
    BY <2>1, <2>2, <2>4, <2>5, <2>6, <2>7, <2>8, <2>9, <2>10, FlushRootKeeps, WaysOutKeep
    DEF ServeNext, ServiceStep, CommandStep, Fault
<1>. QED
  BY <1>1, <1>2, PTL DEF ServeSpec

(* As long as no two processes held the store of a root at a time,         *)
(* frecency.json is whole and has every touch whose flush ended well and   *)
(* all of a daemon that left in good order, whatever was killed in between *)
(* (search-frecency/src/lib.rs, flush; RepoService::new_with_index_dir).   *)
THEOREM StoresKeepAll == ServeSpec => []StoreKeepsAll
<1>1. StoreInv => StoreKeepsAll
  BY DEF StoreInv, RootInv, Remembers, StoreKeepsAll
<1>. QED
  BY <1>1, StoreInvHolds, PTL

-----------------------------------------------------------------------------
(* The pool of engines.                                                    *)

(* engine_last_used orders the services that have it, those with an engine *)
(* among them; the daemon knows as many services as it was asked for.      *)
PoolInv ==
  /\ known \subseteq Roots /\ IsFiniteSet(known)
  /\ loaded \subseteq Timed(uses) /\ Timed(uses) \subseteq known
  /\ InOrder(uses)
  /\ answered \in [Roots -> Nat]

(* What was just used comes last, the others keep their order.             *)
LEMMA MarkUsedIsLatest ==
  ASSUME InOrder(uses), NEW r \in Roots
  PROVE  /\ InOrder(MarkUsed(r))
         /\ Timed(MarkUsed(r)) = Timed(uses) \cup {r}
         /\ \A x \in Timed(MarkUsed(r)) :
              x # r => UsedBefore(x, r, MarkUsed(r)) /\ ~UsedBefore(r, x, MarkUsed(r))
<1>. DEFINE marked == MarkUsed(r)
<1>1. \A x, y : <<x, y>> \in marked <=>
        \/ y = r /\ x \in Timed(uses) \cup {r}
        \/ x # r /\ y # r /\ <<x, y>> \in uses
  BY DEF MarkUsed, Without
<1>2. \A p \in marked : p \in (Timed(uses) \cup {r}) \X (Timed(uses) \cup {r})
  BY DEF MarkUsed, Without, InOrder
<1>. HIDE DEF marked
<1>3. Timed(marked) = Timed(uses) \cup {r}
  BY <1>1 DEF Timed
<1>4. InOrder(marked)
  <2>1. \A x, y \in Timed(marked) :
          /\ <<x, y>> \in marked \/ <<y, x>> \in marked
          /\ ~(UsedBefore(x, y, marked) /\ UsedBefore(y, x, marked))
    BY <1>1, <1>3 DEF InOrder, UsedBefore
  <2>2. \A x, y, z \in Timed(marked) :
          <<x, y>> \in marked /\ <<y, z>> \in marked => <<x, z>> \in marked
    BY <1>1, <1>3 DEF InOrder
  <2>. QED
    BY <1>2, <1>3, <2>1, <2>2 DEF InOrder
<1>5. \A x \in Timed(marked) : x # r => UsedBefore(x, r, marked) /\ ~UsedBefore(r, x, marked)
  BY <1>1, <1>3 DEF UsedBefore
<1>. QED
  BY <1>3, <1>4, <1>5 DEF marked

(* What was evicted has no time of last use, the others keep their order.  *)
LEMMA WithoutIsInOrder ==
  ASSUME NEW order, InOrder(order), NEW roots
  PROVE  /\ InOrder(Without(order, roots))
         /\ Timed(Without(order, roots)) = Timed(order) \ roots
<1>. DEFINE rest == Without(order, roots)
<1>1. \A x, y : <<x, y>> \in rest <=> <<x, y>> \in order /\ x \notin roots /\ y \notin roots
  BY DEF Without
<1>2. Timed(rest) = Timed(order) \ roots
  BY <1>1 DEF Timed
<1>3. \A p \in rest : p \in Timed(rest) \X Timed(rest)
  <2>1. \A p \in rest : p \in Timed(order) \X Timed(order) /\ p[1] \notin roots /\ p[2] \notin roots
    BY DEF Without, InOrder
  <2>. HIDE DEF rest
  <2>. QED
    BY <1>2, <2>1
<1>. HIDE DEF rest
<1>4. InOrder(rest)
  BY <1>1, <1>2, <1>3 DEF InOrder, UsedBefore
<1>. QED
  BY <1>2, <1>4 DEF rest

(* Of finitely many engines, one was used before all others.               *)
LEMMA OneIsOldest ==
  ASSUME NEW order, InOrder(order), NEW engines \in SUBSET Timed(order),
         IsFiniteSet(engines), engines # {}
  PROVE  \E m \in engines : \A x \in engines : x # m => UsedBefore(m, x, order)
<1>. DEFINE less == StrictSubsetOrdering(engines)
            finite == FiniteSubsetsOf(engines)
            older == {Until(x, engines, order) : x \in engines}
<1>1. older \subseteq finite /\ older # {}
  <2>1. \A S : S \subseteq engines => IsFiniteSet(S)
    BY FS_Subset
  <2>. QED
    BY <2>1 DEF FiniteSubsetsOf, Until
<1>2. IsWellFoundedOn(less, finite)
  BY FS_StrictSubsetOrderingWellFounded
<1>. HIDE DEF less, finite, older
<1>3. \E S \in older : \A T \in older : ~(<<T, S>> \in less)
  BY <1>1, <1>2, WFMin
<1>4. PICK m \in engines :
        \A x \in engines : <<Until(x, engines, order), Until(m, engines, order)>> \notin less
  BY <1>3 DEF older
<1>5. ASSUME NEW x \in engines, UsedBefore(x, m, order) PROVE FALSE
  <2>1. Until(x, engines, order) \subseteq Until(m, engines, order)
    BY <1>5 DEF Until, InOrder, UsedBefore
  <2>2. x \in Until(m, engines, order) /\ x \notin Until(x, engines, order)
    BY <1>5 DEF Until, UsedBefore
  <2>3. Until(x, engines, order) \subseteq engines /\ Until(m, engines, order) \subseteq engines
    BY DEF Until
  <2>4. <<Until(x, engines, order), Until(m, engines, order)>> \in less
    BY <2>1, <2>2, <2>3 DEF less, StrictSubsetOrdering
  <2>. QED
    BY <1>4, <2>4
<1>. QED
  BY <1>5 DEF InOrder, UsedBefore

(* prune_engine_cache keeps at most the allowed number of engines, and the *)
(* latest of those that are not idle.                                      *)
LEMMA PrunedKeepsLatest ==
  ASSUME NEW order, InOrder(order), NEW engines \in SUBSET Timed(order),
         IsFiniteSet(engines), NEW idle,
         \A x \in idle, y \in engines : UsedBefore(y, x, order) => y \in idle
  PROVE  /\ Pruned(engines, order, idle) \subseteq engines
         /\ Cardinality(Pruned(engines, order, idle)) <= MaxEngines
         /\ \A x \in engines \ Pruned(engines, order, idle),
               y \in Pruned(engines, order, idle) : UsedBefore(x, y, order)
<1>. DEFINE busy == engines \ idle
            kept == Pruned(engines, order, idle)
<1>1. kept = {x \in busy : Cardinality(Since(x, busy, order)) < MaxEngines}
  BY DEF Pruned
<1>2. busy \subseteq engines /\ kept \subseteq busy /\ MaxEngines \in Nat
  BY <1>1, ServingAssumption
<1>. HIDE DEF kept
<1>3. \A S : S \subseteq engines => IsFiniteSet(S) /\ Cardinality(S) \in Nat
  BY FS_Subset, FS_CardinalityType
<1>4. \A x : Since(x, busy, order) \subseteq engines
  BY <1>2 DEF Since
<1>5. Cardinality(kept) <= MaxEngines
  <2>1. CASE kept = {}
    BY <1>2, <2>1, FS_EmptySet
  <2>2. CASE kept # {}
    <3>. HIDE DEF busy
    <3>1. PICK m \in kept : \A x \in kept : x # m => UsedBefore(m, x, order)
      <4>1. kept \in SUBSET Timed(order) /\ IsFiniteSet(kept)
        BY <1>2, <1>3
      <4>. QED
        BY <2>2, <4>1, OneIsOldest
    <3>. DEFINE later == Since(m, busy, order)
    <3>2. kept \subseteq later \cup {m}
      BY <1>2, <3>1 DEF Since
    <3>3. later \subseteq engines /\ IsFiniteSet(later) /\ Cardinality(later) \in Nat
      BY <1>3, <1>4
    <3>4. Cardinality(later) < MaxEngines
      BY <1>1, <3>1
    <3>. HIDE DEF later
    <3>5. /\ IsFiniteSet(later \cup {m})
          /\ Cardinality(later \cup {m}) <= Cardinality(later) + 1
      <4>1. /\ IsFiniteSet(later \cup {m})
            /\ Cardinality(later \cup {m}) =
                 IF m \in later THEN Cardinality(later) ELSE Cardinality(later) + 1
        BY <3>3, FS_AddElement, Zenon
      <4>. QED
        BY <3>3, <4>1
    <3>6. /\ Cardinality(kept) <= Cardinality(later \cup {m})
          /\ Cardinality(later \cup {m}) \in Nat /\ Cardinality(kept) \in Nat
      BY <1>2, <1>3, <3>2, <3>5, FS_Subset, FS_CardinalityType
    <3>. QED
      BY <1>2, <3>3, <3>4, <3>5, <3>6
  <2>. QED
    BY <2>1, <2>2
<1>6. ASSUME NEW x \in engines \ kept, NEW y \in kept PROVE UsedBefore(x, y, order)
  <2>1. x \in engines /\ y \in engines /\ x # y /\ y \in busy
    BY <1>2, <1>6
  <2>2. UsedBefore(x, y, order) \/ UsedBefore(y, x, order)
    BY <2>1 DEF InOrder, UsedBefore
  <2>3. ASSUME UsedBefore(y, x, order) PROVE FALSE
    <3>1. x \in busy
      BY <2>1, <2>3
    <3>2. Since(x, busy, order) \subseteq Since(y, busy, order)
      BY <2>1, <2>3 DEF Since, InOrder, UsedBefore
    <3>3. Cardinality(Since(x, busy, order)) <= Cardinality(Since(y, busy, order))
      BY <1>3, <1>4, <3>2, FS_Subset
    <3>4. /\ Cardinality(Since(y, busy, order)) < MaxEngines
          /\ ~(Cardinality(Since(x, busy, order)) < MaxEngines)
      BY <1>1, <1>6, <3>1
    <3>5. /\ Cardinality(Since(x, busy, order)) \in Nat
          /\ Cardinality(Since(y, busy, order)) \in Nat
      BY <1>3, <1>4
    <3>. QED
      BY <1>2, <3>3, <3>4, <3>5
  <2>. QED
    BY <2>2, <2>3
<1>. QED
  BY <1>2, <1>5, <1>6 DEF kept

(* The search that was answered: its engine is marked, the pool is pruned, *)
(* and what was evicted loses its time of last use.                        *)
LEMMA SearchPrunes ==
  ASSUME PoolInv, NEW r \in Roots, Search(r)
  PROVE  /\ PoolInv'
         /\ Cardinality(loaded') <= MaxEngines
         /\ MaxEngines > 0 => r \in loaded'
         /\ \A x \in (loaded \cup {r}) \ loaded', y \in loaded' :
              UsedBefore(x, y, MarkUsed(r))
         /\ \A x \in Roots : x # r => answered'[x] = answered[x]
<1>. DEFINE order == MarkUsed(r)
            engines == loaded \cup {r}
<1>1. PICK last \in Timed(order) :
        loaded' = Pruned(engines, order, Until(last, loaded, order))
  BY Zenon DEF Search
<1>. DEFINE idle == Until(last, loaded, order)
<1>2. /\ uses' = Without(order, engines \ loaded') /\ known' = known \cup {r}
      /\ last \in Timed(order) /\ loaded' = Pruned(engines, order, idle)
  BY <1>1 DEF Search, Service
<1>3. /\ InOrder(order) /\ Timed(order) = Timed(uses) \cup {r}
      /\ \A x \in Timed(order) : x # r => UsedBefore(x, r, order) /\ ~UsedBefore(r, x, order)
  BY MarkUsedIsLatest DEF PoolInv
<1>4. /\ known' \subseteq Roots /\ IsFiniteSet(known')
  BY <1>2, FS_AddElement DEF PoolInv
<1>5. engines \subseteq Timed(order) /\ engines \subseteq known' /\ IsFiniteSet(engines)
  <2>1. engines \subseteq Timed(order) /\ engines \subseteq known'
    BY <1>2, <1>3 DEF PoolInv
  <2>. QED
    BY <1>4, <2>1, FS_Subset
<1>. HIDE DEF order
<1>6. idle = {y \in loaded : UsedBefore(y, last, order)} /\ loaded \subseteq engines
  BY DEF Until
<1>7. r \notin idle /\ r \in engines
  BY <1>2, <1>3, <1>6 DEF UsedBefore
<1>. HIDE DEF idle
<1>8. \A x \in idle, y \in engines : UsedBefore(y, x, order) => y \in idle
  BY <1>2, <1>3, <1>5, <1>6, <1>7 DEF InOrder, UsedBefore
<1>. HIDE DEF engines
<1>9. /\ loaded' \subseteq engines /\ Cardinality(loaded') <= MaxEngines
      /\ \A x \in engines \ loaded', y \in loaded' : UsedBefore(x, y, order)
  BY <1>2, <1>3, <1>5, <1>8, PrunedKeepsLatest
<1>10. ASSUME MaxEngines > 0 PROVE r \in loaded'
  <2>1. Since(r, engines \ idle, order) = {}
    BY <1>3, <1>5 DEF Since, UsedBefore
  <2>2. Cardinality(Since(r, engines \ idle, order)) < MaxEngines
    BY <1>10, <2>1, FS_EmptySet
  <2>3. loaded' = {x \in engines \ idle :
                      Cardinality(Since(x, engines \ idle, order)) < MaxEngines}
    BY <1>2 DEF Pruned
  <2>. QED
    BY <1>7, <2>2, <2>3
<1>12. /\ answered' \in [Roots -> Nat]
       /\ \A x \in Roots : x # r => answered'[x] = answered[x]
  <2>1. answered' = [answered EXCEPT ![r] = answered[r] + 1]
    BY Zenon DEF Search
  <2>. QED
    BY <2>1 DEF PoolInv
<1>11. PoolInv'
  <2>1. InOrder(uses') /\ Timed(uses') = Timed(order) \ (engines \ loaded')
    BY <1>2, <1>3, WithoutIsInOrder
  <2>2. Timed(uses') \subseteq known' /\ loaded' \subseteq Timed(uses')
    BY <1>2, <1>3, <1>5, <1>9, <2>1 DEF PoolInv
  <2>. QED
    BY <1>4, <1>12, <2>1, <2>2 DEF PoolInv, InOrder, Timed, UsedBefore
<1>. QED
  BY <1>9, <1>10, <1>11, <1>12 DEF engines, order

(* A step that is no search keeps the order, with one more root or without *)
(* the services of a daemon that has ended.                                *)
LEMMA RestKeepsPool ==
  ASSUME PoolInv, UNCHANGED answered,
         \/ known' = {} /\ loaded' = {} /\ uses' = {}
         \/ /\ known' = known \/ \E r \in Roots : known' = known \cup {r}
            /\ loaded' \subseteq loaded /\ uses' = uses
         \/ \E r \in Roots : /\ known' = known \cup {r}
                            /\ loaded' = loaded \cup {r} /\ uses' = MarkUsed(r)
  PROVE  PoolInv'
<1>1. IsFiniteSet(known') /\ known' \subseteq Roots
  <2>1. \A r \in Roots : IsFiniteSet(known \cup {r}) /\ known \cup {r} \subseteq Roots
    BY FS_AddElement DEF PoolInv
  <2>2. IsFiniteSet({}) /\ IsFiniteSet(known) /\ known \subseteq Roots
    BY FS_EmptySet DEF PoolInv
  <2>3. \/ known' = {} \/ known' = known
        \/ \E r \in Roots : known' = known \cup {r}
    OBVIOUS
  <2>. QED
    BY <2>1, <2>2, <2>3
<1>2. CASE known' = {} /\ loaded' = {} /\ uses' = {}
  BY <1>1, <1>2 DEF PoolInv, InOrder, Timed
<1>3. CASE /\ known' = known \/ \E r \in Roots : known' = known \cup {r}
           /\ loaded' \subseteq loaded /\ uses' = uses
  BY <1>1, <1>3 DEF PoolInv, InOrder, Timed, UsedBefore
<1>4. ASSUME NEW r \in Roots, known' = known \cup {r},
             loaded' = loaded \cup {r}, uses' = MarkUsed(r)
      PROVE  PoolInv'
  <2>1. InOrder(uses') /\ Timed(uses') = Timed(uses) \cup {r}
    BY <1>4, MarkUsedIsLatest DEF PoolInv
  <2>2. loaded' \subseteq Timed(uses') /\ Timed(uses') \subseteq known'
    BY <1>4, <2>1 DEF PoolInv
  <2>. QED
    BY <1>1, <2>1, <2>2 DEF PoolInv, InOrder, Timed, UsedBefore
<1>. QED
  BY <1>2, <1>3, <1>4

(* A step that is no search answers none.                                  *)
LEMMA OnlySearchesPrune ==
  ASSUME PoolInv, [ServeNext]_serveVars, ~\E r \in Roots : Search(r)
  PROVE  PoolInv' /\ UNCHANGED answered
<1>1. CASE UNCHANGED serveVars \/ \E w \in Writers : FlushStep(w)
  <2>1. UNCHANGED <<known, loaded, uses, answered>>
    BY <1>1 DEF serveVars, pool, FlushStep, OpenTmp, WriteTmp, Rename
  <2>. QED
    BY <2>1, RestKeepsPool
<1>2. CASE \E c \in CommandLines, r \in Roots : SearchFails(c, r)
  <2>1. PICK c \in CommandLines, r \in Roots : SearchFails(c, r)
    BY <1>2
  <2>2. CASE index[r] = "good"
    BY <2>1, <2>2, RestKeepsPool DEF SearchFails, Service
  <2>3. CASE index[r] # "good"
    BY <2>1, <2>3, RestKeepsPool DEF SearchFails, Service, ReadyEngines
  <2>. QED
    BY <2>2, <2>3
<1>3. CASE \E r \in Roots : MakeReady(r)
  BY <1>3, RestKeepsPool DEF MakeReady, Service, ReadyEngines
<1>4. CASE \E r \in Roots : Select(r) \/ Resume(r)
  <2>1. PICK r \in Roots : UNCHANGED pool /\ known' = known \cup {r}
    BY <1>4 DEF Select, Resume, Records, Service
  <2>2. UNCHANGED <<loaded, uses, answered>>
    BY <2>1 DEF pool
  <2>. QED
    BY <2>1, <2>2, RestKeepsPool
<1>5. CASE Down \/ KillDaemon
  BY <1>5, RestKeepsPool DEF Down, KillDaemon, Forgets
<1>6. CASE \/ \E r \in Roots : FlushRoot(r)
           \/ Leave \/ Start
           \/ \E c \in CommandLines : KillClient(c) \/ NoHits(c) \/ RecordHits(c)
           \/ \E c \in CommandLines, r \in Roots : SearchAlone(c, r) \/ SelectAlone(c, r)
           \/ \E r \in Roots, s \in {"absent", "good", "broken"} : ChangeIndex(r, s)
  <2>1. UNCHANGED <<known, pool>>
    BY <1>6 DEF FlushRoot, Leave, Start, KillClient, NoHits, RecordHits, SearchAlone,
                SelectAlone, Reads, ChangeIndex
  <2>2. known' = known /\ loaded' \subseteq loaded /\ uses' = uses /\ UNCHANGED answered
    BY <2>1 DEF pool
  <2>. QED
    BY <2>2, RestKeepsPool, Zenon
<1>. QED
  BY <1>1, <1>2, <1>3, <1>4, <1>5, <1>6
  DEF ServeNext, ServiceStep, CommandStep, Fault

(* When a search was answered, no more engines are loaded than allowed, the*)
(* one just used is, and those that went were used before all that stay    *)
(* (search-server/src/main.rs, prune_engine_cache), for every number of    *)
(* roots, whatever searches failed, engines were dropped and daemons killed*)
(* before.                                                                 *)
THEOREM PoolIsLatest == ServeSpec => PoolKeepsLatest
<1>1. ServeInit => PoolInv
  BY FS_EmptySet DEF ServeInit, PoolInv, InOrder, Timed
<1>2. PoolInv /\ [ServeNext]_serveVars => PoolInv'
  BY SearchPrunes, OnlySearchesPrune
<1>3. ASSUME PoolInv, [ServeNext]_serveVars, NEW r \in Roots, answered'[r] > answered[r]
      PROVE  /\ Cardinality(loaded') <= MaxEngines
             /\ MaxEngines > 0 => r \in loaded'
             /\ \A x \in (loaded \cup {r}) \ loaded', y \in loaded' :
                  UsedBefore(x, y, MarkUsed(r))
  <2>1. answered[r] \in Nat
    BY <1>3 DEF PoolInv
  <2>2. PICK s \in Roots : Search(s)
    BY <1>3, <2>1, OnlySearchesPrune
  <2>3. s = r
    BY <1>3, <2>1, <2>2, SearchPrunes
  <2>. QED
    BY <1>3, <2>2, <2>3, SearchPrunes
<1>4. PoolInv /\ [ServeNext]_serveVars =>
        [\A r \in Roots :
           answered'[r] > answered[r] =>
             /\ Cardinality(loaded') <= MaxEngines
             /\ MaxEngines > 0 => r \in loaded'
             /\ \A x \in (loaded \cup {r}) \ loaded', y \in loaded' :
                  UsedBefore(x, y, MarkUsed(r))]_serveVars
  BY <1>3
<1>. QED
  BY <1>1, <1>2, <1>4, PTL DEF ServeSpec, PoolKeepsLatest
=============================================================================
