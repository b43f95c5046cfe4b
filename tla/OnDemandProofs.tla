--------------------------- MODULE OnDemandProofs ---------------------------
(***************************************************************************)
(* Proofs about OnDemand, for any processes, hostnames, budget and bounds, *)
(* whether or not a write that fails may have landed.                      *)
(*                                                                         *)
(* Memory is ahead of storage only for a chain that is held, or that hold  *)
(* is about to mark as pending while its order is the last one placed and  *)
(* the lease is not yet given back (Backed).  So a worker that finds       *)
(* nothing pending goes on with a chain of storage, or with one that is in *)
(* crossed, and so does its process until the worker has read the expiry   *)
(* (Reading).  Chains in storage only get newer and crossed only grows, so *)
(* what is noted, on its way to storage or published stays sound.  The     *)
(* types follow from that, and from where passes, workers and handshakes   *)
(* can be (Control).                                                       *)
(***************************************************************************)
EXTENDS OnDemand, TLAPS

Expiries == [Host -> Nat]

Chains ==
  /\ chain \in Expiries /\ orders \in Expiries
  /\ mem \in [Node -> Expiries] /\ held \in [Node -> Expiries]

WorkerPc == {"off", "note", "start", "issue", "hold", "record", "leaf", "index", "put"}
WorkerState == [pc : WorkerPc, first : BOOLEAN, leaf : Nat]
ShakePc == {"off", "obtain", "issue", "hold"}

Goroutines ==
  /\ worker \in [Node -> [Host -> WorkerState]]
  /\ shake \in [Node -> [Host -> ShakePc]]

\* Chains, stored, held or crossed, come from orders.
Ordered ==
  \A h \in Host :
    /\ chain[h] <= orders[h] /\ \A n \in Node : held[n][h] <= orders[h]
    /\ \A e \in Nat : <<h, e>> \in crossed => e <= orders[h]

\* What is served was stored, or is held, or hold is at it.
Backed ==
  \A n \in Node, h \in Host :
    \/ mem[n][h] <= chain[h] \/ mem[n][h] <= held[n][h]
    \/ Holding(n, h) /\ mem[n][h] = orders[h]

Sound(h, e) == e <= chain[h] \/ <<h, e>> \in crossed
Stored(expiries) == \A h \in Host : Sound(h, expiries[h])

\* What recordIssued reads, and has read, may be announced.
Reading ==
  \A n \in Node, h \in Host :
    /\ At(n, h, "leaf") => Sound(h, mem[n][h])
    /\ At(n, h, "index") => Sound(h, worker[n][h].leaf)

\* What is published, noted or about to be published may be announced.
Truthful ==
  /\ certIndex \in Expiries /\ index \in [Node -> Expiries]
  /\ indexPut \in [Node -> Expiries \cup {None}]
  /\ Stored(certIndex)
  /\ \A n \in Node : Stored(index[n]) /\ (indexPut[n] # None => Stored(indexPut[n]))

IInv == Chains /\ Goroutines /\ Ordered /\ Backed /\ Reading /\ Truthful

-----------------------------------------------------------------------------
\* Whatever is served to begin with is stored and announced (Init).
LEMMA InitInv == Init => IInv
<1> SUFFICES ASSUME Init PROVE IInv
  OBVIOUS
<1> USE DEF Init
<1>1. Chains
  BY DEF Chains, Expiries, Zero
<1>2. Goroutines
  BY DEF Goroutines, WorkerState, WorkerPc, ShakePc, Off
<1>3. Ordered /\ Backed
  BY DEF Ordered, Backed, Expiries, Zero
<1>4. Reading
  BY DEF Reading, At, Off
<1>5. Truthful
  BY DEF Truthful, Stored, Sound, Expiries
<1> QED BY <1>1, <1>2, <1>3, <1>4, <1>5 DEF IInv

-----------------------------------------------------------------------------
(* The steps, by what they work on *)

PassAct(n) ==
  \/ Tick(n) \/ FlushEnds(n) \/ ChangedSince(n) \/ AnnounceEnds(n) \/ Classify(n)
  \/ PublishIndex(n) \/ PublishIndexFails(n)
HostAct(n, h) ==
  \/ FlushOne(n, h) \/ FlushFails(n, h) \/ RefreshHost(n, h) \/ AnnounceStored(n, h)
  \/ LoadHost(n, h) \/ NoteRefreshed(n, h) \/ RecordIssued(n, h) \/ LeafNotAfter(n, h)
  \/ NoteIssued(n, h) \/ RunHost(n, h) \/ LeaseHeld(n, h) \/ GiveUp(n, h)
  \/ IssueHost(n, h) \/ IssueHostNotStored(n, h) \/ HoldHost(n, h)
ShakeAct(n, h) ==
  \/ GetCertificate(n, h) \/ Obtain(n, h) \/ ShakeIssue(n, h) \/ ShakeIssueNotStored(n, h)
  \/ ShakeHolds(n, h) \/ ShakeGivesUp(n, h)
Apart ==
  \/ \E n \in Node : RefreshAllowSet(n) \/ WindowSlides(n)
  \/ Elect \/ (\E h \in Host : Age(h)) \/ UNCHANGED vars

\* There are no others.
LEMMA Steps ==
  ASSUME [Next]_vars
  PROVE  \/ \E n \in Node : Restart(n) \/ PassAct(n)
         \/ \E n \in Node, h \in Host : HostAct(n, h) \/ ShakeAct(n, h)
         \/ Apart
BY DEF Next, PassStep, HostStep, Refused, ShakeIssues, PassAct, HostAct, ShakeAct, Apart

\* What the allow-set's loop, the clock and elections leave alone.
LEMMA ApartKeeps ==
  ASSUME Apart
  PROVE  UNCHANGED <<storage, index, indexPut, cache, pass, worker, shake, crossed>>
BY Zenon DEF Apart, RefreshAllowSet, WindowSlides, Elect, Age, vars, storage, indexes, cache

\* What the steps of a pass leave alone.
LEMMA PassKeeps ==
  ASSUME NEW n \in Node, PassAct(n)
  PROVE  UNCHANGED <<chain, orders, cache, due, allow, tokens, shake, leaders, faults, crossed>>
BY Zenon DEF PassAct, Tick, FlushEnds, ChangedSince, AnnounceEnds, Classify, PublishIndex,
   PublishIndexFails, storage, env

\* What the steps for a hostname leave alone.
LEMMA HostKeeps ==
  ASSUME NEW n \in Node, NEW h \in Host, HostAct(n, h)
  PROVE  UNCHANGED <<certIndex, due, allow, dirty, shake, leaders, faults>>
BY Zenon DEF HostAct, FlushOne, FlushFails, RefreshHost, AnnounceStored, LoadHost, NoteRefreshed,
   RecordIssued, LeafNotAfter, NoteIssued, RunHost, LeaseHeld, GiveUp, IssueHost,
   IssueHostNotStored, HoldHost, storage, indexes, env

\* What a handshake leaves alone.
LEMMA ShakeKeeps ==
  ASSUME NEW n \in Node, NEW h \in Host, ShakeAct(n, h)
  PROVE  UNCHANGED <<certIndex, indexes, due, allow, pass, worker, leaders, faults>>
BY Zenon DEF ShakeAct, GetCertificate, Obtain, ShakeIssue, ShakeIssueNotStored, ShakeHolds,
   ShakeGivesUp, storage, indexes, env

-----------------------------------------------------------------------------
(* Where workers and handshakes go *)

\* A step for a hostname moves its worker only.  Nothing but HoldHost moves one that is
\* in hold, only recordIssued reads memory, and only what it read is noted.
LEMMA WorkerMoves ==
  ASSUME Chains, Goroutines, NEW n \in Node, NEW h \in Host, HostAct(n, h)
  PROVE  \/ worker' = worker
         \/ \E r \in WorkerState :
              /\ worker' = [worker EXCEPT ![n][h] = r]
              /\ At(n, h, "hold") => HoldHost(n, h)
              /\ r.pc = "leaf" => RecordIssued(n, h) /\ held[n][h] = 0
              /\ r.pc = "index" => LeafNotAfter(n, h) /\ r.leaf = mem[n][h]
<1> DEFINE Moves ==
      \E r \in WorkerState :
        /\ worker' = [worker EXCEPT ![n][h] = r]
        /\ At(n, h, "hold") => HoldHost(n, h)
        /\ r.pc = "leaf" => RecordIssued(n, h) /\ held[n][h] = 0
        /\ r.pc = "index" => LeafNotAfter(n, h) /\ r.leaf = mem[n][h]
<1>0. worker[n][h] \in WorkerState /\ mem[n][h] \in Nat
  BY DEF Goroutines, Chains, Expiries
<1>1. ASSUME NEW label \in WorkerPc, Step(n, h, label), ~At(n, h, "hold"), label # "index",
             label = "leaf" => RecordIssued(n, h) /\ held[n][h] = 0
      PROVE  Moves
  <2> DEFINE r == [worker[n][h] EXCEPT !.pc = label]
  <2>1. r \in WorkerState /\ r.pc = label
    BY <1>0 DEF WorkerState
  <2>2. worker' = [worker EXCEPT ![n][h] = r]
    BY <1>1, Zenon DEF Step
  <2> HIDE DEF r
  <2> QED BY <1>1, <2>1, <2>2, Zenon
<1>2. ASSUME End(n, h), At(n, h, "hold") => HoldHost(n, h) PROVE Moves
  <2>1. Off \in WorkerState /\ Off.pc = "off"
    BY DEF Off, WorkerState, WorkerPc
  <2> HIDE DEF Moves
  <2>2. worker' = [worker EXCEPT ![n][h] = Off]
    BY <1>2 DEF End
  <2> QED BY <1>2, <2>1, <2>2, Zenon DEF Moves
<1>3. AllOff(n) => ~At(n, h, "hold")
  BY DEF AllOff, At, Off
<1> HIDE DEF Moves
<1>4. CASE \/ FlushOne(n, h) \/ FlushFails(n, h)
  BY <1>4, Zenon DEF FlushOne, FlushFails
<1>5. CASE RefreshHost(n, h) \/ AnnounceStored(n, h) \/ LoadHost(n, h)
  <2>1. \/ worker' = worker
        \/ AllOff(n) /\ (Step(n, h, "note") \/ Step(n, h, "record"))
    BY <1>5, Zenon DEF RefreshHost, AnnounceStored, LoadHost
  <2>2. {"note", "record"} \subseteq WorkerPc
    BY DEF WorkerPc
  <2> QED BY <1>1, <1>3, <2>1, <2>2 DEF Moves
<1>6. CASE NoteRefreshed(n, h) \/ GiveUp(n, h) \/ HoldHost(n, h)
  <2>1. End(n, h)
    BY <1>6, Zenon DEF NoteRefreshed, GiveUp, HoldHost
  <2>2. At(n, h, "hold") => HoldHost(n, h)
    BY <1>6 DEF NoteRefreshed, GiveUp, HoldHost, At
  <2> QED BY <1>2, <2>1, <2>2, Zenon DEF Moves
<1>7. CASE RecordIssued(n, h)
  <2>1. ~At(n, h, "hold") /\ "leaf" \in WorkerPc
    BY <1>7 DEF RecordIssued, At, WorkerPc
  <2>2. End(n, h) \/ (Step(n, h, "leaf") /\ held[n][h] = 0)
    BY <1>7, Zenon DEF RecordIssued
  <2> QED BY <1>1, <1>2, <1>7, <2>1, <2>2 DEF Moves
<1>8. CASE LeafNotAfter(n, h)
  <2> DEFINE r == [Off EXCEPT !.pc = "index", !.leaf = mem[n][h]]
  <2>1. ~At(n, h, "hold")
    BY <1>8 DEF LeafNotAfter, At
  <2>2. r \in WorkerState /\ r.pc = "index" /\ r.leaf = mem[n][h]
    BY <1>0 DEF Off, WorkerState, WorkerPc
  <2>3. End(n, h) \/ worker' = [worker EXCEPT ![n][h] = r]
    BY <1>8, Zenon DEF LeafNotAfter
  <2> HIDE DEF r
  <2>4. CASE End(n, h)
    BY <1>2, <2>1, <2>4, Zenon DEF Moves
  <2>5. CASE worker' = [worker EXCEPT ![n][h] = r]
    BY <1>8, <2>1, <2>2, <2>5, Zenon DEF Moves
  <2> QED BY <2>3, <2>4, <2>5 DEF Moves
<1>9. CASE NoteIssued(n, h)
  <2> DEFINE r == [Off EXCEPT !.pc = "put"]
  <2>1. ~At(n, h, "hold")
    BY <1>9 DEF NoteIssued, At
  <2>2. r \in WorkerState /\ r.pc = "put"
    BY DEF Off, WorkerState, WorkerPc
  <2>3. worker' = [worker EXCEPT ![n][h] = r]
    BY <1>9, Zenon DEF NoteIssued
  <2> HIDE DEF r
  <2> QED BY <2>1, <2>2, <2>3, Zenon DEF Moves
<1>10. CASE RunHost(n, h)
  <2>1. ~At(n, h, "hold") /\ {"record", "issue"} \subseteq WorkerPc
    BY <1>10 DEF RunHost, At, WorkerPc
  <2>2. End(n, h) \/ Step(n, h, "record") \/ Step(n, h, "issue")
    BY <1>10, Zenon DEF RunHost, RenewIfNeeded, Step
  <2> QED BY <1>1, <1>2, <2>1, <2>2 DEF Moves
<1>11. CASE LeaseHeld(n, h) \/ IssueHost(n, h) \/ IssueHostNotStored(n, h)
  <2>1. ~At(n, h, "hold") /\ {"record", "hold"} \subseteq WorkerPc
    BY <1>11 DEF LeaseHeld, IssueHost, IssueHostNotStored, At, WorkerPc
  <2>2. Step(n, h, "record") \/ Step(n, h, "hold")
    BY <1>11, Zenon DEF LeaseHeld, IssueHost, IssueHostNotStored
  <2> QED BY <1>1, <2>1, <2>2 DEF Moves
<1> QED BY <1>4, <1>5, <1>6, <1>7, <1>8, <1>9, <1>10, <1>11, Zenon DEF HostAct, Moves

\* A pass ends workers that have written the index and starts new ones, all of them
\* while none is in hold, reads memory or has something to note.
LEMMA PassMoves ==
  ASSUME Goroutines, NEW n \in Node, PassAct(n)
  PROVE  \E f \in [Host -> WorkerState] :
           /\ worker' = [worker EXCEPT ![n] = f]
           /\ \A x \in Host : \/ f[x] = worker[n][x]
                              \/ f[x].pc \in {"off", "start"} /\ ~At(n, x, "hold")
<1> DEFINE Moves(f) ==
      /\ worker' = [worker EXCEPT ![n] = f]
      /\ \A x \in Host : \/ f[x] = worker[n][x]
                         \/ f[x].pc \in {"off", "start"} /\ ~At(n, x, "hold")
<1>0. worker[n] \in [Host -> WorkerState] /\ worker = [worker EXCEPT ![n] = worker[n]]
      /\ Off \in WorkerState /\ Off.pc = "off"
  BY DEF Goroutines, Off, WorkerState, WorkerPc
<1>1. CASE PublishIndex(n) \/ PublishIndexFails(n)
  <2> DEFINE f == [h \in Host |-> IF At(n, h, "put") THEN Off ELSE worker[n][h]]
  <2>1. f \in [Host -> WorkerState] /\ \A x \in Host : f[x] = worker[n][x] \/ f[x] = Off
    BY <1>0
  <2>2. \A x \in Host : f[x] # worker[n][x] => ~At(n, x, "hold")
    BY DEF At
  <2>3. worker' = [worker EXCEPT ![n] = f]
    BY <1>1, Zenon DEF PublishIndex, PublishIndexFails
  <2> HIDE DEF f
  <2> QED BY <1>0, <2>1, <2>2, <2>3, Zenon
<1>2. CASE Classify(n)
  <2> DEFINE first(h) == mem[n][h] = 0
             starts(h) == h \in allow[n] /\ (first(h) \/ (mem[n][h] # 0 /\ ~Fresh(h, mem[n][h])))
             new(h) == [Off EXCEPT !.pc = "start", !.first = first(h)]
             f == [h \in Host |-> IF starts(h) THEN new(h) ELSE Off]
  <2>1. ASSUME NEW x \in Host
        PROVE  new(x) \in WorkerState /\ new(x).pc = "start"
    <3>1. first(x) \in BOOLEAN
      BY Zenon
    <3> HIDE DEF first
    <3> QED BY <3>1 DEF Off, WorkerState, WorkerPc
  <2>2. worker' = [worker EXCEPT ![n] = f]
    BY <1>2, Zenon DEF Classify
  <2>3. \A x \in Host : ~At(n, x, "hold")
    <3>1. AllOff(n)
      BY <1>2, Zenon DEF Classify
    <3> QED BY <3>1 DEF AllOff, At, Off
  <2> HIDE DEF new, starts
  <2>4. f \in [Host -> WorkerState] /\ \A x \in Host : f[x].pc \in {"off", "start"}
    BY <1>0, <2>1
  <2> HIDE DEF f
  <2> QED BY <2>2, <2>3, <2>4, Zenon
<1>3. CASE Tick(n) \/ FlushEnds(n) \/ ChangedSince(n) \/ AnnounceEnds(n)
  <2>1. worker' = worker
    BY <1>3, Zenon DEF Tick, FlushEnds, ChangedSince, AnnounceEnds
  <2> QED BY <1>0, <2>1, Zenon
<1> QED BY <1>1, <1>2, <1>3, Zenon DEF PassAct

\* A handshake moves its goroutine for the hostname only, and leaves hold only when the
\* chain is marked as pending.
LEMMA ShakeMoves ==
  ASSUME NEW n \in Node, NEW h \in Host, ShakeAct(n, h)
  PROVE  \/ shake' = shake
         \/ /\ \E label \in ShakePc : ShakeStep(n, h, label)
            /\ shake[n][h] = "hold" => ShakeHolds(n, h)
<1>1. shake' = shake \/ \E label \in ShakePc : ShakeStep(n, h, label)
  BY Zenon DEF ShakeAct, GetCertificate, Obtain, ShakeIssue, ShakeIssueNotStored, ShakeHolds,
     ShakeGivesUp, ShakePc
<1>2. shake' = shake \/ (shake[n][h] = "hold" => ShakeHolds(n, h))
  BY DEF ShakeAct, GetCertificate, Obtain, ShakeIssue, ShakeIssueNotStored, ShakeHolds,
     ShakeGivesUp
<1> QED BY <1>1, <1>2

\* The stages of the goroutines (Step, End, RenewIfNeeded, requestIssue, obtain).
LEMMA GoroutinesStep ==
  ASSUME Chains, Goroutines, [Next]_vars
  PROVE  Goroutines'
<1> DEFINE W == worker' \in [Node -> [Host -> WorkerState]]
           S == shake' \in [Node -> [Host -> ShakePc]]
<1>0. /\ worker \in [Node -> [Host -> WorkerState]]
      /\ shake \in [Node -> [Host -> ShakePc]]
  BY DEF Goroutines
<1>1. ASSUME NEW n \in Node, NEW f \in [Host -> WorkerState], worker' = [worker EXCEPT ![n] = f]
      PROVE  W
  BY <1>0, <1>1
<1>2. ASSUME NEW n \in Node, NEW h \in Host, NEW r \in WorkerState,
             worker' = [worker EXCEPT ![n][h] = r]
      PROVE  W
  BY <1>0, <1>2
<1>3. ASSUME NEW n \in Node, NEW h \in Host, NEW label \in ShakePc, ShakeStep(n, h, label)
      PROVE  S
  BY <1>0, <1>3 DEF ShakeStep
<1>4. (worker' = worker => W) /\ (shake' = shake => S)
  BY <1>0
<1>5. ASSUME NEW n \in Node, Restart(n) PROVE W /\ S
  <2> DEFINE f == [h \in Host |-> Off]
  <2>1. f \in [Host -> WorkerState]
    BY DEF Off, WorkerState, WorkerPc
  <2>2. worker' = [worker EXCEPT ![n] = f] /\ shake' = [shake EXCEPT ![n] = [h \in Host |-> "off"]]
    BY <1>5, Zenon DEF Restart
  <2>3. S
    BY <1>0, <2>2 DEF ShakePc
  <2> HIDE DEF f, W
  <2> QED BY <1>1, <2>1, <2>2, <2>3, Zenon
<1> HIDE DEF W, S
<1>6. ASSUME NEW n \in Node, PassAct(n) PROVE W /\ S
  BY <1>1, <1>4, <1>6, PassMoves, PassKeeps, Zenon
<1>7. ASSUME NEW n \in Node, NEW h \in Host, HostAct(n, h) PROVE W /\ S
  <2>1. shake' = shake
    BY <1>7, HostKeeps
  <2>2. worker' = worker \/ \E r \in WorkerState : worker' = [worker EXCEPT ![n][h] = r]
    BY <1>7, WorkerMoves
  <2> QED BY <1>2, <1>4, <2>1, <2>2, Zenon
<1>8. ASSUME NEW n \in Node, NEW h \in Host, ShakeAct(n, h) PROVE W /\ S
  BY <1>3, <1>4, <1>8, ShakeMoves, ShakeKeeps, Zenon
<1>9. ASSUME Apart PROVE W /\ S
  BY <1>4, <1>9, ApartKeeps
<1>10. W /\ S
  BY <1>5, <1>6, <1>7, <1>8, <1>9, Steps, Zenon
<1> QED BY <1>10 DEF Goroutines, W, S

-----------------------------------------------------------------------------
(* What happens to the chains *)

\* What a step for a hostname does to them, whichever it is: storage and the orders only
\* grow, orders only under the lease, and what is installed is backed.
Write(n, h, c, o, m, k) ==
  /\ chain' = [chain EXCEPT ![h] = c] /\ orders' = [orders EXCEPT ![h] = o]
  /\ mem' = [mem EXCEPT ![n][h] = m] /\ held' = [held EXCEPT ![n][h] = k]
  /\ chain[h] <= c /\ c <= o /\ orders[h] <= o /\ k <= o
  /\ o # orders[h] => LeaseFree(h)
  /\ m <= c \/ m <= k \/ (Holding(n, h)' /\ m = o)
  /\ crossed' = crossed \/ crossed' = crossed \cup {<<h, o>>}
  /\ At(n, h, "leaf") => m = mem[n][h] \/ m <= c \/ <<h, m>> \in crossed'

\* A goroutine in hold stays there until the chain is marked as pending.
LEMMA HoldKept ==
  ASSUME Chains, Goroutines, NEW n \in Node, NEW h \in Host, HostAct(n, h) \/ ShakeAct(n, h),
         NEW y \in Node, NEW x \in Host, Holding(y, x)
  PROVE  Holding(y, x)' \/ (y = n /\ x = h /\ Held(n, h) /\ UNCHANGED <<chain, orders, mem>>)
<1> DEFINE Marked == y = n /\ x = h /\ Held(n, h) /\ UNCHANGED <<chain, orders, mem>>
<1>0. /\ worker \in [Node -> [Host -> WorkerState]]
      /\ shake \in [Node -> [Host -> ShakePc]]
  BY DEF Goroutines
<1>1. HoldHost(n, h) \/ ShakeHolds(n, h) => Held(n, h) /\ UNCHANGED <<chain, orders, mem>>
  BY Zenon DEF HoldHost, ShakeHolds, storage
<1>2. At(y, x, "hold") \/ shake[y][x] = "hold"
  BY DEF Holding, At
<1>3. worker'[y][x].pc = "hold" \/ shake'[y][x] = "hold" => Holding(y, x)'
  BY DEF Holding
<1>4. CASE HostAct(n, h)
  <2>1. shake' = shake
    BY <1>4, HostKeeps
  <2>2. CASE worker' = worker
    BY <1>2, <1>3, <2>1, <2>2 DEF At
  <2>3. ASSUME NEW r \in WorkerState, worker' = [worker EXCEPT ![n][h] = r],
               At(n, h, "hold") => HoldHost(n, h)
        PROVE  Holding(y, x)' \/ Marked
    <3>1. y # n \/ x # h => worker'[y][x] = worker[y][x]
      BY <1>0, <2>3
    <3> QED BY <1>1, <1>2, <1>3, <2>1, <2>3, <3>1 DEF At
  <2> QED BY <1>4, <2>2, <2>3, WorkerMoves
<1>5. CASE ShakeAct(n, h)
  <2>1. worker' = worker
    BY <1>5, ShakeKeeps
  <2>2. CASE shake' = shake
    BY <1>2, <1>3, <2>1, <2>2 DEF At
  <2>3. ASSUME NEW label \in ShakePc, ShakeStep(n, h, label),
               shake[n][h] = "hold" => ShakeHolds(n, h)
        PROVE  Holding(y, x)' \/ Marked
    <3>1. y # n \/ x # h => shake'[y][x] = shake[y][x]
      BY <1>0, <2>3 DEF ShakeStep
    <3> QED BY <1>1, <1>2, <1>3, <2>1, <2>3, <3>1 DEF At
  <2> QED BY <1>5, <2>2, <2>3, ShakeMoves
<1> QED BY <1>4, <1>5

\* A chain of storage, or what was there, is served (Refresh, LoadHost, issueWithKey).
Reads(n, h) ==
  /\ UNCHANGED <<chain, orders, held>>
  /\ mem' = mem \/ mem' = [mem EXCEPT ![n][h] = chain[h]]
  /\ crossed' = crossed \/ crossed' = crossed \cup {<<h, orders[h]>>}

\* The steps for a hostname, by what they do to its chains.
LEMMA Effects ==
  ASSUME Chains, Goroutines, NEW n \in Node, NEW h \in Host, HostAct(n, h) \/ ShakeAct(n, h)
  PROVE  \/ Reads(n, h) \/ FlushOne(n, h) \/ FlushFails(n, h)
         \/ Held(n, h) /\ UNCHANGED <<chain, orders, mem, crossed>>
         \/ Issued(n, h) /\ UNCHANGED crossed
         \/ IssuedNotStored(n, h) /\ Holding(n, h)'
<1>1. CASE \/ RefreshHost(n, h) \/ AnnounceStored(n, h) \/ LoadHost(n, h) \/ NoteRefreshed(n, h)
           \/ LeafNotAfter(n, h) \/ NoteIssued(n, h) \/ LeaseHeld(n, h) \/ GiveUp(n, h)
           \/ GetCertificate(n, h) \/ Obtain(n, h) \/ ShakeGivesUp(n, h)
  <2>1. UNCHANGED <<chain, orders, held, crossed>>
    BY <1>1, Zenon DEF RefreshHost, AnnounceStored, LoadHost, NoteRefreshed, LeafNotAfter,
       NoteIssued, LeaseHeld, GiveUp, GetCertificate, Obtain, ShakeGivesUp, storage, cache
  <2>2. mem' = mem \/ mem' = [mem EXCEPT ![n][h] = chain[h]]
    BY <1>1, Zenon DEF RefreshHost, AnnounceStored, LoadHost, NoteRefreshed, LeafNotAfter,
       NoteIssued, LeaseHeld, GiveUp, GetCertificate, Obtain, ShakeGivesUp, cache, Install, Adopted
  <2> QED BY <2>1, <2>2, Zenon DEF Reads
<1>2. CASE RecordIssued(n, h)
  <2>1. UNCHANGED <<chain, orders, held, mem>>
    BY <1>2, Zenon DEF RecordIssued, storage, cache
  <2>2. crossed' = crossed \/ crossed' = crossed \cup {<<h, orders[h]>>}
    <3>1. crossed \cup {} = crossed
      OBVIOUS
    <3> QED BY <1>2, <3>1, Zenon DEF RecordIssued
  <2> QED BY <2>1, <2>2, Zenon DEF Reads
<1>3. CASE RunHost(n, h)
  <2>1. mem = [mem EXCEPT ![n][h] = mem[n][h]]
    BY DEF Chains, Expiries
  <2>2. UNCHANGED <<chain, orders, held, crossed>>
    BY <1>3, Zenon DEF RunHost, storage
  <2>3. mem' = mem \/ mem' = [mem EXCEPT ![n][h] = chain[h]]
    BY <1>3, <2>1, Zenon DEF RunHost
  <2> QED BY <2>2, <2>3, Zenon DEF Reads
<1>4. CASE HoldHost(n, h) \/ ShakeHolds(n, h)
  BY <1>4, Zenon DEF HoldHost, ShakeHolds, storage
<1>5. CASE IssueHost(n, h) \/ ShakeIssue(n, h)
  BY <1>5, Zenon DEF IssueHost, ShakeIssue
<1>6. CASE IssueHostNotStored(n, h) \/ ShakeIssueNotStored(n, h)
  <2>1. IssuedNotStored(n, h)
    BY <1>6, Zenon DEF IssueHostNotStored, ShakeIssueNotStored
  <2>2. worker'[n][h].pc = "hold" \/ shake'[n][h] = "hold"
    <3>1. worker[n][h] \in WorkerState /\ worker \in [Node -> [Host -> WorkerState]]
          /\ shake \in [Node -> [Host -> ShakePc]]
      BY DEF Goroutines
    <3>2. Step(n, h, "hold") \/ ShakeStep(n, h, "hold")
      BY <1>6, Zenon DEF IssueHostNotStored, ShakeIssueNotStored
    <3> QED BY <3>1, <3>2 DEF Step, ShakeStep, WorkerState
  <2> QED BY <2>1, <2>2 DEF Holding
<1> QED BY <1>1, <1>2, <1>3, <1>4, <1>5, <1>6, Zenon DEF HostAct, ShakeAct

\* Every step for a hostname is such a Write.
LEMMA Writes ==
  ASSUME IInv, NEW n \in Node, NEW h \in Host, HostAct(n, h) \/ ShakeAct(n, h)
  PROVE  \E c \in Nat, o \in Nat, m \in Nat, k \in Nat : Write(n, h, c, o, m, k)
<1> DEFINE C == chain[h]
           O == orders[h]
           M == mem[n][h]
           K == held[n][h]
<1> USE DEF IInv
<1>0. /\ C \in Nat /\ O \in Nat /\ M \in Nat /\ K \in Nat /\ O + 1 \in Nat
      /\ C <= O /\ K <= O
  BY DEF Chains, Expiries, Ordered
<1>1. /\ chain = [chain EXCEPT ![h] = C] /\ orders = [orders EXCEPT ![h] = O]
      /\ mem = [mem EXCEPT ![n][h] = M] /\ held = [held EXCEPT ![n][h] = K]
  BY DEF Chains, Expiries
<1>2. M <= C \/ M <= K \/ (Holding(n, h) /\ M = O)
  BY DEF Backed
<1>3. Holding(n, h) => Holding(n, h)' \/ Held(n, h)
  BY HoldKept
<1>4. CASE Reads(n, h)
  <2>1. ASSUME mem' = mem PROVE M <= C \/ M <= K \/ (Holding(n, h)' /\ M = O)
    <3>1. CASE Held(n, h)
      <4>1. held' = held /\ held' = [held EXCEPT ![n][h] = O]
        BY <1>4, <3>1 DEF Reads, Held
      <4>2. K = O
        BY <4>1 DEF Chains, Expiries
      <4> QED BY <1>0, <1>2, <4>2
    <3>2. CASE ~Held(n, h)
      BY <1>2, <1>3, <3>2
    <3> QED BY <3>1, <3>2
  <2>2. CASE mem' = mem
    <3>1. Write(n, h, C, O, M, K)
      BY <1>0, <1>1, <1>4, <2>1, <2>2 DEF Reads, Write
    <3> QED BY <1>0, <3>1
  <2>3. CASE mem' = [mem EXCEPT ![n][h] = C]
    <3>1. Write(n, h, C, O, C, K)
      BY <1>0, <1>1, <1>4, <2>3 DEF Reads, Write
    <3> QED BY <1>0, <3>1
  <2> QED BY <1>4, <2>2, <2>3 DEF Reads
<1>5. CASE Held(n, h) /\ UNCHANGED <<chain, orders, mem, crossed>>
  <2>1. Write(n, h, C, O, M, O)
    BY <1>0, <1>1, <1>2, <1>5 DEF Held, Write
  <2> QED BY <1>0, <2>1
<1>6. CASE FlushOne(n, h)
  <2>0. /\ LeaseFree(h) /\ ~Holding(n, h) /\ UNCHANGED <<orders, crossed>>
        /\ held' = [held EXCEPT ![n][h] = 0]
    BY <1>6 DEF FlushOne, LeaseFree
  <2>1. CASE C < K
    <3>1. chain' = [chain EXCEPT ![h] = K] /\ mem' = mem
      BY <1>6, <2>1 DEF FlushOne
    <3>2. Write(n, h, K, O, M, 0)
      BY <1>0, <1>1, <1>2, <2>0, <2>1, <3>1 DEF Write
    <3> QED BY <1>0, <3>2
  <2>2. CASE ~(C < K)
    <3>1. chain' = chain /\ mem' = [mem EXCEPT ![n][h] = C]
      BY <1>6, <2>2 DEF FlushOne
    <3>2. Write(n, h, C, O, C, 0)
      BY <1>0, <1>1, <2>0, <3>1 DEF Write
    <3> QED BY <1>0, <3>2
  <2> QED BY <2>1, <2>2
<1>7. CASE FlushFails(n, h)
  <2>0. UNCHANGED <<orders, mem, held, crossed>>
    BY <1>7, Zenon DEF FlushFails, cache
  <2>1. CASE chain' = chain
    BY <1>4, <2>0, <2>1 DEF Reads
  <2>2. CASE chain' # chain
    <3>1. chain' = [chain EXCEPT ![h] = K] /\ K > C /\ LeaseFree(h)
      BY <1>7, <2>2, Zenon DEF FlushFails, Landed
    <3>2. Write(n, h, K, O, M, K)
      BY <1>0, <1>1, <1>2, <2>0, <3>1 DEF Write, LeaseFree
    <3> QED BY <1>0, <3>2
  <2> QED BY <2>1, <2>2
<1>8. CASE Issued(n, h) /\ UNCHANGED crossed
  <2>1. CASE UNCHANGED <<chain, orders, held>> /\ Install(n, h, C)
    BY <1>4, <1>8, <2>1 DEF Reads, Install
  <2>2. CASE /\ Order(h) /\ chain' = [chain EXCEPT ![h] = orders'[h]]
             /\ Install(n, h, orders'[h]) /\ held' = [held EXCEPT ![n][h] = 0]
    <3>1. orders' = [orders EXCEPT ![h] = O + 1] /\ orders'[h] = O + 1
      BY <2>2 DEF Order, Chains, Expiries
    <3>2. LeaseFree(h)
      BY <1>8 DEF Issued
    <3>3. /\ chain' = [chain EXCEPT ![h] = O + 1] /\ mem' = [mem EXCEPT ![n][h] = O + 1]
          /\ held' = [held EXCEPT ![n][h] = 0] /\ crossed' = crossed
      BY <1>8, <2>2, <3>1, Zenon DEF Install
    <3>4. C <= O + 1 /\ O <= O + 1 /\ 0 <= O + 1 /\ O + 1 <= O + 1
      BY <1>0
    <3>5. Write(n, h, O + 1, O + 1, O + 1, 0)
      BY <3>1, <3>2, <3>3, <3>4, Zenon DEF Write
    <3> QED BY <1>0, <3>5
  <2> QED BY <1>8, <2>1, <2>2, Zenon DEF Issued
<1>9. CASE IssuedNotStored(n, h) /\ Holding(n, h)'
  <2>1. orders' = [orders EXCEPT ![h] = O + 1] /\ orders'[h] = O + 1
    BY <1>9 DEF IssuedNotStored, Order, Chains, Expiries
  <2>2. /\ mem' = [mem EXCEPT ![n][h] = O + 1] /\ held' = held /\ LeaseFree(h)
        /\ crossed' = crossed \cup IF At(n, h, "leaf") THEN {<<h, O + 1>>} ELSE {}
    BY <1>9, <2>1 DEF IssuedNotStored, Install
  <2>3. PICK c \in {C, O + 1} : chain' = [chain EXCEPT ![h] = c]
    BY <1>1, <1>9, <2>1 DEF IssuedNotStored, Landed
  <2>4. Write(n, h, c, O + 1, O + 1, K)
    BY <1>0, <1>1, <1>9, <2>1, <2>2, <2>3 DEF Write
  <2> QED BY <1>0, <2>3, <2>4
<1> QED BY <1>4, <1>5, <1>6, <1>7, <1>8, <1>9, Effects

\* Storage and crossed only grow.
Grows == \A x \in Host : chain[x] <= chain'[x] /\ crossed \subseteq crossed'

\* What may be announced now may be announced later.
LEMMA SoundLater ==
  ASSUME Chains, Chains', Grows, NEW x \in Host, NEW e \in Nat, Sound(x, e)
  PROVE  e <= chain'[x] \/ <<x, e>> \in crossed'
BY DEF Chains, Expiries, Grows, Sound

\* A Write keeps what is known of the chains, and what recordIssued would read.
LEMMA WriteStep ==
  ASSUME IInv, NEW n \in Node, NEW h \in Host, HostAct(n, h) \/ ShakeAct(n, h)
  PROVE  /\ Chains' /\ Ordered' /\ Backed' /\ Grows
         /\ \A y \in Node, x \in Host :
              At(y, x, "leaf") => mem'[y][x] <= chain'[x] \/ <<x, mem'[y][x]>> \in crossed'
<1> USE DEF IInv
<1>0. PICK c \in Nat, o \in Nat, m \in Nat, k \in Nat : Write(n, h, c, o, m, k)
  BY Writes
<1>1. Chains'
  BY <1>0 DEF Write, Chains, Expiries
<1>2. /\ \A x \in Host : /\ chain'[x] = IF x = h THEN c ELSE chain[x]
                         /\ orders'[x] = IF x = h THEN o ELSE orders[x]
      /\ \A y \in Node, x \in Host :
           /\ mem'[y][x] = IF y = n /\ x = h THEN m ELSE mem[y][x]
           /\ held'[y][x] = IF y = n /\ x = h THEN k ELSE held[y][x]
  BY <1>0 DEF Write, Chains, Expiries
<1>3. /\ \A x \in Host : chain[x] \in Nat /\ orders[x] \in Nat
      /\ \A y \in Node, x \in Host : mem[y][x] \in Nat /\ held[y][x] \in Nat
  BY DEF Chains, Expiries
<1>4. /\ chain[h] <= c /\ c <= o /\ orders[h] <= o /\ k <= o
      /\ o # orders[h] => LeaseFree(h)
      /\ m <= c \/ m <= k \/ (Holding(n, h)' /\ m = o)
      /\ crossed' = crossed \/ crossed' = crossed \cup {<<h, o>>}
      /\ At(n, h, "leaf") => m = mem[n][h] \/ m <= c \/ <<h, m>> \in crossed'
  BY <1>0, Zenon DEF Write
<1>5. Grows
  <2>0. \A i \in Nat : i <= i
    OBVIOUS
  <2>1. ASSUME NEW x \in Host PROVE chain[x] <= chain'[x]
    <3>1. CASE x = h
      BY <1>2, <1>4, <3>1, Zenon
    <3>2. CASE x # h
      <4>1. chain'[x] = chain[x] /\ chain[x] \in Nat
        BY <1>2, <1>3, <3>2, Zenon
      <4> QED BY <2>0, <4>1, Zenon
    <3> QED BY <3>1, <3>2
  <2>2. crossed \subseteq crossed'
    BY <1>4, Zenon
  <2> QED BY <2>1, <2>2, Zenon DEF Grows
<1>6. Ordered'
  <2>0. \A i \in Nat : i <= i
    OBVIOUS
  <2>1. ASSUME NEW x \in Host PROVE chain'[x] <= orders'[x] /\ orders[x] <= orders'[x]
    <3>1. CASE x = h
      BY <1>2, <1>4, <3>1, Zenon
    <3>2. CASE x # h
      <4>1. chain'[x] = chain[x] /\ orders'[x] = orders[x] /\ orders[x] \in Nat
        BY <1>2, <1>3, <3>2, Zenon
      <4>2. chain[x] <= orders[x] /\ orders[x] <= orders[x]
        BY <2>0, <4>1, Zenon DEF Ordered
      <4> QED BY <4>1, <4>2, Zenon
    <3> QED BY <3>1, <3>2
  <2>2. ASSUME NEW x \in Host, NEW y \in Node PROVE held'[y][x] <= orders'[x]
    <3>1. CASE y = n /\ x = h
      BY <1>2, <1>4, <3>1, Zenon
    <3>2. CASE ~(y = n /\ x = h)
      <4>1. held'[y][x] = held[y][x] /\ held[y][x] <= orders[x] /\ orders[x] <= orders'[x]
        BY <1>2, <2>1, <3>2, Zenon DEF Ordered
      <4>2. held[y][x] \in Nat /\ orders[x] \in Nat /\ orders'[x] \in Nat
        BY <1>1, <1>3, Zenon DEF Chains, Expiries
      <4> QED BY <4>1, <4>2
    <3> QED BY <3>1, <3>2
  <2>3. ASSUME NEW x \in Host, NEW e \in Nat, <<x, e>> \in crossed' PROVE e <= orders'[x]
    <3>1. CASE <<x, e>> \in crossed
      <4>1. e <= orders[x] /\ orders[x] <= orders'[x]
        BY <2>1, <3>1, Zenon DEF Ordered
      <4>2. orders[x] \in Nat /\ orders'[x] \in Nat
        BY <1>1, Zenon DEF Chains, Expiries
      <4> QED BY <4>1, <4>2
    <3>2. CASE x = h /\ e = o
      BY <1>2, <3>2
    <3> QED BY <1>4, <2>3, <3>1, <3>2
  <2> QED BY <2>1, <2>2, <2>3 DEF Ordered
<1>7. Backed'
  <2>1. ASSUME NEW y \in Node, NEW x \in Host
        PROVE  \/ mem'[y][x] <= chain'[x] \/ mem'[y][x] <= held'[y][x]
               \/ Holding(y, x)' /\ mem'[y][x] = orders'[x]
    <3>1. CASE y = n /\ x = h
      BY <1>2, <1>4, <3>1
    <3>2. CASE ~(y = n /\ x = h)
      <4>1. mem'[y][x] = mem[y][x] /\ held'[y][x] = held[y][x]
        BY <1>2, <3>2
      <4>2. CASE mem[y][x] <= chain[x] \/ mem[y][x] <= held[y][x]
        BY <1>2, <1>3, <1>4, <4>1, <4>2
      <4>3. CASE Holding(y, x) /\ mem[y][x] = orders[x]
        <5>1. Holding(y, x)'
          BY <3>2, <4>3, HoldKept
        <5>2. orders'[x] = orders[x]
          BY <1>2, <1>4, <4>3 DEF LeaseFree
        <5> QED BY <4>1, <4>3, <5>1, <5>2
      <4> QED BY <4>2, <4>3 DEF Backed
    <3> QED BY <3>1, <3>2
  <2> QED BY <2>1 DEF Backed
<1>8. ASSUME NEW y \in Node, NEW x \in Host, At(y, x, "leaf")
      PROVE  mem'[y][x] <= chain'[x] \/ <<x, mem'[y][x]>> \in crossed'
  <2>1. mem[y][x] <= chain'[x] \/ <<x, mem[y][x]>> \in crossed'
    BY <1>1, <1>3, <1>5, <1>8, SoundLater DEF Reading
  <2>2. \/ mem'[y][x] = mem[y][x]
        \/ y = n /\ x = h /\ mem'[y][x] = m /\ chain'[x] = c /\ (m <= c \/ <<h, m>> \in crossed')
    BY <1>2, <1>4, <1>8
  <2> QED BY <2>1, <2>2
<1> QED BY <1>1, <1>5, <1>6, <1>7, <1>8

-----------------------------------------------------------------------------
(* What recordIssued reads, and what enters the indexes *)

\* A worker at recordIssued goes on only with what may be announced: nothing is pending,
\* so memory's chain is in storage, or a handshake is in hold with it.
LEMMA RecordReads ==
  ASSUME IInv, NEW n \in Node, NEW h \in Host, RecordIssued(n, h), held[n][h] = 0
  PROVE  mem'[n][h] <= chain'[h] \/ <<h, mem'[n][h]>> \in crossed'
<1>0. UNCHANGED <<chain, mem>> /\ chain[h] \in Nat /\ mem[n][h] \in Nat
  BY DEF RecordIssued, storage, cache, IInv, Chains, Expiries
<1>1. CASE mem[n][h] <= chain[h] \/ mem[n][h] <= held[n][h]
  BY <1>0, <1>1
<1>2. CASE Holding(n, h) /\ mem[n][h] = orders[h]
  <2>1. shake[n][h] = "hold"
    BY <1>2 DEF Holding, RecordIssued, At
  <2>2. <<h, orders[h]>> \in crossed'
    BY <2>1 DEF RecordIssued
  <2> QED BY <1>0, <1>2, <2>2
<1> QED BY <1>1, <1>2 DEF IInv, Backed

\* Reading survives a step after which workers read, or have read, what they had or
\* what may be announced.
LEMMA ReadingLater ==
  ASSUME IInv, Chains', Grows,
         \A y \in Node, x \in Host :
           \/ /\ worker'[y][x] = worker[y][x]
              /\ At(y, x, "leaf") => mem'[y][x] <= chain'[x] \/ <<x, mem'[y][x]>> \in crossed'
           \/ worker'[y][x].pc \notin {"leaf", "index"}
           \/ /\ worker'[y][x].pc = "leaf"
              /\ mem'[y][x] <= chain'[x] \/ <<x, mem'[y][x]>> \in crossed'
           \/ worker'[y][x].pc = "index" /\ At(y, x, "leaf") /\ worker'[y][x].leaf = mem[y][x]
  PROVE  Reading'
<1> USE DEF IInv
<1>1. ASSUME NEW y \in Node, NEW x \in Host
      PROVE  /\ worker'[y][x].pc = "leaf"
                  => mem'[y][x] <= chain'[x] \/ <<x, mem'[y][x]>> \in crossed'
             /\ worker'[y][x].pc = "index"
                  => \/ worker'[y][x].leaf <= chain'[x]
                     \/ <<x, worker'[y][x].leaf>> \in crossed'
  <2>0. worker[y][x].leaf \in Nat /\ mem[y][x] \in Nat
    BY DEF Goroutines, WorkerState, Chains, Expiries
  <2>1. At(y, x, "index") =>
          worker[y][x].leaf <= chain'[x] \/ <<x, worker[y][x].leaf>> \in crossed'
    BY <2>0, SoundLater DEF Reading
  <2>2. At(y, x, "leaf") => mem[y][x] <= chain'[x] \/ <<x, mem[y][x]>> \in crossed'
    BY <2>0, SoundLater DEF Reading
  <2> QED BY <2>1, <2>2 DEF At
<1> QED BY <1>1 DEF Reading, At, Sound

\* The index survives a step that leaves it alone.
LEMMA TruthfulLater ==
  ASSUME IInv, Chains', Grows,
         NEW n \in Node, NEW put \in Expiries \cup {None}, put # None => Stored(put),
         NEW noted \in Expiries, Stored(noted), NEW published \in Expiries, Stored(published),
         indexPut' = [indexPut EXCEPT ![n] = put], index' = [index EXCEPT ![n] = noted],
         certIndex' = published
  PROVE  Truthful'
<1> USE DEF IInv
<1>1. ASSUME NEW e \in Expiries, Stored(e)
      PROVE  \A x \in Host : e[x] <= chain'[x] \/ <<x, e[x]>> \in crossed'
  BY <1>1, SoundLater DEF Expiries, Stored
<1>2. /\ certIndex' \in Expiries /\ index' \in [Node -> Expiries]
      /\ indexPut' \in [Node -> Expiries \cup {None}]
  BY DEF Truthful
<1>3. ASSUME NEW y \in Node
      PROVE  /\ index'[y] \in Expiries /\ Stored(index'[y])
             /\ indexPut'[y] # None => indexPut'[y] \in Expiries /\ Stored(indexPut'[y])
  BY DEF Truthful
<1>4. \A x \in Host : certIndex'[x] <= chain'[x] \/ <<x, certIndex'[x]>> \in crossed'
  BY <1>1
<1>5. ASSUME NEW y \in Node
      PROVE  /\ \A x \in Host : index'[y][x] <= chain'[x] \/ <<x, index'[y][x]>> \in crossed'
             /\ indexPut'[y] # None =>
                  \A x \in Host : indexPut'[y][x] <= chain'[x] \/ <<x, indexPut'[y][x]>> \in crossed'
  BY <1>1, <1>3, Zenon
<1> QED BY <1>2, <1>4, <1>5, Zenon DEF Truthful, Stored, Sound

\* What is in the indexes already.
LEMMA Noted ==
  ASSUME IInv, NEW n \in Node
  PROVE  /\ certIndex \in Expiries /\ Stored(certIndex)
         /\ index[n] \in Expiries /\ Stored(index[n])
         /\ indexPut[n] \in Expiries \cup {None} /\ (indexPut[n] # None => Stored(indexPut[n]))
         /\ index = [index EXCEPT ![n] = index[n]]
         /\ indexPut = [indexPut EXCEPT ![n] = indexPut[n]]
BY DEF IInv, Truthful

\* What enters an index: the published one as it is, or what recordIssued has read
\* (noteRefreshed, noteIssued).
LEMMA HostIndex ==
  ASSUME IInv, Chains', Grows, NEW n \in Node, NEW h \in Host, HostAct(n, h) \/ ShakeAct(n, h)
  PROVE  Truthful'
<1>0. certIndex' = certIndex
  BY HostKeeps, ShakeKeeps
<1>1. CASE NoteRefreshed(n, h)
  <2> DEFINE noted == [index[n] EXCEPT ![h] = certIndex[h]]
  <2>1. noted \in Expiries /\ Stored(noted)
    BY Noted DEF Expiries, Stored
  <2>2. index' = [index EXCEPT ![n] = noted] /\ indexPut' = indexPut
    BY <1>1 DEF NoteRefreshed
  <2> HIDE DEF noted
  <2> QED BY <1>0, <2>1, <2>2, Noted, TruthfulLater
<1>2. CASE NoteIssued(n, h)
  <2> DEFINE noted == [index[n] EXCEPT ![h] = worker[n][h].leaf]
  <2>1. worker[n][h].leaf \in Nat /\ Sound(h, worker[n][h].leaf)
    BY <1>2 DEF NoteIssued, IInv, Goroutines, WorkerState, Reading
  <2>2. noted \in Expiries /\ Stored(noted)
    BY <2>1, Noted DEF Expiries, Stored
  <2>3. index' = [index EXCEPT ![n] = noted] /\ indexPut' = [indexPut EXCEPT ![n] = noted]
    BY <1>2, Zenon DEF NoteIssued
  <2> HIDE DEF noted
  <2> QED BY <1>0, <2>2, <2>3, Noted, TruthfulLater
<1>3. CASE ~NoteRefreshed(n, h) /\ ~NoteIssued(n, h)
  <2>1. UNCHANGED <<index, indexPut>>
    <3>1. CASE ShakeAct(n, h)
      BY <3>1, ShakeKeeps DEF indexes
    <3>2. CASE HostAct(n, h)
      BY <1>3, <3>2, Zenon DEF HostAct, FlushOne, FlushFails, RefreshHost, AnnounceStored,
         LoadHost, RecordIssued, LeafNotAfter, RunHost, LeaseHeld, GiveUp, IssueHost,
         IssueHostNotStored, HoldHost, indexes
    <3> QED BY <3>1, <3>2
  <2> QED BY <1>0, <2>1, Noted, TruthfulLater
<1> QED BY <1>1, <1>2, <1>3

\* Steps for a hostname, of a worker or a handshake, keep the invariant.
LEMMA HostInv ==
  ASSUME IInv, Goroutines', NEW n \in Node, NEW h \in Host, HostAct(n, h) \/ ShakeAct(n, h)
  PROVE  IInv'
<1>1. /\ Chains' /\ Ordered' /\ Backed' /\ Grows
      /\ \A y \in Node, x \in Host :
           At(y, x, "leaf") => mem'[y][x] <= chain'[x] \/ <<x, mem'[y][x]>> \in crossed'
  BY WriteStep
<1>2. Truthful'
  BY <1>1, HostIndex
<1>3. Reading'
  <2>1. CASE worker' = worker
    BY <1>1, <2>1, ReadingLater
  <2>2. ASSUME NEW r \in WorkerState, worker' = [worker EXCEPT ![n][h] = r],
               r.pc = "leaf" => RecordIssued(n, h) /\ held[n][h] = 0,
               r.pc = "index" => LeafNotAfter(n, h) /\ r.leaf = mem[n][h]
        PROVE  Reading'
    <3>1. /\ worker'[n][h] = r
          /\ \A y \in Node, x \in Host : y # n \/ x # h => worker'[y][x] = worker[y][x]
      BY <2>2 DEF IInv, Goroutines
    <3>2. r.pc = "leaf" => mem'[n][h] <= chain'[h] \/ <<h, mem'[n][h]>> \in crossed'
      BY <2>2, RecordReads
    <3>3. r.pc = "index" => At(n, h, "leaf") /\ r.leaf = mem[n][h]
      BY <2>2 DEF LeafNotAfter
    <3> QED BY <1>1, <3>1, <3>2, <3>3, ReadingLater
  <2> QED BY <2>1, <2>2, WorkerMoves, ShakeKeeps DEF IInv
<1> QED BY <1>1, <1>2, <1>3 DEF IInv

\* A pass writes no chains: what it publishes is what was noted (publishIndex,
\* republishIndexIfDirty).
LEMMA PassInv == ASSUME IInv, Goroutines', NEW n \in Node, PassAct(n) PROVE IInv'
<1>0. UNCHANGED <<chain, orders, mem, held, shake, crossed>>
  BY PassKeeps DEF cache
<1>1. PICK f \in [Host -> WorkerState] :
        /\ worker' = [worker EXCEPT ![n] = f]
        /\ \A x \in Host : \/ f[x] = worker[n][x]
                           \/ f[x].pc \in {"off", "start"} /\ ~At(n, x, "hold")
  BY PassMoves DEF IInv
<1>2. \A y \in Node, x \in Host : worker'[y][x] = IF y = n THEN f[x] ELSE worker[y][x]
  BY <1>1 DEF IInv, Goroutines
<1>3. Chains' /\ Ordered' /\ Grows
  BY <1>0 DEF IInv, Chains, Expiries, Ordered, Grows
<1>4. Backed'
  <2>1. \A y \in Node, x \in Host : Holding(y, x) => Holding(y, x)'
    BY <1>0, <1>1, <1>2 DEF Holding, At
  <2> QED BY <1>0, <2>1 DEF IInv, Backed
<1>5. Reading'
  <2>1. \A y \in Node, x \in Host : At(y, x, "leaf") =>
          mem'[y][x] <= chain'[x] \/ <<x, mem'[y][x]>> \in crossed'
    BY <1>0 DEF IInv, Reading, Sound
  <2>2. \A y \in Node, x \in Host :
          worker'[y][x] = worker[y][x] \/ worker'[y][x].pc \notin {"leaf", "index"}
    BY <1>1, <1>2
  <2> QED BY <1>3, <2>1, <2>2, ReadingLater
<1>6. Truthful'
  <2>1. CASE PublishIndex(n) \/ PublishIndexFails(n)
    <3>1. /\ indexPut' = [indexPut EXCEPT ![n] = None] /\ index' = index /\ indexPut[n] # None
          /\ certIndex' = certIndex \/ certIndex' = indexPut[n]
      BY <2>1 DEF PublishIndex, PublishIndexFails, Landed
    <3> QED BY <1>3, <3>1, Noted, TruthfulLater
  <2>2. CASE FlushEnds(n) \/ AnnounceEnds(n)
    <3>1. /\ index' = index /\ certIndex' = certIndex
          /\ indexPut' = indexPut \/ indexPut' = [indexPut EXCEPT ![n] = index[n]]
      BY <2>2, Zenon DEF FlushEnds, AnnounceEnds, Republish, storage
    <3> QED BY <1>3, <3>1, Noted, TruthfulLater
  <2>3. CASE Tick(n) \/ ChangedSince(n) \/ Classify(n)
    <3>1. UNCHANGED <<certIndex, index, indexPut>>
      BY <2>3, Zenon DEF Tick, ChangedSince, Classify, storage, indexes
    <3> QED BY <1>3, <3>1, Noted, TruthfulLater
  <2> QED BY <2>1, <2>2, <2>3 DEF PassAct
<1> QED BY <1>3, <1>4, <1>5, <1>6 DEF IInv

\* A process that starts again serves and holds nothing, and has noted nothing, or what
\* is published.
LEMMA RestartInv == ASSUME IInv, Goroutines', NEW n \in Node, Restart(n) PROVE IInv'
<1>0. /\ UNCHANGED <<certIndex, chain, orders, crossed>> /\ Zero \in Expiries
      /\ mem' = [mem EXCEPT ![n] = Zero] /\ held' = [held EXCEPT ![n] = Zero]
      /\ indexPut' = [indexPut EXCEPT ![n] = None]
      /\ worker' = [worker EXCEPT ![n] = [h \in Host |-> Off]]
      /\ shake' = [shake EXCEPT ![n] = [h \in Host |-> "off"]]
  BY DEF Restart, storage, Zero, Expiries
<1>1. PICK read \in {Zero, certIndex} : index' = [index EXCEPT ![n] = read]
  BY Zenon DEF Restart
<1>2. \A h \in Host : Zero[h] = 0
  BY DEF Zero
<1>3. /\ \A y \in Node : mem'[y] = (IF y = n THEN Zero ELSE mem[y])
                         /\ held'[y] = (IF y = n THEN Zero ELSE held[y])
      /\ \A y \in Node, x \in Host :
           /\ worker'[y][x] = IF y = n THEN Off ELSE worker[y][x]
           /\ y # n => shake'[y][x] = shake[y][x]
  BY <1>0 DEF IInv, Chains, Goroutines
<1>4. Chains' /\ Grows
  BY <1>0 DEF IInv, Chains, Expiries, Grows
<1>5. Ordered'
  BY <1>0, <1>2, <1>3 DEF IInv, Chains, Expiries, Ordered
<1>6. Backed'
  <2>1. \A y \in Node, x \in Host : y # n /\ Holding(y, x) => Holding(y, x)'
    BY <1>3 DEF Holding
  <2>2. \A x \in Host : mem'[n][x] <= chain'[x]
    BY <1>0, <1>2, <1>3 DEF IInv, Chains, Expiries
  <2>3. \A y \in Node : y # n => mem'[y] = mem[y] /\ held'[y] = held[y]
    BY <1>3, Zenon
  <2>4. chain' = chain /\ orders' = orders
    BY <1>0
  <2>5. ASSUME NEW y \in Node, NEW x \in Host
        PROVE  \/ mem'[y][x] <= chain'[x] \/ mem'[y][x] <= held'[y][x]
               \/ Holding(y, x)' /\ mem'[y][x] = orders'[x]
    <3>1. CASE y = n
      BY <2>2, <3>1, Zenon
    <3>2. CASE y # n
      <4>1. \/ mem[y][x] <= chain[x] \/ mem[y][x] <= held[y][x]
            \/ Holding(y, x) /\ mem[y][x] = orders[x]
        BY Zenon DEF IInv, Backed
      <4>2. mem'[y] = mem[y] /\ held'[y] = held[y]
        BY <2>3, <3>2, Zenon
      <4> QED BY <2>1, <2>4, <3>2, <4>1, <4>2, Zenon
    <3> QED BY <3>1, <3>2
  <2> QED BY <2>5, Zenon DEF Backed
<1>7. Reading'
  <2>0. (\A y \in Node : y # n => mem'[y] = mem[y]) /\ chain' = chain /\ crossed' = crossed
    BY <1>0, <1>3
  <2>1. \A y \in Node, x \in Host : y # n /\ At(y, x, "leaf") =>
          mem'[y][x] <= chain'[x] \/ <<x, mem'[y][x]>> \in crossed'
    BY <1>0, <2>0, Zenon DEF IInv, Reading, Sound
  <2>2. Off.pc \notin {"leaf", "index"}
    BY DEF Off
  <2> QED BY <1>3, <1>4, <2>1, <2>2, ReadingLater
<1>8. Truthful'
  <2>1. Stored(Zero)
    BY <1>2 DEF Stored, Sound, IInv, Chains, Expiries
  <2> QED BY <1>0, <1>1, <1>4, <2>1, Noted, TruthfulLater
<1> QED BY <1>4, <1>5, <1>6, <1>7, <1>8 DEF IInv

\* Every step keeps the invariant.
LEMMA StepInv == IInv /\ [Next]_vars => IInv'
<1> SUFFICES ASSUME IInv, [Next]_vars PROVE IInv'
  OBVIOUS
<1>1. Goroutines'
  BY GoroutinesStep DEF IInv
<1>2. CASE Apart
  <2>1. UNCHANGED <<certIndex, chain, orders, index, indexPut, mem, held, worker, shake, crossed>>
    BY <1>2, ApartKeeps DEF storage, cache
  <2> QED BY <2>1 DEF IInv, Chains, Goroutines, Ordered, Backed, Holding, Reading, At, Truthful,
       Stored, Sound
<1> QED BY <1>1, <1>2, Steps, HostInv, PassInv, RestartInv

-----------------------------------------------------------------------------
\* What the published index, and every process's copy of it, says of a hostname is
\* in storage or crossed (recordIssued, noteRefreshed, publishIndex).
THEOREM InvHolds == Spec => []IInv
BY InitInv, StepInv, PTL DEF Spec

\* The published index never names a chain newer than the one in storage, although
\* processes publish whole copies of it over one another (publishIndex), but for a
\* chain that came to be held while recordIssued was between its two looks.
THEOREM IndexDescribesStorageHolds == Spec => []IndexDescribesStorage
<1>1. IInv => IndexDescribesStorage
  BY DEF IInv, Truthful, Stored, Sound, IndexDescribesStorage
<1> QED BY <1>1, InvHolds, PTL

-----------------------------------------------------------------------------
(* The bounds and the control state *)

PassState ==
  [pc : {"flush", "diff", "announce", "load", "run"}, todo : SUBSET Host, done : SUBSET Host]

\* What TypeOK leaves open of the control state, and the one bound on orders.
Control ==
  /\ \A h \in Host : orders[h] <= MaxOrders
  /\ leaders \in SUBSET Node /\ faults \in 0 .. MaxFaults
  /\ due \in [Host -> 0 .. MaxDue]
  /\ allow \in [Node -> SUBSET Host] /\ dirty \subseteq Node
  /\ tokens \in [Node -> 0 .. MaxTokens]
  /\ pass \in [Node -> PassState]

\* No orders beyond the bound are placed (Order).
LEMMA OrdersStep ==
  ASSUME IInv, Control, [Next]_vars
  PROVE  \A x \in Host : orders'[x] <= MaxOrders
<1>0. orders \in Expiries /\ \A x \in Host : orders[x] <= MaxOrders
  BY DEF IInv, Chains, Control
<1>1. ASSUME orders' = orders PROVE \A x \in Host : orders'[x] <= MaxOrders
  BY <1>0, <1>1
<1>2. ASSUME NEW h \in Host, Order(h) PROVE \A x \in Host : orders'[x] <= MaxOrders
  BY <1>0, <1>2, OnDemandAssumption DEF Order, Expiries
<1>3. ASSUME NEW n \in Node, Restart(n) \/ PassAct(n) PROVE orders' = orders
  BY <1>3, PassKeeps DEF Restart, storage
<1>4. ASSUME NEW n \in Node, NEW h \in Host, HostAct(n, h) PROVE orders' = orders \/ Order(h)
  BY <1>4, Zenon DEF HostAct, FlushOne, FlushFails, RefreshHost, AnnounceStored, LoadHost,
     NoteRefreshed, RecordIssued, LeafNotAfter, NoteIssued, RunHost, LeaseHeld, GiveUp, IssueHost,
     IssueHostNotStored, HoldHost, Issued, IssuedNotStored, storage
<1>5. ASSUME NEW n \in Node, NEW h \in Host, ShakeAct(n, h) PROVE orders' = orders \/ Order(h)
  BY <1>5, Zenon DEF ShakeAct, GetCertificate, Obtain, ShakeIssue, ShakeIssueNotStored, ShakeHolds,
     ShakeGivesUp, Issued, IssuedNotStored, storage
<1>6. ASSUME Apart PROVE orders' = orders
  BY <1>6, ApartKeeps DEF storage
<1> QED BY <1>1, <1>2, <1>3, <1>4, <1>5, <1>6, Steps

\* The bucket counts an order only when it has one left, whoever takes it
\* (tokenBucket.take, for a worker of the pass or for a handshake).
LEMMA TokensStep ==
  ASSUME Control, [Next]_vars
  PROVE  tokens' \in [Node -> 0 .. MaxTokens]
<1> USE OnDemandAssumption
<1>0. tokens \in [Node -> 0 .. MaxTokens]
  BY DEF Control
<1>1. ASSUME NEW n \in Node,
             \/ tokens' = tokens
             \/ tokens' = [tokens EXCEPT ![n] = @ + 1] /\ TokenLeft(n)
             \/ tokens' = [tokens EXCEPT ![n] = @ - 1] /\ tokens[n] > 0
             \/ tokens' = [tokens EXCEPT ![n] = 0]
             \/ tokens' = [tokens EXCEPT ![n] = @]
      PROVE  tokens' \in [Node -> 0 .. MaxTokens]
  BY <1>0, <1>1 DEF TokenLeft
<1>2. ASSUME NEW n \in Node, Restart(n) \/ PassAct(n)
      PROVE  tokens' \in [Node -> 0 .. MaxTokens]
  BY <1>1, <1>2, PassKeeps DEF Restart
<1>3. ASSUME NEW n \in Node, NEW h \in Host, RunHost(n, h)
      PROVE  tokens' \in [Node -> 0 .. MaxTokens]
  BY <1>1, <1>3, Zenon DEF RunHost
<1>4. ASSUME NEW n \in Node, NEW h \in Host, HostAct(n, h), ~RunHost(n, h)
      PROVE  tokens' = tokens
  BY <1>4, Zenon DEF HostAct, FlushOne, FlushFails, RefreshHost, AnnounceStored, LoadHost,
     NoteRefreshed, RecordIssued, LeafNotAfter, NoteIssued, LeaseHeld, GiveUp, IssueHost,
     IssueHostNotStored, HoldHost
<1>5. ASSUME NEW n \in Node, NEW h \in Host, ShakeAct(n, h)
      PROVE  tokens' \in [Node -> 0 .. MaxTokens]
  BY <1>1, <1>5, Zenon DEF ShakeAct, GetCertificate, Obtain, ShakeIssue, ShakeIssueNotStored,
     ShakeHolds, ShakeGivesUp
<1>6. ASSUME Apart PROVE tokens' \in [Node -> 0 .. MaxTokens]
  <2>1. \/ tokens' = tokens
        \/ \E n \in Node : tokens' = [tokens EXCEPT ![n] = @ - 1] /\ tokens[n] > 0
    BY <1>6, Zenon DEF Apart, RefreshAllowSet, WindowSlides, Elect, Age, vars
  <2> QED BY <1>0, <1>1, <2>1
<1> QED BY <1>0, <1>2, <1>3, <1>4, <1>5, <1>6, Steps

\* Leadership, faults, time, the allow-set and the dirty mark keep their types.
LEMMA PlainStep ==
  ASSUME Control, [Next]_vars
  PROVE  /\ leaders' \in SUBSET Node /\ faults' \in 0 .. MaxFaults
         /\ due' \in [Host -> 0 .. MaxDue]
         /\ allow' \in [Node -> SUBSET Host] /\ dirty' \subseteq Node
<1> USE OnDemandAssumption
<1> DEFINE Plain ==
      /\ leaders' \in SUBSET Node /\ faults' \in 0 .. MaxFaults
      /\ due' \in [Host -> 0 .. MaxDue]
      /\ allow' \in [Node -> SUBSET Host] /\ dirty' \subseteq Node
<1>0. /\ leaders \in SUBSET Node /\ faults \in 0 .. MaxFaults
      /\ due \in [Host -> 0 .. MaxDue]
      /\ allow \in [Node -> SUBSET Host] /\ dirty \subseteq Node
  BY DEF Control
<1>1. ASSUME NEW n \in Node, RefreshAllowSet(n) \/ WindowSlides(n) PROVE Plain
  BY <1>0, <1>1 DEF RefreshAllowSet, WindowSlides, indexes, env
<1>2. ASSUME NEW n \in Node, Restart(n) PROVE Plain
  BY <1>0, <1>2 DEF Restart, Fault, env
<1>3. ASSUME NEW n \in Node, PassAct(n) PROVE Plain
  <2>1. dirty' = dirty \/ dirty' = dirty \ {n} \/ dirty' = dirty \cup {n}
    BY <1>3, Zenon DEF PassAct, Tick, FlushEnds, ChangedSince, AnnounceEnds, Classify, PublishIndex,
       PublishIndexFails, indexes
  <2> QED BY <1>0, <1>3, <2>1, PassKeeps
<1>4. ASSUME NEW n \in Node, NEW h \in Host, HostAct(n, h) \/ ShakeAct(n, h) PROVE Plain
  BY <1>0, <1>4, HostKeeps, ShakeKeeps DEF indexes
<1>5. ASSUME Elect PROVE Plain
  BY <1>0, <1>5 DEF Elect, Fault, indexes
<1>6. ASSUME NEW h \in Host, Age(h) PROVE Plain
  BY <1>0, <1>6 DEF Age, indexes
<1>7. ASSUME UNCHANGED vars PROVE Plain
  BY <1>0, <1>7 DEF vars
<1> HIDE DEF Plain
<1>8. Plain
  BY <1>1, <1>2, <1>3, <1>4, <1>5, <1>6, <1>7, Steps DEF Apart
<1> QED BY <1>8 DEF Plain

\* The stages of a pass (Goto, NextHost).
LEMMA PassTypes ==
  ASSUME Control, [Next]_vars
  PROVE  pass' \in [Node -> PassState]
<1>0. pass \in [Node -> PassState] /\ allow \in [Node -> SUBSET Host]
  BY DEF Control
<1>1. ASSUME NEW n \in Node, NEW r \in PassState, pass' = [pass EXCEPT ![n] = r]
      PROVE  pass' \in [Node -> PassState]
  BY <1>0, <1>1
<1>2. ASSUME NEW n \in Node, NEW label \in {"flush", "diff", "announce", "load", "run"},
             NEW todo \in SUBSET Host, Goto(n, label, todo)
      PROVE  pass' \in [Node -> PassState]
  <2>1. [pc |-> label, todo |-> todo, done |-> {}] \in PassState
    BY Zenon DEF PassState
  <2> QED BY <1>1, <1>2, <2>1, Zenon DEF Goto
<1>3. ASSUME NEW n \in Node, NEW h \in Host, NextHost(n, h)
      PROVE  pass' \in [Node -> PassState]
  <2> DEFINE r == [pass[n] EXCEPT !.todo = @ \ {h}]
  <2>1. pass[n] \in PassState
    BY <1>0
  <2>2. r \in PassState
    BY <2>1 DEF PassState
  <2>3. pass' = [pass EXCEPT ![n] = r]
    BY <1>3 DEF NextHost
  <2> HIDE DEF r
  <2> QED BY <1>1, <2>2, <2>3, Zenon
<1>4. ASSUME NEW n \in Node, PassAct(n) PROVE pass' \in [Node -> PassState]
  <2>1. ASSUME Republish(n) PROVE pass' \in [Node -> PassState]
    <3>1. allow[n] \in SUBSET Host
      BY <1>0
    <3> QED BY <1>2, <2>1, <3>1, Zenon DEF Republish
  <2>2. CASE Tick(n)
    BY <1>2, <2>2 DEF Tick
  <2>3. CASE FlushEnds(n)
    <3>1. pass[n].done \in SUBSET Host
      BY <1>0 DEF PassState
    <3> QED BY <1>2, <2>1, <2>3, <3>1, Zenon DEF FlushEnds
  <2>4. CASE ChangedSince(n)
    <3>1. /\ {h \in allow[n] : certIndex[h] # index[n][h]} \in SUBSET Host
          /\ allow[n] \in SUBSET Host
      BY <1>0
    <3> QED BY <1>2, <2>4, <3>1, Zenon DEF ChangedSince
  <2>5. CASE AnnounceEnds(n)
    BY <2>1, <2>5, Zenon DEF AnnounceEnds
  <2>6. CASE Classify(n)
    BY <1>2, <2>6, Zenon DEF Classify
  <2>7. CASE PublishIndex(n) \/ PublishIndexFails(n)
    BY <1>0, <2>7, Zenon DEF PublishIndex, PublishIndexFails
  <2> QED BY <1>4, <2>2, <2>3, <2>4, <2>5, <2>6, <2>7 DEF PassAct
<1>5. ASSUME NEW n \in Node, NEW h \in Host, FlushOne(n, h)
      PROVE  pass' \in [Node -> PassState]
  <2>1. PICK more \in SUBSET {h} :
          pass' = [pass EXCEPT ![n].todo = @ \ {h}, ![n].done = @ \cup more]
    <3>1. pass[n].done = pass[n].done \cup {}
      OBVIOUS
    <3>2. CASE chain[h] < held[n][h]
      BY <1>5, <3>2, Zenon DEF FlushOne
    <3>3. CASE ~(chain[h] < held[n][h])
      BY <1>5, <3>1, <3>3, Zenon DEF FlushOne
    <3> QED BY <3>2, <3>3, Zenon
  <2> DEFINE r == [pass[n] EXCEPT !.todo = @ \ {h}, !.done = @ \cup more]
  <2>2. pass[n] \in PassState
    BY <1>0
  <2>3. r \in PassState
    BY <2>2, Zenon DEF PassState
  <2>4. pass' = [pass EXCEPT ![n] = r]
    BY <2>1, Zenon
  <2> HIDE DEF r
  <2> QED BY <1>1, <2>3, <2>4, Zenon
<1>6. ASSUME NEW n \in Node, NEW h \in Host, HostAct(n, h), ~FlushOne(n, h)
      PROVE  pass' = pass \/ NextHost(n, h)
  BY <1>6, Zenon DEF HostAct, FlushFails, RefreshHost, AnnounceStored, LoadHost, NoteRefreshed,
     RecordIssued, LeafNotAfter, NoteIssued, RunHost, LeaseHeld, GiveUp, IssueHost,
     IssueHostNotStored, HoldHost
<1>7. ASSUME NEW n \in Node, Restart(n) PROVE pass' \in [Node -> PassState]
  <2>1. NoPass \in PassState
    BY Zenon DEF NoPass, PassState
  <2> QED BY <1>1, <1>7, <2>1, Zenon DEF Restart
<1> QED BY <1>0, <1>3, <1>4, <1>5, <1>6, <1>7, Steps, ShakeKeeps, ApartKeeps

\* The whole state has its types: every expiry in storage, in memory, held, noted or on
\* its way is of an order that was placed, and the bucket never holds more orders than
\* the budget has, although workers and handshakes draw on it together.
THEOREM TypeCorrect == Spec => []TypeOK
<1>1. Init => Control
  <2> SUFFICES ASSUME Init PROVE Control
    OBVIOUS
  <2> USE OnDemandAssumption DEF Init
  <2>1. /\ \A h \in Host : orders[h] <= MaxOrders
        /\ leaders \in SUBSET Node /\ faults \in 0 .. MaxFaults
        /\ due \in [Host -> 0 .. MaxDue] /\ tokens \in [Node -> 0 .. MaxTokens]
    BY DEF Zero
  <2>2. allow \in [Node -> SUBSET Host] /\ dirty \subseteq Node
    BY Zenon
  <2>3. pass \in [Node -> PassState]
    BY Zenon DEF NoPass, PassState
  <2> QED BY <2>1, <2>2, <2>3, Zenon DEF Control
<1>2. IInv /\ Control /\ [Next]_vars => Control'
  BY OrdersStep, TokensStep, PlainStep, PassTypes, Zenon DEF Control
<1>3. IInv /\ Control => TypeOK
  <2> SUFFICES ASSUME IInv, Control PROVE TypeOK
    OBVIOUS
  <2> USE OnDemandAssumption
  <2>1. ASSUME NEW e \in Expiries, \A h \in Host : e[h] <= MaxOrders
        PROVE  e \in [Host -> 0 .. MaxOrders]
    BY <2>1 DEF Expiries
  <2>2. /\ certIndex \in Expiries /\ chain \in Expiries /\ orders \in Expiries
        /\ \A n \in Node : index[n] \in Expiries /\ mem[n] \in Expiries /\ held[n] \in Expiries
    BY DEF IInv, Chains, Truthful
  <2>3. \A h \in Host : orders[h] <= MaxOrders /\ chain[h] <= MaxOrders
    BY <2>2 DEF IInv, Ordered, Control, Expiries
  <2>4. ASSUME NEW e \in Expiries, Stored(e) PROVE e \in [Host -> 0 .. MaxOrders]
    <3>1. ASSUME NEW h \in Host PROVE e[h] <= MaxOrders
      <4>0. e[h] \in Nat /\ chain[h] \in Nat /\ orders[h] \in Nat
        BY <2>2 DEF Expiries
      <4>1. CASE e[h] <= chain[h]
        BY <2>3, <4>0, <4>1
      <4>2. CASE <<h, e[h]>> \in crossed
        <5>1. e[h] <= orders[h]
          BY <4>0, <4>2 DEF IInv, Ordered
        <5> QED BY <2>3, <4>0, <5>1
      <4> QED BY <2>4, <4>1, <4>2 DEF Stored, Sound
    <3> QED BY <2>1, <3>1
  <2>5. {certIndex, chain, orders} \subseteq [Host -> 0 .. MaxOrders]
    BY <2>1, <2>2, <2>3, <2>4, Zenon DEF IInv, Truthful
  <2>6. ASSUME NEW n \in Node
        PROVE  /\ index[n] \in [Host -> 0 .. MaxOrders]
               /\ mem[n] \in [Host -> 0 .. MaxOrders] /\ held[n] \in [Host -> 0 .. MaxOrders]
    <3>1. index[n] \in [Host -> 0 .. MaxOrders]
      BY <2>2, <2>4, Zenon DEF IInv, Truthful
    <3>2. \A h \in Host : held[n][h] <= MaxOrders
      BY <2>2, <2>3 DEF IInv, Ordered, Expiries
    <3>3. \A h \in Host : mem[n][h] <= MaxOrders
      BY <2>2, <2>3, <3>2 DEF IInv, Backed, Expiries
    <3> QED BY <2>1, <2>2, <3>1, <3>2, <3>3, Zenon
  <2>7. {index, mem, held} \subseteq [Node -> [Host -> 0 .. MaxOrders]]
    BY <2>6 DEF IInv, Chains, Truthful
  <2>8. \A n \in Node : indexPut[n] = None \/ indexPut[n] \in [Host -> 0 .. MaxOrders]
    BY <2>4, Zenon DEF IInv, Truthful
  <2>9. /\ \A n \in Node : pass[n].pc \in {"flush", "diff", "announce", "load", "run"}
        /\ \A n \in Node, h \in Host :
             /\ worker[n][h].pc \in {"off", "note", "start", "issue", "hold",
                                     "record", "leaf", "index", "put"}
             /\ shake[n][h] \in {"off", "obtain", "issue", "hold"}
    BY DEF IInv, Goroutines, Control, PassState, WorkerState, WorkerPc, ShakePc
  <2> QED BY <2>5, <2>7, <2>8, <2>9, Zenon DEF TypeOK, Control
<1> QED BY <1>1, <1>2, <1>3, InvHolds, PTL DEF Spec
=============================================================================
