-------------------------- MODULE KeyCeremonyProofs --------------------------
(***************************************************************************)
(* Proofs about KeyCeremony, for any processes, goroutines, keys, orders,  *)
(* crashes and changes of leadership.                                      *)
(*                                                                         *)
(* With one operation at a time (OneAtATime) a goroutine at work is alone, *)
(* and what it has read it can rely on: the key it has in hand is the live *)
(* or the staged one, the stored chain is for the staged key from the mark *)
(* to the promotion, and the live key's digest is on record from the mark  *)
(* on, since nobody cleans up meanwhile; when soaks run out is left open.  *)
(* Within one process the mutex alone keeps the retiring markers, whatever *)
(* overlaps, and a goroutine always has in hand what its next step writes  *)
(* (AllEquipped).                                                          *)
(***************************************************************************)
EXTENDS KeyCeremony, TLAPS

Op == {"none", "replace", "activate", "renew", "flush", "reconcile", "cleanup"}
Pc == {"idle", "putNext", "loadLive", "lease", "loadNext", "order", "store", "mark",
       "markWrite", "check", "promote", "putLive", "removeNext", "compare", "write",
       "loadChain", "dropWrite"}
KeyOrNone == Key \cup {None}
SomeChain == [key : KeyOrNone, seq : Nat] \cup {None}
State == [op : Op, pc : Pc, key : KeyOrNone, chain : SomeChain, kept : SUBSET KeyOrNone]

Values ==
  /\ live \in KeyOrNone /\ next \in KeyOrNone /\ chain \in SomeChain
  /\ minted \in Nat /\ orders \in Nat /\ retiring \subseteq KeyOrNone
  /\ mem \in [Node -> SomeChain] /\ held \in [Node -> SomeChain]
  /\ seen \in [Node -> SomeChain]

\* Only operations that take the lease ask for it.
LeaseOp == \A p \in Proc :
  /\ proc[p].pc = "loadLive" => proc[p].op = "renew"
  /\ proc[p].pc = "lease" => proc[p].op \in Locking

Types == Values /\ proc \in [Proc -> State] /\ LeaseOp

-----------------------------------------------------------------------------
\* A goroutine that does nothing is in order.
LEMMA IdleType == Idle \in State /\ Idle.pc = "idle"
BY DEF Idle, State, Op, Pc, KeyOrNone, SomeChain

\* The initial state has its types (Init).
LEMMA InitTypes == Init => Types
<1> SUFFICES ASSUME Init PROVE Types
  OBVIOUS
<1>1. Values
  BY CeremonyAssumption DEF Init, Values, KeyOrNone, Key, SomeChain
<1>2. proc \in [Proc -> State] /\ LeaseOp
  BY IdleType DEF Init, LeaseOp
<1> QED BY <1>1, <1>2 DEF Types

Entitled(r) ==
  /\ r.pc = "loadLive" => r.op = "renew"
  /\ r.pc = "lease" => r.op \in Locking

\* Goroutine p moves and the others stay.
Moves(p) ==
  /\ proc' \in [Proc -> State] /\ Entitled(proc'[p])
  /\ \A q \in Proc : q # p => proc'[q] = proc[q]

\* The steps that write nothing to storage, and begin or go on with an operation.
Reads(p) ==
  \/ ReplaceStart(p) \/ ActivateStart(p) \/ RenewStart(p)
  \/ FlushStart(p) \/ ReconcileStart(p) \/ DropRead(p)
  \/ LoadLive(p) \/ AcquireLease(p) \/ LoadNext(p) \/ Order(p)
  \/ Mark(p) \/ Check(p) \/ Promote(p) \/ FlushCompare(p) \/ LoadChain(p) \/ GiveUp(p)

Writes(p) ==
  \/ PutNext(p) \/ Store(p) \/ StoreFails(p) \/ MarkWrite(p) \/ PutLive(p) \/ RemoveNext(p)
  \/ FlushWrite(p) \/ DropWrite(p)

\* A goroutine's step is one of these.
LEMMA StepOf ==
  ASSUME NEW p \in Proc,
         \/ ReplaceStart(p) \/ ActivateStart(p) \/ RenewStart(p)
         \/ FlushStart(p) \/ ReconcileStart(p) \/ DropRead(p)
         \/ Proceed(p)
  PROVE  Reads(p) \/ Writes(p)
BY DEF Proceed, Work, Reads, Writes

\* Where a goroutine may go without writing (the reads of every operation).
LEMMA ReadMoves ==
  ASSUME Types, NEW p \in Proc, Reads(p)
  PROVE  Moves(p)
<1> USE DEF Types, Moves, Entitled, Locking
<1>a. ASSUME NEW r \in State, Entitled(r), proc' = [proc EXCEPT ![p] = r] PROVE Moves(p)
  BY <1>a
<1>1. ASSUME NEW op \in Op, NEW label \in Pc, Begin(p, op, label),
             label = "loadLive" => op = "renew", label = "lease" => op \in Locking
      PROVE  Moves(p)
  <2> DEFINE r == [Idle EXCEPT !.op = op, !.pc = label]
  <2>1. r \in State /\ Entitled(r)
    BY <1>1, Zenon DEF Idle, State, KeyOrNone, SomeChain
  <2>2. proc' = [proc EXCEPT ![p] = r]
    BY <1>1 DEF Begin
  <2> HIDE DEF r
  <2> QED BY <2>1, <2>2, <1>a
<1>2. CASE ReplaceStart(p) \/ ActivateStart(p) \/ RenewStart(p)
  BY <1>1, <1>2, Zenon DEF ReplaceStart, ActivateStart, RenewStart, Op, Pc
<1>b. CASE FlushStart(p)
  <2> DEFINE c == held[NodeOf[p]]
  <2> DEFINE r == [Idle EXCEPT !.op = "flush", !.pc = "lease", !.chain = c]
  <2>1. c \in SomeChain
    BY CeremonyAssumption DEF Values
  <2>2. proc' = [proc EXCEPT ![p] = r]
    BY <1>b DEF FlushStart
  <2> HIDE DEF c
  <2>3. r \in State /\ Entitled(r)
    BY <2>1, Zenon DEF Idle, State, KeyOrNone, Op, Pc
  <2> HIDE DEF r
  <2> QED BY <2>2, <2>3, <1>a
<1>c. CASE ReconcileStart(p)
  <2> DEFINE r == [Idle EXCEPT !.op = "reconcile", !.pc = "loadChain", !.key = next]
  <2>1. r \in State /\ Entitled(r)
    BY Zenon DEF Idle, State, SomeChain, Op, Pc, Values
  <2>2. proc' = [proc EXCEPT ![p] = r]
    BY <1>c DEF ReconcileStart
  <2> HIDE DEF r
  <2> QED BY <2>1, <2>2, <1>a
<1>3. CASE DropRead(p)
  BY <1>3, Zenon DEF DropRead, Idle, State, Op, Pc, KeyOrNone, SomeChain, Values
<1>4. CASE LoadLive(p) \/ Check(p) \/ LoadChain(p) \/ GiveUp(p) \/ FlushCompare(p)
  BY <1>4, IdleType, SMTT(30) DEF LoadLive, Check, LoadChain, GiveUp, FlushCompare, Goto, Done, State, Op, Pc,
     Values, LeaseOp, At
<1>5. CASE AcquireLease(p)
  BY <1>5, IdleType DEF AcquireLease, Goto, Done, State, Op, Pc, LeaseOp, At
<1>6. CASE LoadNext(p) \/ Promote(p)
  BY <1>6, IdleType, SMTT(30) DEF LoadNext, Promote, Done, State, Op, Pc, Values
<1>7. CASE Order(p)
  <2>1. PICK c : /\ proc' = [proc EXCEPT ![p].pc = "store", ![p].chain = c]
                 /\ c \in {held[NodeOf[p]], [key |-> proc[p].key, seq |-> orders']}
                 /\ orders' = orders \/ orders' = orders + 1
    BY <1>7, Zenon DEF Order
  <2>a. orders' \in Nat
    BY <2>1 DEF Values
  <2>b. held[NodeOf[p]] \in SomeChain
    BY CeremonyAssumption DEF Values
  <2>2. /\ held[NodeOf[p]] \in SomeChain /\ orders' \in Nat
        /\ proc[p].key \in KeyOrNone
    BY <2>a, <2>b DEF State
  <2>3. c \in SomeChain
    BY <2>1, <2>2 DEF SomeChain
  <2> QED BY <2>1, <2>3, ZenonT(30) DEF State, Pc
<1>8. CASE Mark(p)
  <2>1. PICK kept \in SUBSET KeyOrNone :
          proc' \in {[proc EXCEPT ![p].pc = "check"],
                    [proc EXCEPT ![p].pc = "markWrite", ![p].key = live, ![p].kept = kept]}
    BY <1>8, ZenonT(30) DEF Mark, Values
  <2> QED BY <2>1, SMTT(30) DEF State, Pc, Values
<1> QED BY <1>2, <1>b, <1>c, <1>3, <1>4, <1>5, <1>6, <1>7, <1>8 DEF Reads

\* Where a goroutine goes after a write.
LEMMA WriteMoves ==
  ASSUME Types, NEW p \in Proc, Writes(p)
  PROVE  Moves(p)
BY IdleType DEF Types, Moves, Entitled, Writes, PutNext, Store, StoreFails, MarkWrite, PutLive,
   RemoveNext, FlushWrite, DropWrite, Goto, Done, State, Op, Pc

\* What is stored, served, held and read has its types after every step.
LEMMA ReadValues ==
  ASSUME Types, NEW p \in Proc, Reads(p)
  PROVE  Values' /\ UNCHANGED <<live, next, chain, retiring, elapsed>>
<1> USE CeremonyAssumption DEF Types
<1>1. UNCHANGED <<live, next, chain, retiring, elapsed, minted, seen>>
  BY Zenon DEF Reads, ReplaceStart, ActivateStart, RenewStart, FlushStart, ReconcileStart, DropRead,
     LoadLive, AcquireLease, LoadNext, Order, Mark, Check, Promote, FlushCompare, LoadChain,
     GiveUp, keys, markers, cache
<1>2. orders' \in {orders, orders + 1}
  BY Zenon DEF Reads, ReplaceStart, ActivateStart, RenewStart, FlushStart, ReconcileStart, DropRead,
     LoadLive, AcquireLease, LoadNext, Order, Mark, Check, Promote, FlushCompare, LoadChain,
     GiveUp
<1>3. /\ mem' = mem \/ mem' = [mem EXCEPT ![NodeOf[p]] = chain]
      /\ held' = held \/ held' = [held EXCEPT ![NodeOf[p]] = None]
  BY Zenon DEF Reads, ReplaceStart, ActivateStart, RenewStart, FlushStart, ReconcileStart, DropRead,
     LoadLive, AcquireLease, LoadNext, Order, Mark, Check, Promote, FlushCompare, LoadChain,
     GiveUp, cache, Refreshed
<1>4. None \in SomeChain
  BY DEF SomeChain
<1> QED BY <1>1, <1>2, <1>3, <1>4 DEF Values

\* The same of the writes.
LEMMA WriteValues == ASSUME Types, NEW p \in Proc, Writes(p) PROVE Values'
<1> USE CeremonyAssumption DEF Types
<1> DEFINE n == NodeOf[p]
<1>0. /\ proc[p].key \in KeyOrNone /\ proc[p].chain \in SomeChain
      /\ proc[p].kept \subseteq KeyOrNone /\ n \in Node
      /\ None \in SomeChain /\ None \in KeyOrNone
  BY DEF State, SomeChain, KeyOrNone
<1>1. CASE PutNext(p)
  BY <1>1 DEF PutNext, Values, markers, cache, env, KeyOrNone, Key
<1>2. CASE Store(p) \/ StoreFails(p) \/ FlushWrite(p)
  BY <1>0, <1>2 DEF Store, StoreFails, FlushWrite, Values, keys, markers
<1>3. CASE MarkWrite(p) \/ DropWrite(p)
  BY <1>0, <1>3, Zenon DEF MarkWrite, DropWrite, Values, keys, cache
<1>4. CASE PutLive(p)
  BY <1>0, <1>4 DEF PutLive, Values, markers, cache
<1>5. CASE RemoveNext(p)
  BY <1>0, <1>5 DEF RemoveNext, Refreshed, Values, markers
<1> QED BY <1>1, <1>2, <1>3, <1>4, <1>5 DEF Writes

\* The environment's steps: the reads of a Refresh, a crash, an election, a soak.
Environment ==
  \/ \E n \in Node : RefreshChain(n) \/ RefreshKey(n) \/ Crash(n)
  \/ Elect
  \/ \E k \in Key : SoakElapses(k)

\* Nothing in storage changes with the environment but what has elapsed, and a
\* goroutine goes on or is gone.
LEMMA EnvironmentMoves ==
  ASSUME Types, Environment \/ UNCHANGED vars
  PROVE  /\ Values' /\ UNCHANGED <<live, next, chain, retiring>>
         /\ proc' \in [Proc -> State]
         /\ \A p \in Proc : proc'[p] = proc[p] \/ proc'[p] = Idle
<1> USE DEF Types
<1>1. UNCHANGED <<live, next, chain, retiring, minted, orders>>
  BY DEF Environment, RefreshChain, RefreshKey, Crash, Elect, SoakElapses, vars, keys, markers
<1>2. /\ proc' \in [Proc -> State]
      /\ \A p \in Proc : proc'[p] = proc[p] \/ proc'[p] = Idle
  BY IdleType DEF Environment, RefreshChain, RefreshKey, Crash, Elect, SoakElapses, vars
<1>3. /\ mem' \in [Node -> SomeChain] /\ held' \in [Node -> SomeChain]
      /\ seen' \in [Node -> SomeChain]
  <2>0. None \in SomeChain
    BY DEF SomeChain
  <2>1. ASSUME NEW n \in Node, RefreshChain(n) \/ RefreshKey(n) \/ Crash(n) PROVE <1>3
    BY <2>0, <2>1 DEF RefreshChain, RefreshKey, Crash, Values
  <2>2. CASE Elect \/ (\E k \in Key : SoakElapses(k)) \/ UNCHANGED vars
    BY <2>2 DEF Elect, SoakElapses, vars, cache, Values
  <2> QED BY <2>1, <2>2 DEF Environment
<1> QED BY <1>1, <1>2, <1>3 DEF Values

\* Every step is a goroutine's or the environment's.
LEMMA Steps ==
  ASSUME [Next]_vars
  PROVE  \/ \E p \in Proc : Reads(p) \/ Writes(p)
         \/ Environment \/ UNCHANGED vars
BY StepOf DEF Next, Environment

\* Types are kept.
LEMMA TypesStep == Types /\ [Next]_vars => Types'
<1> SUFFICES ASSUME Types, [Next]_vars PROVE Types'
  OBVIOUS
<1>1. ASSUME NEW p \in Proc, Reads(p) \/ Writes(p) PROVE Types'
  <2>1. Moves(p) /\ Values'
    BY <1>1, ReadMoves, WriteMoves, ReadValues, WriteValues
  <2> QED BY <2>1 DEF Types, Moves, Entitled, LeaseOp
<1>2. CASE Environment \/ UNCHANGED vars
  BY <1>2, EnvironmentMoves, IdleType DEF Types, LeaseOp
<1> QED BY <1>1, <1>2, Steps

-----------------------------------------------------------------------------
(* The retiring markers within one process *)

OneProcess == \A p, q \in Proc : NodeOf[p] = NodeOf[q]

Rewriting(p) == proc[p].pc \in {"markWrite", "dropWrite"}

\* One goroutine is between reading the list and writing it, and what it is going to
\* write has every marker that has not elapsed.
MarkerInv ==
  /\ \A p, q \in Proc : Rewriting(p) /\ Rewriting(q) => p = q
  /\ \A p \in Proc : Rewriting(p) => retiring \ elapsed \subseteq proc[p].kept

\* The two writers hold retiringMu from the read to the write (markRetiring,
\* cleanupExpiredRetiring).
LEMMA MarkerStep == OneProcess /\ Types /\ MarkerInv /\ [Next]_vars => MarkerInv'
<1> SUFFICES ASSUME OneProcess, Types, MarkerInv, [Next]_vars PROVE MarkerInv'
  OBVIOUS
<1>1. ASSUME NEW p \in Proc, Reads(p) PROVE MarkerInv'
  <2>1. /\ UNCHANGED <<retiring, elapsed>> /\ \A q \in Proc : q # p => proc'[q] = proc[q]
    BY <1>1, ReadMoves, ReadValues DEF Moves
  <2>2. proc'[p].pc \in {"markWrite", "dropWrite"} =>
          /\ \A q \in Proc : ~Rewriting(q)
          /\ retiring \ elapsed \subseteq proc'[p].kept
    <3>1. CASE Mark(p)
      BY <3>1, CeremonyAssumption
         DEF Mark, retiringMu, Rewriting, OneProcess, Types, State, Pc
    <3>2. CASE DropRead(p)
      <4>1. /\ proc'[p].kept = retiring \ elapsed /\ ~retiringMu(NodeOf[p])
        BY <3>2 DEF DropRead, Idle, Types, State
      <4> QED BY <4>1, CeremonyAssumption DEF retiringMu, Rewriting, OneProcess
    <3>3. CASE ~Mark(p) /\ ~DropRead(p)
      <4> SUFFICES proc'[p].pc \notin {"markWrite", "dropWrite"}
        OBVIOUS
      <4>1. CASE \/ ReplaceStart(p) \/ ActivateStart(p) \/ RenewStart(p)
                 \/ FlushStart(p) \/ ReconcileStart(p)
        BY <4>1, ZenonT(30) DEF ReplaceStart, ActivateStart, RenewStart, FlushStart, ReconcileStart, Begin,
           Idle, Types
      <4>2. CASE AcquireLease(p)
        BY <4>2, IdleType DEF AcquireLease, Goto, Done, At, Types, State, LeaseOp, Locking
      <4>3. CASE \/ LoadLive(p) \/ LoadNext(p) \/ Order(p) \/ Check(p) \/ Promote(p)
                 \/ FlushCompare(p) \/ LoadChain(p) \/ GiveUp(p)
        BY <4>3, IdleType DEF LoadLive, LoadNext, Order, Check, Promote, FlushCompare,
           LoadChain, GiveUp, Goto, Done, Types, State
      <4> QED BY <1>1, <3>3, <4>1, <4>2, <4>3, Zenon DEF Reads
    <3> QED BY <3>1, <3>2, <3>3
  <2> QED BY <2>1, <2>2 DEF MarkerInv, Rewriting
<1>2. ASSUME NEW p \in Proc, Writes(p) PROVE MarkerInv'
  <2>1. \A q \in Proc : q # p => proc'[q] = proc[q]
    BY <1>2, WriteMoves DEF Moves
  <2>2. proc'[p].pc \notin {"markWrite", "dropWrite"}
    BY <1>2, IdleType DEF Writes, PutNext, Store, StoreFails, MarkWrite, PutLive, RemoveNext,
       FlushWrite, DropWrite, Goto, Done, Types, State
  <2>3. CASE Rewriting(p)
    BY <2>1, <2>2, <2>3 DEF MarkerInv, Rewriting
  <2>4. CASE ~Rewriting(p)
    <3>1. UNCHANGED <<retiring, elapsed>>
      BY <1>2, <2>4, Zenon DEF Writes, PutNext, Store, StoreFails, MarkWrite, PutLive, RemoveNext,
         FlushWrite, DropWrite, At, Rewriting, markers
    <3> QED BY <2>1, <2>2, <3>1 DEF MarkerInv, Rewriting
  <2> QED BY <2>3, <2>4
<1>3. CASE Environment \/ UNCHANGED vars
  <2>1. /\ retiring' = retiring /\ \A p \in Proc : proc'[p] = proc[p] \/ proc'[p] = Idle
    BY <1>3, EnvironmentMoves
  <2>2. elapsed \subseteq elapsed'
    BY <1>3 DEF Environment, RefreshChain, RefreshKey, Crash, Elect, SoakElapses, vars, markers
  <2> QED BY <2>1, <2>2, IdleType DEF MarkerInv, Rewriting
<1> QED BY <1>1, <1>2, <1>3, Steps

\* Within one process no marker is lost before its soak has elapsed, whatever else
\* overlaps: "Same process is the whole of it" (dane_controller.go:171).
THEOREM MarkersKeptInOneProcess == OneProcess => (Spec => MarkersKept)
<1> SUFFICES ASSUME OneProcess PROVE Spec => MarkersKept
  OBVIOUS
<1>1. Init => MarkerInv
  BY IdleType, Zenon DEF Init, MarkerInv, Rewriting
<1>2. Types /\ MarkerInv /\ [Next]_vars => MarkerInv'
  BY MarkerStep
<1>3. Types /\ MarkerInv /\ [Next]_vars => [retiring \ elapsed \subseteq retiring']_vars
  <2> SUFFICES ASSUME Types, MarkerInv, [Next]_vars PROVE retiring \ elapsed \subseteq retiring'
    OBVIOUS
  <2>1. ASSUME NEW p \in Proc, Writes(p) PROVE retiring \ elapsed \subseteq retiring'
    BY <2>1, Zenon DEF Writes, PutNext, Store, StoreFails, MarkWrite, PutLive, RemoveNext,
       FlushWrite, DropWrite, At, MarkerInv, Rewriting, markers
  <2> QED BY <2>1, Steps, ReadValues, EnvironmentMoves
<1> QED BY <1>1, <1>2, <1>3, InitTypes, TypesStep, PTL DEF Spec, MarkersKept

-----------------------------------------------------------------------------
(* One operation at a time *)

Committed == {"mark", "markWrite", "check", "promote", "putLive"}

\* What a goroutine in state r has read is still so.
Sound(r) ==
  /\ r.pc \in {"lease", "order", "store"} /\ r.op = "renew" => r.key = live
  /\ r.pc = "loadNext" => r.op = "activate"
  /\ r.pc \in {"order", "store"} => r.op \in {"activate", "renew"}
  /\ r.pc \in {"order", "store"} /\ r.op = "activate" => r.key = next /\ next # None
  /\ r.pc = "store" => r.chain.key = r.key
  /\ r.pc \in {"compare", "write"} => r.op = "flush"
  /\ r.pc \in {"lease", "compare", "write"} /\ r.op = "flush" => r.chain.key # None
  /\ r.pc = "loadChain" => r.key = next /\ next # None
  /\ r.pc \in Committed => chain.key = next /\ next # None
  /\ r.pc = "markWrite" => r.key = live /\ live \in r.kept
  /\ r.pc \in {"markWrite", "dropWrite"} => retiring \ elapsed \subseteq r.kept
  /\ r.pc \in {"check", "promote", "putLive"} => live \in retiring
  /\ r.pc = "putLive" => r.key = next
  /\ r.pc = "removeNext" => live = next

Alone == \A p, q \in Proc : proc[p] # Idle /\ proc[q] # Idle => p = q

\* A chain in memory is for a key that the operator is told to publish, or was for
\* the whole of its soak.
Announced == Desired \cup elapsed
Published(c) == c # None => c.key # None /\ c.key \in Announced
Served == \A n \in Node : Published(mem[n]) /\ Published(held[n])

IInv ==
  /\ Types /\ Alone /\ Served
  /\ \A p \in Proc : Sound(proc[p])
  /\ live # None /\ chain.key # None

\* A goroutine that does nothing relies on nothing.
LEMMA IdleSound == Sound(Idle)
BY IdleType DEF Sound, Committed

\* One key is live, its chain is stored and served, and nobody is at work (Init).
LEMMA InitInv == Init => IInv
<1> SUFFICES ASSUME Init PROVE IInv
  OBVIOUS
<1>1. Types
  BY InitTypes
<1>2. live # None /\ chain.key # None /\ chain.key = live
  BY CeremonyAssumption DEF Init
<1>3. Alone /\ \A p \in Proc : Sound(proc[p])
  BY IdleSound DEF Init, Alone
<1>4. Served
  BY <1>2 DEF Init, Served, Published, Announced, Desired
<1> QED BY <1>1, <1>2, <1>3, <1>4 DEF IInv

\* An operation in progress is the only one.
LEMMA AtWork ==
  ASSUME OneAtATime, IInv, NEW p \in Proc, Reads(p) \/ Writes(p)
  PROVE  \A q \in Proc : q # p => proc[q] = Idle
<1>1. CASE proc[p] # Idle
  BY <1>1 DEF IInv, Alone
<1>2. CASE proc[p] = Idle
  <2>1. proc[p].pc = "idle"
    BY <1>2, IdleType
  <2>2. MayStart(p)
    BY <2>1, Zenon DEF Reads, Writes, ReplaceStart, ActivateStart, RenewStart, FlushStart,
       ReconcileStart, DropRead, LoadLive, AcquireLease, LoadNext, Order, Mark, Check, Promote,
       FlushCompare, LoadChain, GiveUp, PutNext, Store, StoreFails, MarkWrite, PutLive,
       RemoveNext, FlushWrite, DropWrite, At
  <2> QED BY <2>2 DEF MayStart
<1> QED BY <1>1, <1>2

\* It keeps the invariant if what it relies on next is so.
LEMMA WorkStep ==
  ASSUME OneAtATime, IInv, NEW p \in Proc, Reads(p) \/ Writes(p),
         Sound(proc[p])', Served', live' # None, chain'.key # None
  PROVE  IInv'
<1>1. Types'
  <2>1. Moves(p) /\ Values'
    BY ReadMoves, WriteMoves, ReadValues, WriteValues DEF IInv
  <2> QED BY <2>1 DEF IInv, Types, Moves, Entitled, LeaseOp
<1>2. \A q \in Proc : q # p => proc'[q] = Idle
  BY AtWork, ReadMoves, WriteMoves, Zenon DEF IInv, Moves
<1>3. Sound(Idle)'
  BY IdleType, Zenon DEF Sound, Committed, Idle
<1>4. \A q \in Proc : Sound(proc[q])'
  BY <1>2, <1>3
<1>5. Alone'
  BY <1>2 DEF Alone
<1> QED BY <1>1, <1>4, <1>5 DEF IInv

\* What a process takes from storage is for the live key (Refresh, buildCertificate).
LEMMA ReadServed ==
  ASSUME IInv, NEW p \in Proc, Reads(p)
  PROVE  Served'
<1>0. UNCHANGED <<live, next, chain, retiring, elapsed>>
  BY ReadValues DEF IInv
<1>1. /\ mem' = mem \/ mem' = Refreshed(NodeOf[p])
      /\ held' = held \/ held' = [held EXCEPT ![NodeOf[p]] = None]
  BY Zenon DEF Reads, ReplaceStart, ActivateStart, RenewStart, FlushStart, ReconcileStart, DropRead,
     LoadLive, AcquireLease, LoadNext, Order, Mark, Check, Promote, FlushCompare, LoadChain,
     GiveUp, cache
<1>2. \A n \in Node : mem'[n] = mem[n] \/ (mem'[n] = chain /\ chain.key = live)
  BY <1>1, CeremonyAssumption DEF Refreshed, Pairs, IInv, Types, Values
<1>3. \A n \in Node : held'[n] = held[n] \/ held'[n] = None
  BY <1>1, CeremonyAssumption DEF IInv, Types, Values
<1>4. Announced' = Announced
  BY <1>0 DEF Announced, Desired
<1> QED BY <1>2, <1>3, <1>4 DEF Served, Published, Announced, Desired, IInv

\* What a goroutine relies on after a step that writes nothing is so.
LEMMA ReadSound ==
  ASSUME IInv, NEW p \in Proc, Reads(p)
  PROVE  Sound(proc[p])'
<1>0. UNCHANGED <<live, next, chain, retiring, elapsed>>
  BY ReadValues DEF IInv
<1>a. Types /\ Sound(proc[p])
  BY DEF IInv
<1> USE <1>0, <1>a DEF Types, Sound, Committed
<1>1. CASE ReplaceStart(p) \/ ActivateStart(p) \/ RenewStart(p)
  <2>1. \/ proc'[p].pc \in {"putNext", "loadLive"}
        \/ proc'[p].pc = "lease" /\ proc'[p].op = "activate"
    BY <1>1, ZenonT(30) DEF ReplaceStart, ActivateStart, RenewStart, Begin, Idle
  <2> QED BY <2>1, Zenon
<1>2. CASE FlushStart(p)
  <2>1. held[NodeOf[p]] # None /\ Published(held[NodeOf[p]])
    BY <1>2, CeremonyAssumption, Zenon DEF FlushStart, IInv, Served
  <2>2. /\ proc'[p].pc = "lease" /\ proc'[p].op = "flush"
        /\ proc'[p].chain = held[NodeOf[p]]
    BY <1>2 DEF FlushStart, Idle
  <2> QED BY <2>1, <2>2, Zenon DEF Published
<1>3. CASE ReconcileStart(p) \/ DropRead(p)
  <2>1. \/ proc'[p].pc = "loadChain" /\ proc'[p].key = next /\ next # None
        \/ proc'[p].pc = "dropWrite" /\ proc'[p].kept = retiring \ elapsed
    BY <1>3, ZenonT(30) DEF ReconcileStart, DropRead, Idle
  <2> QED BY <2>1, Zenon
<1>4. CASE AcquireLease(p)
  BY <1>4, IdleType DEF AcquireLease, Goto, Done, At, State, LeaseOp, Locking
<1>5. CASE LoadLive(p) \/ LoadNext(p)
  BY <1>5, IdleType DEF LoadLive, LoadNext, Done, At, State, LeaseOp
<1>6. CASE Order(p)
  <2>1. /\ proc'[p].pc = "store" /\ proc'[p].op = proc[p].op /\ proc'[p].key = proc[p].key
        /\ proc'[p].chain.key = proc[p].key /\ proc[p].pc = "order"
    BY <1>6 DEF Order, Pairs, At, State
  <2> QED BY <2>1, Zenon
<1>7. CASE Mark(p)
  BY <1>7 DEF Mark, At, State
<1>8. CASE Check(p) \/ Promote(p) \/ LoadChain(p)
  BY <1>8, IdleType DEF Check, Promote, LoadChain, Pairs, Goto, Done, At, State
<1>9. CASE FlushCompare(p) \/ GiveUp(p)
  BY <1>9, IdleType DEF FlushCompare, GiveUp, Goto, Done, At, State
<1> QED BY <1>1, <1>2, <1>3, <1>4, <1>5, <1>6, <1>7, <1>8, <1>9, Zenon DEF Reads

\* A write keeps what is served on record, and what its writer relies on next is so.
LEMMA WriteKeeps ==
  ASSUME IInv, NEW p \in Proc, Writes(p)
  PROVE  Sound(proc[p])' /\ Served' /\ live' # None /\ chain'.key # None
<1> DEFINE n == NodeOf[p]
<1>0. /\ Values /\ proc \in [Proc -> State] /\ Sound(proc[p]) /\ Served /\ n \in Node
      /\ live # None /\ chain.key # None
  BY CeremonyAssumption DEF IInv, Types
<1>a. ASSUME UNCHANGED <<mem, held>>, Announced \subseteq Announced' PROVE Served'
  BY <1>a, <1>0 DEF Served, Published
<1>b. ASSUME Done(p) PROVE Sound(proc[p])'
  BY <1>b, <1>0, IdleType, Zenon DEF Done, Sound, Committed
<1>1. CASE PutNext(p)
  <2>1. Announced \subseteq Announced'
    BY <1>1 DEF PutNext, Announced, Desired, markers
  <2> QED BY <1>0, <1>1, <1>a, <1>b, <2>1, Zenon DEF PutNext, cache
<1>2. CASE Store(p) \/ StoreFails(p)
  <2>1. /\ proc[p].chain.key # None /\ proc[p].chain.key \in Announced
        /\ UNCHANGED <<live, next, retiring, elapsed>>
    BY <1>0, <1>2, Zenon DEF Store, StoreFails, At, Sound, Announced, Desired, keys, markers
  <2>2. Announced' = Announced
    BY <2>1 DEF Announced, Desired
  <2>3. /\ chain' \in {chain, proc[p].chain}
        /\ \A m \in Node : /\ mem'[m] \in {mem[m], proc[p].chain}
                           /\ held'[m] \in {held[m], None, proc[p].chain}
    BY <1>0, <1>2, Zenon DEF Store, StoreFails, Values
  <2>4. Served'
    BY <1>0, <2>1, <2>2, <2>3, Zenon DEF Served, Published
  <2>5. Sound(proc[p])'
    <3>1. CASE Done(p)
      BY <3>1, <1>b
    <3>2. CASE ~Done(p)
      BY <1>0, <1>2, <2>1, <3>2 DEF Store, StoreFails, Goto, At, State, Sound, Committed
    <3> QED BY <3>1, <3>2
  <2> QED BY <1>0, <2>1, <2>3, <2>4, <2>5, Zenon
<1>3. CASE MarkWrite(p)
  <2>1. Announced \subseteq Announced'
    BY <1>0, <1>3, Zenon DEF MarkWrite, Announced, Desired, keys, At, Sound
  <2>2. Sound(proc[p])'
    BY <1>0, <1>3, <1>b DEF MarkWrite, Goto, At, State, Sound, Committed, keys
  <2> QED BY <1>0, <1>3, <1>a, <2>1, <2>2, Zenon DEF MarkWrite, keys, cache
<1>4. CASE PutLive(p)
  <2>1. Announced \subseteq Announced'
    BY <1>0, <1>4 DEF PutLive, Announced, Desired, markers, At, Sound, Committed
  <2>2. Sound(proc[p])'
    BY <1>0, <1>4, <1>b DEF PutLive, Goto, At, State, Sound, Committed
  <2> QED BY <1>0, <1>4, <1>a, <2>1, <2>2, Zenon DEF PutLive, cache, At, Sound, Committed
<1>5. CASE RemoveNext(p)
  <2>1. Announced \subseteq Announced' /\ live' = live /\ chain' = chain
    BY <1>0, <1>5, Zenon DEF RemoveNext, Announced, Desired, markers, At, Sound
  <2>2. \A m \in Node : /\ mem'[m] = mem[m] \/ (mem'[m] = chain /\ chain.key = live)
                       /\ held'[m] = held[m]
    BY <1>0, <1>5, Zenon DEF RemoveNext, Refreshed, Pairs, Values
  <2>3. Served'
    BY <1>0, <2>1, <2>2, Zenon DEF Served, Published, Announced, Desired
  <2> QED BY <1>0, <1>5, <1>b, <2>1, <2>3, Zenon DEF RemoveNext
<1>6. CASE FlushWrite(p)
  <2>1. proc[p].chain.key # None /\ Announced' = Announced
    BY <1>0, <1>6, Zenon DEF FlushWrite, Announced, Desired, At, Sound, keys, markers
  <2>2. \A m \in Node : mem'[m] = mem[m] /\ held'[m] \in {held[m], None}
    BY <1>0, <1>6, Zenon DEF FlushWrite, Values
  <2>3. Served'
    BY <1>0, <2>1, <2>2, Zenon DEF Served, Published
  <2> QED BY <1>0, <1>6, <1>b, <2>1, <2>3, Zenon DEF FlushWrite, keys
<1>7. CASE DropWrite(p)
  <2>1. Announced \subseteq Announced'
    BY <1>0, <1>7, Zenon DEF DropWrite, Announced, Desired, At, Sound, keys
  <2> QED BY <1>0, <1>7, <1>a, <1>b, <2>1, Zenon DEF DropWrite, keys, cache
<1> QED BY <1>1, <1>2, <1>3, <1>4, <1>5, <1>6, <1>7 DEF Writes

\* A Refresh serves the live key's chain, a crash forgets, and a soak that runs out
\* leaves its key among those that were announced.
LEMMA EnvironmentKeeps ==
  ASSUME IInv, Environment \/ UNCHANGED vars
  PROVE  IInv'
<1>0. /\ Values /\ Types /\ Served /\ live # None /\ chain.key # None
      /\ Alone /\ \A p \in Proc : Sound(proc[p])
  BY DEF IInv, Types
<1>1. /\ UNCHANGED <<live, next, chain, retiring>>
      /\ \A p \in Proc : proc'[p] = proc[p] \/ proc'[p] = Idle
  BY EnvironmentMoves DEF IInv
<1>2. Types'
  BY <1>0, EnvironmentMoves, IdleType DEF Types, LeaseOp
<1>3. Alone'
  BY <1>0, <1>1 DEF Alone
<1>4. elapsed \subseteq elapsed'
  BY Zenon DEF Environment, RefreshChain, RefreshKey, Crash, Elect, SoakElapses, vars, markers
<1>5. \A p \in Proc : Sound(proc[p])'
  <2>1. Sound(Idle)'
    BY IdleType, Zenon DEF Sound, Committed, Idle
  <2>2. ASSUME NEW p \in Proc, proc'[p] = proc[p] PROVE Sound(proc[p])'
    BY <1>0, <1>1, <1>4, <2>2, SMTT(30) DEF Sound, Committed
  <2> QED BY <1>1, <2>1, <2>2
<1>6. Served'
  <2>1. ASSUME NEW k \in Key, SoakElapses(k) PROVE Served'
    <3>1. mem' = mem /\ held' = held
      BY <2>1 DEF SoakElapses, cache
    <3> QED BY <1>0, <1>1, <1>4, <3>1, Zenon DEF Served, Published, Announced, Desired
  <2>2. ASSUME ~\E k \in Key : SoakElapses(k) PROVE Served'
    <3>1. elapsed' = elapsed
      BY <2>2, Zenon DEF Environment, RefreshChain, RefreshKey, Crash, Elect, vars, markers
    <3>2. Announced' = Announced
      BY <1>1, <3>1, Zenon DEF Announced, Desired
    <3>3. \A n \in Node :
            /\ \/ mem'[n] \in {mem[n], None}
               \/ mem'[n].key = live
            /\ held'[n] \in {held[n], None}
      BY <1>0, <2>2 DEF Environment, RefreshChain, RefreshKey, Crash, Elect, vars, cache, Pairs,
         Values
    <3> QED BY <1>0, <3>2, <3>3, Zenon DEF Served, Published, Announced, Desired
  <2> QED BY <2>1, <2>2
<1> QED BY <1>0, <1>1, <1>2, <1>3, <1>5, <1>6, Zenon DEF IInv

\* The invariant is inductive.
LEMMA InvStep == OneAtATime /\ IInv /\ [Next]_vars => IInv'
<1> SUFFICES ASSUME OneAtATime, IInv, [Next]_vars PROVE IInv'
  OBVIOUS
<1>1. ASSUME NEW p \in Proc, Reads(p) PROVE IInv'
  <2>1. live' # None /\ chain'.key # None
    BY <1>1, ReadValues DEF IInv
  <2> QED BY <1>1, <2>1, ReadSound, ReadServed, WorkStep
<1>2. ASSUME NEW p \in Proc, Writes(p) PROVE IInv'
  BY <1>2, WriteKeeps, WorkStep
<1> QED BY <1>1, <1>2, EnvironmentKeeps, Steps

\* With one operation at a time, whatever crashes, fails or changes its leader, every
\* certificate served is one DesiredTLSARecords names until the soak of its key has run
\* out (markRetiring, recordsForHost).
THEOREM ServedIsDesiredHolds == OneAtATime => (Spec => []ServedIsDesired)
<1> SUFFICES ASSUME OneAtATime PROVE Spec => []ServedIsDesired
  OBVIOUS
<1>1. IInv => ServedIsDesired
  BY DEF IInv, Served, Published, Announced, ServedIsDesired
<1>2. IInv /\ [Next]_vars => IInv'
  BY InvStep
<1> QED BY <1>1, <1>2, InitInv, PTL DEF Spec

\* The live key gives way only to the staged one, its digest on record as retiring
\* (ActivateCertificateKey, reconcileCeremony).
THEOREM RetiredBeforeReplacedHolds == OneAtATime => (Spec => RetiredBeforeReplaced)
<1> SUFFICES ASSUME OneAtATime PROVE Spec => RetiredBeforeReplaced
  OBVIOUS
<1>1. IInv /\ [Next]_vars => IInv'
  BY InvStep
<1>2. IInv /\ [Next]_vars
        => [live' # live => live' = next /\ live \in retiring]_vars
  <2> SUFFICES ASSUME IInv, [Next]_vars, live' # live
               PROVE  live' = next /\ live \in retiring
    OBVIOUS
  <2>1. PICK p \in Proc : Writes(p)
    BY Steps, ReadValues, EnvironmentMoves DEF IInv
  <2>2. PutLive(p)
    BY <2>1, Zenon DEF Writes, PutNext, Store, StoreFails, MarkWrite, RemoveNext, FlushWrite,
       DropWrite, keys
  <2> QED BY <2>2, Zenon DEF PutLive, At, IInv, Sound
<1> QED BY <1>1, <1>2, InitInv, PTL DEF Spec, RetiredBeforeReplaced

\* Through every crash between its steps a ceremony leaves a chain that the live or the
\* staged key goes with; only the write of a held chain can undo that (flushOne).
THEOREM OnlyFlushUnpairsHolds == OneAtATime => (Spec => OnlyFlushUnpairs)
<1> SUFFICES ASSUME OneAtATime PROVE Spec => OnlyFlushUnpairs
  OBVIOUS
<1> DEFINE Kept == chain.key \in {live, next} /\ chain'.key \notin {live', next'}
                     => \E p \in Proc : At(p, "write")
<1>1. IInv /\ [Next]_vars => IInv'
  BY InvStep
<1>2. IInv /\ [Next]_vars => Kept
  <2> SUFFICES ASSUME IInv, [Next]_vars PROVE Kept
    OBVIOUS
  <2>1. ASSUME NEW p \in Proc, Writes(p) PROVE Kept
    <3>0. Sound(proc[p]) /\ chain.key # None
      BY DEF IInv
    <3>1. CASE Store(p) \/ StoreFails(p)
      BY <3>0, <3>1, Zenon DEF Store, StoreFails, At, Sound, keys
    <3>2. CASE PutLive(p) \/ RemoveNext(p) \/ PutNext(p)
      BY <3>0, <3>2, Zenon DEF PutLive, RemoveNext, PutNext, At, Sound, Committed
    <3>3. CASE MarkWrite(p) \/ DropWrite(p) \/ FlushWrite(p)
      BY <3>3, Zenon DEF MarkWrite, DropWrite, FlushWrite, keys
    <3> QED BY <2>1, <3>1, <3>2, <3>3 DEF Writes
  <2> QED BY <2>1, Steps, ReadValues, EnvironmentMoves, Zenon DEF IInv
<1> QED BY <1>1, <1>2, InitInv, PTL DEF Spec, OnlyFlushUnpairs

-----------------------------------------------------------------------------
(* Keys and chains that are there, whatever overlaps *)

\* An operation that orders, stores, marks or promotes has a key in hand, and one that
\* stores or flushes has a chain.
Equipped(r) ==
  /\ r.pc \in {"order", "store", "markWrite", "putLive"} \/ (r.pc = "lease" /\ r.op = "renew")
       => r.key \in Key
  /\ r.pc \in {"store", "compare", "write"} \/ (r.pc = "lease" /\ r.op = "flush")
       => r.chain \in Chain
  /\ r.chain \in ChainOrNone /\ r.kept \subseteq Key

Stored ==
  /\ live \in Key /\ chain \in ChainOrNone /\ retiring \subseteq Key /\ elapsed \subseteq Key
  /\ minted \in Key /\ orders \in 1 .. MaxOrders
Cached ==
  /\ mem \in [Node -> ChainOrNone] /\ held \in [Node -> ChainOrNone]
  /\ seen \in [Node -> ChainOrNone]
AllEquipped == \A p \in Proc : Equipped(proc[p])
WholeInv ==
  /\ Stored /\ Cached /\ AllEquipped
  /\ leaders \subseteq Node /\ faults \in 0 .. MaxFaults

\* A goroutine that does nothing needs nothing.
LEMMA IdleEquipped == Equipped(Idle)
<1>1. /\ Idle.pc = "idle" /\ Idle.chain = None /\ Idle.kept = {}
  BY DEF Idle
<1> QED BY <1>1 DEF Equipped, ChainOrNone

\* What a goroutine has in hand after a step of its own (Goto, and with a key).
LEMMA InHand ==
  ASSUME Types, NEW p \in Proc, NEW label
  PROVE  /\ Done(p) => proc'[p] = Idle
         /\ Goto(p, label) =>
              /\ proc'[p].pc = label /\ proc'[p].op = proc[p].op /\ proc'[p].key = proc[p].key
              /\ proc'[p].chain = proc[p].chain /\ proc'[p].kept = proc[p].kept
<1>1. proc \in [Proc -> State] /\ proc[p] \in State
  BY DEF Types
<1>2. ASSUME NEW r, proc' = [proc EXCEPT ![p] = r] PROVE proc'[p] = r
  BY <1>1, <1>2
<1>3. ASSUME Goto(p, label)
      PROVE  /\ proc'[p].pc = label /\ proc'[p].op = proc[p].op /\ proc'[p].key = proc[p].key
             /\ proc'[p].chain = proc[p].chain /\ proc'[p].kept = proc[p].kept
  <2> DEFINE r == [proc[p] EXCEPT !.pc = label]
  <2>1. /\ r.pc = label /\ r.op = proc[p].op /\ r.key = proc[p].key
        /\ r.chain = proc[p].chain /\ r.kept = proc[p].kept
    BY <1>1, Zenon DEF State
  <2>2. proc' = [proc EXCEPT ![p] = r]
    BY <1>3, Zenon DEF Goto
  <2> HIDE DEF r
  <2> QED BY <1>2, <2>1, <2>2, Zenon
<1> QED BY <1>2, <1>3 DEF Done

\* The starts of operations (ReplaceStart, FlushStart and so on).
LEMMA StartEquipped ==
  ASSUME Types, WholeInv, NEW p \in Proc,
         \/ ReplaceStart(p) \/ ActivateStart(p) \/ RenewStart(p)
         \/ FlushStart(p) \/ ReconcileStart(p) \/ DropRead(p)
  PROVE  Equipped(proc'[p])
<1> USE CeremonyAssumption
<1>0. ASSUME NEW r, proc' = [proc EXCEPT ![p] = r] PROVE proc'[p] = r
  BY <1>0 DEF Types
<1>1. CASE ReplaceStart(p) \/ ActivateStart(p) \/ RenewStart(p)
  <2>1. PICK op \in {"replace", "activate", "renew"}, label \in {"putNext", "lease", "loadLive"} :
          Begin(p, op, label) /\ (label = "lease" => op = "activate")
    BY <1>1, Zenon DEF ReplaceStart, ActivateStart, RenewStart
  <2> DEFINE r == [Idle EXCEPT !.op = op, !.pc = label]
  <2>2. r.op = op /\ r.pc = label /\ r.chain = None /\ r.kept = {}
    BY DEF Idle
  <2>3. proc' = [proc EXCEPT ![p] = r]
    BY <2>1 DEF Begin
  <2> HIDE DEF r
  <2>4. proc'[p] = r
    BY <1>0, <2>3, Zenon
  <2> QED BY <2>1, <2>2, <2>4, Zenon DEF Equipped, ChainOrNone
<1>2. CASE FlushStart(p)
  <2> DEFINE c == held[NodeOf[p]]
  <2>1. c \in Chain
    BY <1>2 DEF FlushStart, WholeInv, Cached, ChainOrNone
  <2> DEFINE r == [Idle EXCEPT !.op = "flush", !.pc = "lease", !.chain = c]
  <2>2. r.op = "flush" /\ r.pc = "lease" /\ r.chain = c /\ r.kept = {}
    BY DEF Idle
  <2>3. proc' = [proc EXCEPT ![p] = r]
    BY <1>2 DEF FlushStart
  <2> HIDE DEF r, c
  <2>4. proc'[p] = r
    BY <1>0, <2>3, Zenon
  <2> QED BY <2>1, <2>2, <2>4, Zenon DEF Equipped, ChainOrNone
<1>3. CASE ReconcileStart(p)
  <2> DEFINE r == [Idle EXCEPT !.op = "reconcile", !.pc = "loadChain", !.key = next]
  <2>2. r.op = "reconcile" /\ r.pc = "loadChain" /\ r.chain = None /\ r.kept = {}
    BY DEF Idle
  <2>3. proc' = [proc EXCEPT ![p] = r]
    BY <1>3 DEF ReconcileStart
  <2> HIDE DEF r
  <2>4. proc'[p] = r
    BY <1>0, <2>3, Zenon
  <2> QED BY <2>2, <2>4, Zenon DEF Equipped, ChainOrNone
<1>4. CASE DropRead(p)
  <2> DEFINE kept == retiring \ elapsed
  <2> DEFINE r == [Idle EXCEPT !.op = "cleanup", !.pc = "dropWrite", !.kept = kept]
  <2>1. kept \subseteq Key
    BY DEF WholeInv, Stored
  <2>2. r.op = "cleanup" /\ r.pc = "dropWrite" /\ r.chain = None /\ r.kept = kept
    BY DEF Idle
  <2>3. proc' = [proc EXCEPT ![p] = r]
    BY <1>4 DEF DropRead
  <2> HIDE DEF r, kept
  <2>4. proc'[p] = r
    BY <1>0, <2>3, Zenon
  <2> QED BY <2>1, <2>2, <2>4, Zenon DEF Equipped, ChainOrNone
<1> QED BY <1>1, <1>2, <1>3, <1>4

\* An operation that goes on (LoadNext and Promote look for the staged key, Order makes
\* or reuses a chain for the key in hand, Mark adds the live key's digest).
LEMMA WorkEquipped ==
  ASSUME Types, WholeInv, NEW p \in Proc, Proceed(p)
  PROVE  Equipped(proc'[p])
<1> USE CeremonyAssumption
<1> DEFINE r == proc[p]
<1>0. /\ proc \in [Proc -> State] /\ r \in State /\ Equipped(r)
      /\ live \in Key /\ next \in Key \cup {None}
  BY DEF Types, Values, KeyOrNone, WholeInv, Stored, AllEquipped
<1>1. ASSUME Done(p) PROVE Equipped(proc'[p])
  BY <1>1, InHand, IdleEquipped, Zenon
<1>2. ASSUME NEW label, Goto(p, label),
             label \notin {"store", "markWrite", "putLive", "lease"},
             label = "order" => r.key \in Key,
             label \in {"compare", "write"} => r.chain \in Chain
      PROVE  Equipped(proc'[p])
  BY <1>0, <1>2, InHand, Zenon DEF Equipped
<1>3. ASSUME NEW label \in {"lease", "order", "putLive"}, NEW k \in Key,
             proc' = [proc EXCEPT ![p].pc = label, ![p].key = k],
             label = "lease" => r.op = "renew"
      PROVE  Equipped(proc'[p])
  <2> DEFINE t == [r EXCEPT !.pc = label, !.key = k]
  <2>1. t.pc = label /\ t.op = r.op /\ t.key = k /\ t.chain = r.chain /\ t.kept = r.kept
    BY <1>0, Zenon DEF State
  <2>2. proc' = [proc EXCEPT ![p] = t]
    BY <1>3, Zenon
  <2> HIDE DEF t
  <2>3. proc'[p] = t
    BY <1>0, <2>2
  <2> QED BY <1>0, <1>3, <2>1, <2>3 DEF Equipped
<1>4. CASE LoadLive(p)
  <2>1. r.op = "renew"
    BY <1>4 DEF LoadLive, At, Types, LeaseOp
  <2> QED BY <1>0, <1>3, <1>4, <2>1, Zenon DEF LoadLive
<1>5. CASE AcquireLease(p)
  <2>1. r.pc = "lease" /\ r.op \in Locking
    BY <1>5 DEF AcquireLease, At, Types, LeaseOp
  <2>2. \/ Done(p) \/ Goto(p, "loadNext")
        \/ r.op = "renew" /\ Goto(p, "order")
        \/ r.op = "flush" /\ Goto(p, "compare")
    BY <1>5, <2>1 DEF AcquireLease, Locking
  <2> QED BY <1>0, <1>1, <1>2, <2>1, <2>2, Zenon DEF Equipped
<1>6. CASE LoadNext(p)
  BY <1>0, <1>1, <1>3, <1>6 DEF LoadNext
<1>7. CASE Promote(p)
  BY <1>0, <1>1, <1>3, <1>7 DEF Promote
<1>8. CASE Order(p)
  <2>0. r.key \in Key
    BY <1>0, <1>8 DEF Order, At, Equipped
  <2>1. PICK c : /\ proc' = [proc EXCEPT ![p].pc = "store", ![p].chain = c]
                 /\ \/ c = held[NodeOf[p]] /\ Pairs(held[NodeOf[p]], r.key)
                    \/ c = [key |-> r.key, seq |-> orders'] /\ orders' = orders + 1 /\ orders < MaxOrders
    <3> DEFINE reused == r.op = "activate" /\ Pairs(held[NodeOf[p]], r.key)
    <3>1. CASE reused
      BY <1>8, <3>1, Zenon DEF Order
    <3>2. CASE ~reused
      BY <1>8, <3>2, Zenon DEF Order
    <3> QED BY <3>1, <3>2, Zenon
  <2>2. c \in Chain
    <3>1. CASE c = held[NodeOf[p]] /\ Pairs(held[NodeOf[p]], r.key)
      BY <3>1, Zenon DEF Pairs, WholeInv, Cached, ChainOrNone
    <3>2. CASE c = [key |-> r.key, seq |-> orders'] /\ orders' = orders + 1 /\ orders < MaxOrders
      <4>1. orders' \in 1 .. MaxOrders
        BY <3>2 DEF WholeInv, Stored
      <4> QED BY <2>0, <3>2, <4>1 DEF Chain
    <3> QED BY <2>1, <3>1, <3>2
  <2> DEFINE t == [r EXCEPT !.pc = "store", !.chain = c]
  <2>3. t.pc = "store" /\ t.key = r.key /\ t.chain = c /\ t.kept = r.kept
    BY <1>0, Zenon DEF State
  <2>4. proc' = [proc EXCEPT ![p] = t]
    BY <2>1, Zenon
  <2> HIDE DEF t
  <2>5. proc'[p] = t
    BY <1>0, <2>4
  <2> QED BY <1>0, <2>0, <2>2, <2>3, <2>5, Zenon DEF Equipped, ChainOrNone
<1>9. CASE Mark(p)
  <2>1. CASE live \in retiring \ elapsed
    <3>1. Goto(p, "check")
      BY <1>9, <2>1 DEF Mark, Goto
    <3> QED BY <1>2, <3>1, Zenon
  <2>2. CASE live \notin retiring \ elapsed
    <3> DEFINE kept == (retiring \ elapsed) \cup {live}
    <3> DEFINE t == [r EXCEPT !.pc = "markWrite", !.key = live, !.kept = kept]
    <3>1. kept \subseteq Key
      BY <1>0 DEF WholeInv, Stored
    <3>2. t.pc = "markWrite" /\ t.key = live /\ t.chain = r.chain /\ t.kept = kept
      BY <1>0, Zenon DEF State
    <3>3. proc' = [proc EXCEPT ![p] = t]
      BY <1>9, <2>2, Zenon DEF Mark
    <3> HIDE DEF t, kept
    <3>4. proc'[p] = t
      BY <1>0, <3>3
    <3> QED BY <1>0, <3>1, <3>2, <3>4, Zenon DEF Equipped
  <2> QED BY <2>1, <2>2
<1>10. CASE FlushCompare(p)
  <2>1. r.chain \in Chain
    BY <1>0, <1>10, Zenon DEF FlushCompare, At, Equipped
  <2>2. Done(p) \/ Goto(p, "write")
    BY <1>10, Zenon DEF FlushCompare
  <2> QED BY <1>1, <1>2, <2>1, <2>2, Zenon
<1>11. CASE Store(p) \/ MarkWrite(p) \/ Check(p) \/ PutLive(p) \/ LoadChain(p)
  <2>1. Done(p) \/ \E label \in {"mark", "check", "promote", "removeNext"} : Goto(p, label)
    BY <1>11, Zenon DEF Store, MarkWrite, Check, PutLive, LoadChain
  <2> QED BY <1>1, <1>2, <2>1, Zenon
<1>12. CASE \/ PutNext(p) \/ StoreFails(p) \/ RemoveNext(p) \/ FlushWrite(p) \/ DropWrite(p)
            \/ GiveUp(p)
  BY <1>1, <1>12, Zenon DEF PutNext, StoreFails, RemoveNext, FlushWrite, DropWrite, GiveUp
<1> QED BY <1>4, <1>5, <1>6, <1>7, <1>8, <1>9, <1>10, <1>11, <1>12, Zenon DEF Proceed, Work

\* What a goroutine writes is there: a key it has in hand, a chain it has obtained.
LEMMA WorkWhole ==
  ASSUME Types, WholeInv, NEW p \in Proc, Reads(p) \/ Writes(p)
  PROVE  Stored' /\ Cached' /\ UNCHANGED <<leaders, faults>>
<1> USE CeremonyAssumption
<1> DEFINE n == NodeOf[p]
<1> DEFINE r == proc[p]
<1>0. /\ Stored /\ Cached /\ Equipped(r) /\ n \in Node /\ None \in ChainOrNone
  BY DEF WholeInv, AllEquipped, ChainOrNone
<1>1. UNCHANGED <<leaders, faults>>
  BY Zenon DEF Reads, Writes, ReplaceStart, ActivateStart, RenewStart, FlushStart, ReconcileStart,
     DropRead, LoadLive, AcquireLease, LoadNext, Order, Mark, Check, Promote, FlushCompare,
     LoadChain, GiveUp, PutNext, Store, StoreFails, MarkWrite, PutLive, RemoveNext, FlushWrite,
     DropWrite, env
<1>2. CASE Reads(p)
  <2>1. UNCHANGED <<live, chain, retiring, elapsed, minted, seen>>
    BY <1>2, Zenon DEF Reads, ReplaceStart, ActivateStart, RenewStart, FlushStart, ReconcileStart,
       DropRead, LoadLive, AcquireLease, LoadNext, Order, Mark, Check, Promote, FlushCompare,
       LoadChain, GiveUp, keys, markers, cache
  <2>2. orders' = orders \/ (orders' = orders + 1 /\ orders < MaxOrders)
    BY <1>2, Zenon DEF Reads, ReplaceStart, ActivateStart, RenewStart, FlushStart, ReconcileStart,
       DropRead, LoadLive, AcquireLease, LoadNext, Order, Mark, Check, Promote, FlushCompare,
       LoadChain, GiveUp
  <2>3. /\ mem' = mem \/ mem' = [mem EXCEPT ![n] = chain]
        /\ held' = held \/ held' = [held EXCEPT ![n] = None]
    BY <1>2, Zenon DEF Reads, ReplaceStart, ActivateStart, RenewStart, FlushStart, ReconcileStart,
       DropRead, LoadLive, AcquireLease, LoadNext, Order, Mark, Check, Promote, FlushCompare,
       LoadChain, GiveUp, cache, Refreshed
  <2>4. Stored'
    BY <1>0, <2>1, <2>2 DEF Stored
  <2>5. Cached'
    BY <1>0, <2>1, <2>3 DEF Cached, Stored
  <2> QED BY <1>1, <2>4, <2>5
<1>3. CASE PutNext(p)
  <2>1. /\ UNCHANGED <<live, chain, retiring, elapsed, orders, mem, held, seen>>
        /\ minted' = minted \/ (minted' = minted + 1 /\ minted < MaxKeys)
    BY <1>3, Zenon DEF PutNext, markers, cache
  <2>2. Stored'
    BY <1>0, <2>1 DEF Stored, Key
  <2> QED BY <1>0, <1>1, <2>1, <2>2, Zenon DEF Cached
<1>4. CASE Store(p) \/ StoreFails(p) \/ FlushWrite(p)
  <2>1. r.chain \in ChainOrNone
    BY <1>0, Zenon DEF Equipped
  <2>2. /\ UNCHANGED <<live, retiring, elapsed, minted, orders, seen>>
        /\ chain' \in {chain, r.chain}
        /\ mem' = mem \/ mem' = [mem EXCEPT ![n] = r.chain]
        /\ held' \in {held, [held EXCEPT ![n] = None], [held EXCEPT ![n] = r.chain]}
    BY <1>4, Zenon DEF Store, StoreFails, FlushWrite, keys, markers
  <2>3. Stored'
    BY <1>0, <2>1, <2>2, Zenon DEF Stored
  <2>4. Cached'
    BY <1>0, <2>1, <2>2 DEF Cached
  <2> QED BY <1>1, <2>3, <2>4
<1>5. CASE MarkWrite(p) \/ DropWrite(p)
  <2>1. /\ UNCHANGED <<live, chain, minted, orders, mem, held, seen>>
        /\ retiring' = r.kept /\ elapsed' \subseteq elapsed
    BY <1>5, Zenon DEF MarkWrite, DropWrite, keys, cache
  <2> QED BY <1>0, <1>1, <2>1, Zenon DEF Stored, Cached, Equipped
<1>6. CASE PutLive(p)
  <2>1. /\ UNCHANGED <<chain, retiring, elapsed, minted, orders, mem, held, seen>>
        /\ live' = r.key /\ r.key \in Key
    BY <1>0, <1>6, Zenon DEF PutLive, At, Equipped, markers, cache
  <2> QED BY <1>0, <1>1, <2>1, Zenon DEF Stored, Cached
<1>7. CASE RemoveNext(p)
  <2>1. /\ UNCHANGED <<live, chain, retiring, elapsed, minted, orders, held, seen>>
        /\ mem' = mem \/ mem' = [mem EXCEPT ![n] = chain]
    BY <1>7, Zenon DEF RemoveNext, Refreshed, markers
  <2> QED BY <1>0, <1>1, <2>1 DEF Stored, Cached
<1> QED BY <1>2, <1>3, <1>4, <1>5, <1>6, <1>7, Zenon DEF Writes

\* The environment adds nothing that was not there.
LEMMA EnvironmentWhole ==
  ASSUME Types, WholeInv, Environment \/ UNCHANGED vars
  PROVE  WholeInv'
<1> USE CeremonyAssumption
<1>0. Stored /\ Cached /\ AllEquipped /\ leaders \subseteq Node /\ faults \in 0 .. MaxFaults
  BY DEF WholeInv
<1>1. AllEquipped'
  BY <1>0, EnvironmentMoves, IdleEquipped DEF AllEquipped
<1>2. Stored'
  <2>1. UNCHANGED <<live, chain, retiring, minted, orders>>
    BY Zenon DEF Environment, RefreshChain, RefreshKey, Crash, Elect, SoakElapses, vars, keys, markers
  <2>2. elapsed' = elapsed \/ \E k \in retiring : elapsed' = elapsed \cup {k}
    BY Zenon DEF Environment, RefreshChain, RefreshKey, Crash, Elect, SoakElapses, vars, markers
  <2> QED BY <1>0, <2>1, <2>2 DEF Stored
<1>3. Cached'
  <2>0. None \in ChainOrNone /\ chain \in ChainOrNone
    BY <1>0 DEF ChainOrNone, Stored
  <2>1. ASSUME NEW n \in Node, RefreshChain(n) \/ RefreshKey(n) \/ Crash(n) PROVE Cached'
    BY <1>0, <2>0, <2>1 DEF RefreshChain, RefreshKey, Crash, Cached
  <2>2. CASE Elect \/ (\E k \in Key : SoakElapses(k)) \/ UNCHANGED vars
    BY <1>0, <2>2, Zenon DEF Elect, SoakElapses, vars, cache, Cached
  <2> QED BY <2>1, <2>2 DEF Environment
<1>4. leaders' \subseteq Node /\ faults' \in 0 .. MaxFaults
  BY <1>0 DEF Environment, RefreshChain, RefreshKey, Crash, Elect, SoakElapses, vars, env
<1> QED BY <1>1, <1>2, <1>3, <1>4 DEF WholeInv

\* Whatever overlaps, crashes or fails, the live key is always a key, whatever is
\* stored, served or held is a chain for a key, and a digest's soak elapses only while it
\* is on record: no operation goes on with a staged key or a chain it did not find
\* (ActivateCertificateKey, PromoteNextCertKey, flushOne).
THEOREM TypeCorrect == Spec => []TypeOK
<1>1. Init => Types /\ WholeInv
  <2> SUFFICES ASSUME Init PROVE WholeInv
    BY InitTypes
  <2>1. Stored
    BY CeremonyAssumption DEF Init, Stored, Key, ChainOrNone, Chain
  <2>2. Cached
    BY <2>1, Zenon DEF Init, Stored, Cached, ChainOrNone
  <2>3. AllEquipped
    BY IdleEquipped DEF Init, AllEquipped
  <2> QED BY <2>1, <2>2, <2>3, CeremonyAssumption DEF Init, WholeInv
<1>2. Types /\ WholeInv /\ [Next]_vars => Types' /\ WholeInv'
  <2> SUFFICES ASSUME Types, WholeInv, [Next]_vars PROVE WholeInv'
    BY TypesStep
  <2>1. ASSUME NEW p \in Proc,
               \/ ReplaceStart(p) \/ ActivateStart(p) \/ RenewStart(p)
               \/ FlushStart(p) \/ ReconcileStart(p) \/ DropRead(p)
               \/ Proceed(p)
        PROVE  WholeInv'
    <3>1. Reads(p) \/ Writes(p)
      BY <2>1, StepOf
    <3>2. Equipped(proc'[p]) /\ Moves(p)
      BY <2>1, <3>1, StartEquipped, WorkEquipped, ReadMoves, WriteMoves
    <3>3. AllEquipped'
      BY <3>2 DEF AllEquipped, Moves, WholeInv
    <3> QED BY <3>1, <3>3, WorkWhole DEF WholeInv
  <2>2. CASE Environment \/ UNCHANGED vars
    BY <2>2, EnvironmentWhole
  <2> QED BY <2>1, <2>2 DEF Next, Environment
<1>3. Types /\ WholeInv => TypeOK
  <2> SUFFICES ASSUME Types, WholeInv PROVE TypeOK
    OBVIOUS
  <2>1. \A p \in Proc : proc[p].key \in Key \cup {None}
    BY DEF Types, State, KeyOrNone
  <2>2. \A p \in Proc : proc[p].chain \in ChainOrNone /\ proc[p].kept \subseteq Key
    BY Zenon DEF WholeInv, AllEquipped, Equipped
  <2> QED BY <2>1, <2>2, Zenon DEF Types, Values, KeyOrNone, WholeInv, Stored, Cached, TypeOK
<1> QED BY <1>1, <1>2, <1>3, PTL DEF Spec
=============================================================================
