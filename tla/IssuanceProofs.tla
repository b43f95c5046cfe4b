--------------------------- MODULE IssuanceProofs ---------------------------
(***************************************************************************)
(* Proofs about Issuance, for any processes and goroutines and any number  *)
(* of orders, renewals and faults.                                         *)
(*                                                                         *)
(* The lease has one holder, and only its holder touches the journal, asks *)
(* the CA for orders or writes the chain.  An order on record that the CA  *)
(* still honours is the last one placed; so is the one an attempt has in   *)
(* hand, whether placed or resumed.  What it stores is therefore at least  *)
(* as new as anything a process holds back, restores or has stored.        *)
(*                                                                         *)
(* An attempt that nobody forced orders over a due chain only, if no other *)
(* goroutine of its process reads storage meanwhile (OneReader).  What is  *)
(* held stays held until storage has it, unless it came to be held after   *)
(* the flush under way had made its snapshot.                              *)
(***************************************************************************)
EXTENDS Issuance, TLAPS

Holds(p) == proc[p].pc \notin Unlocked \cup {"lease"}

OneHolder == \A p, q \in Proc : Holds(p) /\ Holds(q) => p = q

\* Whatever is stored, served, held or in hand was placed with the CA.
Known(o) == o = 0 \/ status[o] # "none"
AllKnown ==
  /\ Known(chain) /\ Known(journal)
  /\ \A n \in Node : Known(mem[n]) /\ Known(held[n])
  /\ \A p \in Proc : Known(proc[p].order)

\* Orders are numbered as they are placed.
InSequence == \A x, y \in Order : y < x /\ status[x] # "none" => status[y] # "none"

\* Order o is the last one placed.
Last(o) == \A x \in Order : status[x] # "none" => x <= o

InHand == {"record", "complete", "clear", "store"}
HandIsLast == \A p \in Proc : proc[p].pc \in InHand => Last(proc[p].order)

NothingOpen == journal = 0 \/ status[journal] = "gone"
JournalIsLast == NothingOpen \/ Last(journal)
PlacesAlone == \A p \in Proc : proc[p].pc = "place" => NothingOpen

WritesNewer == \A p \in Proc : proc[p].pc = "write" => proc[p].order > chain

\* A flush has a chain to write from the start.
FlushCarries == \A p \in Proc : proc[p].op \in {"flush", "restore"} => proc[p].order # 0

IInv ==
  /\ TypeOK /\ FlushCarries /\ OneHolder /\ AllKnown /\ InSequence
  /\ HandIsLast /\ JournalIsLast /\ PlacesAlone /\ WritesNewer

-----------------------------------------------------------------------------
\* One certificate is issued, stored and served, and nobody is at work (Init).
LEMMA InitInv == Init => IInv
<1> SUFFICES ASSUME Init PROVE IInv
  OBVIOUS
<1> USE IssuanceAssumption DEF Init, Idle, Order, Unlocked
<1>1. TypeOK
  BY DEF TypeOK, Pc, HasOrder
<1>2. FlushCarries /\ OneHolder /\ AllKnown
  BY DEF FlushCarries, OneHolder, Holds, AllKnown, Known
<1>3. InSequence /\ HandIsLast /\ JournalIsLast /\ PlacesAlone /\ WritesNewer
  BY DEF InSequence, HandIsLast, InHand, JournalIsLast, NothingOpen, PlacesAlone, WritesNewer
<1> QED BY <1>1, <1>2, <1>3 DEF IInv

-----------------------------------------------------------------------------
(* Goroutines moving along *)

Op == {"none", "force", "issue", "flush", "restore", "refresh"}
Procs ==
  /\ proc \in [Proc -> [op : Op, pc : Pc, order : 0 .. MaxOrders]]
  /\ \A p \in Proc : proc[p].pc \in HasOrder => proc[p].order # 0
  /\ FlushCarries

\* Goroutine p is at label with order o, and the others are where they were.
Moves(p, label, o) ==
  /\ Procs'
  /\ proc'[p].pc = label /\ proc'[p].order = o
  /\ \A q \in Proc : q # p => proc'[q] = proc[q]

State == [op : Op, pc : Pc, order : 0 .. MaxOrders]

\* A goroutine that gets a new state with an order where one is needed.
LEMMA StateMoves ==
  ASSUME TypeOK, FlushCarries, NEW p \in Proc, NEW r \in State, proc' = [proc EXCEPT ![p] = r],
         r.pc \in HasOrder \/ r.op \in {"flush", "restore"} => r.order # 0
  PROVE  Moves(p, r.pc, r.order)
<1>1. proc \in [Proc -> State] /\ \A q \in Proc : proc[q].pc \in HasOrder => proc[q].order # 0
  BY DEF TypeOK, State, Op
<1>2. /\ proc' \in [Proc -> State] /\ proc'[p] = r
      /\ \A q \in Proc : q # p => proc'[q] = proc[q]
  BY <1>1
<1>3. FlushCarries' /\ \A q \in Proc : proc'[q].pc \in HasOrder => proc'[q].order # 0
  BY <1>1, <1>2 DEF FlushCarries
<1> QED BY <1>2, <1>3 DEF Moves, Procs, State

\* A goroutine that goes on with what it has in hand.
LEMMA GotoMoves ==
  ASSUME TypeOK, FlushCarries, NEW p \in Proc, NEW label \in Pc, Goto(p, label),
         label \in HasOrder => proc[p].order # 0
  PROVE  Moves(p, label, proc[p].order)
<1> DEFINE r == [proc[p] EXCEPT !.pc = label]
<1>1. proc[p] \in State /\ (proc[p].op \in {"flush", "restore"} => proc[p].order # 0)
  BY DEF TypeOK, FlushCarries, State, Op
<1>2. /\ r \in State /\ r.op = proc[p].op /\ r.pc = label /\ r.order = proc[p].order
  BY <1>1 DEF State
<1>3. proc' = [proc EXCEPT ![p] = r]
  BY DEF Goto
<1> HIDE DEF r
<1>4. Moves(p, r.pc, r.order)
  BY <1>1, <1>2, <1>3, StateMoves, Zenon
<1> QED BY <1>2, <1>4

\* A goroutine that takes up an order.
LEMMA WithMoves ==
  ASSUME TypeOK, FlushCarries, NEW p \in Proc, NEW label \in Pc, NEW o \in 0 .. MaxOrders,
         With(p, label, o), o # 0
  PROVE  Moves(p, label, o)
<1> DEFINE r == [proc[p] EXCEPT !.pc = label, !.order = o]
<1>1. proc[p] \in State
  BY DEF TypeOK, State, Op
<1>2. r \in State /\ r.pc = label /\ r.order = o
  BY <1>1, Zenon DEF State
<1>3. proc' = [proc EXCEPT ![p] = r]
  BY Zenon DEF With
<1> HIDE DEF r
<1>4. Moves(p, r.pc, r.order)
  BY <1>2, <1>3, StateMoves, Zenon
<1> QED BY <1>2, <1>4

\* A goroutine that has finished.
LEMMA DoneMoves ==
  ASSUME TypeOK, FlushCarries, NEW p \in Proc, Done(p)
  PROVE  Moves(p, "idle", 0)
<1>1. /\ Idle \in State /\ Idle.pc = "idle" /\ Idle.order = 0
      /\ Idle.pc \notin HasOrder /\ Idle.op \notin {"flush", "restore"}
  BY IssuanceAssumption DEF Idle, State, Op, Pc, HasOrder
<1>2. Moves(p, Idle.pc, Idle.order)
  BY <1>1, StateMoves, Zenon DEF Done
<1> QED BY <1>1, <1>2

\* A goroutine that starts.
LEMMA BeginMoves ==
  ASSUME TypeOK, FlushCarries, NEW p \in Proc, NEW op \in Op, NEW label \in Pc,
         NEW o \in 0 .. MaxOrders, Begin(p, op, label, o),
         label \in HasOrder \/ op \in {"flush", "restore"} => o # 0
  PROVE  Moves(p, label, o)
<1> DEFINE r == [op |-> op, pc |-> label, order |-> o]
<1>1. r \in State /\ r.op = op /\ r.pc = label /\ r.order = o
  BY DEF State
<1>2. proc' = [proc EXCEPT ![p] = r]
  BY DEF Begin
<1> HIDE DEF r
<1>3. Moves(p, r.pc, r.order)
  BY <1>1, <1>2, StateMoves, Zenon
<1> QED BY <1>1, <1>3

\* The count of faults stays within its bound.
LEMMA FaultsBounded ==
  ASSUME faults \in 0 .. MaxFaults, UNCHANGED faults \/ Fault
  PROVE  faults' \in 0 .. MaxFaults
BY IssuanceAssumption DEF Fault

\* A step that leaves the journal, the CA and storage alone keeps the invariant if
\* the goroutine takes the lease only when it is free, and is entitled to be where
\* it goes (the reads, returns and early exits of issueWithKey and flushOne).
LEMMA QuietStep ==
  ASSUME IInv, NEW p \in Proc, NEW label \in Pc, NEW o \in 0 .. MaxOrders,
         Moves(p, label, o),
         UNCHANGED <<chain, journal, ca>>,
         leaders' \subseteq Node, faults' \in 0 .. MaxFaults,
         mem' \in [Node -> 0 .. MaxOrders], held' \in [Node -> 0 .. MaxOrders],
         \A n \in Node : Known(mem'[n]) /\ Known(held'[n]),
         Known(o),
         label \notin Unlocked \cup {"lease"} => Holds(p) \/ ~LeaseHeld,
         label \in InHand => Last(o),
         label = "place" => NothingOpen,
         label = "write" => o > chain
  PROVE  IInv'
<1> USE DEF IInv, Moves, ca
<1>1. TypeOK' /\ FlushCarries'
  BY DEF TypeOK, Procs, Op
<1>2. OneHolder'
  BY DEF OneHolder, Holds, LeaseHeld
<1>3. AllKnown'
  BY DEF AllKnown, Known
<1>4. InSequence'
  BY DEF InSequence
<1>5. HandIsLast' /\ JournalIsLast'
  BY DEF HandIsLast, JournalIsLast, NothingOpen, Last
<1>6. PlacesAlone' /\ WritesNewer'
  BY DEF PlacesAlone, WritesNewer, NothingOpen
<1> QED BY <1>1, <1>2, <1>3, <1>4, <1>5, <1>6

-----------------------------------------------------------------------------
\* The steps that leave journal, CA and storage alone keep the invariant (the
\* decision to issue, the snapshot of what is held, Refresh).
LEMMA StartInv == ASSUME IInv, NEW p \in Proc, Start(p) PROVE IInv'
<1> USE IssuanceAssumption DEF IInv
<1> DEFINE n == NodeOf[p]
<1>0. /\ n \in Node /\ mem[n] \in 0 .. MaxOrders /\ held[n] \in 0 .. MaxOrders
      /\ chain \in 0 .. MaxOrders
      /\ Known(mem[n]) /\ Known(held[n]) /\ Known(chain) /\ Known(0)
  BY DEF TypeOK, AllKnown, Known
<1>1. ASSUME NEW op \in Op, NEW label \in {"lease", "lock", "install"},
             NEW o \in 0 .. MaxOrders, Known(o),
             label # "lease" \/ op \in {"flush", "restore"} => o # 0,
             Begin(p, op, label, o), UNCHANGED <<chain, journal, ca, cache, env>>
      PROVE  IInv'
  <2>1. label \in Pc /\ (label \in HasOrder \/ op \in {"flush", "restore"} => o # 0)
    BY <1>1 DEF Pc, HasOrder
  <2>2. Moves(p, label, o)
    BY <1>1, <2>1, BeginMoves
  <2>3. /\ UNCHANGED <<chain, journal, ca>>
        /\ leaders' \subseteq Node /\ faults' \in 0 .. MaxFaults
        /\ mem' \in [Node -> 0 .. MaxOrders] /\ held' \in [Node -> 0 .. MaxOrders]
        /\ \A x \in Node : Known(mem'[x]) /\ Known(held'[x])
    BY <1>1 DEF TypeOK, AllKnown, cache, env
  <2>4. /\ label \notin Unlocked \cup {"lease"} => FALSE
        /\ label \in InHand => FALSE
        /\ label # "place" /\ label # "write"
    BY <1>1 DEF Unlocked, InHand
  <2> QED BY <1>1, <2>1, <2>2, <2>3, <2>4, QuietStep, Zenon
<1>2. ASSUME RenewCertificate(p) PROVE IInv'
  BY <1>0, <1>1, <1>2 DEF RenewCertificate, Op
<1>3. ASSUME Obtain(p) PROVE IInv'
  BY <1>0, <1>1, <1>3 DEF Obtain, Op
<1>4. ASSUME RenewIfNeeded(p) PROVE IInv'
  <2>1. CASE Install(n, chain) /\ UNCHANGED proc
    <3>1. /\ UNCHANGED <<chain, journal, status, due, held, leaders, faults, proc>>
          /\ mem' = [mem EXCEPT ![n] = chain]
      BY <1>4, <2>1 DEF RenewIfNeeded, Install, ca, env
    <3>2. mem' \in [Node -> 0 .. MaxOrders] /\ \A x \in Node : Known(mem'[x])
      BY <1>0, <3>1 DEF TypeOK, AllKnown
    <3>3. TypeOK' /\ FlushCarries'
      BY <3>1, <3>2 DEF TypeOK, FlushCarries
    <3>4. OneHolder' /\ AllKnown' /\ InSequence'
      BY <3>1, <3>2, Zenon DEF OneHolder, Holds, AllKnown, Known, InSequence
    <3>5. HandIsLast' /\ JournalIsLast' /\ PlacesAlone' /\ WritesNewer'
      BY <3>1, Zenon DEF HandIsLast, JournalIsLast, NothingOpen, Last, PlacesAlone, WritesNewer
    <3> QED BY <3>3, <3>4, <3>5
  <2>2. CASE Begin(p, "issue", "lease", 0) /\ UNCHANGED mem
    BY <1>0, <1>1, <1>4, <2>2, SMTT(30) DEF RenewIfNeeded, Op, cache
  <2> QED BY <1>4, <2>1, <2>2 DEF RenewIfNeeded
<1>5. ASSUME FlushHeld(p) PROVE IInv'
  BY <1>0, <1>1, <1>5, Zenon DEF FlushHeld, Op
<1>6. ASSUME RestoreMissing(p) PROVE IInv'
  BY <1>0, <1>1, <1>6, SMTT(30) DEF RestoreMissing, Op
<1>7. ASSUME RefreshRead(p) PROVE IInv'
  BY <1>0, <1>1, <1>7, Zenon DEF RefreshRead, Op
<1> QED BY <1>2, <1>3, <1>4, <1>5, <1>6, <1>7, Zenon DEF Start

\* Those of a goroutine that goes on (acquireIssueLease, Refresh, what memory holds,
\* a failed write of the journal, the comparison of flushOne, and early returns).
LEMMA QuietInv ==
  ASSUME IInv, NEW p \in Proc,
         \/ AcquireLease(p) \/ Recheck(p) \/ RecheckFails(p) \/ Decide(p)
         \/ RecordOrderFails(p) \/ ClearJournalFails(p)
         \/ FlushLock(p) \/ FlushCompare(p) \/ RefreshInstall(p) \/ GiveUp(p)
  PROVE  IInv'
<1> USE IssuanceAssumption DEF IInv
<1> DEFINE n == NodeOf[p]
<1> DEFINE o == proc[p].order
<1>0. /\ n \in Node /\ o \in 0 .. MaxOrders /\ chain \in 0 .. MaxOrders
      /\ Known(o) /\ Known(chain) /\ Known(0) /\ 0 \in 0 .. MaxOrders
  BY DEF TypeOK, AllKnown, Known
<1>m. ASSUME NEW c \in {o, chain}, mem' = [mem EXCEPT ![n] = c] \/ mem' = mem
      PROVE  mem' \in [Node -> 0 .. MaxOrders] /\ \A x \in Node : Known(mem'[x])
  BY <1>0, <1>m DEF TypeOK, AllKnown
<1>h. ASSUME held' = [held EXCEPT ![n] = 0] \/ held' = held
      PROVE  held' \in [Node -> 0 .. MaxOrders] /\ \A x \in Node : Known(held'[x])
  BY <1>0, <1>h DEF TypeOK, AllKnown
<1>r. mem' = Refreshed(n) => mem' = [mem EXCEPT ![n] = chain] \/ mem' = mem
  BY DEF Refreshed
<1>t. leaders \subseteq Node /\ faults \in 0 .. MaxFaults
  BY DEF TypeOK
<1>g. ASSUME NEW label \in Pc, Goto(p, label), label \in HasOrder => o # 0,
             UNCHANGED <<chain, journal, ca, held, leaders>>, faults' \in 0 .. MaxFaults,
             mem' = [mem EXCEPT ![n] = chain] \/ mem' = mem,
             label \notin Unlocked \cup {"lease"} => Holds(p) \/ ~LeaseHeld,
             label \in InHand => Last(o), label = "place" => NothingOpen,
             label = "write" => o > chain
      PROVE  IInv'
  <2>1. Moves(p, label, o)
    BY <1>g, GotoMoves, Zenon
  <2>2. leaders' \subseteq Node
    BY <1>t, <1>g, Zenon
  <2> QED BY <1>0, <1>m, <1>h, <1>g, <2>1, <2>2, QuietStep, Zenon
<1>d. ASSUME Done(p), UNCHANGED <<chain, journal, ca, env>>,
             held' = [held EXCEPT ![n] = 0] \/ held' = held,
             NEW c \in {o, chain}, mem' = [mem EXCEPT ![n] = c] \/ mem' = mem
      PROVE  IInv'
  <2>1. Moves(p, "idle", 0)
    BY <1>d, DoneMoves
  <2>2. /\ "idle" \in Pc /\ "idle" \in Unlocked /\ "idle" \notin InHand
        /\ leaders' \subseteq Node /\ faults' \in 0 .. MaxFaults
    BY <1>t, <1>d DEF Pc, Unlocked, InHand, env
  <2> QED BY <1>0, <1>m, <1>h, <1>d, <2>1, <2>2, QuietStep, Zenon
<1>1. ASSUME AcquireLease(p) PROVE IInv'
  <2>1. CASE ~LeaseHeld
    BY <1>t, <1>1, <1>g, <2>1, Zenon DEF AcquireLease, FlushCarries, At, env, Pc, HasOrder, InHand
  <2>2. CASE LeaseHeld
    BY <1>1, <1>d, <1>r, <2>2, Zenon DEF AcquireLease
  <2> QED BY <2>1, <2>2, Zenon
<1>2. ASSUME Recheck(p) PROVE IInv'
  BY <1>t, <1>2, <1>g, <1>r, Zenon DEF Recheck, At, env, Pc, HasOrder, InHand, Holds, Unlocked
<1>3. ASSUME RecheckFails(p) PROVE IInv'
  BY <1>t, <1>3, <1>g, Zenon DEF RecheckFails, At, cache, env, Pc, HasOrder, InHand, Holds, Unlocked
<1>4. ASSUME Decide(p) PROVE IInv'
  <2>1. CASE Done(p)
    BY <1>4, <1>d, <2>1, Zenon DEF Decide, cache
  <2>2. CASE Goto(p, "resume")
    BY <1>t, <1>4, <1>g, <2>2, Zenon DEF Decide, At, cache, env, Pc, HasOrder, InHand, Holds, Unlocked
  <2> QED BY <1>4, <2>1, <2>2, Zenon DEF Decide
<1>5. ASSUME RecordOrderFails(p) PROVE IInv'
  <2>1. faults' \in 0 .. MaxFaults
    BY <1>t, <1>5 DEF RecordOrderFails, Fault
  <2>2. o # 0 /\ Last(o) /\ Holds(p)
    BY <1>5, Zenon DEF RecordOrderFails, At, TypeOK, HasOrder, HandIsLast, InHand, Holds, Unlocked
  <2> QED BY <1>5, <1>g, <2>1, <2>2, Zenon DEF RecordOrderFails, cache, Pc, HasOrder
<1>6. ASSUME ClearJournalFails(p) PROVE IInv'
  <2>1. faults' \in 0 .. MaxFaults
    BY <1>t, <1>6 DEF ClearJournalFails, Fault
  <2>2. CASE At(p, "clear") /\ Goto(p, "store")
    <3>1. o # 0 /\ Last(o) /\ Holds(p)
      BY <2>2, Zenon DEF At, TypeOK, HasOrder, HandIsLast, InHand, Holds, Unlocked
    <3> QED BY <1>6, <1>g, <2>1, <2>2, <3>1, Zenon DEF ClearJournalFails, cache, Pc, HasOrder
  <2>3. CASE At(p, "resume") /\ status[journal] = "gone" /\ Goto(p, "place")
    BY <1>6, <1>g, <2>1, <2>3, Zenon
       DEF ClearJournalFails, At, cache, Pc, HasOrder, InHand, Holds, Unlocked, NothingOpen
  <2> QED BY <1>6, <2>2, <2>3, Zenon DEF ClearJournalFails
<1>7. ASSUME FlushLock(p) PROVE IInv'
  <2>1. CASE Done(p)
    BY <1>7, <1>d, <2>1, Zenon DEF FlushLock, cache
  <2>2. CASE Goto(p, "lease")
    BY <1>t, <1>7, <1>g, <2>2, Zenon DEF FlushLock, cache, env, Pc, HasOrder, InHand
  <2> QED BY <1>7, <2>1, <2>2, Zenon DEF FlushLock
<1>8. ASSUME FlushCompare(p) PROVE IInv'
  <2>1. CASE chain >= o
    BY <1>8, <1>d, <2>1, Zenon DEF FlushCompare, Install
  <2>2. CASE ~(chain >= o)
    <3>1. o # 0 /\ o > chain /\ Holds(p)
      BY <1>0, <1>8, <2>2 DEF FlushCompare, At, TypeOK, HasOrder, Holds, Unlocked
    <3> QED BY <1>t, <1>8, <1>g, <2>2, <3>1, Zenon DEF FlushCompare, env, Pc, HasOrder, InHand
  <2> QED BY <2>1, <2>2, Zenon
<1>9. ASSUME RefreshInstall(p) PROVE IInv'
  BY <1>9, <1>d, Zenon DEF RefreshInstall, Install
<1>10. ASSUME GiveUp(p) PROVE IInv'
  BY <1>10, <1>d, Zenon DEF GiveUp, cache
<1> QED BY <1>1, <1>2, <1>3, <1>4, <1>5, <1>6, <1>7, <1>8, <1>9, <1>10, Zenon

-----------------------------------------------------------------------------
\* The holder of the lease may write the journal and the chain: nobody else has an
\* order in hand, is about to place one, or is about to write (journal.record,
\* journal.clear, Store, flushOne).
LEMMA HolderStep ==
  ASSUME IInv, NEW p \in Proc, Holds(p),
         NEW label \in Pc, NEW o \in 0 .. MaxOrders, Moves(p, label, o), Known(o),
         UNCHANGED ca, leaders' \subseteq Node, faults' \in 0 .. MaxFaults,
         mem' \in [Node -> 0 .. MaxOrders], held' \in [Node -> 0 .. MaxOrders],
         \A n \in Node : Known(mem'[n]) /\ Known(held'[n]),
         chain' \in 0 .. MaxOrders, Known(chain'),
         journal' \in 0 .. MaxOrders, Known(journal'),
         journal' = 0 \/ status[journal'] = "gone" \/ Last(journal'),
         label \in InHand => Last(o),
         label = "place" => journal' = 0 \/ status[journal'] = "gone",
         label # "write"
  PROVE  IInv'
<1> USE DEF IInv, Moves, ca
<1>0. \A q \in Proc : q # p => ~Holds(q)
  BY Zenon DEF OneHolder
<1>1. TypeOK' /\ FlushCarries'
  BY Zenon DEF TypeOK, Procs, Op
<1>2. OneHolder'
  BY <1>0, Zenon DEF OneHolder, Holds
<1>3. AllKnown' /\ InSequence'
  BY Zenon DEF AllKnown, Known, InSequence
<1>4. JournalIsLast'
  BY Zenon DEF JournalIsLast, NothingOpen, Last
<1>5. HandIsLast'
  BY <1>0, Zenon DEF HandIsLast, Last, Holds, InHand, Unlocked
<1>6. PlacesAlone' /\ WritesNewer'
  BY <1>0, Zenon DEF PlacesAlone, WritesNewer, NothingOpen, Holds, Unlocked
<1> QED BY <1>1, <1>2, <1>3, <1>4, <1>5, <1>6, Zenon

\* The writes of the journal and of the chain (resumeOrder, Issue, Store, hold,
\* flushOne).
LEMMA WriteInv ==
  ASSUME IInv, NEW p \in Proc,
         \/ ResumeOrder(p) \/ RecordOrder(p) \/ ClearJournal(p)
         \/ Store(p) \/ StoreFails(p) \/ FlushWrite(p) \/ FlushWriteFails(p)
  PROVE  IInv'
<1> USE IssuanceAssumption DEF IInv
<1> DEFINE n == NodeOf[p]
<1> DEFINE o == proc[p].order
<1>0. /\ n \in Node /\ o \in 0 .. MaxOrders /\ chain \in 0 .. MaxOrders
      /\ journal \in 0 .. MaxOrders /\ 0 \in 0 .. MaxOrders
      /\ Known(o) /\ Known(chain) /\ Known(journal) /\ Known(0)
      /\ leaders \subseteq Node /\ faults \in 0 .. MaxFaults
  BY DEF TypeOK, AllKnown, Known
<1>m. ASSUME mem' = [mem EXCEPT ![n] = o] \/ mem' = mem
      PROVE  mem' \in [Node -> 0 .. MaxOrders] /\ \A x \in Node : Known(mem'[x])
  BY <1>0, <1>m, Zenon DEF TypeOK, AllKnown
<1>h. ASSUME NEW c \in {0, o}, held' = [held EXCEPT ![n] = c] \/ held' = held
      PROVE  held' \in [Node -> 0 .. MaxOrders] /\ \A x \in Node : Known(held'[x])
  BY <1>0, <1>h DEF TypeOK, AllKnown
<1>j. journal = 0 \/ status[journal] = "gone" \/ Last(journal)
  BY DEF JournalIsLast, NothingOpen
<1>1. ASSUME ResumeOrder(p) PROVE IInv'
  <2>0. /\ Holds(p) /\ UNCHANGED <<chain, ca, mem, held, leaders, faults>>
    BY <1>1, Zenon DEF ResumeOrder, At, Holds, Unlocked, cache, env
  <2>1. CASE Goto(p, "place") /\ journal' = 0
    <3>1. Moves(p, "place", o) /\ "place" \in Pc /\ "place" \notin InHand
      BY <2>1, GotoMoves, Zenon DEF Pc, HasOrder, InHand
    <3> QED BY <1>0, <1>m, <1>h, <2>0, <2>1, <3>1, HolderStep, Zenon
  <2>2. CASE /\ journal # 0 /\ status[journal] \in {"new", "valid"}
             /\ With(p, "complete", journal) /\ UNCHANGED journal
    <3>1. Moves(p, "complete", journal) /\ "complete" \in Pc
      BY <1>0, <2>2, WithMoves, Zenon DEF Pc
    <3>2. Last(journal)
      BY <1>j, <2>2
    <3> QED BY <1>0, <1>j, <1>m, <1>h, <2>0, <2>2, <3>1, <3>2, HolderStep, Zenon
  <2> QED BY <1>1, <2>1, <2>2, Zenon DEF ResumeOrder
<1>2. ASSUME RecordOrder(p) PROVE IInv'
  <2>1. /\ Holds(p) /\ o # 0 /\ Last(o)
        /\ UNCHANGED <<chain, ca, mem, held, leaders, faults>>
    BY <1>2, Zenon DEF RecordOrder, At, Holds, Unlocked, TypeOK, HasOrder, HandIsLast, InHand, cache, env
  <2>2. Moves(p, "complete", o) /\ "complete" \in Pc /\ journal' = o
    BY <1>2, <2>1, GotoMoves, Zenon DEF RecordOrder, Pc
  <2> QED BY <1>0, <1>m, <1>h, <2>1, <2>2, HolderStep, Zenon
<1>3. ASSUME ClearJournal(p) PROVE IInv'
  <2>1. /\ Holds(p) /\ o # 0 /\ Last(o)
        /\ UNCHANGED <<chain, ca, mem, held, leaders, faults>>
    BY <1>3, Zenon DEF ClearJournal, At, Holds, Unlocked, TypeOK, HasOrder, HandIsLast, InHand, cache, env
  <2>2. Moves(p, "store", o) /\ "store" \in Pc /\ journal' = 0
    BY <1>3, <2>1, GotoMoves, Zenon DEF ClearJournal, Pc
  <2> QED BY <1>0, <1>m, <1>h, <2>1, <2>2, HolderStep, Zenon
<1>4. ASSUME Store(p) \/ StoreFails(p) \/ FlushWrite(p) \/ FlushWriteFails(p) PROVE IInv'
  <2>1. /\ Holds(p) /\ chain' \in {chain, o} /\ UNCHANGED <<journal, ca, leaders>>
        /\ mem' = [mem EXCEPT ![n] = o] \/ mem' = mem
        /\ \E c \in {0, o} : held' = [held EXCEPT ![n] = c] \/ held' = held
        /\ Done(p)
    BY <1>4, Zenon DEF Store, StoreFails, FlushWrite, FlushWriteFails, At, Holds, Unlocked, Install,
       cache, env
  <2>2. faults' \in 0 .. MaxFaults
    <3>1. UNCHANGED faults \/ Fault
      BY <1>4, Zenon DEF Store, StoreFails, FlushWrite, FlushWriteFails, env
    <3> QED BY <1>0, <3>1, FaultsBounded, Zenon
  <2>3. Moves(p, "idle", 0) /\ "idle" \in Pc /\ "idle" \notin InHand
    BY <2>1, DoneMoves, Zenon DEF Pc, InHand
  <2> QED BY <1>0, <1>j, <1>m, <1>h, <2>1, <2>2, <2>3, HolderStep, Zenon
<1> QED BY <1>1, <1>2, <1>3, <1>4, Zenon

-----------------------------------------------------------------------------
\* An order the CA hands out is the next number, and only the holder of the lease,
\* with nothing open on record, asks for one (AuthorizeOrder).
LEMMA PlaceInv == ASSUME IInv, NEW p \in Proc, PlaceOrder(p) PROVE IInv'
<1> USE IssuanceAssumption DEF IInv
<1>1. PICK o \in Order :
        /\ status[o] = "none" /\ \A x \in Order : x < o => status[x] # "none"
        /\ status' = [status EXCEPT ![o] = "new"]
        /\ With(p, "record", o)
  BY Zenon DEF PlaceOrder
<1>2. /\ Holds(p) /\ NothingOpen /\ proc[p].pc = "place"
      /\ UNCHANGED <<chain, journal, due, mem, held, leaders, faults>>
  BY Zenon DEF PlaceOrder, At, Holds, Unlocked, PlacesAlone, cache, env
<1>3. Moves(p, "record", o)
  BY <1>1, WithMoves DEF Pc, Order
<1>4. \A q \in Proc : q # p => ~Holds(q) /\ proc'[q] = proc[q]
  BY <1>2, <1>3, Zenon DEF OneHolder, Moves
<1>5. status \in [Order -> {"none", "new", "valid", "gone"}]
  BY Zenon DEF TypeOK
<1>6. \A x \in Order : x # o => status'[x] = status[x]
  BY <1>1, <1>5
<1>7. status'[o] = "new"
  BY <1>1, <1>5
<1>8. journal = 0 \/ (journal \in Order /\ status[journal] = "gone")
  BY <1>2 DEF NothingOpen, TypeOK, Order
<1>9. NothingOpen'
  BY <1>1, <1>2, <1>6, <1>8, Zenon DEF NothingOpen
<1>a. TypeOK' /\ FlushCarries'
  BY <1>1, <1>2, <1>3, <1>5, Zenon DEF TypeOK, Moves, Procs, Op
<1>b. OneHolder'
  BY <1>4, Zenon DEF OneHolder, Holds
<1>c. AllKnown'
  <2>1. ASSUME NEW x \in 0 .. MaxOrders, Known(x) PROVE Known(x)'
    BY <1>1, <1>6, <1>7, <2>1 DEF Known, Order
  <2>2. Known(o)'
    BY <1>7 DEF Known
  <2> QED BY <1>2, <1>3, <1>4, <2>1, <2>2, SMTT(30) DEF AllKnown, Moves, Known, TypeOK
<1>d. InSequence'
  BY <1>1, <1>6, <1>7, Zenon DEF InSequence, Order
<1>e. Last(o)'
  <2>1. \A x \in Order : x > o => status[x] = "none"
    BY <1>1 DEF InSequence
  <2> QED BY <1>6, <2>1 DEF Last, Order
<1>f. HandIsLast'
  BY <1>3, <1>4, <1>e, Zenon DEF HandIsLast, Moves, InHand, Holds, Unlocked
<1>g. JournalIsLast' /\ PlacesAlone'
  BY <1>9 DEF JournalIsLast, PlacesAlone
<1>h. WritesNewer'
  BY <1>3, <1>4, Zenon DEF WritesNewer, Moves, Holds, Unlocked
<1> QED BY <1>a, <1>b, <1>c, <1>d, <1>f, <1>g, <1>h

\* What the CA does with an order that was placed does not unplace it, and an order
\* it has given up is never honoured again (complete, orderMaxAge).
LEMMA OrderMoves ==
  ASSUME IInv, NEW o \in Order, NEW s \in {"valid", "gone"}, status[o] \in {"new", "valid"},
         status' = [status EXCEPT ![o] = s],
         UNCHANGED <<chain, journal, due, mem, held, leaders>>, faults' \in 0 .. MaxFaults,
         \/ UNCHANGED proc
         \/ \E p \in Proc : \E label \in {"clear", "idle"} :
              /\ Holds(p) /\ Moves(p, label, IF label = "idle" THEN 0 ELSE proc[p].order)
              /\ label = "clear" => proc[p].pc \in InHand
  PROVE  IInv'
<1> USE IssuanceAssumption DEF IInv
<1>1. status \in [Order -> {"none", "new", "valid", "gone"}]
  BY Zenon DEF TypeOK
<1>2. \A x \in Order : (status'[x] = "none") <=> (status[x] = "none")
  BY <1>1, Zenon
<1>3. \A x \in Order : status[x] = "gone" => status'[x] = "gone"
  BY <1>1, Zenon
<1>4. ASSUME NEW x \in 0 .. MaxOrders PROVE Known(x) => Known(x)'
  BY <1>2 DEF Known, Order
<1>5. \A x \in 0 .. MaxOrders : Last(x) => Last(x)'
  BY <1>2, Zenon DEF Last
<1>6. NothingOpen => NothingOpen'
  BY <1>3 DEF NothingOpen, TypeOK, Order
<1>p. /\ Procs'
      /\ \A q \in Proc : \/ proc'[q] = proc[q]
                         \/ proc'[q].pc = "idle" /\ proc'[q].order = 0
                         \/ /\ proc'[q].pc = "clear" /\ proc[q].pc \in InHand /\ Holds(q)
                            /\ proc'[q].order = proc[q].order
  <2>1. CASE UNCHANGED proc
    BY <2>1, Zenon DEF TypeOK, Procs, Op, FlushCarries
  <2>2. ASSUME NEW p \in Proc, NEW label \in {"clear", "idle"},
               Holds(p), Moves(p, label, IF label = "idle" THEN 0 ELSE proc[p].order),
               label = "clear" => proc[p].pc \in InHand
        PROVE  <1>p!1 /\ <1>p!2
    BY <2>2, Zenon DEF Moves
  <2> QED BY <2>1, <2>2, Zenon
<1>a. TypeOK' /\ FlushCarries'
  BY <1>1, <1>p, Zenon DEF TypeOK, Procs, Op
<1>b. OneHolder'
  BY <1>p, Zenon DEF OneHolder, Holds, Unlocked
<1>c. AllKnown'
  BY <1>4, <1>p DEF AllKnown, TypeOK, Known
<1>d. InSequence'
  BY <1>2, Zenon DEF InSequence
<1>e. HandIsLast'
  BY <1>5, <1>p DEF HandIsLast, TypeOK, InHand
<1>f. JournalIsLast'
  BY <1>5, <1>6, Zenon DEF JournalIsLast, TypeOK
<1>g. PlacesAlone' /\ WritesNewer'
  BY <1>6, <1>p, Zenon DEF PlacesAlone, WritesNewer
<1> QED BY <1>a, <1>b, <1>c, <1>d, <1>e, <1>f, <1>g, Zenon

\* The challenge, the finalize and their failure (complete).
LEMMA CompleteInv ==
  ASSUME IInv, NEW p \in Proc, Complete(p) \/ CompleteFails(p)
  PROVE  IInv'
<1> USE IssuanceAssumption DEF IInv
<1> DEFINE o == proc[p].order
<1>1. /\ Holds(p) /\ proc[p].pc \in InHand /\ o \in Order /\ status[o] \in {"new", "valid"}
      /\ faults \in 0 .. MaxFaults
  BY DEF Complete, CompleteFails, At, Holds, Unlocked, InHand, TypeOK, HasOrder, Order
<1>2. CASE Complete(p)
  <2>1. Moves(p, "clear", o)
    BY <1>1, <1>2, GotoMoves DEF Complete, Pc, Order
  <2> QED BY <1>1, <1>2, <2>1, OrderMoves, Zenon DEF Complete, cache, env
<1>3. CASE CompleteFails(p)
  <2>1. Moves(p, "idle", 0)
    BY <1>3, DoneMoves, Zenon DEF CompleteFails
  <2>2. faults' \in 0 .. MaxFaults
    BY <1>1, <1>3 DEF CompleteFails, Fault
  <2> QED BY <1>1, <1>3, <2>1, <2>2, OrderMoves, Zenon DEF CompleteFails, cache
<1> QED BY <1>2, <1>3, Zenon

-----------------------------------------------------------------------------
\* A process that dies leaves the lease, the order and the chain it had in hand;
\* what it had placed stays placed.
LEMMA CrashInv == ASSUME IInv, NEW n \in Node, Crash(n) PROVE IInv'
<1> USE IssuanceAssumption DEF IInv
<1>1. UNCHANGED <<chain, journal, status, due, leaders>>
  BY DEF Crash, ca
<1>2. \A p \in Proc : proc'[p] = Idle \/ proc'[p] = proc[p]
  BY DEF Crash
<1>3. faults' \in 0 .. MaxFaults
  BY DEF Crash, Fault, TypeOK
<1>4. /\ mem' \in [Node -> 0 .. MaxOrders] /\ held' \in [Node -> 0 .. MaxOrders]
      /\ \A x \in Node : Known(mem'[x]) /\ Known(held'[x])
  BY DEF Crash, TypeOK, AllKnown, Known
<1>5. Procs'
  BY DEF Crash, Idle, TypeOK, FlushCarries, Procs, Op, Pc, HasOrder
<1>a. TypeOK' /\ FlushCarries'
  BY <1>1, <1>3, <1>4, <1>5, Zenon DEF TypeOK, Procs, Op
<1>b. OneHolder'
  BY <1>2 DEF OneHolder, Holds, Unlocked, Idle
<1>c. AllKnown' /\ InSequence'
  BY <1>1, <1>2, <1>4 DEF AllKnown, Known, InSequence, Idle
<1>d. HandIsLast' /\ JournalIsLast'
  <2>1. \A x : Last(x)' <=> Last(x)
    BY <1>1 DEF Last
  <2>2. JournalIsLast'
    BY <1>1, <2>1 DEF JournalIsLast, NothingOpen
  <2>3. Idle.pc \notin InHand
    BY Zenon DEF Idle, InHand
  <2>4. HandIsLast'
    BY <1>2, <2>1, <2>3, Zenon DEF HandIsLast
  <2> QED BY <2>2, <2>4
<1>e. PlacesAlone' /\ WritesNewer'
  BY <1>1, <1>2 DEF PlacesAlone, WritesNewer, NothingOpen, Idle
<1> QED BY <1>a, <1>b, <1>c, <1>d, <1>e

\* Changes of leadership, deletions by hand, time, and steps that change nothing.
LEMMA QuietEnvironmentInv ==
  ASSUME IInv, Elect \/ ChainDeleted \/ Age \/ UNCHANGED vars
  PROVE  IInv'
<1> USE IssuanceAssumption DEF IInv
<1>1. /\ UNCHANGED <<journal, status, mem, held, proc>>
      /\ chain' \in {chain, 0}
  BY Zenon DEF Elect, ChainDeleted, Age, vars, ca, cache, env
<1>2. /\ leaders' \subseteq Node /\ faults' \in 0 .. MaxFaults /\ due' \in 0 .. MaxDue
      /\ chain' \in 0 .. MaxOrders
  BY DEF Elect, ChainDeleted, Age, vars, ca, env, Fault, TypeOK
<1>a. TypeOK' /\ FlushCarries'
  BY <1>1, <1>2, Zenon DEF TypeOK, FlushCarries
<1>b. OneHolder' /\ AllKnown' /\ InSequence'
  BY <1>1, Zenon DEF OneHolder, Holds, AllKnown, Known, InSequence
<1>c. HandIsLast' /\ JournalIsLast' /\ PlacesAlone'
  BY <1>1, Zenon DEF HandIsLast, JournalIsLast, NothingOpen, Last, PlacesAlone
<1>d. WritesNewer'
  BY <1>1 DEF WritesNewer, TypeOK, HasOrder
<1> QED BY <1>a, <1>b, <1>c, <1>d, Zenon

\* Every step keeps the invariant.
LEMMA StepInv == IInv /\ [Next]_vars => IInv'
<1> SUFFICES ASSUME IInv, [Next]_vars PROVE IInv'
  OBVIOUS
<1>1. ASSUME NEW p \in Proc, Start(p) PROVE IInv'
  BY <1>1, StartInv
<1>2. ASSUME NEW p \in Proc, Proceed(p) PROVE IInv'
  BY <1>2, QuietInv, WriteInv, PlaceInv, CompleteInv, Zenon DEF Proceed, Work
<1>3. ASSUME NEW n \in Node, Crash(n) PROVE IInv'
  BY <1>3, CrashInv
<1>4. CASE OrderExpires
  <2>1. /\ journal \in Order /\ status[journal] \in {"new", "valid"}
        /\ faults' \in 0 .. MaxFaults
    BY <1>4, IssuanceAssumption DEF OrderExpires, Fault, IInv, TypeOK, AllKnown, Known, Order
  <2> QED BY <1>4, <2>1, OrderMoves, Zenon DEF OrderExpires, cache
<1>5. CASE Elect \/ ChainDeleted \/ Age \/ UNCHANGED vars
  BY <1>5, QuietEnvironmentInv
<1> QED BY <1>1, <1>2, <1>3, <1>4, <1>5 DEF Next

-----------------------------------------------------------------------------
\* The lease has one holder, and the order it has in hand, or has on record while
\* the CA honours it, is the last one placed (Issue, resumeOrder, flushOne).
THEOREM InvHolds == Spec => []IInv
BY InitInv, StepInv, PTL DEF Spec

\* No write replaces the chain in storage by an older one: Store writes the last
\* order placed, and flushOne only what is newer than what it has read under the
\* lease.
THEOREM NeverOlderHolds == Spec => NeverOlder
<1>1. IInv /\ [Next]_vars => [chain' >= chain \/ chain' = 0]_vars
  <2> SUFFICES ASSUME IInv, Next PROVE chain' >= chain \/ chain' = 0
    BY Zenon DEF IInv, TypeOK, vars
  <2> USE IssuanceAssumption DEF IInv
  <2>0. chain \in 0 .. MaxOrders /\ Known(chain)
    BY Zenon DEF TypeOK, AllKnown
  <2>1. ASSUME NEW p \in Proc, Store(p) \/ StoreFails(p) PROVE chain' >= chain
    <3>1. Last(proc[p].order) /\ proc[p].order \in 0 .. MaxOrders
      BY <2>1, Zenon DEF Store, StoreFails, At, HandIsLast, InHand, TypeOK
    <3>2. proc[p].order >= chain
      BY <2>0, <3>1 DEF Last, Known, Order
    <3> QED BY <2>0, <2>1, <3>2, SMTT(30) DEF Store, StoreFails
  <2>2. ASSUME NEW p \in Proc, FlushWrite(p) \/ FlushWriteFails(p) PROVE chain' >= chain
    BY <2>0, <2>2 DEF FlushWrite, FlushWriteFails, At, WritesNewer, TypeOK
  <2>3. ASSUME NEW p \in Proc, Start(p) PROVE chain' = chain
    BY <2>3, Zenon DEF Start, RenewCertificate, Obtain, RenewIfNeeded, FlushHeld, RestoreMissing,
       RefreshRead
  <2>4. ASSUME NEW p \in Proc, Proceed(p),
               ~(Store(p) \/ StoreFails(p) \/ FlushWrite(p) \/ FlushWriteFails(p))
        PROVE  chain' = chain
    BY <2>4, Zenon DEF Proceed, Work, GiveUp, AcquireLease, Recheck, RecheckFails, Decide,
       ResumeOrder, PlaceOrder, RecordOrder, RecordOrderFails, Complete, CompleteFails,
       ClearJournal, ClearJournalFails, FlushLock, FlushCompare, RefreshInstall
  <2>5. ASSUME \/ \E n \in Node : Crash(n)
               \/ Elect \/ ChainDeleted \/ Age \/ OrderExpires
        PROVE  chain' = chain \/ chain' = 0
    BY <2>5, Zenon DEF Crash, Elect, ChainDeleted, Age, OrderExpires
  <2> QED BY <2>0, <2>1, <2>2, <2>3, <2>4, <2>5 DEF Next
<1> QED BY <1>1, InvHolds, PTL DEF Spec, NeverOlder

\* An order is placed only when the journal names none that the CA still honours
\* (resumeOrder).
THEOREM OutstandingCollectedHolds == Spec => OutstandingCollected
<1>1. IInv /\ [Next]_vars =>
        [(\E o \in Order : Placed(o)) => journal = 0 \/ status[journal] = "gone"]_vars
  <2> SUFFICES ASSUME IInv, Next, NEW o \in Order, Placed(o) PROVE NothingOpen
    BY DEF NothingOpen
  <2> USE IssuanceAssumption DEF IInv
  <2>0. status \in [Order -> {"none", "new", "valid", "gone"}] /\ status' # status
    BY Zenon DEF TypeOK, Placed
  <2>1. ASSUME NEW p \in Proc, Start(p) PROVE FALSE
    BY <2>0, <2>1, Zenon DEF Start, RenewCertificate, Obtain, RenewIfNeeded, FlushHeld, RestoreMissing,
       RefreshRead, ca
  <2>2. ASSUME NEW p \in Proc, Complete(p) \/ CompleteFails(p) PROVE FALSE
    BY <2>0, <2>2, Zenon DEF Complete, CompleteFails, Placed
  <2>3. ASSUME NEW p \in Proc, PlaceOrder(p) PROVE NothingOpen
    BY <2>3, Zenon DEF PlaceOrder, At, PlacesAlone
  <2>4. ASSUME NEW p \in Proc, Proceed(p),
               ~(PlaceOrder(p) \/ Complete(p) \/ CompleteFails(p))
        PROVE  FALSE
    BY <2>0, <2>4, Zenon DEF Proceed, Work, GiveUp, AcquireLease, Recheck, RecheckFails, Decide,
       ResumeOrder, RecordOrder, RecordOrderFails, ClearJournal, ClearJournalFails, Store,
       StoreFails, FlushLock, FlushCompare, FlushWrite, FlushWriteFails, RefreshInstall, ca
  <2>5. ASSUME \/ \E n \in Node : Crash(n)
               \/ Elect \/ ChainDeleted \/ Age
        PROVE  FALSE
    BY <2>0, <2>5, Zenon DEF Crash, Elect, ChainDeleted, Age, ca
  <2>6. CASE OrderExpires
    <3>1. journal \in Order /\ status[journal] # "none"
      BY <2>6 DEF OrderExpires, TypeOK, AllKnown, Known, Order
    <3> QED BY <2>0, <2>6, <3>1, Zenon DEF OrderExpires, Placed
  <2> QED BY <2>1, <2>2, <2>3, <2>4, <2>5, <2>6 DEF Next
<1> QED BY <1>1, InvHolds, PTL DEF Spec, OutstandingCollected

-----------------------------------------------------------------------------
(* What an attempt has read, and what a flush carries *)

\* Goroutine p goes to label with order o, as part of operation op.
Goes(p, op, label, o) ==
  /\ proc'[p].op = op /\ proc'[p].pc = label /\ proc'[p].order = o
  /\ \A q \in Proc : q # p => proc'[q] = proc[q]

\* Where a goroutine goes, it goes alone (Goto, With, Done, Begin).
LEMMA GoesOn ==
  ASSUME TypeOK, NEW p \in Proc, NEW op, NEW label, NEW o
  PROVE  /\ Goto(p, label) => Goes(p, proc[p].op, label, proc[p].order)
         /\ With(p, label, o) => Goes(p, proc[p].op, label, o)
         /\ Done(p) => Goes(p, "none", "idle", 0)
         /\ Begin(p, op, label, o) => Goes(p, op, label, o)
<1>1. proc \in [Proc -> State]
  BY Zenon DEF TypeOK, State, Op
<1>2. ASSUME NEW r, proc' = [proc EXCEPT ![p] = r]
      PROVE  proc'[p] = r /\ \A q \in Proc : q # p => proc'[q] = proc[q]
  BY <1>1, <1>2
<1>3. Goto(p, label) => Goes(p, proc[p].op, label, proc[p].order)
  <2> DEFINE r == [proc[p] EXCEPT !.pc = label]
  <2>1. r.op = proc[p].op /\ r.pc = label /\ r.order = proc[p].order
    BY <1>1 DEF State
  <2>2. Goto(p, label) => proc' = [proc EXCEPT ![p] = r]
    BY DEF Goto
  <2> HIDE DEF r
  <2> QED BY <1>2, <2>1, <2>2, Zenon DEF Goes
<1>4. With(p, label, o) => Goes(p, proc[p].op, label, o)
  <2> DEFINE r == [proc[p] EXCEPT !.pc = label, !.order = o]
  <2>1. proc[p] \in State
    BY <1>1
  <2>2. r.op = proc[p].op /\ r.pc = label /\ r.order = o
    BY <2>1, Zenon DEF State
  <2>3. With(p, label, o) => proc' = [proc EXCEPT ![p] = r]
    BY Zenon DEF With
  <2> HIDE DEF r
  <2> QED BY <1>2, <2>2, <2>3, Zenon DEF Goes
<1>5. Done(p) => Goes(p, "none", "idle", 0)
  <2>1. Idle.op = "none" /\ Idle.pc = "idle" /\ Idle.order = 0
    BY Zenon DEF Idle
  <2> QED BY <1>2, <2>1, Zenon DEF Done, Goes
<1>6. Begin(p, op, label, o) => Goes(p, op, label, o)
  <2> DEFINE r == [op |-> op, pc |-> label, order |-> o]
  <2>1. r.op = op /\ r.pc = label /\ r.order = o
    OBVIOUS
  <2>2. Begin(p, op, label, o) => proc' = [proc EXCEPT ![p] = r]
    BY Zenon DEF Begin
  <2> HIDE DEF r
  <2> QED BY <1>2, <2>1, <2>2, Zenon DEF Goes
<1> QED BY <1>3, <1>4, <1>5, <1>6, Zenon

\* A goroutine's step changes no other process's memory, and its own process's only to
\* what storage has, unless it holds the lease or installs what it has read before;
\* only the holder of the lease writes the chain.
LEMMA StepShape ==
  ASSUME IInv, NEW p \in Proc, Start(p) \/ Proceed(p)
  PROVE  /\ due' = due
         /\ chain' = chain \/ Holds(p)
         /\ \A n \in Node : n # NodeOf[p] => mem'[n] = mem[n] /\ held'[n] = held[n]
         /\ mem'[NodeOf[p]] \in {mem[NodeOf[p]], chain} \/ Holds(p) \/ At(p, "install")
<1> USE IssuanceAssumption DEF IInv
<1> DEFINE n == NodeOf[p]
<1>1. n \in Node /\ mem \in [Node -> 0 .. MaxOrders] /\ held \in [Node -> 0 .. MaxOrders]
  BY Zenon DEF TypeOK
<1>2. ASSUME UNCHANGED <<chain, due, held>>, NEW c, mem' = mem \/ mem' = [mem EXCEPT ![n] = c],
             c = chain \/ At(p, "install")
      PROVE  /\ due' = due /\ chain' = chain
             /\ \A x \in Node : x # n => mem'[x] = mem[x] /\ held'[x] = held[x]
             /\ mem'[n] \in {mem[n], chain} \/ At(p, "install")
  BY <1>1, <1>2, Zenon
<1>3. CASE Start(p)
  <2>1. UNCHANGED <<chain, due, held>> /\ (mem' = mem \/ mem' = [mem EXCEPT ![n] = chain])
    BY <1>3, Zenon DEF Start, RenewCertificate, Obtain, RenewIfNeeded, FlushHeld, RestoreMissing,
       RefreshRead, Install, ca, cache
  <2> QED BY <1>2, <2>1, Zenon
<1>4. CASE AcquireLease(p) \/ RefreshInstall(p) \/ GiveUp(p) \/ FlushLock(p)
  <2>1. /\ UNCHANGED <<chain, due, held>>
        /\ \E c : (mem' = mem \/ mem' = [mem EXCEPT ![n] = c]) /\ (c = chain \/ At(p, "install"))
    BY <1>4, Zenon DEF AcquireLease, RefreshInstall, GiveUp, FlushLock, Install, Refreshed, ca, cache
  <2> QED BY <1>2, <2>1, Zenon
<1>5. CASE Proceed(p) /\ ~(AcquireLease(p) \/ RefreshInstall(p) \/ GiveUp(p) \/ FlushLock(p))
  <2>1. /\ Recheck(p) \/ RecheckFails(p) \/ Decide(p)
           \/ ResumeOrder(p) \/ PlaceOrder(p) \/ RecordOrder(p) \/ RecordOrderFails(p)
           \/ Complete(p) \/ CompleteFails(p) \/ ClearJournal(p) \/ ClearJournalFails(p)
           \/ Store(p) \/ StoreFails(p) \/ FlushCompare(p) \/ FlushWrite(p) \/ FlushWriteFails(p)
    BY <1>5, Zenon DEF Proceed, Work
  <2>2. Holds(p)
    BY <2>1, Zenon DEF Recheck, RecheckFails, Decide, ResumeOrder, PlaceOrder, RecordOrder,
       RecordOrderFails, Complete, CompleteFails, ClearJournal, ClearJournalFails, Store,
       StoreFails, FlushCompare, FlushWrite, FlushWriteFails, At, Holds, Unlocked
  <2>3. /\ due' = due
        /\ \E c : mem' = mem \/ mem' = [mem EXCEPT ![n] = c]
        /\ \E c : held' = held \/ held' = [held EXCEPT ![n] = c]
    BY <2>1, Zenon DEF Recheck, RecheckFails, Decide, ResumeOrder, PlaceOrder, RecordOrder,
       RecordOrderFails, Complete, CompleteFails, ClearJournal, ClearJournalFails, Store,
       StoreFails, FlushCompare, FlushWrite, FlushWriteFails, Install, Refreshed, ca, cache
  <2>4. \A x \in Node : x # n => mem'[x] = mem[x] /\ held'[x] = held[x]
    BY <1>1, <2>3, Zenon
  <2> QED BY <2>2, <2>3, <2>4, Zenon
<1> QED BY <1>3, <1>4, <1>5, Zenon

-----------------------------------------------------------------------------
\* No process runs a handshake beside another or beside its maintenance loop, so that
\* none installs what it has read beside an attempt (operators do not read that way).
OneReader == \A p, q \in Handshake \cup Ticker : NodeOf[p] = NodeOf[q] => p = q

\* Once an attempt that nobody forced has read storage under the lease, memory has what
\* storage has, and once it has decided to order, that is due.
Unforced(p) ==
  /\ proc[p].op = "issue" \/ proc[p].pc = "install" => p \in Handshake \cup Ticker
  /\ proc[p].pc = "decide" => proc[p].op = "issue"
  /\ proc[p].pc = "decide" => chain \in {mem[NodeOf[p]], 0}
  /\ proc[p].pc \in {"resume", "place"} /\ proc[p].op = "issue" => ~Fresh(chain)
FreshInv == \A p \in Proc : Unforced(p)

\* A goroutine's step moves no other goroutine.
LEMMA OthersStay ==
  ASSUME IInv, NEW p \in Proc, Start(p) \/ Proceed(p), NEW q \in Proc
  PROVE  proc'[q] = proc[q] \/ p = q
<1>1. proc \in [Proc -> State]
  BY Zenon DEF IInv, TypeOK, State, Op
<1>2. CASE Start(p)
  <2>1. UNCHANGED proc \/ \E op, label, o : Begin(p, op, label, o)
    BY <1>2, Zenon DEF Start, RenewCertificate, Obtain, RenewIfNeeded, FlushHeld,
       RestoreMissing, RefreshRead
  <2> QED BY <1>1, <2>1, Zenon DEF Begin
<1>3. CASE Proceed(p)
  <2>1. Done(p) \/ (\E label : Goto(p, label)) \/ (\E label, o : With(p, label, o))
    BY <1>3, Zenon DEF Proceed, Work, GiveUp, AcquireLease, Recheck, RecheckFails, Decide,
       ResumeOrder, PlaceOrder, RecordOrder, RecordOrderFails, Complete, CompleteFails,
       ClearJournal, ClearJournalFails, Store, StoreFails, FlushLock, FlushCompare, FlushWrite,
       FlushWriteFails, RefreshInstall
  <2> QED BY <1>1, <2>1, Zenon DEF Done, Goto, With
<1> QED BY <1>2, <1>3, Zenon

\* No chain is never fresh.
LEMMA NotFresh == TypeOK => ~Fresh(0)
BY IssuanceAssumption DEF TypeOK, Fresh

\* The goroutine itself (Recheck and Decide of issueWithKey, and the orders after them).
LEMMA OwnFresh ==
  ASSUME IInv, NEW p \in Proc, Unforced(p), Start(p) \/ Proceed(p)
  PROVE  Unforced(p)'
<1> USE IssuanceAssumption DEF IInv
<1> DEFINE n == NodeOf[p]
<1>0. n \in Node /\ mem \in [Node -> 0 .. MaxOrders]
  BY Zenon DEF TypeOK
<1>1. ASSUME NEW op, NEW label, NEW o, Goes(p, op, label, o),
             op = "issue" \/ label = "install" => p \in Handshake \cup Ticker,
             label \notin {"decide", "resume", "place"}
      PROVE  Unforced(p)'
  BY <1>1, Zenon DEF Goes, Unforced
<1>2. CASE Start(p)
  <2>1. CASE UNCHANGED proc
    <3>1. proc[p] = Idle
      BY <1>2, Zenon DEF Start, RenewCertificate, Obtain, RenewIfNeeded, FlushHeld, RestoreMissing,
         RefreshRead
    <3> QED BY <2>1, <3>1 DEF Unforced, Idle
  <2>2. CASE ~UNCHANGED proc
    <3>0. ASSUME NEW op, NEW o, NEW label \in {"lease", "lock", "install"},
                 Begin(p, op, label, o),
                 op = "issue" \/ label = "install" => p \in Handshake \cup Ticker
          PROVE  Unforced(p)'
      <4>1. Goes(p, op, label, o)
        BY <3>0, GoesOn, Zenon
      <4> QED BY <1>1, <3>0, <4>1, Zenon
    <3>1. CASE RenewCertificate(p)
      BY <3>0, <3>1, Zenon DEF RenewCertificate
    <3>2. CASE Obtain(p) \/ RenewIfNeeded(p)
      <4>1. p \in Handshake \cup Ticker /\ Begin(p, "issue", "lease", 0)
        BY <2>2, <3>2, Zenon DEF Obtain, RenewIfNeeded
      <4> QED BY <3>0, <4>1, Zenon
    <3>3. CASE FlushHeld(p)
      BY <3>0, <3>3, Zenon DEF FlushHeld
    <3>4. CASE RestoreMissing(p)
      BY <3>0, <3>4, Zenon DEF RestoreMissing
    <3>5. CASE RefreshRead(p)
      <4>1. p \in Handshake \cup Ticker /\ Begin(p, "refresh", "install", chain)
        BY <3>5, Zenon DEF RefreshRead
      <4> QED BY <3>0, <4>1, Zenon
    <3> QED BY <1>2, <3>1, <3>2, <3>3, <3>4, <3>5, Zenon DEF Start
  <2> QED BY <2>1, <2>2
<1>3. CASE Proceed(p)
  <2>1. ASSUME Done(p) PROVE Unforced(p)'
    <3>1. Goes(p, "none", "idle", 0)
      BY <2>1, GoesOn, Zenon
    <3> QED BY <1>1, <3>1
  <2>2. ASSUME NEW label \in {"recheck", "compare", "lease", "complete", "clear", "store", "write"},
               Goto(p, label)
        PROVE  Unforced(p)'
    <3>1. Goes(p, proc[p].op, label, proc[p].order)
      BY <2>2, GoesOn, Zenon
    <3> QED BY <1>1, <3>1, Zenon DEF Unforced
  <2>3. ASSUME NEW label \in {"record", "complete"}, NEW o, With(p, label, o)
        PROVE  Unforced(p)'
    <3>1. Goes(p, proc[p].op, label, o)
      BY <2>3, GoesOn, Zenon
    <3> QED BY <1>1, <3>1, Zenon DEF Unforced
  <2>4. ASSUME NEW label \in {"decide", "resume", "place"}, Goto(p, label),
               UNCHANGED <<chain, due>>,
               label = "decide" => proc[p].op = "issue" /\ mem'[n] = chain,
               label # "decide" /\ proc[p].op = "issue" => ~Fresh(chain)
        PROVE  Unforced(p)'
    <3>1. Goes(p, proc[p].op, label, proc[p].order)
      BY <2>4, GoesOn, Zenon
    <3> QED BY <2>4, <3>1, Zenon DEF Unforced, Goes, Fresh
  <2>5. CASE Recheck(p)
    <3>1. UNCHANGED <<chain, due>>
      BY <2>5, Zenon DEF Recheck, ca
    <3>2. CASE chain # 0 /\ proc[p].op = "issue"
      <4>1. mem'[n] = chain /\ Goto(p, "decide")
        BY <1>0, <2>5, <3>2, Zenon DEF Recheck, Refreshed
      <4> QED BY <2>4, <3>1, <3>2, <4>1, Zenon
    <3>3. CASE ~(chain # 0 /\ proc[p].op = "issue")
      <4>1. Goto(p, "resume") /\ (proc[p].op = "issue" => ~Fresh(chain))
        BY <2>5, <3>3, NotFresh, Zenon DEF Recheck
      <4> QED BY <2>4, <3>1, <4>1, Zenon
    <3> QED BY <3>2, <3>3, Zenon
  <2>6. CASE Decide(p)
    <3>1. /\ UNCHANGED <<chain, due>> /\ proc[p].pc = "decide"
          /\ Done(p) \/ (Goto(p, "resume") /\ ~Fresh(mem[n]))
      BY <2>6, Zenon DEF Decide, ca, At
    <3>2. ~Fresh(mem[n]) => ~Fresh(chain)
      BY <3>1, NotFresh, Zenon DEF Unforced
    <3> QED BY <2>1, <2>4, <3>1, <3>2, Zenon
  <2>7. CASE ResumeOrder(p) \/ ClearJournalFails(p)
    <3>1. /\ UNCHANGED <<chain, due>>
          /\ \/ proc[p].pc = "resume" /\ Goto(p, "place")
             \/ With(p, "complete", journal)
             \/ Goto(p, "store")
      BY <2>7, Zenon DEF ResumeOrder, ClearJournalFails, At, ca
    <3>2. proc[p].pc = "resume" /\ proc[p].op = "issue" => ~Fresh(chain)
      BY Zenon DEF Unforced
    <3> QED BY <2>2, <2>3, <2>4, <3>1, <3>2, Zenon
  <2>8. CASE RecheckFails(p)
    <3>1. UNCHANGED <<chain, due>> /\ proc[p].op = "force" /\ Goto(p, "resume")
      BY <2>8, Zenon DEF RecheckFails, ca
    <3> QED BY <2>4, <3>1, Zenon
  <2>9. CASE PlaceOrder(p)
    BY <2>3, <2>9, Zenon DEF PlaceOrder
  <2>10. CASE \/ AcquireLease(p) \/ RecordOrder(p) \/ RecordOrderFails(p) \/ Complete(p)
              \/ CompleteFails(p) \/ ClearJournal(p) \/ Store(p) \/ StoreFails(p)
              \/ FlushLock(p) \/ FlushCompare(p) \/ FlushWrite(p) \/ FlushWriteFails(p)
              \/ RefreshInstall(p) \/ GiveUp(p)
    <3>1. \/ Done(p)
          \/ \E label \in {"recheck", "compare", "lease", "complete", "clear", "store", "write"} :
               Goto(p, label)
      BY <2>10, Zenon DEF AcquireLease, RecordOrder, RecordOrderFails, Complete, CompleteFails,
         ClearJournal, Store, StoreFails, FlushLock, FlushCompare, FlushWrite, FlushWriteFails,
         RefreshInstall, GiveUp
    <3> QED BY <2>1, <2>2, <3>1
  <2> QED BY <1>3, <2>5, <2>6, <2>7, <2>8, <2>9, <2>10, Zenon DEF Proceed, Work
<1> QED BY <1>2, <1>3

\* The goroutines beside it: whoever has read storage holds the lease, so nobody else
\* writes the chain; and nobody else of its process installs an earlier reading.
LEMMA OtherFresh ==
  ASSUME OneReader, IInv, FreshInv, NEW p \in Proc, Start(p) \/ Proceed(p),
         NEW q \in Proc, q # p, proc'[q] = proc[q]
  PROVE  Unforced(q)'
<1> USE IssuanceAssumption
<1>1. proc[q].pc \in {"decide", "resume", "place"} => Holds(q) /\ ~Holds(p)
  BY Zenon DEF IInv, OneHolder, Holds, Unlocked
<1>2. due' = due /\ (~Holds(p) => chain' = chain)
  BY StepShape, Zenon
<1>3. ASSUME proc[q].pc = "decide" PROVE chain' \in {mem'[NodeOf[q]], 0}
  <2>1. chain' = chain /\ ~Holds(p) /\ chain \in {mem[NodeOf[q]], 0}
    BY <1>1, <1>2, <1>3, Zenon DEF FreshInv, Unforced
  <2>2. CASE NodeOf[q] # NodeOf[p]
    <3>1. NodeOf[q] \in Node /\ mem'[NodeOf[q]] = mem[NodeOf[q]]
      BY <2>2, StepShape, Zenon
    <3> QED BY <2>1, <3>1, Zenon
  <2>3. CASE NodeOf[q] = NodeOf[p]
    <3>1. q \in Handshake \cup Ticker
      BY <1>3, Zenon DEF FreshInv, Unforced
    <3>2. ~At(p, "install")
      BY <2>3, <3>1, Zenon DEF FreshInv, Unforced, OneReader, At
    <3>3. mem'[NodeOf[p]] \in {mem[NodeOf[p]], chain}
      BY <2>1, <3>2, StepShape, Zenon
    <3> QED BY <2>1, <2>3, <3>3, Zenon
  <2> QED BY <2>2, <2>3, Zenon
<1>4. Unforced(q)
  BY Zenon DEF FreshInv
<1> QED BY <1>1, <1>2, <1>3, <1>4, Zenon DEF Unforced, Fresh

\* Every step keeps what attempts know about what they have read.
LEMMA FreshStep ==
  ASSUME OneReader
  PROVE  IInv /\ FreshInv /\ [Next]_vars => FreshInv'
<1> SUFFICES ASSUME IInv, FreshInv, [Next]_vars, NEW q \in Proc PROVE Unforced(q)'
  BY DEF FreshInv
<1>0. Unforced(q) /\ TypeOK
  BY DEF FreshInv, IInv
<1>1. ASSUME NEW p \in Proc, Start(p) \/ Proceed(p) PROVE Unforced(q)'
  <2>1. proc'[q] = proc[q] \/ p = q
    BY <1>1, OthersStay, Zenon
  <2> QED BY <1>0, <1>1, <2>1, OwnFresh, OtherFresh, Zenon
<1>2. ASSUME NEW n \in Node, Crash(n) PROVE Unforced(q)'
  <2>1. UNCHANGED <<chain, due>>
    BY <1>2, Zenon DEF Crash, ca
  <2>2. CASE NodeOf[q] = n
    <3>1. proc'[q] = Idle
      BY <1>2, <2>2, Zenon DEF Crash
    <3> QED BY <3>1 DEF Unforced, Idle
  <2>3. CASE NodeOf[q] # n
    <3>1. proc'[q] = proc[q] /\ mem'[NodeOf[q]] = mem[NodeOf[q]]
      BY <1>0, <1>2, <2>3, IssuanceAssumption, Zenon DEF Crash, TypeOK
    <3> QED BY <1>0, <2>1, <3>1, Zenon DEF Unforced, Fresh
  <2> QED BY <2>2, <2>3
<1>3. ASSUME Elect \/ OrderExpires \/ UNCHANGED vars PROVE Unforced(q)'
  <2>1. UNCHANGED <<chain, due, mem, proc>>
    BY <1>3, Zenon DEF Elect, OrderExpires, vars, ca, cache
  <2> QED BY <1>0, <2>1, Zenon DEF Unforced, Fresh
<1>4. ASSUME ChainDeleted PROVE Unforced(q)'
  <2>1. chain' = 0 /\ UNCHANGED <<due, mem, proc>>
    BY <1>4 DEF ChainDeleted, ca, cache
  <2>2. ~Fresh(0)'
    BY <1>0, <2>1, NotFresh DEF Fresh
  <2> QED BY <1>0, <2>1, <2>2, Zenon DEF Unforced, Fresh
<1>5. ASSUME Age PROVE Unforced(q)'
  <2>1. UNCHANGED <<chain, mem, proc>> /\ due' = due + 1
    BY <1>5 DEF Age, cache
  <2>2. ~Fresh(chain) => ~Fresh(chain)'
    BY <1>0, <2>1, IssuanceAssumption DEF Fresh, TypeOK
  <2> QED BY <1>0, <2>1, <2>2, Zenon DEF Unforced
<1> QED BY <1>1, <1>2, <1>3, <1>4, <1>5 DEF Next

\* An attempt that nobody forced places no order over a fresh chain in storage, for any
\* processes, leaders and faults, as long as no process has a handshake reading beside
\* another reader (the re-check of issueWithKey).
THEOREM FreshNotReorderedHolds ==
  ASSUME OneReader
  PROVE  Spec => FreshNotReordered
<1>1. Init => FreshInv
  BY DEF Init, Idle, FreshInv, Unforced
<1>2. Spec => []FreshInv
  BY <1>1, FreshStep, InvHolds, PTL DEF Spec
<1>3. FreshInv => [ \A p \in Proc : At(p, "place") /\ proc'[p].pc = "record" /\ proc[p].op = "issue"
                                      => ~Fresh(chain) ]_vars
  BY Zenon DEF FreshInv, Unforced, At
<1> QED BY <1>2, <1>3, PTL DEF FreshNotReordered

-----------------------------------------------------------------------------
\* A chain held in memory is let go only for one in storage that is at least as new,
\* with the process, or by a flush it has overtaken, for any processes, attempts,
\* leaders and faults (hold, Store, flushOne).
THEOREM HeldReachesStorageHolds == Spec => HeldReachesStorage
<1>1. IInv /\ [Next]_vars =>
        [ \A n \in Node :
            \/ held'[n] >= held[n]
            \/ chain' >= held[n]
            \/ mem'[n] = 0
            \/ Overtaken(n) ]_vars
  <2> SUFFICES ASSUME IInv, Next, NEW x \in Node
               PROVE  held'[x] >= held[x] \/ chain' >= held[x] \/ mem'[x] = 0 \/ Overtaken(x)
    BY Zenon DEF vars
  <2> USE IssuanceAssumption
  <2>0. /\ held \in [Node -> 0 .. MaxOrders] /\ held[x] \in 0 .. MaxOrders /\ held[x] >= held[x]
        /\ chain \in 0 .. MaxOrders /\ mem \in [Node -> 0 .. MaxOrders]
    BY DEF IInv, TypeOK
  <2>1. ASSUME NEW p \in Proc, Store(p) \/ StoreFails(p)
        PROVE  held'[x] >= held[x] \/ chain' >= held[x]
    <3>1. Last(proc[p].order) /\ proc[p].order \in 0 .. MaxOrders /\ Known(held[x])
      BY <2>1, Zenon DEF IInv, Store, StoreFails, At, HandIsLast, InHand, TypeOK, AllKnown
    <3>2. proc[p].order >= held[x]
      BY <2>0, <3>1 DEF Last, Known, Order
    <3>3. CASE Store(p)
      BY <3>2, <3>3, Zenon DEF Store
    <3>4. CASE StoreFails(p)
      BY <2>0, <3>2, <3>4, Zenon DEF StoreFails
    <3> QED BY <2>1, <3>3, <3>4, Zenon
  <2>2. ASSUME NEW p \in Proc, FlushCompare(p) \/ FlushWrite(p)
        PROVE  held'[x] >= held[x] \/ chain' >= held[x] \/ Overtaken(x)
    <3>1. proc[p].order \in 0 .. MaxOrders /\ proc[p].pc \in {"compare", "write"}
      BY <2>2, Zenon DEF FlushCompare, FlushWrite, At, IInv, TypeOK
    <3>2. CASE x # NodeOf[p]
      BY <2>0, <2>2, <3>2, Zenon DEF FlushCompare, FlushWrite
    <3>3. CASE x = NodeOf[p] /\ proc[p].order < held[x]
      BY <3>1, <3>3, Zenon DEF Overtaken
    <3>4. CASE x = NodeOf[p] /\ ~(proc[p].order < held[x])
      BY <2>0, <2>2, <3>1, <3>4, SMTT(30) DEF FlushCompare, FlushWrite
    <3> QED BY <3>2, <3>3, <3>4, Zenon
  <2>3. ASSUME NEW p \in Proc, Start(p) PROVE held' = held
    BY <2>3, Zenon DEF Start, RenewCertificate, Obtain, RenewIfNeeded, FlushHeld, RestoreMissing,
       RefreshRead, cache
  <2>4. ASSUME NEW p \in Proc, Proceed(p),
               ~(Store(p) \/ StoreFails(p) \/ FlushCompare(p) \/ FlushWrite(p))
        PROVE  held' = held
    BY <2>4, Zenon DEF Proceed, Work, GiveUp, AcquireLease, Recheck, RecheckFails, Decide,
       ResumeOrder, PlaceOrder, RecordOrder, RecordOrderFails, Complete, CompleteFails,
       ClearJournal, ClearJournalFails, FlushLock, FlushWriteFails, RefreshInstall, cache
  <2>5. ASSUME NEW n \in Node, Crash(n) PROVE held'[x] >= held[x] \/ mem'[x] = 0
    BY <2>0, <2>5, Zenon DEF Crash
  <2>6. ASSUME Elect \/ ChainDeleted \/ Age \/ OrderExpires PROVE held' = held
    BY <2>6, Zenon DEF Elect, ChainDeleted, Age, OrderExpires, cache
  <2> QED BY <2>0, <2>1, <2>2, <2>3, <2>4, <2>5, <2>6, Zenon DEF Next
<1> QED BY <1>1, InvHolds, PTL DEF Spec, HeldReachesStorage
=============================================================================
