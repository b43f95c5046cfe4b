------------------------------ MODULE Issuance ------------------------------
(***************************************************************************)
(* One certificate from the decision to order to the stored chain          *)
(* (manager.go issueWithKey, issuer.go, order_journal.go, cert_cache.go    *)
(* and the flush and restore of scheduler.go): the order at the CA, its    *)
(* journal entry, the chain in storage, and what each process serves from  *)
(* memory or holds because storage refused it.                             *)
(*                                                                         *)
(* A Proc is one goroutine: an operator's forced renewal, a handshake that *)
(* found nothing to serve, or a maintenance loop.  Every call to storage   *)
(* or to the CA is one step that may fail, a failed write may have been    *)
(* applied, and a request whose answer was lost may have been carried out. *)
(* The issuance lease is the mutual exclusion IssueLease provides.         *)
(*                                                                         *)
(* A chain is the number of its order.  Orders are finalized in the order  *)
(* they are placed, so a greater number expires later; 0 is no chain.  All *)
(* chains are bound to the hostname's one key (KeyCeremony replaces it).   *)
(***************************************************************************)
EXTENDS Integers, FiniteSets

CONSTANTS
  Node,        \* processes of the cluster
  Proc,        \* goroutines that work on this name
  Operator,    \* those that run RenewCertificate
  Handshake,   \* those that run obtain; the others are maintenance loops
  NodeOf,      \* the process a goroutine runs in
  MaxOrders,   \* bound on orders placed
  MaxDue,      \* bound on the chains that come into their renewal window
  MaxFaults    \* bound on crashes, changes of leadership, deletions, and
               \* failed calls that leave something behind

ASSUME IssuanceAssumption ==
  /\ NodeOf \in [Proc -> Node]
  /\ Operator \subseteq Proc /\ Handshake \subseteq Proc
  /\ MaxOrders \in Nat \ {0} /\ MaxDue \in Nat /\ MaxFaults \in Nat

Ticker == Proc \ (Operator \cup Handshake)
Order == 1 .. MaxOrders

VARIABLES
  chain,       \* certs/<domain>
  journal,     \* orders/<domain>
  status,      \* the CA's view of each order: "none", "new", "valid" or "gone"
  due,         \* chains up to this one are inside their renewal window
  mem,         \* certCache.mem of each process
  held,        \* certCache.pending of each process
  proc,        \* what each goroutine is doing
  leaders,     \* processes whose isLeader() is true
  faults

ca == <<status, due>>
cache == <<mem, held>>
env == <<leaders, faults>>
vars == <<chain, journal, status, due, mem, held, proc, leaders, faults>>

Idle == [op |-> "none", pc |-> "idle", order |-> 0]

\* One certificate is issued, stored, and served everywhere.
Init ==
  /\ chain = 1 /\ journal = 0 /\ due = 0
  /\ status = [o \in Order |-> IF o = 1 THEN "valid" ELSE "none"]
  /\ mem = [n \in Node |-> 1]
  /\ held = [n \in Node |-> 0]
  /\ proc = [p \in Proc |-> Idle]
  /\ \E n \in Node : leaders = {n}
  /\ faults = 0

-----------------------------------------------------------------------------
At(p, label) == proc[p].pc = label
Goto(p, label) == proc' = [proc EXCEPT ![p].pc = label]
With(p, label, o) == proc' = [proc EXCEPT ![p].pc = label, ![p].order = o]
Done(p) == proc' = [proc EXCEPT ![p] = Idle]
Begin(p, op, label, o) ==
  proc' = [proc EXCEPT ![p] = [op |-> op, pc |-> label, order |-> o]]

\* Something that fails and leaves a trace counts against MaxFaults.
Fault == faults < MaxFaults /\ faults' = faults + 1

isLeader(p) == NodeOf[p] \in leaders
Fresh(c) == c > due

\* a Refresh takes no lock, nor does a flush that has only made its snapshot
Unlocked == {"idle", "install", "lock"}

\* m.inflight, held by this process for the name
Inflight(n) == \E p \in Proc : NodeOf[p] = n /\ proc[p].pc \notin Unlocked

\* the issuance lease, held by anybody
LeaseHeld == \E p \in Proc : proc[p].pc \notin Unlocked \cup {"lease"}

Install(n, c) == mem' = [mem EXCEPT ![n] = c]

\* certCache.Refresh in one step: storage's chain is installed if there is one
Refreshed(n) == IF chain = 0 THEN mem ELSE [mem EXCEPT ![n] = chain]

-----------------------------------------------------------------------------
(* The decision to issue: RenewCertificate, obtain, renewIfNeeded *)

RenewCertificate(p) ==
  /\ p \in Operator /\ proc[p] = Idle
  /\ isLeader(p) /\ ~Inflight(NodeOf[p])
  /\ Begin(p, "force", "lease", 0)
  /\ UNCHANGED <<chain, journal, ca, cache, env>>

\* requestIssue and obtain: memory is still empty once the lock is taken
Obtain(p) ==
  /\ p \in Handshake /\ proc[p] = Idle
  /\ isLeader(p) /\ ~Inflight(NodeOf[p]) /\ mem[NodeOf[p]] = 0
  /\ Begin(p, "issue", "lease", 0)
  /\ UNCHANGED <<chain, journal, ca, cache, env>>

\* (A slip, for the checks: a certificate that is there is never renewed.)
IssueIfMissing(p) ==
  LET n == NodeOf[p] IN
  /\ p \in Ticker /\ proc[p] = Idle
  /\ isLeader(p) /\ ~Inflight(n) /\ mem[n] = 0
  /\ IF chain # 0
       THEN Install(n, chain) /\ UNCHANGED proc
       ELSE Begin(p, "issue", "lease", 0) /\ UNCHANGED mem
  /\ UNCHANGED <<chain, journal, ca, held, env>>

\* What memory holds is due, or it holds nothing and neither does storage.
RenewIfNeeded(p) ==
  LET n == NodeOf[p] IN
  /\ p \in Ticker /\ proc[p] = Idle
  /\ isLeader(p) /\ ~Inflight(n) /\ ~Fresh(mem[n])
  /\ IF mem[n] = 0 /\ chain # 0
       THEN Install(n, chain) /\ UNCHANGED proc
       ELSE Begin(p, "issue", "lease", 0) /\ UNCHANGED mem
  /\ UNCHANGED <<chain, journal, ca, held, env>>

\* acquireIssueLease; issueWithKey refreshes when somebody else has it
AcquireLease(p) ==
  /\ At(p, "lease")
  /\ IF ~LeaseHeld
       THEN /\ Goto(p, IF proc[p].op \in {"flush", "restore"} THEN "compare" ELSE "recheck")
            /\ UNCHANGED mem
       ELSE /\ Done(p)
            /\ mem' = IF proc[p].op \in {"flush", "restore"} THEN mem ELSE Refreshed(NodeOf[p])
  /\ UNCHANGED <<chain, journal, ca, held, env>>

\* Refresh, now that the lease is held
Recheck(p) ==
  /\ At(p, "recheck")
  /\ mem' = Refreshed(NodeOf[p])
  /\ Goto(p, IF chain # 0 /\ proc[p].op = "issue" THEN "decide" ELSE "resume")
  /\ UNCHANGED <<chain, journal, ca, held, env>>

\* (A slip, for the checks: whatever was due before the lease still is.)
DecideToOrder(p) ==
  /\ At(p, "decide")
  /\ Goto(p, "resume")
  /\ UNCHANGED <<chain, journal, ca, cache, env>>

\* leafNotAfter: what memory holds by now is fresh, or is ordered over
Decide(p) ==
  /\ At(p, "decide")
  /\ IF Fresh(mem[NodeOf[p]]) THEN Done(p) ELSE Goto(p, "resume")
  /\ UNCHANGED <<chain, journal, ca, cache, env>>

\* A forced renewal goes on when that read failed.
RecheckFails(p) ==
  /\ At(p, "recheck") /\ proc[p].op = "force"
  /\ Goto(p, "resume")
  /\ UNCHANGED <<chain, journal, ca, cache, env>>

-----------------------------------------------------------------------------
(* Issuer.Issue *)

\* (A slip, for the checks: an order the CA cannot describe is given up.)
ResumeOrderAnyway(p) ==
  /\ At(p, "resume")
  /\ Goto(p, "place")
  /\ UNCHANGED <<chain, journal, ca, cache, env>>

\* resumeOrder: an order the CA still knows is collected; one it does not is
\* cleared from the journal and another is placed.
ResumeOrder(p) ==
  /\ At(p, "resume")
  /\ \/ journal = 0 /\ Goto(p, "place") /\ UNCHANGED journal
     \/ /\ journal # 0 /\ status[journal] = "gone"
        /\ Goto(p, "place") /\ journal' = 0
     \/ /\ journal # 0 /\ status[journal] \in {"new", "valid"}
        /\ With(p, "complete", journal) /\ UNCHANGED journal
  /\ UNCHANGED <<chain, ca, cache, env>>

\* AuthorizeOrder
PlaceOrder(p) ==
  /\ At(p, "place")
  /\ \E o \in Order :
       /\ status[o] = "none" /\ \A x \in Order : x < o => status[x] # "none"
       /\ status' = [status EXCEPT ![o] = "new"]
       /\ With(p, "record", o)
  /\ UNCHANGED <<chain, journal, due, cache, env>>

\* journal.record
RecordOrder(p) ==
  /\ At(p, "record")
  /\ journal' = proc[p].order
  /\ Goto(p, "complete")
  /\ UNCHANGED <<chain, ca, cache, env>>

\* A failure is only logged.
RecordOrderFails(p) ==
  /\ At(p, "record") /\ Fault
  /\ Goto(p, "complete")
  /\ UNCHANGED <<chain, journal, ca, cache, leaders>>

\* complete: the challenge and the finalize of a new order, or the download of
\* one that is valid already
Complete(p) ==
  /\ At(p, "complete") /\ status[proc[p].order] \in {"new", "valid"}
  /\ status' = [status EXCEPT ![proc[p].order] = "valid"]
  /\ Goto(p, "clear")
  /\ UNCHANGED <<chain, journal, due, cache, env>>

\* The CA refused, or it signed and the answer was lost.
CompleteFails(p) ==
  /\ At(p, "complete") /\ Fault
  /\ status[proc[p].order] = "new"
  /\ \E s \in {"valid", "gone"} : status' = [status EXCEPT ![proc[p].order] = s]
  /\ Done(p)
  /\ UNCHANGED <<chain, journal, due, cache, leaders>>

\* journal.clear
ClearJournal(p) ==
  /\ At(p, "clear")
  /\ journal' = 0
  /\ Goto(p, "store")
  /\ UNCHANGED <<chain, ca, cache, env>>

\* A failure to clear is only logged, here and in resumeOrder.
ClearJournalFails(p) ==
  /\ Fault
  /\ \/ At(p, "clear") /\ Goto(p, "store")
     \/ /\ At(p, "resume") /\ journal # 0 /\ status[journal] = "gone"
        /\ Goto(p, "place")
  /\ UNCHANGED <<chain, journal, ca, cache, leaders>>

-----------------------------------------------------------------------------
(* certCache.Store and hold; flushOne for a held chain or a missing one *)

Store(p) ==
  LET n == NodeOf[p] IN
  /\ At(p, "store")
  /\ chain' = proc[p].order
  /\ Install(n, proc[p].order)
  /\ held' = [held EXCEPT ![n] = 0]
  /\ Done(p)
  /\ UNCHANGED <<journal, ca, env>>

\* Storage refused it, or took it and said otherwise: hold.
StoreFails(p) ==
  LET n == NodeOf[p] IN
  /\ At(p, "store") /\ Fault
  /\ chain' \in {chain, proc[p].order}
  /\ Install(n, proc[p].order)
  /\ held' = [held EXCEPT ![n] = proc[p].order]
  /\ Done(p)
  /\ UNCHANGED <<journal, ca, leaders>>

\* pendingSnapshot, of all names at once
FlushHeld(p) ==
  LET n == NodeOf[p] IN
  /\ p \in Ticker /\ proc[p] = Idle /\ held[n] # 0
  /\ Begin(p, "flush", "lock", held[n])
  /\ UNCHANGED <<chain, journal, ca, cache, env>>

\* (A slip, for the checks: only what the flush writes anyway is restored.)
RestoreHeld(p) ==
  LET n == NodeOf[p] IN
  /\ p \in Ticker /\ proc[p] = Idle
  /\ isLeader(p) /\ chain = 0 /\ held[n] # 0 /\ mem[n] # 0
  /\ Begin(p, "restore", "lock", mem[n])
  /\ UNCHANGED <<chain, journal, ca, cache, env>>

\* restoreMissingChains: the listing shows no chain, memory has one
RestoreMissing(p) ==
  LET n == NodeOf[p] IN
  /\ p \in Ticker /\ proc[p] = Idle
  /\ isLeader(p) /\ chain = 0 /\ held[n] = 0 /\ mem[n] # 0
  /\ Begin(p, "restore", "lock", mem[n])
  /\ UNCHANGED <<chain, journal, ca, cache, env>>

\* flushOne, whose tryLock passes over a name that is being issued
FlushLock(p) ==
  /\ At(p, "lock")
  /\ IF Inflight(NodeOf[p]) THEN Done(p) ELSE Goto(p, "lease")
  /\ UNCHANGED <<chain, journal, ca, cache, env>>

\* (A slip, for the checks: the chain is written without looking.)
FlushBlind(p) ==
  /\ At(p, "compare")
  /\ Goto(p, "write")
  /\ UNCHANGED <<chain, journal, ca, cache, env>>

\* (A slip, for the checks: any chain in storage will do.)
FlushAnyChain(p) ==
  LET n == NodeOf[p] IN
  /\ At(p, "compare")
  /\ IF chain # 0
       THEN /\ Install(n, chain)
            /\ held' = [held EXCEPT ![n] = 0]
            /\ Done(p)
       ELSE Goto(p, "write") /\ UNCHANGED <<mem, held>>
  /\ UNCHANGED <<chain, journal, ca, env>>

\* A chain in storage at least as new is adopted and what is held let go.
FlushCompare(p) ==
  LET n == NodeOf[p] IN
  /\ At(p, "compare")
  /\ IF chain >= proc[p].order
       THEN /\ Install(n, chain)
            /\ held' = [held EXCEPT ![n] = 0]
            /\ Done(p)
       ELSE Goto(p, "write") /\ UNCHANGED <<mem, held>>
  /\ UNCHANGED <<chain, journal, ca, env>>

\* persist and dropPending
FlushWrite(p) ==
  /\ At(p, "write")
  /\ chain' = proc[p].order
  /\ held' = [held EXCEPT ![NodeOf[p]] = 0]
  /\ Done(p)
  /\ UNCHANGED <<journal, ca, mem, env>>

\* The write was applied and reported as failed.
FlushWriteFails(p) ==
  /\ At(p, "write") /\ Fault
  /\ chain' = proc[p].order
  /\ Done(p)
  /\ UNCHANGED <<journal, ca, cache, leaders>>

\* A read, a write that was not applied, the CA, the retry budget or the
\* deadline stopped it.  What is only logged does not.
GiveUp(p) ==
  /\ proc[p].pc \notin {"idle", "decide", "record", "clear", "store"}
  /\ At(p, "recheck") => proc[p].op = "issue"
  /\ Done(p)
  /\ UNCHANGED <<chain, journal, ca, cache, env>>

-----------------------------------------------------------------------------
(* Refresh by a follower's tick, or by a handshake that found nothing *)

RefreshRead(p) ==
  /\ proc[p] = Idle /\ chain # 0
  /\ \/ p \in Ticker /\ ~isLeader(p)
     \/ p \in Handshake /\ mem[NodeOf[p]] = 0
  /\ Begin(p, "refresh", "install", chain)
  /\ UNCHANGED <<chain, journal, ca, cache, env>>

RefreshInstall(p) ==
  /\ At(p, "install")
  /\ Install(NodeOf[p], proc[p].order)
  /\ Done(p)
  /\ UNCHANGED <<chain, journal, ca, held, env>>

-----------------------------------------------------------------------------
(* The environment *)

\* The process dies and restarts with nothing in memory; its lease runs out.
Crash(n) ==
  /\ Fault
  /\ mem' = [mem EXCEPT ![n] = 0]
  /\ held' = [held EXCEPT ![n] = 0]
  /\ proc' = [p \in Proc |-> IF NodeOf[p] = n THEN Idle ELSE proc[p]]
  /\ UNCHANGED <<chain, journal, ca, leaders>>

\* isLeader() is not fenced: two processes may both believe that they lead.
Elect ==
  /\ Fault
  /\ leaders' \in SUBSET Node \ {leaders, {}}
  /\ UNCHANGED <<chain, journal, ca, cache, proc>>

\* The chain is deleted by hand or by a lifecycle rule.
ChainDeleted ==
  /\ Fault /\ chain # 0
  /\ chain' = 0
  /\ UNCHANGED <<journal, ca, cache, proc, leaders>>

\* The next chain comes into its renewal window.
Age ==
  /\ due < MaxDue /\ status[due + 1] # "none"
  /\ due' = due + 1
  /\ UNCHANGED <<chain, journal, status, cache, proc, env>>

\* The CA forgets the journaled order, or it is older than orderMaxAge.
OrderExpires ==
  /\ Fault
  /\ journal # 0 /\ status[journal] # "gone"
  /\ status' = [status EXCEPT ![journal] = "gone"]
  /\ UNCHANGED <<chain, journal, due, cache, proc, leaders>>

Start(p) ==
  \/ RenewCertificate(p) \/ Obtain(p) \/ RenewIfNeeded(p)
  \/ FlushHeld(p) \/ RestoreMissing(p) \/ RefreshRead(p)

Work(p) ==
  \/ AcquireLease(p) \/ Recheck(p) \/ RecheckFails(p) \/ Decide(p)
  \/ ResumeOrder(p) \/ PlaceOrder(p) \/ RecordOrder(p) \/ RecordOrderFails(p)
  \/ Complete(p) \/ CompleteFails(p) \/ ClearJournal(p) \/ ClearJournalFails(p)
  \/ Store(p) \/ StoreFails(p)
  \/ FlushLock(p) \/ FlushCompare(p) \/ FlushWrite(p) \/ FlushWriteFails(p)
  \/ RefreshInstall(p)

Proceed(p) == Work(p) \/ GiveUp(p)

Next ==
  \/ \E p \in Proc : Start(p) \/ Proceed(p)
  \/ \E n \in Node : Crash(n)
  \/ Elect \/ ChainDeleted \/ Age \/ OrderExpires

Spec == Init /\ [][Next]_vars

\* Calls return, every maintenance loop keeps ticking, and storage and the CA
\* at some point stop refusing: from then on an operation only ends as its own
\* code ends it.
Fairness ==
  /\ \A p \in Proc : WF_vars(Proceed(p))
  /\ \A p \in Ticker :
       SF_vars(RenewIfNeeded(p)) /\ SF_vars(RestoreMissing(p)) /\ SF_vars(FlushHeld(p))
  /\ <>[][ \A p \in Proc : GiveUp(p) => Work(p) ]_vars

LiveSpec == Spec /\ Fairness

-----------------------------------------------------------------------------
(* Properties *)

Pc == {"idle", "lease", "lock", "recheck", "decide", "resume", "place", "record",
       "complete", "clear", "store", "compare", "write", "install"}

\* the steps at which a goroutine has an order, or a chain, in hand
HasOrder == {"record", "complete", "clear", "store", "lock", "compare", "write", "install"}

TypeOK ==
  /\ chain \in 0 .. MaxOrders /\ journal \in 0 .. MaxOrders
  /\ status \in [Order -> {"none", "new", "valid", "gone"}]
  /\ due \in 0 .. MaxDue
  /\ mem \in [Node -> 0 .. MaxOrders] /\ held \in [Node -> 0 .. MaxOrders]
  /\ proc \in [Proc -> [op : {"none", "force", "issue", "flush", "restore", "refresh"},
                        pc : Pc, order : 0 .. MaxOrders]]
  /\ \A p \in Proc : proc[p].pc \in HasOrder => proc[p].order # 0
  /\ leaders \subseteq Node
  /\ faults \in 0 .. MaxFaults

\* The chain in storage is never replaced by an older one, whatever a process
\* held back and writes later, and whoever else orders meanwhile: without the
\* lock, the lease and the read "the older one could land last" (flushOne, Store).
NeverOlder ==
  [][ chain' >= chain \/ chain' = 0 ]_vars

Placed(o) == status[o] = "none" /\ status'[o] # "none"

\* No order is placed while one the CA still honours is on record: "the one thing
\* this attempt must not do is place another" (resumeOrder, issuer.go:209).
OutstandingCollected ==
  [][ (\E o \in Order : Placed(o)) => journal = 0 \/ status[journal] = "gone" ]_vars

\* An attempt nobody forced places no order over a fresh chain in storage: "a
\* peer ... may already have produced a still-fresh certificate, so we must not
\* re-issue" (issueWithKey, manager.go:767).
FreshNotReordered ==
  [][ \A p \in Proc :
        At(p, "place") /\ proc'[p].pc = "record" /\ proc[p].op = "issue"
          => ~Fresh(chain) ]_vars

\* A flush, or a restore, whose snapshot is older than what its process holds by now.
Overtaken(n) ==
  \E p \in Proc :
    NodeOf[p] = n /\ proc[p].pc \in {"compare", "write"} /\ proc[p].order < held[n]

\* A chain held in memory is let go only for one in storage that is at least as
\* new: "it reaches storage as soon as storage recovers" (hold, dropPending;
\* cert_cache.go:167).  Attempts of the same process come and go beside the flush;
\* the one that takes a held chain away unwritten is one that held it after the
\* flush had made its snapshot.
HeldReachesStorage ==
  [][ \A n \in Node :
        \/ held'[n] >= held[n]
        \/ chain' >= held[n]
        \/ mem'[n] = 0
        \/ Overtaken(n) ]_vars

\* A certificate inside its renewal window is renewed, whoever crashes, whoever
\* leads by then, and whatever was refused for a while (renewIfNeeded).
DueIsRenewed ==
  (chain # 0 /\ ~Fresh(chain)) ~> Fresh(chain)

\* A chain that disappears from storage is put there again, from memory or by an
\* order (restoreMissingChains, renewIfNeeded).
MissingIsRestored ==
  (chain = 0) ~> (chain # 0)
=============================================================================
