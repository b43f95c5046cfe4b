---------------------------- MODULE KeyCeremony ----------------------------
(***************************************************************************)
(* The key-replacement ceremony of one DANE MX host: the staged key, the   *)
(* order made for it, the retiring markers, the promotion, and the         *)
(* roll-forward of a ceremony that was interrupted (scheduler.go,          *)
(* keystore.go, dane_controller.go), together with what runs beside it: a  *)
(* forced renewal, chains held in memory and flushed later, followers      *)
(* refreshing, leadership moving, processes crashing.                      *)
(*                                                                         *)
(* A Proc is one goroutine: an operator's call or a maintenance loop.      *)
(* Every storage call of it is one step, and any of them may fail; a write *)
(* that failed may have been applied.  The issuance lease is the mutual    *)
(* exclusion IssueLease provides.                                          *)
(*                                                                         *)
(* A key is the number of its generation.  A chain is the key it is bound  *)
(* to and the number of its order, which stands for its expiry: a later    *)
(* order expires later.                                                    *)
(***************************************************************************)
EXTENDS Integers, FiniteSets

CONSTANTS
  Node,        \* processes of the cluster
  Proc,        \* goroutines that work on this host
  Operator,    \* those that run an operator's calls; the rest are tickers
  NodeOf,      \* the process a goroutine runs in
  Flaky,       \* processes whose chain writes may fail
  OneLeader,   \* at most one process believes that it leads
  OneAtATime,  \* no operation starts while another is in progress
  MaxKeys, MaxOrders,   \* bounds on keys generated and orders placed
  MaxFaults,   \* bound on crashes and changes of leadership
  None

ASSUME CeremonyAssumption ==
  /\ NodeOf \in [Proc -> Node]
  /\ Operator \subseteq Proc /\ Flaky \subseteq Node
  /\ OneLeader \in BOOLEAN /\ OneAtATime \in BOOLEAN
  /\ MaxKeys \in Nat \ {0} /\ MaxOrders \in Nat \ {0} /\ MaxFaults \in Nat
  /\ None \notin 1 .. MaxKeys

Ticker == Proc \ Operator
Key == 1 .. MaxKeys
Chain == [key : Key, seq : 1 .. MaxOrders]

VARIABLES
  live, next,          \* keys/<host> and keys/<host>.next
  chain,               \* certs/<host>
  retiring,            \* digests in dane/retiring/<host>
  elapsed,             \* keys whose last RetireAfter has passed, on record or not
  mem,                 \* certCache.mem of each process
  held,                \* certCache.pending of each process
  seen,                \* chain a Refresh has read, its key not yet
  proc,                \* what each goroutine is doing
  leaders,             \* processes whose isLeader() is true
  minted, orders, faults

keys == <<live, next, minted>>
markers == <<retiring, elapsed>>
cache == <<mem, held, seen>>
env == <<leaders, faults>>
vars == <<live, next, chain, retiring, elapsed, mem, held, seen, proc,
          leaders, minted, orders, faults>>

Idle == [op |-> "none", pc |-> "idle", key |-> None, chain |-> None, kept |-> {}]

Init ==
  /\ live = 1 /\ next = None /\ minted = 1
  /\ chain = [key |-> 1, seq |-> 1] /\ orders = 1
  /\ retiring = {} /\ elapsed = {}
  /\ mem = [n \in Node |-> chain]
  /\ held = [n \in Node |-> None] /\ seen = [n \in Node |-> None]
  /\ proc = [p \in Proc |-> Idle]
  /\ \E n \in Node : leaders = {n}
  /\ faults = 0

-----------------------------------------------------------------------------
(* Locks, leadership, and moving a goroutine along *)

At(p, label) == proc[p].pc = label
Goto(p, label) == proc' = [proc EXCEPT ![p].pc = label]
Done(p) == proc' = [proc EXCEPT ![p] = Idle]
Begin(p, op, label) ==
  proc' = [proc EXCEPT ![p] = [Idle EXCEPT !.op = op, !.pc = label]]

isLeader(p) == NodeOf[p] \in leaders

MayStart(p) ==
  /\ proc[p] = Idle
  /\ OneAtATime => \A q \in Proc : proc[q] = Idle

Locking == {"activate", "renew", "flush"}

\* m.inflight, held by this process for the host
Inflight(n) == \E p \in Proc : NodeOf[p] = n /\ proc[p].op \in Locking

\* the issuance lease, held by anybody
LeaseHeld ==
  \E p \in Proc : proc[p].op \in Locking /\ proc[p].pc \notin {"loadLive", "lease"}

\* (A slip, for the checks: the list is read and written outside the mutex.)
retiringMuDropped(n) == FALSE

\* daneController.retiringMu
retiringMu(n) ==
  \E p \in Proc : NodeOf[p] = n /\ proc[p].pc \in {"markWrite", "dropWrite"}

\* buildCertificate: a chain is served only with the key it is bound to
Pairs(c, k) == c # None /\ c.key = k

\* certCache.Refresh in one step; a mismatch leaves memory alone
Refreshed(n) ==
  IF Pairs(chain, live) THEN [mem EXCEPT ![n] = chain] ELSE mem

-----------------------------------------------------------------------------
(* ReplaceCertificateKey *)

\* GenerateNextCertKey finds no staged key.  (One that is there is returned.)
ReplaceStart(p) ==
  /\ p \in Operator /\ MayStart(p) /\ isLeader(p)
  /\ next = None /\ minted < MaxKeys
  /\ Begin(p, "replace", "putNext")
  /\ UNCHANGED <<keys, chain, markers, cache, env, orders>>

\* create-once put; a staged key that got there first is adopted
PutNext(p) ==
  /\ At(p, "putNext")
  /\ \/ /\ isLeader(p) /\ next = None /\ minted < MaxKeys
        /\ next' = minted + 1 /\ minted' = minted + 1
     \/ (~isLeader(p) \/ next # None) /\ UNCHANGED <<next, minted>>
  /\ Done(p)
  /\ UNCHANGED <<live, chain, markers, cache, env, orders>>

-----------------------------------------------------------------------------
(* ActivateCertificateKey and RenewCertificate, up to a stored chain *)

ActivateStart(p) ==
  /\ p \in Operator /\ MayStart(p) /\ isLeader(p) /\ ~Inflight(NodeOf[p])
  /\ Begin(p, "activate", "lease")
  /\ UNCHANGED <<keys, chain, markers, cache, env, orders>>

RenewStart(p) ==
  /\ p \in Operator /\ MayStart(p) /\ isLeader(p) /\ ~Inflight(NodeOf[p])
  /\ Begin(p, "renew", "loadLive")
  /\ UNCHANGED <<keys, chain, markers, cache, env, orders>>

\* LoadOrCreateCertKey, before the lease is taken
LoadLive(p) ==
  /\ At(p, "loadLive")
  /\ proc' = [proc EXCEPT ![p].pc = "lease", ![p].key = live]
  /\ UNCHANGED <<keys, chain, markers, cache, env, orders>>

\* acquireIssueLease.  issueWithKey refreshes from storage whether or not it
\* gets the lease; a forced renewal then orders whatever it found.
AcquireLease(p) ==
  LET op == proc[p].op IN
  /\ At(p, "lease")
  /\ IF LeaseHeld THEN Done(p)
     ELSE Goto(p, CASE op = "activate" -> "loadNext"
                    [] op = "renew"    -> "order"
                    [] op = "flush"    -> "compare")
  /\ mem' = IF op = "renew" THEN Refreshed(NodeOf[p]) ELSE mem
  /\ UNCHANGED <<keys, chain, markers, held, seen, env, orders>>

\* (A slip, for the checks: no staged key is not an error.)
LoadNextUnchecked(p) ==
  /\ At(p, "loadNext")
  /\ proc' = [proc EXCEPT ![p].pc = "order", ![p].key = next]
  /\ UNCHANGED <<keys, chain, markers, cache, env, orders>>

\* The staged key, whose TLSA record is visible in DNS, or the call is forced.
LoadNext(p) ==
  /\ At(p, "loadNext")
  /\ IF next = None THEN Done(p)
     ELSE proc' = [proc EXCEPT ![p].pc = "order", ![p].key = next]
  /\ UNCHANGED <<keys, chain, markers, cache, env, orders>>

\* heldChainFor, else Issue
Order(p) ==
  LET n == NodeOf[p]
      k == proc[p].key
      reused == proc[p].op = "activate" /\ Pairs(held[n], k) IN
  /\ At(p, "order")
  /\ reused \/ orders < MaxOrders
  /\ orders' = IF reused THEN orders ELSE orders + 1
  /\ proc' = [proc EXCEPT ![p].pc = "store",
                ![p].chain = IF reused THEN held[n] ELSE [key |-> k, seq |-> orders']]
  /\ UNCHANGED <<keys, chain, markers, cache, env>>

\* certCache.Store
Store(p) ==
  LET n == NodeOf[p] IN
  /\ At(p, "store")
  /\ chain' = proc[p].chain
  /\ mem' = [mem EXCEPT ![n] = chain']
  /\ held' = [held EXCEPT ![n] = None]
  /\ IF proc[p].op = "activate" THEN Goto(p, "mark") ELSE Done(p)
  /\ UNCHANGED <<keys, markers, seen, env, orders>>

\* Store could not write: the chain is served from memory and held (hold).
StoreFails(p) ==
  LET n == NodeOf[p] IN
  /\ At(p, "store") /\ n \in Flaky
  /\ chain' \in {chain, proc[p].chain}
  /\ mem' = [mem EXCEPT ![n] = proc[p].chain]
  /\ held' = [held EXCEPT ![n] = proc[p].chain]
  /\ Done(p)
  /\ UNCHANGED <<keys, markers, seen, env, orders>>

-----------------------------------------------------------------------------
(* Slips that would break the ceremony, kept to show that the properties    *)
(* below notice them.                                                       *)

\* a single slot: the new digest takes the place of the others
MarkOverTop(p) ==
  /\ At(p, "mark") /\ ~retiringMu(NodeOf[p])
  /\ proc' = [proc EXCEPT ![p].pc = "markWrite", ![p].key = live, ![p].kept = {live}]
  /\ UNCHANGED <<keys, chain, markers, cache, env, orders>>

\* a chain bound to a key that is not live is left for somebody else
LoadChainGivesUp(p) ==
  /\ At(p, "loadChain")
  /\ Done(p)
  /\ UNCHANGED <<keys, chain, markers, cache, env, orders>>

\* a staged key is promoted whether or not a chain for it is stored
LoadChainUnchecked(p) ==
  /\ At(p, "loadChain")
  /\ IF live # proc[p].key THEN Goto(p, "mark") ELSE Done(p)
  /\ UNCHANGED <<keys, chain, markers, cache, env, orders>>

\* the promotion does not wait for the marker
MarkSkipped(p) ==
  /\ At(p, "mark")
  /\ Goto(p, "check")
  /\ UNCHANGED <<keys, chain, markers, cache, env, orders>>

-----------------------------------------------------------------------------
(* markRetiring and PromoteNextCertKey, of an activation or a roll-forward *)

\* The live digest is added to the unexpired ones; one already there is kept
\* with its deadline.
Mark(p) ==
  LET kept == retiring \ elapsed IN
  /\ At(p, "mark") /\ ~retiringMu(NodeOf[p])
  /\ proc' = IF live \in kept
               THEN [proc EXCEPT ![p].pc = "check"]
               ELSE [proc EXCEPT ![p].pc = "markWrite", ![p].key = live,
                                 ![p].kept = kept \cup {live}]
  /\ UNCHANGED <<keys, chain, markers, cache, env, orders>>

\* writeRetiring; an error stops the ceremony, even if the write was applied
MarkWrite(p) ==
  /\ At(p, "markWrite")
  /\ retiring' = proc[p].kept
  /\ elapsed' = elapsed \ {proc[p].key}
  /\ Goto(p, "check") \/ Done(p)
  /\ UNCHANGED <<keys, chain, cache, env, orders>>

\* Leadership is checked again before the promotion (by canCreate alone in a
\* roll-forward), and the staged key is loaded once more.
Check(p) ==
  /\ At(p, "check")
  /\ IF isLeader(p) THEN Goto(p, "promote") ELSE Done(p)
  /\ UNCHANGED <<keys, chain, markers, cache, env, orders>>

Promote(p) ==
  /\ At(p, "promote")
  /\ IF next = None THEN Done(p)
     ELSE proc' = [proc EXCEPT ![p].pc = "putLive", ![p].key = next]
  /\ UNCHANGED <<keys, chain, markers, cache, env, orders>>

\* unconditional put of the live key
PutLive(p) ==
  /\ At(p, "putLive")
  /\ live' = proc[p].key
  /\ Goto(p, "removeNext") \/ Done(p)
  /\ UNCHANGED <<next, minted, chain, markers, cache, env, orders>>

\* RemoveObject, whose failure is only logged.  A roll-forward then refreshes.
RemoveNext(p) ==
  /\ At(p, "removeNext")
  /\ next' \in {None, next}
  /\ mem' = IF proc[p].op = "reconcile" THEN Refreshed(NodeOf[p]) ELSE mem
  /\ Done(p)
  /\ UNCHANGED <<live, minted, chain, markers, held, seen, env, orders>>

-----------------------------------------------------------------------------
(* The maintenance tick: flushOne, reconcileCeremony, cleanupExpiredRetiring *)

FlushStart(p) ==
  LET n == NodeOf[p] IN
  /\ p \in Ticker /\ MayStart(p) /\ held[n] # None /\ ~Inflight(n)
  /\ proc' = [proc EXCEPT ![p] = [Idle EXCEPT !.op = "flush", !.pc = "lease",
                                              !.chain = held[n]]]
  /\ UNCHANGED <<keys, chain, markers, cache, env, orders>>

\* storedNotAfter: a chain in storage that is at least as new is adopted, and
\* what is held let go, unless it does not pair with the live key.
FlushCompare(p) ==
  LET n == NodeOf[p]
      ahead == chain # None /\ chain.seq >= proc[p].chain.seq IN
  /\ At(p, "compare")
  /\ IF ahead THEN Done(p) ELSE Goto(p, "write")
  /\ mem' = IF ahead THEN Refreshed(n) ELSE mem
  /\ held' = IF ahead /\ Pairs(chain, live) THEN [held EXCEPT ![n] = None] ELSE held
  /\ UNCHANGED <<keys, chain, markers, seen, env, orders>>

FlushWrite(p) ==
  /\ At(p, "write")
  /\ chain' = proc[p].chain
  /\ held' \in {held, [held EXCEPT ![NodeOf[p]] = None]}
  /\ Done(p)
  /\ UNCHANGED <<keys, markers, mem, seen, env, orders>>

\* reconcileCeremony takes neither m.inflight nor the lease.
ReconcileStart(p) ==
  /\ p \in Ticker /\ MayStart(p) /\ isLeader(p) /\ next # None
  /\ proc' = [proc EXCEPT ![p] = [Idle EXCEPT !.op = "reconcile",
                                              !.pc = "loadChain", !.key = next]]
  /\ UNCHANGED <<keys, chain, markers, cache, env, orders>>

\* storedLeafSPKI and LoadCertKey: only a stored chain bound to the staged key,
\* with another key live, is rolled forward
LoadChain(p) ==
  /\ At(p, "loadChain")
  /\ IF Pairs(chain, proc[p].key) /\ live # proc[p].key
       THEN Goto(p, "mark") ELSE Done(p)
  /\ UNCHANGED <<keys, chain, markers, cache, env, orders>>

DropRead(p) ==
  /\ p \in Ticker /\ MayStart(p) /\ isLeader(p)
  /\ ~retiringMu(NodeOf[p]) /\ retiring \cap elapsed # {}
  /\ proc' = [proc EXCEPT ![p] = [Idle EXCEPT !.op = "cleanup", !.pc = "dropWrite",
                                              !.kept = retiring \ elapsed]]
  /\ UNCHANGED <<keys, chain, markers, cache, env, orders>>

DropWrite(p) ==
  /\ At(p, "dropWrite")
  /\ retiring' = proc[p].kept
  /\ Done(p)
  /\ UNCHANGED <<keys, chain, elapsed, cache, env, orders>>

\* A read, a write that was not applied, the CA or the TLSA gate stopped it.
GiveUp(p) ==
  /\ proc[p].pc \notin {"idle", "store", "removeNext"}
  /\ Done(p)
  /\ UNCHANGED <<keys, chain, markers, cache, env, orders>>

-----------------------------------------------------------------------------
(* Refresh by a follower's tick, or by a process that serves nothing.  What  *)
(* a leader serves, it does not read again.                                  *)

\* (A slip, for the checks: only what is missing is read.)
RefreshMissing(n) ==
  /\ mem[n] = None
  /\ seen[n] = None /\ chain # None
  /\ seen' = [seen EXCEPT ![n] = chain]
  /\ UNCHANGED <<keys, chain, markers, mem, held, proc, env, orders>>

RefreshChain(n) ==
  /\ n \notin leaders \/ mem[n] = None
  /\ seen[n] = None /\ chain # None
  /\ seen' = [seen EXCEPT ![n] = chain]
  /\ UNCHANGED <<keys, chain, markers, mem, held, proc, env, orders>>

\* keyFor and buildCertificate, or a read that failed
RefreshKey(n) ==
  /\ seen[n] # None
  /\ seen' = [seen EXCEPT ![n] = None]
  /\ mem' \in {mem} \cup
       (IF Pairs(seen[n], live) THEN {[mem EXCEPT ![n] = seen[n]]} ELSE {})
  /\ UNCHANGED <<keys, chain, markers, held, proc, env, orders>>

-----------------------------------------------------------------------------
(* The environment *)

\* The process dies and restarts with nothing in memory; its lease runs out.
Crash(n) ==
  /\ faults < MaxFaults
  /\ faults' = faults + 1
  /\ mem' = [mem EXCEPT ![n] = None]
  /\ held' = [held EXCEPT ![n] = None]
  /\ seen' = [seen EXCEPT ![n] = None]
  /\ proc' = [p \in Proc |-> IF NodeOf[p] = n THEN Idle ELSE proc[p]]
  /\ UNCHANGED <<keys, chain, markers, leaders, orders>>

\* isLeader() is not fenced.
Elect ==
  /\ faults < MaxFaults
  /\ faults' = faults + 1
  /\ leaders' \in SUBSET Node \ {leaders}
  /\ OneLeader => Cardinality(leaders') = 1
  /\ UNCHANGED <<keys, chain, markers, cache, proc, orders>>

\* RetireAfter is a time of day, fixed when the marker is written.  It passes
\* whatever the ceremony and the processes have come to by then.
SoakElapses(k) ==
  /\ k \in retiring \ elapsed
  /\ elapsed' = elapsed \cup {k}
  /\ UNCHANGED <<keys, chain, retiring, cache, proc, env, orders>>

Work(p) ==
  \/ PutNext(p)
  \/ LoadLive(p) \/ AcquireLease(p) \/ LoadNext(p) \/ Order(p)
  \/ Store(p) \/ StoreFails(p)
  \/ Mark(p) \/ MarkWrite(p) \/ Check(p)
  \/ Promote(p) \/ PutLive(p) \/ RemoveNext(p)
  \/ FlushCompare(p) \/ FlushWrite(p) \/ LoadChain(p) \/ DropWrite(p)

Proceed(p) == Work(p) \/ GiveUp(p)

Next ==
  \/ \E p \in Proc :
       \/ ReplaceStart(p) \/ ActivateStart(p) \/ RenewStart(p)
       \/ FlushStart(p) \/ ReconcileStart(p) \/ DropRead(p)
       \/ Proceed(p)
  \/ \E n \in Node : RefreshChain(n) \/ RefreshKey(n) \/ Crash(n)
  \/ Elect
  \/ \E k \in Key : SoakElapses(k)

Spec == Init /\ [][Next]_vars

\* Calls return, the maintenance loops keep ticking, and storage at some point
\* stops refusing them: from then on an operation only ends as its own code ends
\* it, and a Refresh installs what it has read and can pair.
Fairness ==
  /\ WF_vars(\E p \in Proc : Proceed(p))
  /\ SF_vars(\E p \in Ticker : ReconcileStart(p))
  /\ \A n \in Node : WF_vars(RefreshChain(n) \/ RefreshKey(n))
  /\ <>[][ /\ \A p \in Ticker : /\ GiveUp(p) => Work(p)
                                /\ MarkWrite(p) => proc'[p].pc = "check"
           /\ \A n \in Node : RefreshKey(n) /\ Pairs(seen[n], live) => mem'[n] = seen[n]
         ]_vars

LiveSpec == Spec /\ Fairness

-----------------------------------------------------------------------------
(* Properties *)

ChainOrNone == Chain \cup {None}

\* The state has its types: what is written is a key, a chain or a list of keys,
\* whichever step is reached and whoever else is at work.
TypeOK ==
  /\ live \in Key /\ next \in Key \cup {None}
  /\ chain \in ChainOrNone
  /\ retiring \subseteq Key /\ elapsed \subseteq Key
  /\ mem \in [Node -> ChainOrNone]
  /\ held \in [Node -> ChainOrNone]
  /\ seen \in [Node -> ChainOrNone]
  /\ \A p \in Proc :
       /\ proc[p].key \in Key \cup {None} /\ proc[p].chain \in ChainOrNone
       /\ proc[p].kept \subseteq Key
  /\ leaders \subseteq Node
  /\ minted \in Key /\ orders \in 1 .. MaxOrders /\ faults \in 0 .. MaxFaults

\* The digests recordsForHost tells the operator to publish.
Desired == {live} \cup ({next} \ {None}) \cup (retiring \ elapsed)

\* Whatever certificate a process serves, DesiredTLSARecords names its digest, or
\* has named it for as long as the soak recorded for its key: no step of a ceremony,
\* of its roll-forward or of the clean-up, and no crash between two of them, takes
\* a digest out of the set while a process serves it.  Only the clock does
\* (markRetiring, recordsForHost, PromoteNextCertKey).
ServedIsDesired ==
  \A n \in Node : mem[n] # None => mem[n].key \in Desired \cup elapsed

\* The live key is replaced only by the staged one, and only with its own digest on
\* record as retiring, by an activation and by a roll-forward alike.  (Its soak may
\* have run out by then: a marker found there is kept with its deadline.)
\* (ActivateCertificateKey, reconcileCeremony.)
RetiredBeforeReplaced ==
  [][ live' # live => live' = next /\ live \in retiring ]_vars

\* A digest leaves the retiring markers only once its soak has elapsed: the two
\* writers, which rebuild the list from what they read, "must not interleave"
\* (markRetiring and cleanupExpiredRetiring, dane_controller.go:171).
MarkersKept ==
  [][ retiring \ elapsed \subseteq retiring' ]_vars

\* A ceremony whose chain is stored is rolled forward: whatever crashed and
\* whoever leads by then, the live key comes to match the chain
\* (reconcileCeremony).
CeremonyCompletes ==
  (chain.key = next /\ live # next) ~> (live = chain.key)

\* The stored chain stays one that a key, live or staged, goes with, through every
\* crash between the steps of a ceremony.  The one step that may undo that is the
\* write of a chain held since before its key was replaced (flushOne).
OnlyFlushUnpairs ==
  [][ chain.key \in {live, next} /\ chain'.key \notin {live', next'}
        => \E p \in Proc : At(p, "write") ]_vars

\* Processes that serve a replaced key come to serve another, whether or not its soak
\* is over, unless they become the leader first or a flush has unpaired the stored
\* chain: "Followers call Refresh on a poll interval" (cert_cache.go:30).
FollowersCatchUp ==
  LET lags(n) == mem[n] # None /\ mem[n].key \in (retiring \cup elapsed) \ {live} IN
  []<>(\A n \in Node : lags(n) => n \in leaders \/ ~Pairs(chain, live))

=============================================================================
