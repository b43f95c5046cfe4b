------------------------------ MODULE OnDemand ------------------------------
(***************************************************************************)
(* On-demand hostnames (ondemand.go, maintainOnDemand of scheduler.go and  *)
(* the handshake path of manager.go): the shared index of expiries by      *)
(* which followers learn what to refresh, the DNS pre-flight and the       *)
(* budget of first issuances.                                              *)
(*                                                                         *)
(* Every process runs a maintenance pass, with one worker per hostname, a  *)
(* loop for the allow-set, and handshakes that issue in the background.    *)
(* Each call to storage is one step.  What happens under the issuance      *)
(* lease (Issuance, IssueLease) is one step as well, but for hold, which   *)
(* serves a chain before it remembers that storage lacks it.               *)
(*                                                                         *)
(* A chain is the number of its order for the hostname, which stands for   *)
(* its expiry; 0 is none.  An index maps hostnames to expiries.            *)
(***************************************************************************)
EXTENDS Integers

CONSTANTS
  Node, Host,
  Served,        \* hostnames that have a certificate to begin with
  Handshaking,   \* processes that clients connect to
  Flaky,         \* processes whose writes, and whose look at the index, may fail
  Landing,       \* whether a write that fails may have landed all the same
  MaxTokens,     \* MaxNewOrdersPerHour
  MaxDue,        \* bound on the chains of a hostname that come due
  MaxOrders,     \* bound on orders per hostname
  MaxFaults,     \* bound on restarts and elections
  None

ASSUME OnDemandAssumption ==
  /\ Served \subseteq Host
  /\ Handshaking \subseteq Node /\ Flaky \subseteq Node
  /\ Landing \in BOOLEAN
  /\ MaxTokens \in Nat \ {0} /\ MaxDue \in Nat /\ MaxOrders \in Nat \ {0}
  /\ MaxFaults \in Nat

VARIABLES
  certIndex,   \* the published index
  chain,       \* certs/<host>
  orders,      \* orders placed so far
  due,         \* chains up to this one are inside their renewal window
  allow,       \* onDemand.allow of each process
  index,       \* onDemand.index
  dirty,       \* processes whose indexDirty is set
  indexPut,    \* the index a process is writing, holding indexMu, or None
  tokens,      \* orders counted in the bucket's window
  mem, held,   \* certCache.mem and certCache.pending
  pass,        \* the maintenance pass of each process
  worker,      \* its goroutine for each hostname
  shake,       \* requestIssue's goroutine for each hostname
  leaders, faults,
  crossed      \* history: <<host, expiry>> of the chains that came to be held beside
               \* a recordIssued that was past isPending or found them not pending yet

storage == <<certIndex, chain, orders>>
indexes == <<index, dirty, indexPut>>
cache == <<mem, held>>
env == <<due, leaders>>
vars == <<certIndex, chain, orders, due, allow,
          index, dirty, indexPut, tokens, mem, held, pass, worker, shake,
          leaders, faults, crossed>>

Zero == [h \in Host |-> 0]
NoPass == [pc |-> "run", todo |-> {}, done |-> {}]
Off == [pc |-> "off", first |-> FALSE, leaf |-> 0]

\* The certificates of Served are stored, announced, and served everywhere.
Init ==
  /\ chain = [h \in Host |-> IF h \in Served THEN 1 ELSE 0]
  /\ certIndex = chain /\ orders = chain
  /\ due = Zero
  /\ allow = [n \in Node |-> Host]
  /\ \E n \in Node : leaders = {n}
  /\ index = [n \in Node |-> chain] /\ mem = index
  /\ dirty = {} /\ indexPut = [n \in Node |-> None]
  /\ tokens = [n \in Node |-> 0]
  /\ held = [n \in Node |-> Zero]
  /\ pass = [n \in Node |-> NoPass]
  /\ worker = [n \in Node |-> [h \in Host |-> Off]]
  /\ shake = [n \in Node |-> [h \in Host |-> "off"]]
  /\ faults = 0 /\ crossed = {}

-----------------------------------------------------------------------------
isLeader(n) == n \in leaders
Fresh(h, c) == c > due[h]
Landed(old, new) == IF Landing THEN {old, new} ELSE {old}
Fault == faults < MaxFaults /\ faults' = faults + 1

Goto(n, label, todo) == pass' = [pass EXCEPT ![n] = [pc |-> label, todo |-> todo, done |-> {}]]
InPass(n, label) == pass[n].pc = label
NextHost(n, h) == pass' = [pass EXCEPT ![n].todo = @ \ {h}]

At(n, h, label) == worker[n][h].pc = label
Step(n, h, label) == worker' = [worker EXCEPT ![n][h].pc = label]
End(n, h) == worker' = [worker EXCEPT ![n][h] = Off]
AllOff(n) == \A h \in Host : worker[n][h] = Off

ShakeStep(n, h, label) == shake' = [shake EXCEPT ![n][h] = label]

\* m.inflight for the hostname
Inflight(n, h) == {"issue", "hold"} \cap {worker[n][h].pc, shake[n][h]} # {}

\* The issuance lease, which is given back after hold.
Holding(n, h) == "hold" \in {worker[n][h].pc, shake[n][h]}
LeaseFree(h) == \A n \in Node : ~Holding(n, h)

Install(n, h, c) == mem' = [mem EXCEPT ![n][h] = c]

-----------------------------------------------------------------------------
\* The loop of startOnDemand fetches the allow-set: AllowSet is about how.
RefreshAllowSet(n) ==
  /\ allow' = [allow EXCEPT ![n] = Host]
  /\ UNCHANGED <<storage, indexes, tokens, cache, pass, worker, shake, env, faults, crossed>>

-----------------------------------------------------------------------------
(* A pass: flushHeldChains, then as a leader or as a follower *)

\* wg.Wait, the end of the follower's list, or no pass so far
Finished(n) == InPass(n, "run") /\ pass[n].todo = {} /\ AllOff(n)

\* hosts(), and republishIndexIfDirty before anything else
Republish(n) ==
  /\ Goto(n, "load", allow[n])
  /\ indexPut' = IF allow[n] # {} /\ n \in dirty
                   THEN [indexPut EXCEPT ![n] = index[n]] ELSE indexPut

Tick(n) ==
  /\ Finished(n)
  /\ Goto(n, "flush", {h \in Host : held[n][h] # 0})
  /\ UNCHANGED <<storage, allow, indexes, tokens, cache, worker, shake, env, faults, crossed>>

\* flushOne: a chain in storage at least as new is adopted, an older one replaced.
\* Only a chain that was written counts as stored.
FlushOne(n, h) ==
  LET behind == chain[h] < held[n][h] IN
  /\ InPass(n, "flush") /\ h \in pass[n].todo /\ LeaseFree(h)
  /\ chain' = IF behind THEN [chain EXCEPT ![h] = held[n][h]] ELSE chain
  /\ mem' = IF behind THEN mem ELSE [mem EXCEPT ![n][h] = chain[h]]
  /\ held' = [held EXCEPT ![n][h] = 0]
  /\ pass' = [pass EXCEPT ![n].todo = @ \ {h},
                          ![n].done = IF behind THEN @ \cup {h} ELSE @]
  /\ UNCHANGED <<certIndex, orders, allow, indexes, tokens, worker, shake, env, faults, crossed>>

\* The lease or storage refuses; the chain stays held.
FlushFails(n, h) ==
  /\ InPass(n, "flush") /\ h \in pass[n].todo /\ n \in Flaky
  /\ chain' \in IF held[n][h] > chain[h] /\ LeaseFree(h)
                 THEN Landed(chain, [chain EXCEPT ![h] = held[n][h]]) ELSE {chain}
  /\ NextHost(n, h)
  /\ UNCHANGED <<certIndex, orders, allow, indexes, tokens, cache, worker, shake, env, faults, crossed>>

\* isLeader() is read after the flush and holds for the rest of the pass.
FlushEnds(n) ==
  LET stored == pass[n].done IN
  /\ InPass(n, "flush") /\ pass[n].todo = {}
  /\ IF ~isLeader(n) THEN Goto(n, "diff", {}) /\ UNCHANGED indexPut
     ELSE IF stored # {} THEN Goto(n, "announce", stored) /\ UNCHANGED indexPut
     ELSE Republish(n)
  /\ UNCHANGED <<storage, allow, index, dirty, tokens, cache, worker, shake, env, faults, crossed>>

-----------------------------------------------------------------------------
(* The follower's half: changedSince, Refresh, noteRefreshed *)

\* The hostnames whose published expiry is not the one noted, or all of them when
\* the index cannot be read.
ChangedSince(n) ==
  /\ InPass(n, "diff")
  /\ \/ Goto(n, "run", {h \in allow[n] : certIndex[h] # index[n][h]})
     \/ n \in Flaky /\ Goto(n, "run", allow[n])
  /\ UNCHANGED <<storage, allow, indexes, tokens, cache, worker, shake, env, faults, crossed>>

RefreshHost(n, h) ==
  /\ InPass(n, "run") /\ h \in pass[n].todo /\ AllOff(n)
  /\ NextHost(n, h)
  /\ IF chain[h] # 0
       THEN Install(n, h, chain[h]) /\ Step(n, h, "note")
       ELSE UNCHANGED <<mem, worker>>
  /\ UNCHANGED <<storage, allow, indexes, tokens, held, shake, env, faults, crossed>>

\* The index is read again, and what it says by now is noted.
NoteRefreshed(n, h) ==
  /\ At(n, h, "note")
  /\ index' = [index EXCEPT ![n][h] = certIndex[h]]
  /\ End(n, h)
  /\ UNCHANGED <<storage, allow, dirty, indexPut, tokens, cache, pass, shake, env, faults, crossed>>

-----------------------------------------------------------------------------
(* recordIssued and the index *)

\* (A slip, for the checks: a chain that is only held is announced.)
RecordHeld(n, h) ==
  /\ At(n, h, "record")
  /\ Step(n, h, "leaf")
  /\ UNCHANGED <<storage, allow, indexes, tokens, cache, pass, shake, env, faults, crossed>>

\* isPending: a chain that is held is not announced.
RecordIssued(n, h) ==
  /\ At(n, h, "record")
  /\ IF held[n][h] # 0 THEN End(n, h) /\ UNCHANGED crossed
     ELSE /\ Step(n, h, "leaf")
          /\ crossed' = crossed \cup IF shake[n][h] = "hold" THEN {<<h, orders[h]>>} ELSE {}
  /\ UNCHANGED <<storage, allow, indexes, tokens, cache, pass, shake, env, faults>>

\* leafNotAfter: memory's expiry, whatever that is by now
LeafNotAfter(n, h) ==
  /\ At(n, h, "leaf")
  /\ IF mem[n][h] = 0 THEN End(n, h)
     ELSE worker' = [worker EXCEPT ![n][h] = [Off EXCEPT !.pc = "index", !.leaf = mem[n][h]]]
  /\ UNCHANGED <<storage, allow, indexes, tokens, cache, pass, shake, env, faults, crossed>>

\* noteIssued: the expiry enters the index, and all of it is to be written.
NoteIssued(n, h) ==
  LET noted == [index[n] EXCEPT ![h] = worker[n][h].leaf] IN
  /\ At(n, h, "index") /\ indexPut[n] = None
  /\ index' = [index EXCEPT ![n] = noted]
  /\ indexPut' = [indexPut EXCEPT ![n] = noted]
  /\ worker' = [worker EXCEPT ![n][h] = [Off EXCEPT !.pc = "put"]]
  /\ UNCHANGED <<storage, allow, dirty, tokens, cache, pass, shake, env, faults, crossed>>

\* publishIndex, for a hostname's worker or for republishIndexIfDirty
PublishIndex(n) ==
  /\ indexPut[n] # None
  /\ certIndex' = indexPut[n]
  /\ dirty' = dirty \ {n}
  /\ indexPut' = [indexPut EXCEPT ![n] = None]
  /\ worker' = [worker EXCEPT ![n] = [h \in Host |-> IF At(n, h, "put") THEN Off ELSE @[h]]]
  /\ UNCHANGED <<chain, orders, allow, index, tokens, cache, pass, shake, env, faults, crossed>>

PublishIndexFails(n) ==
  /\ n \in Flaky /\ indexPut[n] # None
  /\ certIndex' \in Landed(certIndex, indexPut[n])
  /\ dirty' = dirty \cup {n}
  /\ indexPut' = [indexPut EXCEPT ![n] = None]
  /\ worker' = [worker EXCEPT ![n] = [h \in Host |-> IF At(n, h, "put") THEN Off ELSE @[h]]]
  /\ UNCHANGED <<chain, orders, allow, index, tokens, cache, pass, shake, env, faults, crossed>>

-----------------------------------------------------------------------------
(* The leader's half: announceStoredChains, republish, load, classify, run *)

\* (A slip, for the checks: a chain the flush has written is not announced.)
AnnounceNothing(n, h) ==
  /\ InPass(n, "announce") /\ h \in pass[n].todo /\ AllOff(n)
  /\ NextHost(n, h)
  /\ UNCHANGED <<storage, allow, indexes, tokens, cache, worker, shake, env, faults, crossed>>

AnnounceStored(n, h) ==
  /\ InPass(n, "announce") /\ h \in pass[n].todo /\ AllOff(n)
  /\ NextHost(n, h)
  /\ Step(n, h, "record")
  /\ UNCHANGED <<storage, allow, indexes, tokens, cache, shake, env, faults, crossed>>

AnnounceEnds(n) ==
  /\ InPass(n, "announce") /\ pass[n].todo = {} /\ AllOff(n)
  /\ Republish(n)
  /\ UNCHANGED <<storage, allow, index, dirty, tokens, cache, worker, shake, env, faults, crossed>>

\* A certificate the index does not name is announced; one that only the index
\* names is loaded, if storage has it.
LoadHost(n, h) ==
  LET have == mem[n][h] # 0
      known == index[n][h] # 0 IN
  /\ InPass(n, "load") /\ h \in pass[n].todo /\ AllOff(n) /\ indexPut[n] = None
  /\ NextHost(n, h)
  /\ IF have /\ ~known THEN Step(n, h, "record") ELSE UNCHANGED worker
  /\ IF known /\ ~have /\ chain[h] # 0 THEN Install(n, h, chain[h]) ELSE UNCHANGED mem
  /\ UNCHANGED <<storage, allow, indexes, tokens, held, shake, env, faults, crossed>>

\* Renewals and first issuances, by what memory holds; the renewals start first.
Classify(n) ==
  LET first(h) == mem[n][h] = 0
      renewal(h) == mem[n][h] # 0 /\ ~Fresh(h, mem[n][h]) IN
  /\ InPass(n, "load") /\ pass[n].todo = {} /\ AllOff(n) /\ indexPut[n] = None
  /\ worker' = [worker EXCEPT ![n] = [h \in Host |->
       IF h \in allow[n] /\ (first(h) \/ renewal(h))
         THEN [Off EXCEPT !.pc = "start", !.first = first(h)] ELSE Off]]
  /\ Goto(n, "run", {})
  /\ UNCHANGED <<storage, allow, indexes, tokens, cache, shake, env, faults, crossed>>

\* (A slip, for the checks: one order too many.)
TokenLeftOver(n) == tokens[n] <= MaxTokens

\* orders.take has an order left in its window.
TokenLeft(n) == tokens[n] < MaxTokens

\* The order itself is left to IssueHost, under this process's lock: renewIfNeeded
\* has nothing left to do but to announce when memory is fresh by now or when
\* somebody in this process is at it already.
RenewIfNeeded(n, h, have) ==
  worker' = [worker EXCEPT ![n][h].pc =
    IF Fresh(h, have) \/ Inflight(n, h) THEN "record" ELSE "issue"]

\* (A slip, for the checks: a renewal needs a token as well.)
RunHostWithToken(n, h) ==
  /\ At(n, h, "start")
  /\ \/ ~TokenLeft(n) /\ End(n, h) /\ UNCHANGED <<mem, tokens>>
     \/ /\ TokenLeft(n)
        /\ tokens' = [tokens EXCEPT ![n] = @ + 1]
        /\ RenewIfNeeded(n, h, mem[n][h]) /\ UNCHANGED mem
  /\ UNCHANGED <<storage, allow, indexes, held, pass, shake, env, faults, crossed>>

\* A worker up to its order: the pre-flight, for a first issuance a last look at
\* storage (which makes it a renewal if there is a chain) and a token otherwise.
RunHost(n, h) ==
  LET first == worker[n][h].first
      found == first /\ chain[h] # 0
      new == first /\ chain[h] = 0
      deferred == new /\ ~TokenLeft(n) IN
  /\ At(n, h, "start")
  /\ \/ deferred /\ End(n, h) /\ UNCHANGED <<mem, tokens>>
     \/ /\ ~deferred
        /\ tokens' = [tokens EXCEPT ![n] = IF new THEN @ + 1 ELSE @]
        /\ mem' = [mem EXCEPT ![n][h] = IF found THEN chain[h] ELSE @]
        /\ RenewIfNeeded(n, h, mem'[n][h])
  /\ UNCHANGED <<storage, allow, indexes, held, pass, shake, env, faults, crossed>>

\* The CA signs the next chain.
Order(h) ==
  /\ orders[h] < MaxOrders
  /\ orders' = [orders EXCEPT ![h] = @ + 1]

\* issueWithKey, once it has the lease: a fresh chain of a peer is adopted,
\* otherwise one is ordered and stored.
Issued(n, h) ==
  /\ LeaseFree(h)
  /\ \/ /\ Fresh(h, chain[h])
        /\ Install(n, h, chain[h]) /\ UNCHANGED <<chain, orders, held>>
     \/ /\ ~Fresh(h, chain[h]) /\ Order(h)
        /\ chain' = [chain EXCEPT ![h] = orders'[h]]
        /\ Install(n, h, orders'[h])
        /\ held' = [held EXCEPT ![n][h] = 0]

IssueHost(n, h) ==
  /\ At(n, h, "issue")
  /\ Issued(n, h)
  /\ Step(n, h, "record")
  /\ UNCHANGED <<certIndex, allow, indexes, tokens, pass, shake, env, faults, crossed>>

\* A peer has the lease: what it has stored so far is adopted, due or not.
LeaseHeld(n, h) ==
  /\ At(n, h, "issue") /\ chain[h] # 0
  /\ Install(n, h, chain[h])
  /\ Step(n, h, "record")
  /\ UNCHANGED <<storage, allow, indexes, tokens, held, pass, shake, env, faults, crossed>>

\* The order was placed and the chain not stored: hold serves it from memory ...
IssuedNotStored(n, h) ==
  /\ n \in Flaky /\ LeaseFree(h) /\ ~Fresh(h, chain[h]) /\ Order(h)
  /\ chain' \in Landed(chain, [chain EXCEPT ![h] = orders'[h]])
  /\ Install(n, h, orders'[h]) /\ UNCHANGED held
  /\ crossed' = crossed \cup IF At(n, h, "leaf") THEN {<<h, orders'[h]>>} ELSE {}

IssueHostNotStored(n, h) ==
  /\ At(n, h, "issue")
  /\ IssuedNotStored(n, h)
  /\ Step(n, h, "hold")
  /\ UNCHANGED <<certIndex, allow, indexes, tokens, pass, shake, env, faults>>

\* ... and then keeps it for the next pass.
Held(n, h) == held' = [held EXCEPT ![n][h] = orders[h]]

HoldHost(n, h) ==
  /\ At(n, h, "hold") /\ Held(n, h) /\ End(n, h)
  /\ UNCHANGED <<storage, allow, indexes, tokens, mem, pass, shake, env, faults, crossed>>

\* What issueWithKey has taken from storage by the time it fails.
Adopted(n, h) == mem' \in {mem} \cup
  (IF chain[h] = 0 THEN {} ELSE {[mem EXCEPT ![n][h] = chain[h]]})

\* The pre-flight says no, a read failed, the CA or the lease refused.
GiveUp(n, h) ==
  /\ worker[n][h].pc \in {"start", "issue", "note"}
  /\ IF At(n, h, "issue") THEN Adopted(n, h) ELSE UNCHANGED mem
  /\ End(n, h)
  /\ UNCHANGED <<storage, allow, indexes, tokens, held, pass, shake, env, faults, crossed>>

-----------------------------------------------------------------------------
(* A handshake: getCertificate and requestIssue *)

\* Nothing in memory: storage is read, and a leader that finds none there issues in
\* the background, once for all the handshakes that ask meanwhile, if the pre-flight
\* and the budget let it.
GetCertificate(n, h) ==
  /\ n \in Handshaking /\ h \in allow[n] /\ mem[n][h] = 0
  /\ \/ chain[h] # 0 /\ Install(n, h, chain[h]) /\ UNCHANGED <<shake, tokens>>
     \/ /\ chain[h] = 0 /\ isLeader(n) /\ shake[n][h] = "off"
        /\ TokenLeft(n)
        /\ tokens' = [tokens EXCEPT ![n] = @ + 1]
        /\ ShakeStep(n, h, "obtain") /\ UNCHANGED mem
  /\ UNCHANGED <<storage, allow, indexes, held, pass, worker, env, faults, crossed>>

\* obtain waits for the lock and looks at memory once more.
Obtain(n, h) ==
  /\ shake[n][h] = "obtain" /\ ~Inflight(n, h)
  /\ IF mem[n][h] # 0 THEN ShakeStep(n, h, "off") ELSE ShakeStep(n, h, "issue")
  /\ UNCHANGED <<storage, allow, indexes, tokens, cache, pass, worker, env, faults, crossed>>

\* What a handshake obtains it does not announce: the next pass does.
ShakeIssue(n, h) ==
  /\ shake[n][h] = "issue"
  /\ Issued(n, h)
  /\ ShakeStep(n, h, "off")
  /\ UNCHANGED <<certIndex, allow, indexes, tokens, pass, worker, env, faults, crossed>>

ShakeIssueNotStored(n, h) ==
  /\ shake[n][h] = "issue"
  /\ IssuedNotStored(n, h)
  /\ ShakeStep(n, h, "hold")
  /\ UNCHANGED <<certIndex, allow, indexes, tokens, pass, worker, env, faults>>

ShakeHolds(n, h) ==
  /\ shake[n][h] = "hold" /\ Held(n, h) /\ ShakeStep(n, h, "off")
  /\ UNCHANGED <<storage, allow, indexes, tokens, mem, pass, worker, env, faults, crossed>>

ShakeGivesUp(n, h) ==
  /\ shake[n][h] = "issue"
  /\ Adopted(n, h)
  /\ ShakeStep(n, h, "off")
  /\ UNCHANGED <<storage, allow, indexes, tokens, held, pass, worker, env, faults, crossed>>

-----------------------------------------------------------------------------
(* The environment *)

\* A process ends and starts again; a leader reads the index first, if it can.
Restart(n) ==
  /\ Fault
  /\ allow' = [allow EXCEPT ![n] = {}]
  /\ \E read \in {Zero} \cup (IF isLeader(n) THEN {certIndex} ELSE {}) :
       index' = [index EXCEPT ![n] = read]
  /\ dirty' = dirty \ {n}
  /\ indexPut' = [indexPut EXCEPT ![n] = None]
  /\ tokens' = [tokens EXCEPT ![n] = 0]
  /\ mem' = [mem EXCEPT ![n] = Zero]
  /\ held' = [held EXCEPT ![n] = Zero]
  /\ pass' = [pass EXCEPT ![n] = NoPass]
  /\ worker' = [worker EXCEPT ![n] = [h \in Host |-> Off]]
  /\ shake' = [shake EXCEPT ![n] = [h \in Host |-> "off"]]
  /\ UNCHANGED <<storage, env, crossed>>

\* Another process leads.  A pass under way goes on as the leader's.
Elect ==
  /\ Fault
  /\ \E n \in Node \ leaders : leaders' = {n}
  /\ UNCHANGED <<storage, allow, indexes, tokens, cache, pass, worker, shake, due, crossed>>

\* The oldest chain that is not yet due comes due.
Age(h) ==
  /\ due[h] < MaxDue /\ due[h] < orders[h]
  /\ due' = [due EXCEPT ![h] = @ + 1]
  /\ UNCHANGED <<storage, allow, indexes, tokens, cache, pass, worker, shake, leaders, faults, crossed>>

\* The oldest order leaves the bucket's window.
WindowSlides(n) ==
  /\ tokens[n] > 0
  /\ tokens' = [tokens EXCEPT ![n] = @ - 1]
  /\ UNCHANGED <<storage, allow, indexes, cache, pass, worker, shake, env, faults, crossed>>

-----------------------------------------------------------------------------
PassStep(n) ==
  \/ Tick(n) \/ FlushEnds(n) \/ ChangedSince(n) \/ AnnounceEnds(n) \/ Classify(n)
  \/ PublishIndex(n)
  \/ \E h \in Host : FlushOne(n, h) \/ RefreshHost(n, h)
                     \/ AnnounceStored(n, h) \/ LoadHost(n, h)

HostStep(n, h) ==
  \/ NoteRefreshed(n, h) \/ RecordIssued(n, h) \/ LeafNotAfter(n, h) \/ NoteIssued(n, h)
  \/ RunHost(n, h) \/ IssueHost(n, h) \/ HoldHost(n, h)

ShakeIssues(n, h) ==
  \/ Obtain(n, h) \/ ShakeIssue(n, h) \/ ShakeHolds(n, h)

Refused(n, h) ==
  \/ FlushFails(n, h) \/ LeaseHeld(n, h) \/ IssueHostNotStored(n, h) \/ GiveUp(n, h)
  \/ ShakeIssueNotStored(n, h) \/ ShakeGivesUp(n, h) \/ PublishIndexFails(n)

Next ==
  \/ \E n \in Node :
       \/ RefreshAllowSet(n) \/ PassStep(n) \/ Restart(n) \/ WindowSlides(n)
       \/ \E h \in Host : \/ HostStep(n, h) \/ Refused(n, h) \/ GetCertificate(n, h)
                          \/ ShakeIssues(n, h)
  \/ Elect \/ \E h \in Host : Age(h)

Spec == Init /\ [][Next]_vars

\* Every loop and every goroutine goes on, and from some point on the CA, the lease
\* and storage refuse nothing.  The budget need never refill.
Fairness ==
  /\ \A n \in Node :
       /\ WF_vars(RefreshAllowSet(n))
       /\ WF_vars(PassStep(n) \/ \E h \in Host : HostStep(n, h))
       /\ WF_vars(\E h \in Host : ShakeIssues(n, h))
  /\ <>[][\A n \in Node, h \in Host :
            Refused(n, h) => HostStep(n, h) \/ ShakeIssues(n, h)]_vars

LiveSpec == Spec /\ Fairness

-----------------------------------------------------------------------------
(* Properties *)

\* The state has its types; the bucket never holds more orders than the budget has
\* (tokenBucket.take), although workers and handshakes draw on it together.
TypeOK ==
  /\ leaders \in SUBSET Node
  /\ {certIndex, chain, orders} \subseteq [Host -> 0 .. MaxOrders]
  /\ due \in [Host -> 0 .. MaxDue]
  /\ allow \in [Node -> SUBSET Host] /\ dirty \subseteq Node
  /\ {index, mem, held} \subseteq [Node -> [Host -> 0 .. MaxOrders]]
  /\ \A n \in Node : indexPut[n] = None \/ indexPut[n] \in [Host -> 0 .. MaxOrders]
  /\ tokens \in [Node -> 0 .. MaxTokens]
  /\ \A n \in Node : pass[n].pc \in {"flush", "diff", "announce", "load", "run"}
  /\ \A n \in Node, h \in Host :
       /\ worker[n][h].pc \in {"off", "note", "start", "issue", "hold",
                               "record", "leaf", "index", "put"}
       /\ shake[n][h] \in {"off", "obtain", "issue", "hold"}
  /\ faults \in 0 .. MaxFaults

\* The published index never names a chain newer than the one in storage: the entry
\* recordIssued must never write is that of a chain still held in memory, because a
\* follower that believes it notes itself current and misses the real write.  The
\* exception is a chain that a handshake came to hold while a worker of the same
\* process was between isPending and leafNotAfter, or that it served and had not
\* marked as pending when the worker asked.
IndexDescribesStorage ==
  \A h \in Host : certIndex[h] <= chain[h] \/ <<h, certIndex[h]>> \in crossed

\* A certificate that comes due is replaced, even if first issuances use up the
\* budget and it never refills: renewals "must never be starved by an import".
RenewedDespiteBudget ==
  \A h \in Host : (chain[h] # 0 /\ chain[h] <= due[h]) ~> (chain[h] > due[h])

\* A chain that storage refused at first and took later reaches the published index,
\* unless its process stops leading or restarts, the hostname leaves the set, or
\* storage has something newer: nothing else would tell a follower to read it.
LateWriteAnnounced ==
  \A n \in Flaky, h \in Host :
    (held[n][h] > chain[h])
      ~> \/ held[n][h] = 0 /\ certIndex[h] >= chain[h]
         \/ chain[h] > mem[n][h]
         \/ ~isLeader(n) \/ mem[n][h] = 0 \/ h \notin allow[n]

\* Every process comes to serve the stored chain of a hostname or a newer one: what
\* noteRefreshed records is "that this node now holds what the published index says"
\* (changedSince, Refresh, noteRefreshed; ondemand.go:447).
FollowersConverge ==
  \A n \in Node, h \in Host : \A c \in 1 .. MaxOrders :
    (chain[h] = c) ~> (chain[h] # c \/ mem[n][h] >= c)

=============================================================================
