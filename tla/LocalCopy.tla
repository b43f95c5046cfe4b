------------------------------ MODULE LocalCopy ------------------------------
(****************************************************************************)
(* The copies of one configured name's certificate: the chain and the key    *)
(* in shared storage, the pair a node serves from memory, and the pair it    *)
(* keeps on its own disk to start from when storage cannot be read           *)
(* (local_copy.go).  A chain is its serial number, which orders chains by    *)
(* expiry, and the key it is bound to.                                       *)
(*                                                                          *)
(* One node is followed, leader or not; the others reach it through storage  *)
(* alone (PeerStores).  It runs its maintenance ticks one step at a time     *)
(* (flush, supersede, restore, then renew or refresh), and while it leads an *)
(* operator may renew or replace the key beside the tick.  The name's        *)
(* in-process lock is held exactly while the node reads storage to supersede *)
(* its copy or has an order in progress.  The key replacement is one step    *)
(* here (KeyCeremony has its steps), and an order is signed (Issuance and    *)
(* Attempts have its failures).                                              *)
(****************************************************************************)
EXTENDS Integers

CONSTANTS
    MaxChains,   \* bound on the certificates signed
    MaxKeys,     \* bound on the keys the name has had
    MaxOutages,  \* bound on the outages of storage
    MaxFaults    \* bound on the restarts and the elections

VARIABLES
    chain,       \* the chain in storage
    key,         \* the key in storage
    made,        \* the serial of the last certificate signed
    due,         \* chains up to this serial are inside the renewal window
    old,         \* chains up to this serial have expired
    down,        \* storage does not answer
    outages, faults,
    leased,      \* the node's issuance lease is in storage
    leads,       \* the node is the leader
    mem,         \* the pair the node serves
    local,       \* it serves its copy, storage has not confirmed it since
    disk,        \* the pair in its local copy
    pend,        \* the chain it holds for storage
    at,          \* where its maintenance tick is
    asLeader,    \* whether it led when the tick asked
    snap,        \* the chain that the tick is about to write
    got,         \* the chain that the tick's supersede has read
    asked        \* an operator's renewal is in progress on it

storageVars == <<chain, key, made, due, old, down, outages, leased>>
nodeVars == <<faults, leads, mem, local, disk, pend, at, asLeader, snap, got, asked>>
copyVars == <<storageVars, nodeVars>>

NoChain == [no |-> 0, key |-> 0]

Expired(c) == c.no <= old
Due(c) == c.no <= due

Init ==
    /\ chain = [no |-> 1, key |-> 1] /\ key = 1 /\ made = 1
    /\ due = 0 /\ old = 0
    /\ down = FALSE /\ outages = 0 /\ faults = 0
    /\ leased = FALSE /\ leads \in BOOLEAN
    /\ mem = chain /\ disk = mem
    /\ local = FALSE
    /\ pend = NoChain /\ snap = pend /\ got = pend
    /\ at = "idle"
    /\ asLeader = FALSE /\ asked = asLeader

\* The name's in-process lock (keyedMutex.tryLock).
Free == at \notin {"reading", "order"} /\ ~asked

Goto(l) == at' = l

(***************************************************************************)
(* The cache                                                               *)
(***************************************************************************)
\* Storage answers with a pair that builds: Refresh's other answers are an
\* error, "none", and a chain for another key.
Readable == ~down /\ chain # NoChain /\ chain.key = key

set(c) == mem' = c

\* Storage holds c, the copy takes it.  The write to disk may fail, which is
\* logged and leaves the earlier copy.
confirmed(c) ==
    /\ local' = FALSE
    /\ disk' \in {c, disk}

dropPending == pend' = NoChain

\* (A slip, for the checks: the chain that storage refused is saved as if
\* storage had confirmed it.)
HoldAndSave(c) == set(c) /\ pend' = c /\ disk' = c /\ UNCHANGED local

hold(c) == set(c) /\ pend' = c /\ UNCHANGED <<local, disk>>

Refresh(c) == set(c) /\ confirmed(c)

(***************************************************************************)
(* Starting                                                                *)
(***************************************************************************)
\* startFromLocalCopy, or nothing to start from.
StartWith(c) == set(c) /\ local' = (c # NoChain) /\ UNCHANGED disk

\* The node stops and starts again: it serves what storage answers, and its
\* local copy only when storage could not be read and the copy is still good.
\* What it held is lost; its lease stays behind.
Restart ==
    /\ faults < MaxFaults /\ faults' = faults + 1
    /\ at' = "idle" /\ asked' = FALSE /\ pend' = NoChain
    /\ snap' = NoChain /\ got' = NoChain
    /\ \/ Readable /\ Refresh(chain)
       \/ ~down /\ ~Readable /\ StartWith(NoChain)
       \/ down /\ Expired(disk) /\ StartWith(NoChain)
       \/ down /\ ~Expired(disk) /\ StartWith(disk)
    /\ UNCHANGED <<storageVars, leads, asLeader>>

(***************************************************************************)
(* The maintenance tick                                                    *)
(***************************************************************************)
CanWrite == Free /\ ~down /\ ~leased

\* flushOne for a chain the node has: storage is ahead and its chain is
\* adopted, or storage is behind or has none and is written.
Adopted(c) ==
    /\ CanWrite /\ chain.no >= c.no /\ Readable
    /\ Refresh(chain) /\ dropPending /\ UNCHANGED chain

Written(c) ==
    /\ CanWrite /\ chain.no < c.no
    /\ chain' = c /\ dropPending /\ confirmed(mem) /\ UNCHANGED mem

NotWritten(c) ==
    /\ ~CanWrite \/ (chain.no >= c.no /\ ~Readable)
    /\ UNCHANGED <<chain, mem, local, disk, pend>>

flushOne(c) == Adopted(c) \/ Written(c) \/ NotWritten(c)

\* A tick begins with the chains that are held (pendingSnapshot).
FlushHeldChains ==
    /\ at = "idle" /\ snap' = pend
    /\ IF pend = NoChain THEN Goto("supersede") /\ asLeader' = leads
                         ELSE Goto("flush") /\ UNCHANGED asLeader
    /\ UNCHANGED <<storageVars, faults, leads, mem, local, disk, pend, got, asked>>

\* What the snapshot has is written, whatever is held by now, and the tick asks
\* whether it leads.
FlushSnapshot ==
    /\ at = "flush" /\ Goto("supersede")
    /\ flushOne(snap) /\ snap' = NoChain
    /\ asLeader' = leads
    /\ UNCHANGED <<key, made, due, old, down, outages, leased, faults, leads, got, asked>>

\* (A slip, for the checks: only a follower re-reads what it serves from its
\* copy, and a leader is left to its renewals.)
SupersedeByFollowers ==
    /\ at = "supersede"
    /\ IF ~asLeader /\ local /\ Free /\ Readable
       THEN Goto("reading") /\ got' = chain
       ELSE Goto("restore") /\ UNCHANGED got
    /\ UNCHANGED <<storageVars, faults, leads, mem, local, disk, pend, asLeader, snap, asked>>

\* A name served from the copy is read again, unless its lock is taken.
supersedeLocalCopies ==
    /\ at = "supersede"
    /\ IF local /\ Free /\ Readable
       THEN Goto("reading") /\ got' = chain
       ELSE Goto("restore") /\ UNCHANGED got
    /\ UNCHANGED <<storageVars, faults, leads, mem, local, disk, pend, asLeader, snap, asked>>

Superseded ==
    /\ at = "reading" /\ Goto("restore")
    /\ Refresh(got) /\ got' = NoChain
    /\ UNCHANGED <<storageVars, faults, leads, pend, asLeader, snap, asked>>

Missing ==
    /\ asLeader /\ ~down /\ chain = NoChain /\ pend = NoChain
    /\ ~Expired(mem) /\ mem.key = key

\* (A slip, for the checks: nothing is written back.)
RestoreNothing ==
    /\ at = "restore" /\ Goto("renew")
    /\ UNCHANGED <<storageVars, faults, leads, mem, local, disk, pend, asLeader, snap, got, asked>>

\* A leader nominates what it serves and storage has lost, when it is still good
\* and bound to the key that storage has.
restoreMissingChains ==
    /\ at = "restore"
    /\ IF Missing THEN Goto("writeBack") /\ snap' = mem
                  ELSE Goto("renew") /\ UNCHANGED snap
    /\ UNCHANGED <<storageVars, faults, leads, mem, local, disk, pend, asLeader, got, asked>>

\* It is written back, whatever the node serves by now.
WriteBack ==
    /\ at = "writeBack" /\ Goto("renew")
    /\ flushOne(snap) /\ snap' = NoChain
    /\ UNCHANGED <<key, made, due, old, down, outages, leased, faults, leads,
                   asLeader, got, asked>>

\* A follower takes what storage has.
FollowerRefresh ==
    /\ at = "renew" /\ ~asLeader /\ Goto("idle")
    /\ IF Readable THEN Refresh(chain) ELSE UNCHANGED <<mem, local, disk>>
    /\ UNCHANGED <<storageVars, faults, leads, pend, asLeader, snap, got, asked>>

\* What is served is due, or nothing is and storage, which could be read, has
\* nothing better.
Wanted ==
    \/ mem # NoChain /\ Due(mem)
    \/ mem = NoChain /\ ~down /\ chain = NoChain
    \/ mem = NoChain /\ Readable /\ Due(chain)

\* The lease is taken for an order, which nothing but a chain that could not
\* be read or is fresh stands against (issueWithKey's last look).
MayOrder == ~down /\ ~leased /\ made < MaxChains
NothingFresh == chain = NoChain \/ (Readable /\ Due(chain))

\* renewIfNeeded up to the order, with what it reads on the way: storage when
\* nothing is served, and storage again once the lock is taken, whether the
\* lease is then free or somebody else's.
renewIfNeeded ==
    /\ at = "renew" /\ asLeader
    /\ IF Readable /\ (mem = NoChain \/ (Wanted /\ Free))
       THEN Refresh(chain)
       ELSE UNCHANGED <<mem, local, disk>>
    /\ IF Wanted /\ Free /\ MayOrder /\ NothingFresh
       THEN Goto("order") /\ leased' = TRUE
       ELSE Goto("idle") /\ UNCHANGED leased
    /\ UNCHANGED <<chain, key, made, due, old, down, outages, faults, leads, pend,
                   asLeader, snap, got, asked>>

(***************************************************************************)
(* Orders                                                                  *)
(***************************************************************************)
\* An operator's renewal, which takes what storage has and then orders
\* whatever that was, unless the lease is taken.
RenewCertificate ==
    /\ leads /\ Free /\ ~down
    /\ IF Readable THEN Refresh(chain) ELSE UNCHANGED <<mem, local, disk>>
    /\ IF MayOrder THEN asked' = TRUE /\ leased' = TRUE ELSE UNCHANGED <<asked, leased>>
    /\ UNCHANGED <<chain, key, made, due, old, down, outages, faults, leads,
                   pend, at, asLeader, snap, got>>

Ordering == at = "order" \/ asked

OrderDone ==
    /\ Ordering /\ made < MaxChains /\ made' = made + 1
    /\ at' = IF at = "order" THEN "idle" ELSE at
    /\ asked' = FALSE

\* The chain is signed and stored, and the lease released.
Store ==
    /\ OrderDone /\ ~down
    /\ LET c == [no |-> made + 1, key |-> key] IN
       /\ chain' = c /\ Refresh(c) /\ dropPending
    /\ leased' = FALSE
    /\ UNCHANGED <<key, due, old, down, outages, faults, leads, asLeader, snap, got>>

\* The chain is signed and storage does not take it: it is served and held.
\* The release of the lease may fail with it.
StoreFails ==
    /\ OrderDone /\ down
    /\ hold([no |-> made + 1, key |-> key])
    /\ leased' \in BOOLEAN
    /\ UNCHANGED <<chain, key, due, old, down, outages, faults, leads, asLeader, snap, got>>

\* Another key takes the name's place, with a certificate for it.
ReplaceCertificateKey ==
    /\ leads /\ Free /\ ~down /\ ~leased
    /\ made < MaxChains /\ key < MaxKeys
    /\ made' = made + 1 /\ key' = key + 1
    /\ chain' = [no |-> made', key |-> key']
    /\ Refresh(chain') /\ dropPending
    /\ UNCHANGED <<due, old, down, outages, leased, faults, leads, at, asLeader, snap, got, asked>>

(***************************************************************************)
(* The surroundings                                                        *)
(***************************************************************************)
StorageFails ==
    /\ ~down /\ outages < MaxOutages
    /\ down' = TRUE /\ outages' = outages + 1
    /\ UNCHANGED <<chain, key, made, due, old, leased, nodeVars>>

StorageReturns ==
    /\ down /\ down' = FALSE
    /\ UNCHANGED <<chain, key, made, due, old, outages, leased, nodeVars>>

\* The lease that a failed release or a restart left behind runs out.
LeaseExpires ==
    /\ leased /\ ~Ordering
    /\ leased' = FALSE
    /\ UNCHANGED <<chain, key, made, due, old, down, outages, nodeVars>>

\* While another node leads, it renews the certificate or replaces its key.
PeerStores ==
    /\ ~leads /\ ~down /\ ~leased /\ made < MaxChains
    /\ \E k \in {key, key + 1} : k <= MaxKeys /\ key' = k
    /\ made' = made + 1 /\ chain' = [no |-> made', key |-> key']
    /\ UNCHANGED <<due, old, down, outages, leased, nodeVars>>

Elect ==
    /\ faults < MaxFaults /\ faults' = faults + 1
    /\ leads' = ~leads
    /\ UNCHANGED <<storageVars, mem, local, disk, pend, at, asLeader, snap, got, asked>>

\* A certificate can still be signed once every one has fallen due.
Age ==
    /\ due < made /\ due + 1 < MaxChains /\ due' = due + 1
    /\ UNCHANGED <<chain, key, made, old, down, outages, leased, nodeVars>>

Expire ==
    /\ old < due /\ old' = old + 1
    /\ UNCHANGED <<chain, key, made, due, down, outages, leased, nodeVars>>

TickStep ==
    \/ FlushHeldChains \/ FlushSnapshot \/ supersedeLocalCopies \/ Superseded
    \/ restoreMissingChains \/ WriteBack \/ FollowerRefresh \/ renewIfNeeded

CopyNext ==
    \/ TickStep \/ Store \/ StoreFails \/ RenewCertificate \/ ReplaceCertificateKey
    \/ Restart \/ PeerStores \/ Elect
    \/ StorageFails \/ StorageReturns \/ LeaseExpires \/ Age \/ Expire
=============================================================================
