----------------------------- MODULE IssueLease -----------------------------
(***************************************************************************)
(* The issuance lease of one hostname (lease.go): a record in shared       *)
(* storage, written create-once, replaced conditionally on its ETag once   *)
(* it has expired, and removed by its holder's release func.               *)
(*                                                                         *)
(* An attempt is one call of acquire and, if it succeeds, the work up to   *)
(* the end of the release func.  Attempts of one process share its node    *)
(* id, which is all the record says of its owner: a renewal and its        *)
(* companion's order contend for the same record.  A restarted process has *)
(* a fresh node id (randNodeID), so a restart is another member of Node.   *)
(*                                                                         *)
(* The ETag is modelled as the record itself, which is what a              *)
(* content-hashing object store returns; the filesystem backend's ETag     *)
(* tells more writes apart, so its take-overs are a subset of these.       *)
(*                                                                         *)
(* Every storage call may fail.  A failed write may or may not have been   *)
(* applied.                                                                *)
(***************************************************************************)
EXTENDS Integers

CONSTANTS
  Node,      \* processes, each with its own node id
  Attempt,   \* calls of acquire, concurrent ones included
  NodeOf,    \* the process an attempt runs in
  Skew,      \* how far each process's wall clock is ahead of real time
  TTL,       \* issueLeaseTTL
  MaxHold,   \* longest time from the start of acquire to the end of release
  MaxTime,   \* bound on the modelled time
  NoLease    \* no lease object in storage

leaseRecord == [owner : Node, expires : Int]

ASSUME LeaseAssumption ==
  /\ NoLease \notin leaseRecord
  /\ NodeOf \in [Attempt -> Node]
  /\ Skew \in [Node -> Int]
  /\ TTL \in Nat /\ MaxHold \in Nat /\ MaxTime \in Nat

\* The timing the lease relies on: "The TTL is sized so a live holder never
\* reaches that moment" (lease.go:46).  Twice, because a lease is as old as the
\* attempt that wrote it, and its reader may be as old again.  In seconds: the
\* work ends with issueTimeout (120), the journal's clear and the release add
\* their own (5 and 10), so 2 * 135 < 300 leaves 30 for the clocks.
HoldsFitLease ==
  \A m, n \in Node : 2 * MaxHold + Skew[n] - Skew[m] < TTL

VARIABLES
  clock,     \* real time, in the record's unit (seconds)
  lease,     \* the object at locks/issue/<domain>
  pc,        \* where each attempt is
  started,   \* when each attempt computed its record
  etag,      \* the ETag each attempt took from StatObject
  crashed    \* processes that are gone

vars == <<clock, lease, pc, started, etag, crashed>>

\* time.Now().Unix() on the process attempt a runs in
Now(a) == clock + Skew[NodeOf[a]]

\* (A slip, for the checks: the record names the attempt, not its process.)
RecOfAttempt(a) ==
  [owner |-> a, expires |-> started[a] + Skew[NodeOf[a]] + TTL]

\* rec of acquire: computed once, before the first write
Rec(a) == [owner   |-> NodeOf[a],
           expires |-> started[a] + Skew[NodeOf[a]] + TTL]

Goto(a, label) ==
  /\ pc' = [pc EXCEPT ![a] = label]
  /\ UNCHANGED <<started, etag>>

\* acquire or the release func returns and its locals are gone
Return(a) ==
  /\ pc' = [pc EXCEPT ![a] = "idle"]
  /\ started' = [started EXCEPT ![a] = 0]
  /\ etag' = [etag EXCEPT ![a] = NoLease]

InFlight == {a \in Attempt : pc[a] # "idle"}

\* attempts that were given the lease and have not finished releasing it
Holders == {a \in Attempt : pc[a] \in {"driving", "release", "remove"}}

Init ==
  /\ clock = 0
  /\ lease = NoLease
  /\ pc = [a \in Attempt |-> "idle"]
  /\ started = [a \in Attempt |-> 0]
  /\ etag = [a \in Attempt |-> NoLease]
  /\ crashed = {}

-----------------------------------------------------------------------------
(* Slips that would break the lease, kept to show that the properties below *)
(* notice them.                                                             *)

\* any failed put counts as the lease taken
TryCreateFailsOpen(a) ==
  /\ pc[a] = "create"
  /\ UNCHANGED lease
  /\ Goto(a, "driving")
  /\ UNCHANGED <<clock, crashed>>

\* a lease is only ever taken back by the process that wrote it
ExpiredForOwner(a, r) == r.owner = NodeOf[a] /\ r.expires <= Now(a)

\* the record is replaced whether or not it has expired
ReadUnchecked(a) ==
  /\ pc[a] = "read"
  /\ IF lease # NoLease THEN Goto(a, "takeOver") ELSE Return(a)
  /\ UNCHANGED <<clock, lease, crashed>>

\* read, then put without IfMatch
TakeOverUnconditional(a) ==
  /\ pc[a] = "takeOver"
  /\ lease' = Rec(a)
  /\ Goto(a, "driving")
  /\ UNCHANGED <<clock, crashed>>

-----------------------------------------------------------------------------
(* acquire *)

Start(a) ==
  /\ pc[a] = "idle"
  /\ NodeOf[a] \notin crashed
  /\ pc' = [pc EXCEPT ![a] = "create"]
  /\ started' = [started EXCEPT ![a] = clock]
  /\ UNCHANGED <<clock, lease, etag, crashed>>

\* tryCreate: create-once put.  Any error, the conflict included, is "false"
\* and acquire goes on to inspect what is stored.
TryCreate(a) ==
  /\ pc[a] = "create"
  /\ \/ lease = NoLease /\ lease' = Rec(a) /\ Goto(a, "driving")
     \/ lease # NoLease /\ UNCHANGED lease /\ Goto(a, "stat")
  /\ UNCHANGED <<clock, crashed>>

TryCreateFails(a) ==
  /\ pc[a] = "create"
  /\ \/ UNCHANGED lease
     \/ lease = NoLease /\ lease' = Rec(a)
  /\ Goto(a, "stat")
  /\ UNCHANGED <<clock, crashed>>

\* StatObject, before the record is read
Stat(a) ==
  /\ pc[a] = "stat"
  /\ \/ /\ lease # NoLease
        /\ pc' = [pc EXCEPT ![a] = "read"]
        /\ etag' = [etag EXCEPT ![a] = lease]
        /\ UNCHANGED started
     \/ lease = NoLease /\ Return(a)
  /\ UNCHANGED <<clock, lease, crashed>>

Expired(a, r) == r.expires <= Now(a)

\* read, and the comparison with time.Now(): whatever record is stored by now.
\* (A replacement between the two is caught by the ETag, as one before them is.)
Read(a) ==
  /\ pc[a] = "read"
  /\ IF lease # NoLease /\ Expired(a, lease)
       THEN Goto(a, "takeOver")
       ELSE Return(a)
  /\ UNCHANGED <<clock, lease, crashed>>

\* StatObject or GetObject failed: next tick
InspectFails(a) ==
  /\ pc[a] \in {"stat", "read"}
  /\ Return(a)
  /\ UNCHANGED <<clock, lease, crashed>>

\* takeOver: a put conditional on the ETag
TakeOver(a) ==
  /\ pc[a] = "takeOver"
  /\ \/ lease = etag[a] /\ lease' = Rec(a) /\ Goto(a, "driving")
     \/ lease # etag[a] /\ UNCHANGED lease /\ Return(a)
  /\ UNCHANGED <<clock, crashed>>

TakeOverFails(a) ==
  /\ pc[a] = "takeOver"
  /\ \/ UNCHANGED lease
     \/ lease = etag[a] /\ lease' = Rec(a)
  /\ Return(a)
  /\ UNCHANGED <<clock, crashed>>

-----------------------------------------------------------------------------
(* the work under the lease, and the release func *)

\* The order, the write or the ceremony is over, whatever its outcome.
Finish(a) ==
  /\ pc[a] = "driving"
  /\ Goto(a, "release")
  /\ UNCHANGED <<clock, lease, crashed>>

\* A record that names another owner is left alone.
ReleaseRead(a) ==
  /\ pc[a] = "release"
  /\ IF lease # NoLease /\ lease.owner # NodeOf[a]
       THEN Return(a)
       ELSE Goto(a, "remove")
  /\ UNCHANGED <<clock, lease, crashed>>

\* A read that failed does not stop the removal.
ReleaseReadFails(a) ==
  /\ pc[a] = "release"
  /\ Goto(a, "remove")
  /\ UNCHANGED <<clock, lease, crashed>>

\* RemoveObject is unconditional.
Remove(a) ==
  /\ pc[a] = "remove"
  /\ lease' = NoLease
  /\ Return(a)
  /\ UNCHANGED <<clock, crashed>>

RemoveFails(a) ==
  /\ pc[a] = "remove"
  /\ Return(a)
  /\ UNCHANGED <<clock, lease, crashed>>

-----------------------------------------------------------------------------
(* the environment *)

Crash(n) ==
  /\ n \notin crashed
  /\ crashed' = crashed \cup {n}
  /\ pc' = [a \in Attempt |-> IF NodeOf[a] = n THEN "idle" ELSE pc[a]]
  /\ started' = [a \in Attempt |-> IF NodeOf[a] = n THEN 0 ELSE started[a]]
  /\ etag' = [a \in Attempt |-> IF NodeOf[a] = n THEN NoLease ELSE etag[a]]
  /\ UNCHANGED <<clock, lease>>

\* Time passes, but no attempt outlives its deadlines (issueTimeout for the
\* work, ten seconds for the release).
Tick ==
  /\ clock < MaxTime
  /\ \A a \in InFlight : clock < started[a] + MaxHold
  /\ clock' = clock + 1
  /\ UNCHANGED <<lease, pc, started, etag, crashed>>

AttemptStep(a) ==
  \/ Start(a)
  \/ TryCreate(a) \/ TryCreateFails(a)
  \/ Stat(a) \/ Read(a) \/ InspectFails(a)
  \/ TakeOver(a) \/ TakeOverFails(a)
  \/ Finish(a)
  \/ ReleaseRead(a) \/ ReleaseReadFails(a)
  \/ Remove(a) \/ RemoveFails(a)

Next ==
  \/ \E a \in Attempt : AttemptStep(a)
  \/ \E n \in Node : Crash(n)
  \/ Tick

Spec == Init /\ [][Next]_vars

\* The maintenance tick keeps starting attempts, time passes, and storage does
\* not fail every call for ever.
Fairness ==
  /\ WF_vars(Tick)
  /\ \A a \in Attempt :
       /\ WF_vars(Start(a))
       /\ SF_vars(TryCreate(a)) /\ SF_vars(Stat(a)) /\ SF_vars(Read(a))
       /\ SF_vars(TakeOver(a)) /\ WF_vars(Finish(a))
       /\ WF_vars(ReleaseRead(a) \/ ReleaseReadFails(a))
       /\ WF_vars(Remove(a) \/ RemoveFails(a))

LiveSpec == Spec /\ Fairness

-----------------------------------------------------------------------------
(* Properties *)

TypeOK ==
  /\ clock \in Nat
  /\ lease \in leaseRecord \cup {NoLease}
  /\ pc \in [Attempt -> {"idle", "create", "stat", "read", "takeOver",
                         "driving", "release", "remove"}]
  /\ started \in [Attempt -> Nat]
  /\ etag \in [Attempt -> leaseRecord \cup {NoLease}]
  /\ crashed \in SUBSET Node

\* No two attempts, of one process or of two, are between a successful acquire
\* and the end of its release at once (acquire, takeOver, releaser).
MutualExclusion ==
  \A a, b \in Holders : a = b

\* While an attempt drives an order, its own record is the one in storage and no
\* process in the cluster, whatever its clock, reads it as expired (acquire).
HolderIsRecorded ==
  \A a \in Holders :
    /\ lease = Rec(a)
    /\ \A b \in Attempt : ~Expired(b, lease)

\* A record is overwritten only once it has expired on the clock of the process
\* that overwrites it: taking the ETag before reading the record is enough to
\* never replace a lease written in between (acquire, takeOver).
OnlyExpiredReplaced ==
  [][ lease # NoLease /\ lease' \notin {lease, NoLease}
        => \E a \in Attempt : Expired(a, lease) /\ lease' = Rec(a) ]_vars

\* releaser: "deletes the lease only if we still own it, so we never delete a
\* lease a peer legitimately took over after ours expired" (lease.go:150).
ReleaseSparesPeer ==
  [][ \A a \in Attempt :
        pc[a] = "remove" /\ lease # NoLease /\ lease' = NoLease /\ pc'[a] = "idle"
          => lease.owner = NodeOf[a] ]_vars

Mutex == INSTANCE IssuanceMutex WITH
           driving <- {a \in Attempt : pc[a] = "driving"}

\* The lease implements the mutual exclusion its callers rely on.
ImplementsMutex == Mutex!Spec

\* A lease whose process crashed, or whose release failed, does not block the
\* hostname for ever: once it is due, some attempt replaces or removes it.
\* (Leases that expire past the end of the modelled time are not followed.)
Reclaimed ==
  \A t \in TTL .. MaxTime :
    (lease # NoLease /\ lease.expires = t) ~> (lease = NoLease \/ lease.expires # t)
=============================================================================
