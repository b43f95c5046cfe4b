-------------------------- MODULE IssueLeaseProofs --------------------------
(***************************************************************************)
(* What IssueLease guarantees for any number of processes and attempts,    *)
(* any clock skews and any TTL, as long as holds fit the lease.            *)
(*                                                                         *)
(* Mutual exclusion is not inductive by itself.  IInv adds that a holder's *)
(* record is the one stored, that attempts meet their deadlines, and the   *)
(* two facts that make a take-over safe: a record that changed after the   *)
(* ETag was taken is too young to read as expired (FreshReadsFresh), so    *)
(* the ETag of an attempt that decided to take over is that of an expired  *)
(* record (TakesExpired).                                                  *)
(***************************************************************************)
EXTENDS IssueLease, TLAPS

HolderOwns == \A a \in Holders : lease = Rec(a)

MeetsDeadline ==
  \A a \in InFlight : started[a] <= clock /\ clock <= started[a] + MaxHold

TakesExpired ==
  \A a \in Attempt :
    pc[a] = "takeOver" => etag[a] # NoLease /\ Expired(a, etag[a])

FreshReadsFresh ==
  \A a \in Attempt :
    /\ pc[a] = "read" /\ lease # NoLease /\ lease # etag[a]
    => lease.expires - Skew[lease.owner] >= started[a] - MaxHold + TTL

IInv ==
  /\ TypeOK
  /\ HolderOwns
  /\ MutualExclusion
  /\ MeetsDeadline
  /\ TakesExpired
  /\ FreshReadsFresh

-----------------------------------------------------------------------------
(* Lemmas about the operators *)

\* The record of an attempt is a lease record of its process (acquire).
LEMMA RecIsRecord ==
  ASSUME TypeOK, NEW a \in Attempt
  PROVE  /\ Rec(a) \in leaseRecord
         /\ Rec(a) # NoLease
         /\ Rec(a).owner = NodeOf[a]
         /\ Rec(a).expires = started[a] + Skew[NodeOf[a]] + TTL
         /\ Rec(a).expires \in Int
BY LeaseAssumption DEF TypeOK, Rec, leaseRecord

\* A holder's record is not expired on any process's clock: the hold is shorter
\* than the lease by more than the clocks differ.
LEMMA HolderNotExpired ==
  ASSUME HoldsFitLease, TypeOK, HolderOwns, MeetsDeadline,
         NEW a \in Holders, NEW b \in Attempt
  PROVE  ~Expired(b, lease)
<1>1. a \in Attempt /\ a \in InFlight
  BY DEF Holders, InFlight
<1>2. lease = Rec(a)
  BY DEF HolderOwns
<1>3. clock <= started[a] + MaxHold
  BY <1>1 DEF MeetsDeadline
<1>4. NodeOf[a] \in Node /\ NodeOf[b] \in Node
  BY <1>1, LeaseAssumption
<1>5. 2 * MaxHold + Skew[NodeOf[b]] - Skew[NodeOf[a]] < TTL
  BY <1>4 DEF HoldsFitLease
<1>6. Rec(a).expires = started[a] + Skew[NodeOf[a]] + TTL
  BY <1>1, RecIsRecord
<1>7. /\ Skew[NodeOf[a]] \in Int /\ Skew[NodeOf[b]] \in Int
      /\ started[a] \in Nat /\ clock \in Nat /\ TTL \in Nat /\ MaxHold \in Nat
  BY <1>1, <1>4, LeaseAssumption DEF TypeOK
<1>8. ~(started[a] + Skew[NodeOf[a]] + TTL <= clock + Skew[NodeOf[b]])
  BY <1>3, <1>5, <1>7
<1>. QED  BY <1>2, <1>6, <1>8 DEF Expired, Now

\* Nobody holds the lease while its object is absent: create-once is safe.
LEMMA AbsentMeansFree ==
  ASSUME TypeOK, HolderOwns, lease = NoLease
  PROVE  Holders = {}
BY RecIsRecord DEF HolderOwns, Holders

\* Nobody holds the lease an attempt is about to take over.
LEMMA TakeOverMeansFree ==
  ASSUME HoldsFitLease, IInv, NEW b \in Attempt,
         pc[b] = "takeOver", lease = etag[b]
  PROVE  Holders = {}
<1>1. Expired(b, lease)
  BY DEF IInv, TakesExpired
<1>. QED  BY <1>1, HolderNotExpired DEF IInv

\* An attempt that reads an expired record reads the one its ETag belongs to.
LEMMA ExpiredIsTheOneStatted ==
  ASSUME HoldsFitLease, IInv, NEW b \in Attempt,
         pc[b] = "read", lease # NoLease, Expired(b, lease)
  PROVE  lease = etag[b]
<1>. SUFFICES ASSUME lease # etag[b] PROVE FALSE
  OBVIOUS
<1>1. lease.expires - Skew[lease.owner] >= started[b] - MaxHold + TTL
  BY DEF IInv, FreshReadsFresh
<1>2. clock <= started[b] + MaxHold
  BY DEF IInv, MeetsDeadline, InFlight
<1>3. lease.owner \in Node /\ lease.expires \in Int
  BY DEF IInv, TypeOK, leaseRecord
<1>4. 2 * MaxHold + Skew[NodeOf[b]] - Skew[lease.owner] < TTL
  BY <1>3, LeaseAssumption DEF HoldsFitLease
<1>5. lease.expires <= clock + Skew[NodeOf[b]]
  BY DEF Expired, Now
<1>6. /\ Skew[lease.owner] \in Int /\ Skew[NodeOf[b]] \in Int
      /\ started[b] \in Nat /\ clock \in Nat /\ TTL \in Nat /\ MaxHold \in Nat
  BY <1>3, LeaseAssumption DEF IInv, TypeOK
<1>. QED  BY <1>1, <1>2, <1>3, <1>4, <1>5, <1>6

\* A record written now is younger than anything an attempt in flight can find
\* expired.
LEMMA WriteIsFresh ==
  ASSUME TypeOK, MeetsDeadline, NEW a \in InFlight, NEW b \in InFlight
  PROVE  Rec(a).expires - Skew[Rec(a).owner] >= started[b] - MaxHold + TTL
<1>1. a \in Attempt /\ b \in Attempt
  BY DEF InFlight
<1>2. clock <= started[a] + MaxHold /\ started[b] <= clock
  BY DEF MeetsDeadline
<1>3. /\ Skew[NodeOf[a]] \in Int /\ started[a] \in Nat /\ started[b] \in Nat
      /\ clock \in Nat /\ TTL \in Nat /\ MaxHold \in Nat
  BY <1>1, LeaseAssumption DEF TypeOK
<1>4. started[a] + TTL >= started[b] - MaxHold + TTL
  BY <1>2, <1>3
<1>. QED  BY <1>1, <1>3, <1>4, RecIsRecord

-----------------------------------------------------------------------------
(* Type correctness *)

\* No lease, no attempt: the initial state has the types (newIssueLeaser).
LEMMA TypeInit == Init => TypeOK
BY LeaseAssumption DEF Init, TypeOK

\* Every step keeps the types, one case per call acquire and releaser make.
LEMMA TypeNext == TypeOK /\ [Next]_vars => TypeOK'
<1>. SUFFICES ASSUME TypeOK, [Next]_vars PROVE TypeOK'
  OBVIOUS
<1>1. ASSUME NEW a \in Attempt, AttemptStep(a) PROVE TypeOK'
  <2>1. Rec(a) \in leaseRecord
    BY RecIsRecord
  <2>2. CASE Start(a)
    BY <2>2 DEF TypeOK, Start
  <2>3. CASE TryCreate(a) \/ TryCreateFails(a)
    BY <2>1, <2>3 DEF TypeOK, TryCreate, TryCreateFails, Goto
  <2>4. CASE Stat(a) \/ Read(a) \/ InspectFails(a)
    BY <2>4 DEF TypeOK, Stat, Read, InspectFails, Goto, Return
  <2>5. CASE TakeOver(a) \/ TakeOverFails(a)
    BY <2>1, <2>5 DEF TypeOK, TakeOver, TakeOverFails, Goto, Return
  <2>6. CASE Finish(a) \/ ReleaseRead(a) \/ ReleaseReadFails(a)
    BY <2>6 DEF TypeOK, Finish, ReleaseRead, ReleaseReadFails, Goto, Return
  <2>7. CASE Remove(a) \/ RemoveFails(a)
    BY <2>7 DEF TypeOK, Remove, RemoveFails, Return
  <2>. QED
    BY <1>1, <2>2, <2>3, <2>4, <2>5, <2>6, <2>7 DEF AttemptStep
<1>2. ASSUME NEW n \in Node, Crash(n) PROVE TypeOK'
  BY <1>2 DEF TypeOK, Crash
<1>3. CASE Tick
  BY <1>3 DEF TypeOK, Tick
<1>4. CASE UNCHANGED vars
  BY <1>4 DEF TypeOK, vars
<1>. QED  BY <1>1, <1>2, <1>3, <1>4 DEF Next

\* The lease object, the ETags and the program counters keep their types
\* whatever storage, the clocks and the crashes do.
THEOREM TypeCorrect == Spec => []TypeOK
BY TypeInit, TypeNext, PTL DEF Spec

-----------------------------------------------------------------------------
(* The inductive invariant *)

\* Before the first acquire nobody holds the lease, so nothing is owed to it.
LEMMA IInvInit == Init => IInv
<1>. SUFFICES ASSUME Init PROVE IInv
  OBVIOUS
<1>1. TypeOK
  BY TypeInit
<1>2. Holders = {} /\ InFlight = {}
  BY DEF Init, Holders, InFlight
<1>. QED
  BY <1>1, <1>2 DEF Init, IInv, HolderOwns, MutualExclusion, MeetsDeadline,
                    TakesExpired, FreshReadsFresh

\* The steps that write the lease object: TryCreate, TakeOver and their failed
\* forms.  They find it free, so the writer is the only holder afterwards.
LEMMA WriteKeepsIInv ==
  ASSUME IInv, TypeOK', NEW a \in Attempt, a \in InFlight, Holders = {},
         lease' = Rec(a), UNCHANGED <<clock, crashed>>,
         \/ Goto(a, "driving") \/ Goto(a, "stat") \/ Return(a)
  PROVE  IInv'
<1>. USE DEF Goto, Return
<1>1. /\ \A b \in Attempt \ {a} :
           pc'[b] = pc[b] /\ started'[b] = started[b] /\ etag'[b] = etag[b]
      /\ pc'[a] \in {"driving", "stat", "idle"}
      /\ pc'[a] # "idle" => started'[a] = started[a]
  BY DEF IInv, TypeOK
<1>2. \A b \in Holders' : b = a /\ lease' = Rec(a)'
  BY <1>1 DEF Holders, Rec
<1>3. HolderOwns' /\ MutualExclusion'
  BY <1>2 DEF HolderOwns, MutualExclusion
<1>4. MeetsDeadline'
  BY <1>1 DEF IInv, MeetsDeadline, InFlight
<1>5. TakesExpired'
  BY <1>1 DEF IInv, TakesExpired, Expired, Now
<1>6. FreshReadsFresh'
  <2>. SUFFICES ASSUME NEW b \in Attempt, pc'[b] = "read"
                PROVE  lease'.expires - Skew[lease'.owner]
                         >= started'[b] - MaxHold + TTL
    BY DEF FreshReadsFresh
  <2>1. b # a /\ b \in InFlight /\ started'[b] = started[b]
    BY <1>1 DEF InFlight
  <2>. QED  BY <2>1, WriteIsFresh DEF IInv
<1>. QED  BY <1>3, <1>4, <1>5, <1>6 DEF IInv

\* The steps of one attempt that leave the lease object alone and do not make
\* it a holder.
LEMMA LocalKeepsIInv ==
  ASSUME IInv, TypeOK', NEW a \in Attempt, UNCHANGED <<clock, lease, crashed>>,
         \A b \in Attempt \ {a} :
           pc'[b] = pc[b] /\ started'[b] = started[b] /\ etag'[b] = etag[b],
         a \in Holders' => a \in Holders /\ started'[a] = started[a],
         pc'[a] # "idle" => started'[a] <= clock /\ clock <= started'[a] + MaxHold,
         pc'[a] = "takeOver" => etag'[a] # NoLease /\ Expired(a, etag'[a]),
         pc'[a] = "read" => etag'[a] = lease
  PROVE  IInv'
<1>1. \A b \in Holders' : b \in Holders /\ Rec(b)' = Rec(b)
  BY DEF Holders, Rec
<1>2. HolderOwns' /\ MutualExclusion'
  BY <1>1 DEF IInv, HolderOwns, MutualExclusion
<1>3. MeetsDeadline'
  BY DEF IInv, MeetsDeadline, InFlight
<1>4. TakesExpired'
  BY DEF IInv, TakesExpired, Expired, Now
<1>5. FreshReadsFresh'
  BY DEF IInv, FreshReadsFresh
<1>. QED  BY <1>2, <1>3, <1>4, <1>5 DEF IInv

\* Every step keeps the inductive invariant: the writes of tryCreate and takeOver,
\* the steps in between, the release, crashes, and the passing of time.
LEMMA IInvNext == HoldsFitLease /\ IInv /\ [Next]_vars => IInv'
<1>. SUFFICES ASSUME HoldsFitLease, IInv, [Next]_vars PROVE IInv'
  OBVIOUS
<1>0. TypeOK /\ TypeOK'
  BY TypeNext DEF IInv
<1>1. ASSUME NEW a \in Attempt, AttemptStep(a) PROVE IInv'
  <2>. USE <1>0
  <2>0. pc[a] # "idle" => started[a] <= clock /\ clock <= started[a] + MaxHold
    BY DEF IInv, MeetsDeadline, InFlight
  <2>1. CASE Start(a)
    <3>1. clock <= clock + MaxHold
      BY LeaseAssumption DEF TypeOK
    <3>. QED  BY <2>1, <3>1, LocalKeepsIInv DEF Start, TypeOK, Holders
  <2>2. CASE TryCreate(a) \/ TryCreateFails(a)
    <3>1. CASE lease' = lease /\ Goto(a, "stat")
      BY <2>0, <2>2, <3>1, LocalKeepsIInv, Zenon
      DEF TryCreate, TryCreateFails, Goto, TypeOK, Holders
    <3>2. CASE /\ lease = NoLease /\ lease' = Rec(a)
               /\ Goto(a, "driving") \/ Goto(a, "stat")
      <4>1. Holders = {}
        BY <3>2, AbsentMeansFree DEF IInv
      <4>2. a \in InFlight /\ UNCHANGED <<clock, crashed>>
        BY <2>2 DEF TryCreate, TryCreateFails, InFlight
      <4>. QED  BY <3>2, <4>1, <4>2, WriteKeepsIInv
    <3>. QED  BY <2>2, <3>1, <3>2 DEF TryCreate, TryCreateFails
  <2>3. CASE Stat(a) \/ InspectFails(a)
    BY <2>0, <2>3, LocalKeepsIInv
    DEF Stat, InspectFails, Return, TypeOK, Holders
  <2>4. CASE Read(a)
    <3>1. CASE lease # NoLease /\ Expired(a, lease)
      <4>1. lease = etag[a]
        BY <2>4, <3>1, ExpiredIsTheOneStatted DEF Read
      <4>. QED
        BY <2>0, <2>4, <3>1, <4>1, LocalKeepsIInv DEF Read, Goto, TypeOK, Holders
    <3>2. CASE ~(lease # NoLease /\ Expired(a, lease))
      BY <2>0, <2>4, <3>2, LocalKeepsIInv DEF Read, Return, TypeOK, Holders
    <3>. QED  BY <3>1, <3>2
  <2>5. CASE TakeOver(a) \/ TakeOverFails(a)
    <3>1. CASE lease' = lease /\ Return(a)
      BY <2>0, <2>5, <3>1, LocalKeepsIInv
      DEF TakeOver, TakeOverFails, Return, TypeOK, Holders
    <3>2. CASE /\ lease = etag[a] /\ lease' = Rec(a)
               /\ Goto(a, "driving") \/ Return(a)
      <4>1. Holders = {}
        BY <2>5, <3>2, TakeOverMeansFree, Zenon DEF TakeOver, TakeOverFails
      <4>2. a \in InFlight /\ UNCHANGED <<clock, crashed>>
        BY <2>5 DEF TakeOver, TakeOverFails, InFlight
      <4>. QED  BY <3>2, <4>1, <4>2, WriteKeepsIInv
    <3>. QED  BY <2>5, <3>1, <3>2 DEF TakeOver, TakeOverFails
  <2>6. CASE Finish(a) \/ ReleaseRead(a) \/ ReleaseReadFails(a) \/ RemoveFails(a)
    BY <2>0, <2>6, LocalKeepsIInv
    DEF Finish, ReleaseRead, ReleaseReadFails, RemoveFails, Goto, Return,
        TypeOK, Holders
  <2>7. CASE Remove(a)
    <3>1. a \in Holders
      BY <2>7 DEF Remove, Holders
    <3>2. /\ lease' = NoLease /\ clock' = clock /\ pc'[a] = "idle"
          /\ \A b \in Attempt \ {a} :
               pc'[b] = pc[b] /\ started'[b] = started[b] /\ etag'[b] = etag[b]
      BY <2>7 DEF Remove, Return, TypeOK
    <3>3. Holders' = {}
      BY <3>1, <3>2 DEF IInv, MutualExclusion, Holders
    <3>4. HolderOwns' /\ MutualExclusion'
      BY <3>3 DEF HolderOwns, MutualExclusion
    <3>5. MeetsDeadline'
      BY <3>2 DEF IInv, MeetsDeadline, InFlight
    <3>6. TakesExpired' /\ FreshReadsFresh'
      BY <3>2 DEF IInv, TakesExpired, FreshReadsFresh, Expired, Now
    <3>. QED  BY <3>4, <3>5, <3>6 DEF IInv
  <2>. QED
    BY <1>1, <2>1, <2>2, <2>3, <2>4, <2>5, <2>6, <2>7 DEF AttemptStep
<1>2. ASSUME NEW n \in Node, Crash(n) PROVE IInv'
  <2>1. /\ UNCHANGED <<clock, lease>>
        /\ \A b \in Attempt :
             pc'[b] # "idle" =>
               pc'[b] = pc[b] /\ started'[b] = started[b] /\ etag'[b] = etag[b]
    BY <1>0, <1>2 DEF Crash, TypeOK
  <2>2. \A b \in Holders' : b \in Holders /\ Rec(b)' = Rec(b)
    BY <2>1 DEF Holders, Rec
  <2>3. HolderOwns' /\ MutualExclusion'
    BY <2>1, <2>2 DEF IInv, HolderOwns, MutualExclusion
  <2>4. MeetsDeadline'
    BY <2>1 DEF IInv, MeetsDeadline, InFlight
  <2>5. TakesExpired' /\ FreshReadsFresh'
    BY <2>1 DEF IInv, TakesExpired, FreshReadsFresh, Expired, Now
  <2>. QED  BY <1>0, <2>3, <2>4, <2>5 DEF IInv
<1>3. CASE Tick
  <2>1. HolderOwns' /\ MutualExclusion' /\ FreshReadsFresh'
    BY <1>3 DEF Tick, IInv, HolderOwns, MutualExclusion, FreshReadsFresh,
                Holders, Rec
  <2>2. MeetsDeadline'
    BY <1>0, <1>3, LeaseAssumption
    DEF Tick, IInv, MeetsDeadline, InFlight, TypeOK
  <2>3. TakesExpired'
    <3>. SUFFICES ASSUME NEW b \in Attempt, pc[b] = "takeOver"
                  PROVE  etag[b] # NoLease /\ etag[b].expires <= clock + 1 + Skew[NodeOf[b]]
      BY <1>3, Zenon DEF Tick, TakesExpired, Expired, Now
    <3>1. etag[b] # NoLease /\ etag[b].expires <= clock + Skew[NodeOf[b]]
      BY Zenon DEF IInv, TakesExpired, Expired, Now
    <3>2. etag[b].expires \in Int /\ Skew[NodeOf[b]] \in Int /\ clock \in Nat
      BY <1>0, <3>1, LeaseAssumption DEF TypeOK, leaseRecord
    <3>. QED  BY <3>1, <3>2
  <2>. QED  BY <1>0, <2>1, <2>2, <2>3 DEF IInv
<1>4. CASE UNCHANGED vars
  BY <1>0, <1>4, Zenon DEF vars, IInv, HolderOwns, MutualExclusion, MeetsDeadline,
    TakesExpired, FreshReadsFresh, Holders, InFlight, Rec, Expired, Now
<1>. QED  BY <1>1, <1>2, <1>3, <1>4 DEF Next

\* The inductive invariant holds in every behaviour in which holds fit the lease.
LEMMA IInvAlways == HoldsFitLease => (Spec => []IInv)
<1>. SUFFICES ASSUME HoldsFitLease PROVE Spec => []IInv
  OBVIOUS
<1>1. IInv /\ [Next]_vars => IInv'
  BY IInvNext
<1>. QED  BY <1>1, IInvInit, PTL DEF Spec

-----------------------------------------------------------------------------
(* What the callers of acquire rely on *)

\* Two attempts never hold the lease of a hostname at once, in one process or in
\* several, whatever storage calls fail and whatever processes crash, as long as
\* holds fit the lease (acquire, takeOver, releaser).
THEOREM AtMostOneHolder == HoldsFitLease => (Spec => []MutualExclusion)
<1>1. IInv => MutualExclusion
  BY DEF IInv
<1>. QED  BY <1>1, IInvAlways, PTL

\* The record in storage is the holder's and no process finds it expired: the
\* work under the lease is covered by it to the end of the release (acquire).
THEOREM HolderCovered == HoldsFitLease => (Spec => []HolderIsRecorded)
<1>. SUFFICES ASSUME HoldsFitLease PROVE Spec => []HolderIsRecorded
  OBVIOUS
<1>1. IInv => HolderIsRecorded
  BY HolderNotExpired DEF IInv, HolderOwns, HolderIsRecorded
<1>. QED  BY <1>1, IInvAlways, PTL

\* A live record is never overwritten: only takeOver replaces one, and the
\* record its IfMatch names had expired on its clock (takeOver).
THEOREM ReplacesOnlyExpired == HoldsFitLease => (Spec => OnlyExpiredReplaced)
<1>1. ASSUME IInv, [Next]_vars, lease # NoLease, lease' \notin {lease, NoLease}
      PROVE  \E a \in Attempt : Expired(a, lease) /\ lease' = Rec(a)
  <2>1. PICK a \in Attempt : AttemptStep(a)
    BY <1>1 DEF Next, vars, Crash, Tick
  <2>2. TakeOver(a) \/ TakeOverFails(a)
    BY <1>1, <2>1, Zenon DEF AttemptStep, Start, TryCreate, TryCreateFails, Stat, Read,
      InspectFails, Finish, ReleaseRead, ReleaseReadFails, Remove, RemoveFails
  <2>3. pc[a] = "takeOver" /\ lease = etag[a] /\ lease' = Rec(a)
    BY <1>1, <2>2, Zenon DEF TakeOver, TakeOverFails
  <2>. QED  BY <1>1, <2>3 DEF IInv, TakesExpired
<1>2. IInv /\ [Next]_vars =>
        [lease # NoLease /\ lease' \notin {lease, NoLease}
           => \E a \in Attempt : Expired(a, lease) /\ lease' = Rec(a)]_vars
  BY <1>1
<1>. QED  BY <1>2, IInvAlways, PTL DEF Spec, OnlyExpiredReplaced

\* "we never delete a lease a peer legitimately took over" (lease.go:150) holds
\* of releaser, read error and unconditional delete included, when holds fit the
\* lease: a holder's release finds its own record.
THEOREM ReleaseDeletesOwn == HoldsFitLease => (Spec => ReleaseSparesPeer)
<1>1. ASSUME IInv, NEW a \in Attempt, pc[a] = "remove"
      PROVE  lease.owner = NodeOf[a]
  <2>1. a \in Holders /\ lease = Rec(a)
    BY <1>1 DEF IInv, HolderOwns, Holders
  <2>. QED  BY <1>1, <2>1, RecIsRecord DEF IInv
<1>2. IInv => [\A a \in Attempt :
                 pc[a] = "remove" /\ lease # NoLease /\ lease' = NoLease
                   /\ pc'[a] = "idle" => lease.owner = NodeOf[a]]_vars
  BY <1>1
<1>. QED  BY <1>2, IInvAlways, PTL DEF ReleaseSparesPeer

\* The lease implements the abstract mutual exclusion: every step of it starts
\* one attempt's drive when nobody drives, ends the only drive, or is invisible.
THEOREM LeaseImplementsMutex == HoldsFitLease => (Spec => ImplementsMutex)
<1>. SUFFICES ASSUME HoldsFitLease PROVE Spec => ImplementsMutex
  OBVIOUS
<1>. DEFINE Driving == {a \in Attempt : pc[a] = "driving"}
<1>1. Init => Mutex!Init
  BY DEF Init, Mutex!Init
<1>2. IInv /\ IInv' /\ [Next]_vars => [Mutex!Next]_Driving
  <2>. SUFFICES ASSUME IInv, IInv', [Next]_vars PROVE [Mutex!Next]_Driving
    OBVIOUS
  <2>1. /\ \A a, b \in Driving : a = b
        /\ \A a, b \in Driving' : a = b
    BY DEF IInv, MutualExclusion, Holders
  <2>2. CASE Driving' = {} \/ Driving' = Driving
    BY <2>1, <2>2 DEF Mutex!Next, Mutex!Begin, Mutex!End
  <2>3. CASE ~(Driving' = {} \/ Driving' = Driving)
    <3>1. PICK a \in Driving' : a \notin Driving
      BY <2>1, <2>3
    <3>2. Driving' = {a}
      BY <2>1, <3>1
    <3>3. AttemptStep(a) /\ a \in Attempt
      <4>1. a \in Attempt /\ pc[a] # "driving" /\ pc'[a] = "driving"
        BY <3>1
      <4>2. ASSUME NEW b \in Attempt, AttemptStep(b) PROVE a = b
        <5>1. PICK label : pc' = [pc EXCEPT ![b] = label]
          BY <4>2, Zenon DEF AttemptStep, Start, TryCreate, TryCreateFails, Stat, Read,
            InspectFails, TakeOver, TakeOverFails, Finish, ReleaseRead,
            ReleaseReadFails, Remove, RemoveFails, Goto, Return
        <5>2. DOMAIN pc = Attempt
          BY DEF IInv, TypeOK
        <5>. QED  BY <4>1, <5>1, <5>2
      <4>3. ASSUME NEW n \in Node, Crash(n) PROVE FALSE
        BY <4>1, <4>3 DEF Crash
      <4>4. pc' # pc
        BY <4>1
      <4>. QED  BY <4>1, <4>2, <4>3, <4>4 DEF Next, vars, Tick
    <3>4. /\ pc[a] \in {"create", "takeOver"} /\ pc'[a] = "driving"
          /\ \/ lease = NoLease
             \/ pc[a] = "takeOver" /\ lease = etag[a]
      <4>1. pc[a] # "driving" /\ pc'[a] = "driving" /\ DOMAIN pc = Attempt
        BY <3>1 DEF IInv, TypeOK
      <4>2. \A label : pc' = [pc EXCEPT ![a] = label] => label = "driving"
        BY <3>3, <4>1
      <4>3. TryCreate(a) \/ TakeOver(a)
        <5>1. "idle" # "driving" /\ "create" # "driving" /\ "stat" # "driving"
              /\ "read" # "driving" /\ "takeOver" # "driving" /\ "release" # "driving"
              /\ "remove" # "driving"
          OBVIOUS
        <5>. QED  BY <3>3, <4>2, <5>1, Zenon DEF AttemptStep, Start, TryCreateFails, Stat,
               Read, InspectFails, TakeOverFails, Finish, ReleaseRead, ReleaseReadFails,
               Remove, RemoveFails, Goto, Return
      <4>4. CASE TryCreate(a)
        <5>1. ~Goto(a, "stat")
          BY <4>2, Zenon DEF Goto
        <5>. QED  BY <4>1, <4>4, <5>1, Zenon DEF TryCreate
      <4>5. CASE TakeOver(a)
        BY <4>1, <4>2, <4>5 DEF TakeOver, Goto, Return
      <4>. QED  BY <4>3, <4>4, <4>5
    <3>5. Holders = {}
      BY <3>3, <3>4, AbsentMeansFree, TakeOverMeansFree, Zenon DEF IInv
    <3>6. Driving = {}
      BY <3>5, Zenon DEF Holders
    <3>. QED  BY <3>2, <3>3, <3>6 DEF Mutex!Next, Mutex!Begin
  <2>. QED  BY <2>2, <2>3
<1>. QED  BY <1>1, <1>2, IInvAlways, PTL DEF Spec, ImplementsMutex, Mutex!Spec
=============================================================================
