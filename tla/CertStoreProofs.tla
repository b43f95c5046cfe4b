--------------------------- MODULE CertStoreProofs ---------------------------
(****************************************************************************)
(* What the operator's commands remove and what a node may start from, for   *)
(* any number of certificates, keys, outages, faults and commands.           *)
(*                                                                          *)
(* A command that goes on to remove has either been forced, or failed to     *)
(* read the chain, or found it expired, and what has expired stays expired.  *)
(* What a node serves has been in storage, is held for it, or was let go of  *)
(* by a flush of an older chain; a copy is saved only from what storage gave *)
(* or from what is served when storage has just taken a chain.               *)
(****************************************************************************)
EXTENDS CertStore, TLAPS

Pair == [no : Nat, key : Nat]
Cmd == [pc : {"idle", "describe", "confirm", "look", "remove"}, force : BOOLEAN,
        look : Pair, unread : BOOLEAN]

\* The state has its types, as far as the invariant needs them (certCache,
\* Inventory).
TypeOK ==
    /\ chain \in Pair /\ mem \in Pair /\ disk \in Pair /\ pend \in Pair /\ got \in Pair
    /\ snap \in Pair
    /\ key \in Nat /\ made \in Nat /\ due \in Nat /\ old \in Nat
    /\ cmd \in Cmd

LookHolds == cmd.pc = "remove" => cmd.force \/ cmd.unread \/ cmd.look.no <= old

Origin == stored \cup overtook

Served ==
    /\ mem \in Origin \cup {NoChain, pend}
    /\ pend # NoChain => mem # NoChain

Writing == at \in {"flush", "writeBack"}
Snapped == Writing => snap # NoChain /\ mem # NoChain

Read == at = "reading" => got \in stored

Kept ==
    /\ chain # NoChain => chain \in stored
    /\ NoChain \notin Origin
    /\ CopyWasStored /\ Served /\ Read /\ Snapped

IInv == TypeOK /\ LookHolds /\ Kept

\* The first certificate is stored, served and saved (NewManager, preload).
LEMMA InitInv == CmdInit => IInv
  BY DEF CmdInit, Init, IInv, TypeOK, LookHolds, Kept, Served, Read, Snapped, Writing, Origin,
     CopyWasStored, NoChain, NoCommand, Pair, Cmd

\* A node's step beside a command leaves the command's last look true: nothing
\* that has expired becomes valid (Inventory.Delete).
LEMMA LookKept ==
    ASSUME TypeOK, LookHolds, old' \in Nat, old' >= old, UNCHANGED cmd
    PROVE  LookHolds'
  BY DEF TypeOK, LookHolds, Cmd, Pair

\* Taking what storage holds (certCache.Refresh).
LEMMA RefreshKept ==
    ASSUME TypeOK, Kept, Readable, Refresh(chain)
    PROVE  /\ mem' \in Origin /\ mem' # NoChain /\ disk' \in Origin
           /\ mem' \in Pair /\ disk' \in Pair
  BY DEF TypeOK, Kept, Origin, CopyWasStored, Readable, Refresh, set, confirmed

\* Storing a chain just signed (certCache.Store).
LEMMA StoreKept ==
    ASSUME TypeOK, Kept, Recorded, NEW c \in Pair, c # NoChain, chain' = c, Refresh(c),
           pend' = NoChain, UNCHANGED <<got, snap>>, at' \in {at, "idle"}
    PROVE  Kept' /\ mem' \in Pair /\ disk' \in Pair /\ chain' \in Pair
  <1>1. stored' = stored \cup {c} /\ overtook \subseteq overtook' /\ NoChain \notin overtook'
    BY DEF Kept, Origin, Recorded, LetGo
  <1>2. mem' = c /\ disk' \in {c, disk}
    BY DEF Refresh, set, confirmed
  <1>3. disk' \in Pair /\ CopyWasStored' /\ Served'
    BY <1>1, <1>2 DEF TypeOK, Kept, CopyWasStored, Served, Origin
  <1>4. Read' /\ Snapped'
    BY <1>1, <1>2 DEF Kept, Read, Snapped, Writing
  <1> QED
    BY <1>1, <1>2, <1>3, <1>4 DEF Kept, Origin

\* Writing the snapshot to storage: what is held is in storage now or has been
\* let go of, and what is served had come from one of the two (flushOne).
LEMMA WrittenKept ==
    ASSUME TypeOK, Kept, Recorded, Writing, Written(snap),
           got' = got, at' \notin {"reading", "flush", "writeBack"}
    PROVE  Kept' /\ mem' \in Pair /\ disk' \in Pair /\ chain' \in Pair /\ pend' \in Pair
  <1>1. chain' = snap /\ mem' = mem /\ pend' = NoChain /\ disk' \in {mem, disk}
    BY DEF Written, dropPending, confirmed
  <1>2. snap # NoChain /\ mem # NoChain
    BY DEF Kept, Snapped
  <1>3. stored' = stored \cup {snap} /\ overtook' = overtook \cup ({pend} \ {NoChain, snap})
    BY <1>1, <1>2, Zenon DEF Recorded, LetGo, Writing
  <1>4. Origin \subseteq Origin' /\ NoChain \notin Origin' /\ mem \in Origin'
    BY <1>2, <1>3 DEF Kept, Served, Origin
  <1>5. CopyWasStored' /\ disk' \in Pair
    BY <1>1, <1>4 DEF TypeOK, Kept, CopyWasStored, Origin
  <1>6. NoChain \in Pair
    BY DEF NoChain, Pair
  <1>7. Served' /\ Read' /\ Snapped'
    BY <1>1, <1>4 DEF Served, Read, Snapped, Writing
  <1> QED
    BY <1>1, <1>2, <1>3, <1>4, <1>5, <1>6, <1>7 DEF TypeOK, Kept

\* The node and the surroundings keep the invariant (the maintenance tick, the
\* orders, preload).
LEMMA CopyStepInv ==
    ASSUME IInv, CopyNext, UNCHANGED cmdVars, Recorded
    PROVE  IInv'
  <1>t. /\ TypeOK /\ LookHolds /\ Kept /\ NoChain \in Pair
        /\ stored \subseteq stored' /\ Origin \subseteq Origin' /\ cmd' = cmd
    BY DEF IInv, NoChain, Pair, Recorded, Origin, cmdVars
  <1>s. /\ CopyWasStored /\ Served /\ Read /\ Snapped
        /\ (chain # NoChain => chain \in stored)
        /\ NoChain \notin Origin /\ NoChain \notin Origin'
    BY <1>t DEF Kept, Recorded, LetGo, Origin
  \* Steps that leave the chain in storage, what has expired and the serials.
  <1>a. ASSUME chain' = chain, old' = old, key' = key, made' \in Nat, due' = due,
               mem' \in Pair, disk' \in Pair, pend' \in Pair, got' \in Pair, snap' \in Pair,
               disk' \in Origin, Served', Read', Snapped'
        PROVE  IInv'
    <2>1. TypeOK'
      BY <1>t, <1>a DEF TypeOK
    <2>2. LookHolds'
      BY <1>t, <1>a, LookKept DEF TypeOK
    <2>3. Kept'
      BY <1>t, <1>s, <1>a DEF Kept, CopyWasStored, Origin
    <2> QED
      BY <2>1, <2>2, <2>3 DEF IInv
  \* Steps that do not touch what the node has.
  <1>b. ASSUME UNCHANGED <<mem, disk, pend, snap, got, at>>, chain' \in Pair, key' \in Nat,
               made' \in Nat, due' \in Nat, old' \in Nat, old' >= old
        PROVE  IInv'
    <2>1. TypeOK'
      BY <1>t, <1>b DEF TypeOK
    <2>2. LookHolds'
      BY <1>t, <1>b, LookKept
    <2>3. chain' # NoChain => chain' \in stored'
      BY DEF Recorded
    <2>4. Kept'
      <3>1. CopyWasStored' /\ Served'
        BY <1>t, <1>s, <1>b DEF CopyWasStored, Served, Origin
      <3>2. Read' /\ Snapped'
        BY <1>t, <1>s, <1>b DEF Read, Snapped, Writing
      <3> QED
        BY <1>s, <2>3, <3>1, <3>2 DEF Kept
    <2> QED
      BY <2>1, <2>2, <2>4 DEF IInv
  \* Steps that store a chain.
  <1>c. ASSUME Kept', mem' \in Pair, disk' \in Pair, chain' \in Pair, pend' \in Pair,
               snap' \in Pair, got' = got, old' = old, due' = due, key' \in Nat, made' \in Nat
        PROVE  IInv'
    <2>1. TypeOK'
      BY <1>t, <1>c DEF TypeOK
    <2>2. LookHolds'
      BY <1>t, <1>c, LookKept DEF TypeOK
    <2> QED
      BY <1>c, <2>1, <2>2 DEF IInv
  \* Taking what storage holds, with nothing else of the node changed.
  <1>d. ASSUME IF Readable THEN Refresh(chain) ELSE UNCHANGED <<mem, local, disk>>,
               UNCHANGED pend
        PROVE  /\ mem' \in Pair /\ disk' \in Pair /\ disk' \in Origin /\ Served'
               /\ mem # NoChain => mem' # NoChain
    <2>1. CASE Readable
      BY <1>t, <1>s, <1>d, <2>1, RefreshKept DEF Served
    <2>2. CASE ~Readable
      BY <1>t, <1>s, <1>d, <2>2 DEF Served, CopyWasStored, Origin, TypeOK
    <2> QED
      BY <2>1, <2>2
  \* Writing the snapshot, or not.
  <1>e. ASSUME flushOne(snap), Writing, got' = got, snap' = NoChain,
               at' \notin {"reading", "flush", "writeBack"},
               UNCHANGED <<key, made, due, old>>
        PROVE  IInv'
    <2>1. Read' /\ Snapped'
      BY <1>e DEF Read, Snapped, Writing
    <2>2. CASE NotWritten(snap)
      BY <1>a, <1>e, <1>t, <1>s, <2>1, <2>2 DEF NotWritten, Served, Origin, CopyWasStored, TypeOK
    <2>3. CASE Adopted(snap)
      <3>1. Readable /\ Refresh(chain) /\ pend' = NoChain /\ chain' = chain
        BY <2>3 DEF Adopted, dropPending
      <3>2. Served'
        BY <1>t, <3>1, RefreshKept DEF Served
      <3> QED
        BY <1>a, <1>e, <1>t, <2>1, <3>1, <3>2, RefreshKept DEF TypeOK
    <2>4. CASE Written(snap)
      BY <1>c, <1>e, <1>t, <2>4, WrittenKept DEF TypeOK
    <2> QED
      BY <1>e, <2>2, <2>3, <2>4 DEF flushOne
  <1>1. CASE FlushHeldChains
    <2>1. /\ UNCHANGED <<chain, mem, disk, pend, got, old, key, made, due>>
          /\ snap' = pend /\ at' # "reading" /\ (Writing' => pend # NoChain)
      BY <1>1 DEF FlushHeldChains, storageVars, Goto, Writing
    <2>2. Served' /\ Read' /\ Snapped' /\ disk' \in Origin
      BY <1>t, <1>s, <2>1 DEF Served, Read, Snapped, CopyWasStored, Origin
    <2> QED
      BY <1>a, <1>t, <2>1, <2>2 DEF TypeOK
  <1>15. CASE FlushSnapshot
    BY <1>15, <1>e DEF FlushSnapshot, Goto, Writing
  <1>16. CASE WriteBack
    BY <1>16, <1>e DEF WriteBack, Goto, Writing
  <1>2. CASE supersedeLocalCopies
    <2>1. UNCHANGED <<chain, mem, disk, pend, snap, old, key, made, due>> /\ ~Writing'
      BY <1>2 DEF supersedeLocalCopies, storageVars, Goto, Writing
    <2>2. \/ got' = chain /\ Readable
          \/ got' = got /\ at' # "reading"
      BY <1>2 DEF supersedeLocalCopies, Goto
    <2>3. got' \in Pair /\ Read'
      BY <1>t, <1>s, <2>2 DEF Readable, Read, TypeOK
    <2>4. Served' /\ Snapped' /\ disk' \in Origin
      BY <1>t, <1>s, <2>1 DEF Served, Snapped, CopyWasStored, Origin
    <2> QED
      BY <1>a, <1>t, <2>1, <2>3, <2>4 DEF TypeOK
  <1>3. CASE Superseded
    <2>1. got \in stored /\ mem' = got /\ disk' \in {got, disk}
      BY <1>3, <1>s DEF Superseded, Read, Refresh, set, confirmed
    <2>2. /\ UNCHANGED <<chain, pend, snap, old, key, made, due>>
          /\ got' = NoChain /\ at' # "reading" /\ ~Writing'
      BY <1>3 DEF Superseded, storageVars, Goto, Writing
    <2>3. mem' # NoChain
      BY <1>s, <2>1 DEF Origin
    <2>4. mem' \in Pair /\ disk' \in Pair /\ disk' \in Origin /\ Read'
      BY <1>t, <1>s, <2>1, <2>2 DEF Read, CopyWasStored, Origin, TypeOK
    <2>5. Served' /\ Snapped'
      BY <1>t, <2>1, <2>2, <2>3 DEF Served, Snapped, Origin
    <2> QED
      BY <1>a, <1>t, <2>2, <2>4, <2>5, Zenon DEF TypeOK
  <1>4. CASE restoreMissingChains
    <2>1. /\ UNCHANGED <<chain, mem, disk, pend, got, old, key, made, due>>
          /\ at' # "reading"
          /\ \/ Missing /\ snap' = mem
             \/ snap' = snap /\ ~Writing'
      BY <1>4 DEF restoreMissingChains, storageVars, Goto, Writing
    <2>2. Missing => mem # NoChain
      BY <1>t DEF Missing, Expired, NoChain, TypeOK
    <2>3. Served' /\ Read' /\ Snapped' /\ disk' \in Origin
      BY <1>t, <1>s, <2>1, <2>2 DEF Served, Read, Snapped, CopyWasStored, Origin
    <2> QED
      BY <1>a, <1>t, <2>1, <2>3 DEF TypeOK
  <1>5. CASE FollowerRefresh
    <2>1. /\ UNCHANGED <<chain, pend, snap, got, old, key, made, due>>
          /\ at' # "reading" /\ ~Writing'
          /\ IF Readable THEN Refresh(chain) ELSE UNCHANGED <<mem, local, disk>>
      BY <1>5 DEF FollowerRefresh, storageVars, Goto, Writing
    <2> QED
      BY <1>a, <1>d, <1>t, <2>1 DEF Read, Snapped, TypeOK
  <1>6. CASE renewIfNeeded
    <2>1. /\ UNCHANGED <<chain, pend, snap, got, old, key, made, due>>
          /\ at' # "reading" /\ ~Writing'
      BY <1>6 DEF renewIfNeeded, Goto, Writing
    <2>2. \/ Readable /\ Refresh(chain)
          \/ UNCHANGED <<mem, local, disk>>
      BY <1>6 DEF renewIfNeeded
    <2>3. mem' \in Pair /\ disk' \in Pair /\ disk' \in Origin /\ Served'
      BY <1>t, <1>s, <2>1, <2>2, RefreshKept DEF Served, CopyWasStored, Origin, TypeOK
    <2> QED
      BY <1>a, <1>t, <2>1, <2>3 DEF Read, Snapped, TypeOK
  <1>7. CASE RenewCertificate
    <2>1. /\ UNCHANGED <<chain, pend, snap, got, at, old, key, made, due>>
          /\ IF Readable THEN Refresh(chain) ELSE UNCHANGED <<mem, local, disk>>
      BY <1>7 DEF RenewCertificate
    <2>2. Read' /\ Snapped'
      BY <1>d, <1>t, <1>s, <2>1 DEF Read, Snapped, Writing
    <2> QED
      BY <1>a, <1>d, <1>t, <2>1, <2>2 DEF TypeOK
  <1>8. CASE Store
    <2> DEFINE c == [no |-> made + 1, key |-> key]
    <2>1. c \in Pair /\ c # NoChain
      BY <1>t DEF TypeOK, Pair, NoChain
    <2>2. chain' = c /\ Refresh(c) /\ pend' = NoChain /\ UNCHANGED <<got, snap>>
      BY <1>8 DEF Store, dropPending
    <2>3. UNCHANGED <<key, due, old>> /\ made' = made + 1 /\ at' \in {at, "idle"}
      BY <1>8 DEF Store, OrderDone
    <2> HIDE DEF c
    <2> QED
      BY <1>c, <1>t, <2>1, <2>2, <2>3, StoreKept DEF TypeOK
  <1>9. CASE StoreFails
    <2> DEFINE c == [no |-> made + 1, key |-> key]
    <2>1. c \in Pair /\ c # NoChain
      BY <1>t DEF TypeOK, Pair, NoChain
    <2>2. mem' = c /\ pend' = c /\ UNCHANGED <<disk, chain, snap, got, key, due, old>>
      BY <1>9 DEF StoreFails, hold, set
    <2>3. made' = made + 1 /\ at' \in {at, "idle"}
      BY <1>9 DEF StoreFails, OrderDone
    <2> HIDE DEF c
    <2>4. Served' /\ Read' /\ Snapped' /\ disk' \in Origin
      BY <1>t, <1>s, <2>1, <2>2, <2>3 DEF Served, Read, Snapped, Writing, CopyWasStored, Origin
    <2> QED
      BY <1>a, <1>t, <2>1, <2>2, <2>3, <2>4 DEF TypeOK
  <1>10. CASE ReplaceCertificateKey
    <2>1. chain' \in Pair /\ chain' # NoChain
      BY <1>10, <1>t DEF ReplaceCertificateKey, TypeOK, Pair, NoChain
    <2>2. /\ Refresh(chain') /\ pend' = NoChain /\ UNCHANGED <<got, snap, at, due, old>>
          /\ made' = made + 1 /\ key' = key + 1
      BY <1>10 DEF ReplaceCertificateKey, dropPending
    <2> QED
      BY <1>c, <1>t, <2>1, <2>2, StoreKept DEF TypeOK
  <1>11. CASE Restart
    <2>1. /\ pend' = NoChain /\ snap' = NoChain /\ got' = NoChain /\ at' # "reading" /\ ~Writing'
          /\ UNCHANGED <<chain, old, key, made, due>>
      BY <1>11 DEF Restart, storageVars, Writing
    <2>2. \/ Readable /\ Refresh(chain)
          \/ mem' \in {NoChain, disk} /\ disk' = disk
      BY <1>11 DEF Restart, StartWith, set
    <2>3. mem' \in Pair /\ disk' \in Pair /\ disk' \in Origin /\ mem' \in Origin \cup {NoChain}
      BY <1>t, <1>s, <2>2, RefreshKept DEF CopyWasStored, Origin, TypeOK
    <2>4. Served'
      BY <1>t, <2>1, <2>3 DEF Served
    <2> QED
      BY <1>a, <1>t, <2>1, <2>3, <2>4, Zenon DEF Read, Snapped, TypeOK
  <1>12. CASE PeerStores
    <2>1. chain' \in Pair /\ key' \in Nat /\ made' \in Nat
      BY <1>12, <1>t DEF PeerStores, TypeOK, Pair
    <2>2. UNCHANGED <<mem, disk, pend, snap, got, at, due, old>>
      BY <1>12, Zenon DEF PeerStores, nodeVars
    <2>3. due' \in Nat /\ old' \in Nat /\ old' >= old
      BY <1>t, <2>2 DEF TypeOK
    <2> QED
      BY <1>b, <2>1, <2>2, <2>3, Zenon
  <1>13. CASE Elect \/ StorageFails \/ StorageReturns \/ LeaseExpires
    <2>1. UNCHANGED <<mem, disk, pend, snap, got, at, chain, key, made, due, old>>
      BY <1>13, Zenon
         DEF Elect, StorageFails, StorageReturns, LeaseExpires, storageVars, nodeVars
    <2>2. /\ chain' \in Pair /\ key' \in Nat /\ made' \in Nat /\ due' \in Nat /\ old' \in Nat
          /\ old' >= old
      BY <1>t, <2>1 DEF TypeOK
    <2> QED
      BY <1>b, <2>1, <2>2, Zenon
  <1>14. CASE Age \/ Expire
    BY <1>14, <1>b, <1>t DEF Age, Expire, nodeVars, TypeOK
  <1> QED
    BY <1>1, <1>2, <1>3, <1>4, <1>5, <1>6, <1>7, <1>8, <1>9, <1>10, <1>11, <1>12, <1>13, <1>14,
       <1>15, <1>16
       DEF CopyNext, TickStep

\* The command keeps the invariant (runDelete, runClean, Inventory.Delete).
LEMMA CommandInv ==
    ASSUME IInv, Command, Recorded
    PROVE  IInv'
  <1>t. TypeOK /\ LookHolds /\ Kept /\ NoCommand \in Cmd /\ NoChain \in Pair
    BY DEF IInv, NoCommand, NoChain, Cmd, Pair
  <1>1. /\ UNCHANGED <<mem, disk, pend, snap, got, at, key, made, due, old>>
        /\ chain' \in {chain, NoChain}
    BY Zenon DEF Command, Look, Describe, Confirm, Decline, Delete, RemoveObject,
       copyVars, storageVars, nodeVars
  <1>2. Kept'
    <2>1. /\ stored \subseteq stored' /\ overtook \subseteq overtook' /\ NoChain \notin Origin'
          /\ chain' # NoChain => chain' \in stored'
      BY <1>t DEF Kept, Recorded, LetGo, Origin
    <2>2. CopyWasStored' /\ Served'
      BY <1>t, <1>1, <2>1 DEF Kept, CopyWasStored, Served, Origin
    <2>3. Read' /\ Snapped'
      BY <1>t, <1>1, <2>1 DEF Kept, Read, Snapped, Writing
    <2> QED
      BY <2>1, <2>2, <2>3 DEF Kept
  <1>3. cmd' \in Cmd /\ LookHolds'
    <2>1. CASE \E force \in BOOLEAN : Look(force)
      BY <2>1, <1>t, Zenon DEF Look, NoCommand, LookHolds, Cmd
    <2>2. CASE Describe \/ Confirm \/ Decline
      BY <2>2, <1>t, ZenonT(30) DEF Describe, Confirm, Decline, CmdEnds, CmdGoto, NoCommand, LookHolds,
         TypeOK, Cmd
    <2>3. CASE Delete
      <3>1. CASE cmd' = NoCommand
        BY <3>1, <1>t, Zenon DEF NoCommand, LookHolds
      <3>2. CASE (~InUse \/ cmd.force) /\ cmd' = Seen
        <4>1. /\ cmd'.force = cmd.force /\ cmd'.look = chain /\ cmd'.unread = Unreadable
              /\ cmd' \in Cmd
          BY <3>2, <1>t, Zenon DEF Seen, TypeOK, Cmd, Unreadable
        <4> QED
          BY <3>2, <4>1, <1>1, <1>t, Zenon DEF InUse, Unservable, Expired, LookHolds, TypeOK
      <3> QED
        BY <2>3, <3>1, <3>2 DEF Delete, CmdEnds
    <2>4. CASE RemoveObject
      BY <2>4, <1>t, Zenon DEF RemoveObject, CmdEnds, NoCommand, LookHolds
    <2> QED
      BY <2>1, <2>2, <2>3, <2>4 DEF Command
  <1> QED
    BY <1>t, <1>1, <1>2, <1>3 DEF IInv, TypeOK

\* Nothing changes (no step of the node or the command).
LEMMA StutterInv == IInv /\ UNCHANGED vars => IInv'
  BY DEF vars, copyVars, storageVars, nodeVars, cmdVars, IInv, TypeOK, LookHolds, Kept,
     CopyWasStored, Served, Read, Snapped, Writing, Origin

\* The inductive invariant holds throughout (certCache, Inventory).
THEOREM InvHolds == Spec => []IInv
  <1>1. IInv /\ [Next]_vars => IInv'
    BY CopyStepInv, CommandInv, StutterInv DEF Next, Beside
  <1> QED
    BY InitInv, <1>1, PTL DEF Spec

\* A node's local copy is a pair that storage has held, or one that a flush of an
\* older chain let go of (certCache.confirmed, flushOne).
THEOREM CopyIsFromStorage == Spec => []CopyWasStored
  <1>1. IInv => CopyWasStored
    BY DEF IInv, Kept
  <1> QED
    BY InvHolds, <1>1, PTL

\* An unforced command removes a chain that can be served only if it was
\* stored after the command's last look or that look failed (Inventory.Delete).
THEOREM RemovalsJustified == Spec => RemovesOnlyUnservable
  <1>1. IInv /\ [Next]_vars
        => [CmdAt("remove") /\ chain # NoChain /\ chain' = NoChain /\ ~cmd.force /\ ~Expired(chain)
            => chain # cmd.look \/ cmd.unread]_vars
    BY DEF IInv, LookHolds, CmdAt, Expired
  <1> QED
    BY InvHolds, <1>1, PTL DEF Spec, RemovesOnlyUnservable
=============================================================================
