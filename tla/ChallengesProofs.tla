-------------------------- MODULE ChallengesProofs --------------------------
(***************************************************************************)
(* Proofs about Challenges, for any processes, any table of misses and any *)
(* number of authorizations and faults.                                    *)
(***************************************************************************)
EXTENDS Challenges, FiniteSetTheorems, TLAPS

Presented == {"accept", "wait", "forget", "remove"}

Types ==
  /\ authz \in [token : Nat, offered : SUBSET {"tls-alpn-01", "http-01"},
                status : {"pending", "valid", "invalid"}]
  /\ alpn \in [Node -> Nat] /\ http \in [Node -> SUBSET Nat]
  /\ alpnStored \in Nat
  /\ httpStored \in SUBSET Nat /\ IsFiniteSet(httpStored)
  /\ pc \in {"idle", "present", "mirror"} \cup Presented
  /\ driver \in Node
  /\ faults \in Nat

\* Memory has an answer only in the process that drives the attempt, and only the
\* attempt's own.
OwnAnswer ==
  \A n \in Node : alpn[n] # 0 =>
    /\ n = driver /\ pc \in {"mirror", "accept", "wait", "forget"}
    /\ UsesALPN /\ alpn[n] = authz.token

\* From the write until the removal the answer is in storage.
Shared ==
  pc \in Presented =>
    /\ UsesALPN => alpnStored = authz.token
    /\ UsesHTTP => authz.token \in httpStored

\* There is an authorization to answer, and an attempt past its choice has made one.
Chosen ==
  /\ pc # "idle" \/ authz.status = "pending" => authz.token # 0
  /\ pc \in Presented \cup {"mirror"} => UsesALPN \/ UsesHTTP

IInv == Types /\ OwnAnswer /\ Shared /\ Chosen

-----------------------------------------------------------------------------
\* A process that starts has no attempt and no answers.
LEMMA InitInv == Init => IInv
BY FS_EmptySet DEF Init, IInv, Types, OwnAnswer, Shared, Chosen, Presented

\* The write of an answer keeps what is stored finite.
LEMMA MirroredTypes ==
  ASSUME Types, Mirrored
  PROVE  alpnStored' \in Nat /\ httpStored' \in SUBSET Nat /\ IsFiniteSet(httpStored')
BY FS_AddElement, Zenon DEF Types, Mirrored

\* Every step keeps the facts above (the attempt of issuer.go beside the requests
\* that challenge.go serves).
LEMMA StepInv == IInv /\ [Next]_vars => IInv'
<1> SUFFICES ASSUME IInv, [Next]_vars PROVE IInv'
  OBVIOUS
<1> USE DEF IInv
<1> USE DEF OwnAnswer, Shared, Chosen, Presented, UsesALPN, UsesHTTP, At, Goto, ca, answers, table, attempt
<1>1. ASSUME NEW n \in Node, Order(n) PROVE IInv'
  <2>1. CASE UNCHANGED ca /\ authz.status = "pending"
    <3>1. authz.token # 0
      BY <2>1
    <3> QED BY <1>1, <2>1, <3>1 DEF Order, Types
  <2>2. ASSUME NEW offered \in SUBSET {"tls-alpn-01", "http-01"},
               authz' = [token |-> authz.token + 1, offered |-> offered, status |-> "pending"]
        PROVE  IInv'
    <3>1. authz'.token # 0 /\ authz'.token \in Nat
      BY <2>2 DEF Types
    <3>2. \A m \in Node : alpn[m] = 0
      BY <1>1 DEF Order
    <3> QED BY <1>1, <2>2, <3>1, <3>2 DEF Order, Types
  <2> QED BY <1>1, <2>1, <2>2 DEF Order
<1>2. CASE Skip
  BY <1>2 DEF Skip, Types
<1>3. CASE Present
  BY <1>3 DEF Present, Types
<1>4. CASE Mirror
  <2>1. Types'
    BY <1>4, MirroredTypes DEF Mirror, Types
  <2>2. (OwnAnswer /\ Shared /\ Chosen)'
    BY <1>4, Zenon DEF Mirror, Mirrored
  <2> QED BY <2>1, <2>2
<1>5. CASE MirrorFails
  <2>1. Types'
    <3>1. alpnStored' \in Nat /\ httpStored' \in SUBSET Nat /\ IsFiniteSet(httpStored')
      BY <1>5, MirroredTypes, Zenon DEF MirrorFails, Types
    <3>2. alpn' \in [Node -> Nat] /\ http' \in [Node -> SUBSET Nat]
      BY <1>5 DEF MirrorFails, Forget, Types
    <3> QED BY <1>5, <3>1, <3>2 DEF MirrorFails, Fault, Types
  <2>2. (OwnAnswer /\ Shared /\ Chosen)'
    BY <1>5 DEF MirrorFails, Forget, Types
  <2> QED BY <2>1, <2>2
<1>6. CASE Accept
  BY <1>6 DEF Accept, Types
<1>7. CASE AcceptFails
  BY <1>7 DEF AcceptFails, Types
<1>8. CASE Validated \/ TimesOut
  BY <1>8, ZenonT(30) DEF Validated, TimesOut, Types
<1>9. CASE Clean
  BY <1>9, Zenon DEF Clean, Forget, Types
<1>10. CASE Remove
  <2>1. Types'
    BY <1>10, FS_RemoveElement, Zenon DEF Remove, Types
  <2>2. (OwnAnswer /\ Shared /\ Chosen)'
    BY <1>10, Zenon DEF Remove, Types
  <2> QED BY <2>1, <2>2
<1>11. CASE RemoveFails
  BY <1>11 DEF RemoveFails, Fault, Types
<1>12. ASSUME NEW n \in Node, Answer(n) PROVE IInv'
  BY <1>12 DEF Answer, Types
<1>13. ASSUME NEW n \in Node, NEW r \in BOOLEAN, Miss(n, r) PROVE IInv'
  BY <1>13 DEF Miss, Types
<1>14. ASSUME NEW n \in Node, noteTokenMiss(n) PROVE IInv'
  BY <1>14 DEF noteTokenMiss, Types
<1>15. CASE Reject
  BY <1>15 DEF Reject, Types
<1>16. ASSUME NEW n \in Node, NEW t \in Token, MissAges(n, t) PROVE IInv'
  BY <1>16 DEF MissAges, Types
<1>17. ASSUME NEW n \in Node, Crash(n) PROVE IInv'
  BY <1>17 DEF Crash, Fault, Types
<1>18. CASE UNCHANGED vars
  BY <1>18 DEF vars, Types
<1> QED
  BY <1>1, <1>2, <1>3, <1>4, <1>5, <1>6, <1>7, <1>8, <1>9, <1>10, <1>11, <1>12,
     <1>13, <1>14, <1>15, <1>16, <1>17, <1>18, Zenon
     DEF Next, Attempt, Refused, Serve

\* The facts above hold throughout.
THEOREM InvHolds == Spec => []IInv
BY InitInv, StepInv, PTL DEF Spec

-----------------------------------------------------------------------------
\* Once the CA has been told to validate, every process has the right answer for it
\* (PutALPN, PutHTTP, present, cleanup): for any processes, crashes and failures.
THEOREM EveryProcessAnswers == Spec => []AcceptedIsAnswered
<1>1. IInv => AcceptedIsAnswered
  BY DEF IInv, Types, OwnAnswer, Shared, Chosen, Presented, AcceptedIsAnswered, At,
         GetALPN, GetHTTP
<1> QED BY <1>1, InvHolds, PTL

-----------------------------------------------------------------------------
\* How many answers storage has.
Stored == Cardinality(httpStored) + (IF alpnStored # 0 THEN 1 ELSE 0)

Leftovers == Stored <= faults + (IF pc \in Presented THEN 1 ELSE 0)

\* It is a number.
LEMMA StoredNat == Types => Stored \in Nat
BY FS_CardinalityType DEF Types, Stored

\* A write adds one answer at most (PutALPN, PutHTTP).
LEMMA MirroredAddsOne ==
  ASSUME Types, Mirrored
  PROVE  Stored' <= Stored + 1
<1>1. Cardinality(httpStored) \in Nat
  BY FS_CardinalityType DEF Types
<1>2. CASE UsesHTTP
  <2>1. httpStored' = httpStored \cup {authz.token} /\ alpnStored' = alpnStored
    BY <1>2 DEF Mirrored, UsesHTTP
  <2>2. Cardinality(httpStored') \in {Cardinality(httpStored), Cardinality(httpStored) + 1}
    BY <2>1, FS_AddElement, Zenon DEF Types
  <2> QED BY <1>1, <2>1, <2>2 DEF Stored
<1>3. CASE ~UsesHTTP
  BY <1>1, <1>3 DEF Mirrored, Stored
<1> QED BY <1>2, <1>3

\* The removal takes the attempt's answer away (DeleteALPN, DeleteHTTP).
LEMMA RemoveTakesOne ==
  ASSUME IInv, Remove
  PROVE  Stored' = Stored - 1
<1>1. Cardinality(httpStored) \in Nat
  BY FS_CardinalityType DEF IInv, Types
<1>2. CASE UsesHTTP
  <2>1. httpStored' = httpStored \ {authz.token} /\ alpnStored' = alpnStored
    BY <1>2 DEF Remove, UsesHTTP
  <2>2. authz.token \in httpStored
    BY <1>2 DEF IInv, Shared, Presented, Remove, At
  <2>3. Cardinality(httpStored') = Cardinality(httpStored) - 1
    <3>1. IsFiniteSet(httpStored)
      BY DEF IInv, Types
    <3>2. Cardinality(httpStored \ {authz.token}) = Cardinality(httpStored) - 1
      BY <2>2, <3>1, FS_RemoveElement
    <3> QED BY <2>1, <3>2
  <2> QED BY <1>1, <2>1, <2>3 DEF Stored
<1>3. CASE UsesALPN
  <2>1. httpStored' = httpStored /\ alpnStored' = 0 /\ alpnStored = authz.token
    BY <1>3 DEF Remove, UsesHTTP, IInv, Shared, Presented, At
  <2>2. authz.token # 0
    BY DEF Remove, IInv, Chosen, At
  <2> QED BY <1>1, <2>1, <2>2 DEF Stored
<1> QED BY <1>2, <1>3 DEF IInv, Chosen, Presented, Remove, At

\* Every step keeps the number of answers within the faults and the attempt's own.
LEMMA StepLeftovers == IInv /\ IInv' /\ Leftovers /\ [Next]_vars => Leftovers'
<1> SUFFICES ASSUME IInv, IInv', Leftovers, [Next]_vars PROVE Leftovers'
  OBVIOUS
<1>1. Stored \in Nat /\ Stored' \in Nat /\ faults \in Nat /\ faults' \in Nat
  <2>1. Stored \in Nat
    BY StoredNat DEF IInv
  <2>2. Stored' \in Nat
    BY FS_CardinalityType, SMTT(30) DEF IInv, Types, Stored
  <2> QED BY <2>1, <2>2 DEF IInv, Types
<1>2. CASE Mirror
  <2>1. Stored' <= Stored + 1
    BY <1>2, MirroredAddsOne DEF Mirror, IInv
  <2> QED BY <1>1, <1>2, <2>1 DEF Mirror, Leftovers, At, Goto, Presented
<1>3. CASE MirrorFails
  <2>1. Stored' <= Stored + 1
    <3>1. CASE Mirrored
      BY <3>1, MirroredAddsOne DEF IInv
    <3>2. CASE UNCHANGED <<alpnStored, httpStored>>
      BY <1>1, <3>2 DEF Stored
    <3> QED BY <1>3, <3>1, <3>2 DEF MirrorFails
  <2> QED BY <1>1, <1>3, <2>1 DEF MirrorFails, Fault, Leftovers, At, Goto, Presented
<1>4. CASE Remove
  BY <1>1, <1>4, RemoveTakesOne DEF Remove, Leftovers, At, Goto, Presented
<1>5. CASE /\ UNCHANGED <<alpnStored, httpStored>>
           /\ \/ faults' = faults + 1
              \/ faults' = faults /\ (pc \in Presented => pc' \in Presented)
  BY <1>1, <1>5 DEF Leftovers, Stored
<1>6. Mirror \/ MirrorFails \/ Remove
      \/ /\ UNCHANGED <<alpnStored, httpStored>>
         /\ \/ faults' = faults + 1
            \/ faults' = faults /\ (pc \in Presented => pc' \in Presented)
  BY ZenonT(30) DEF Next, Attempt, Refused, Serve, Order, Skip, Present, Accept, AcceptFails,
         Validated, TimesOut, Clean, RemoveFails, Answer, Miss, noteTokenMiss, Reject,
         MissAges, Crash, Fault, At, Goto, ca, answers, table, attempt, vars, Presented
<1> QED BY <1>2, <1>3, <1>4, <1>5, <1>6

\* Storage keeps one answer at most for every crash, failed removal or failed write
\* (cleanup, removeFromStorage), besides that of the attempt under way.
THEOREM AnswersAreRemoved == Spec => []LeftoversAreFaults
<1>1. Init => Leftovers
  BY FS_EmptySet DEF Init, Leftovers, Stored
<1>2. Leftovers => LeftoversAreFaults
  BY DEF Leftovers, LeftoversAreFaults, Stored, Presented
<1> QED BY <1>1, <1>2, InvHolds, StepLeftovers, PTL DEF Spec

=============================================================================
