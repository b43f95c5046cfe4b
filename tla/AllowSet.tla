------------------------------ MODULE AllowSet ------------------------------
(***************************************************************************)
(* The set of on-demand hostnames (ondemand.go): the leader enumerates it  *)
(* from the authority and publishes it when it changed, the followers read *)
(* what was published, and each process answers handshakes from the set it *)
(* holds.  store() also forgets the index entries of hostnames that have   *)
(* left the set.  The enumeration and the write that follows it are        *)
(* separate steps: leadership may have passed on in between.               *)
(***************************************************************************)
EXTENDS Naturals

CONSTANTS
  Node, Host,
  Flaky,        \* processes whose write of the set may fail
  MaxChanges,   \* bound on changes at the authority
  MaxElections, \* bound on changes of leader
  MaxRestarts,  \* bound on restarts
  None

ASSUME AllowSetAssumption ==
  /\ Flaky \subseteq Node
  /\ MaxChanges \in Nat /\ MaxElections \in Nat /\ MaxRestarts \in Nat

VARIABLES
  authority,   \* what cfg.Enumerate returns
  hostsObj,    \* the published object, None before the first write
  allow,       \* onDemand.allow
  published,   \* onDemand.published, None while hasPublished is false
  writing,     \* the set a process is about to write, or None
  known,       \* hostnames with an entry in onDemand.index
  hosts,       \* what the maintenance pass under way took from hosts()
  leader, changes, elections, restarts

env == <<leader, changes, elections, restarts>>
vars == <<authority, hostsObj, allow, published, writing, known, hosts, env>>

Init ==
  /\ authority \in SUBSET Host
  /\ hostsObj = None
  /\ allow = [n \in Node |-> {}]
  /\ published = [n \in Node |-> None]
  /\ writing = [n \in Node |-> None]
  /\ known = [n \in Node |-> {}] /\ hosts = known
  /\ leader \in Node
  /\ changes = 0 /\ elections = 0 /\ restarts = 0

-----------------------------------------------------------------------------
isLeader(n) == leader = n
Idle(n) == writing[n] = None

\* (A slip, for the checks: the index keeps hostnames that have left.)
StoreAndKeepIndex(n, set) ==
  /\ allow' = [allow EXCEPT ![n] = set]
  /\ UNCHANGED known

store(n, set) ==
  /\ allow' = [allow EXCEPT ![n] = set]
  /\ known' = [known EXCEPT ![n] = @ \cap set]

\* (A slip, for the checks: hasPublished dropped, so that the empty set and a set
\* never written look the same.)
UnchangedByName(n) == authority = IF published[n] = None THEN {} ELSE published[n]

Unchanged(n) == published[n] = authority

\* The enumeration succeeded: the set is in force here, and noted as published
\* before it is written.
refreshLeader(n) ==
  /\ isLeader(n) /\ Idle(n)
  /\ store(n, authority)
  /\ published' = [published EXCEPT ![n] = authority]
  /\ writing' = [writing EXCEPT ![n] = IF Unchanged(n) THEN None ELSE authority]
  /\ UNCHANGED <<authority, hostsObj, hosts, env>>

Put(n) ==
  /\ ~Idle(n)
  /\ hostsObj' = writing[n]
  /\ writing' = [writing EXCEPT ![n] = None]
  /\ UNCHANGED <<authority, allow, published, known, hosts, env>>

\* A write that fails is logged, and that is all.
PutFails(n) ==
  /\ ~Idle(n) /\ n \in Flaky
  /\ writing' = [writing EXCEPT ![n] = None]
  /\ UNCHANGED <<authority, hostsObj, allow, published, known, hosts, env>>

ReadPublished(n) ==
  /\ Idle(n) /\ hostsObj # None
  /\ store(n, hostsObj)
  /\ UNCHANGED <<authority, hostsObj, published, writing, hosts, env>>

refreshFollower(n) == ~isLeader(n) /\ ReadPublished(n)

\* The enumeration failed: a process that has published nothing since it started
\* takes the last published set; any other keeps the set it has.
EnumerateFails(n) == isLeader(n) /\ published[n] = None /\ ReadPublished(n)

\* A pass takes the hostnames there are, and notes expiries as it comes by them.
Tick(n) ==
  /\ hosts' = [hosts EXCEPT ![n] = allow[n]]
  /\ UNCHANGED <<authority, hostsObj, allow, published, writing, known, env>>

noteIssued(n) ==
  /\ \E h \in hosts[n] : known' = [known EXCEPT ![n] = @ \cup {h}]
  /\ UNCHANGED <<authority, hostsObj, allow, published, writing, hosts, env>>

-----------------------------------------------------------------------------
AuthorityChanges ==
  /\ changes < MaxChanges /\ changes' = changes + 1
  /\ authority' \in (SUBSET Host) \ {authority}
  /\ UNCHANGED <<hostsObj, allow, published, writing, known, hosts, leader, elections, restarts>>

Elect(n) ==
  /\ elections < MaxElections /\ elections' = elections + 1
  /\ ~isLeader(n) /\ leader' = n
  /\ UNCHANGED <<authority, hostsObj, allow, published, writing, known, hosts, changes, restarts>>

\* A leader starts with the published index (hydrateIndex), which may name hostnames
\* that have left the set by now.
Restart(n) ==
  /\ restarts < MaxRestarts /\ restarts' = restarts + 1
  /\ allow' = [allow EXCEPT ![n] = {}]
  /\ published' = [published EXCEPT ![n] = None]
  /\ writing' = [writing EXCEPT ![n] = None]
  /\ \E hydrated \in IF isLeader(n) THEN SUBSET Host ELSE {{}} :
       known' = [known EXCEPT ![n] = hydrated]
  /\ hosts' = [hosts EXCEPT ![n] = {}]
  /\ UNCHANGED <<authority, hostsObj, leader, changes, elections>>

Loop(n) == refreshLeader(n) \/ Put(n) \/ refreshFollower(n)

Next ==
  \/ \E n \in Node : Loop(n) \/ PutFails(n) \/ EnumerateFails(n) \/ Tick(n) \/ noteIssued(n)
                     \/ Elect(n) \/ Restart(n)
  \/ AuthorityChanges

Spec == Init /\ [][Next]_vars

\* The loops go on in every process, and the authority answers the leader again and
\* again.
Fairness ==
  \A n \in Node : WF_vars(Loop(n)) /\ WF_vars(Tick(n)) /\ SF_vars(refreshLeader(n))
LiveSpec == Spec /\ Fairness

-----------------------------------------------------------------------------
\* A hostname that has left the set leaves the index, even if a pass that took it up
\* before notes it once more afterwards or a restart reads it back: the index is keyed
\* by names that customers choose, and what store() does not forget is kept for ever.
\* A follower with no published set to read is the exception.
IndexForgets ==
  \A n \in Node, h \in Host :
    (h \in known[n] \ allow[n])
      ~> (h \notin known[n] \/ h \in allow[n] \/ (~isLeader(n) /\ hostsObj = None))

\* A set that a leader has not yet published, the empty one included, is published,
\* unless it changes again or the leader does, or the leader's writes fail: without
\* hasPublished "a fleet whose last vanity hostname was released never publishes the
\* emptying", and a restart forgets what was published.
ChangePublished ==
  \A n \in Node \ Flaky, s \in SUBSET Host :
    (isLeader(n) /\ authority = s /\ published[n] # s)
      ~> (~isLeader(n) \/ authority # s \/ hostsObj = s)

=============================================================================
