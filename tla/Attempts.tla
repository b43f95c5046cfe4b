------------------------------ MODULE Attempts ------------------------------
(***************************************************************************)
(* One process's attempts to obtain a certificate for one hostname         *)
(* (issueWithKey of manager.go), the budget that bounds them               *)
(* (retry_budget.go), and the admin command that orders one and the        *)
(* automation that runs it again when it fails (adminapi/renew.go).        *)
(*                                                                         *)
(* The hostname's own name and its companion have a lock each and share    *)
(* the budget and the lease.  Time is relative: a failure is the time left *)
(* until it leaves the window, a rate limit the time left until it lifts,  *)
(* and Elapse takes one unit from each.                                    *)
(***************************************************************************)
EXTENDS Integers, Sequences, FiniteSets

CONSTANTS
  Name,        \* the hostname and its companions
  Domain,      \* the hostname itself
  Client,      \* callers of the admin command
  MaxRetries,  \* MaxRetriesPerHour
  CALimit,     \* failed validations at which the CA stops answering for the hour
  Window,      \* retryBudgetWindow
  MaxWait,     \* bound on the wait that the CA names
  MaxUnread,   \* bound on the answers to a caller that are not the service's
  None

ExitOK == 0
ExitFailed == 1
ExitStored == 2

ASSUME AttemptsAssumption ==
  /\ Domain \in Name /\ IsFiniteSet(Name)
  /\ None \notin Client \cup Name \cup {ExitOK, ExitFailed, ExitStored}
  /\ MaxRetries \in Nat \ {0} /\ CALimit \in Nat
  /\ Window \in Nat \ {0} /\ MaxWait \in Nat \ {0} /\ MaxUnread \in Nat

VARIABLES
  failures,   \* retryBudget.failures by key, the oldest first
  blocked,    \* retryBudget.blocked by key, 0 when there is none
  att,        \* the attempt under way for each name
  lease,      \* the name this process has the lease for, or None
  held,       \* names whose chain waits for storage
  caLimit,    \* what is left of the longest wait that the CA has named
  streak,     \* history: failed validations in the CA's window since the budget was
              \* last cleared
  lifted,     \* history: the budget has let go of a wait before it was over
  caller,     \* the admin command as its caller sees it
  request     \* its request as the service sees it

budget == <<failures, blocked>>
ca == <<caLimit, streak, lifted>>
admin == <<caller, request>>
vars == <<failures, blocked, att, lease, held, caLimit, streak, lifted, caller, request>>

NoAttempt == [pc |-> "idle", for |-> None, late |-> FALSE, wait |-> 0]
NoRequest == [pc |-> "none", outcome |-> None]

Init ==
  /\ failures = [x \in Name |-> <<>>] /\ blocked = [x \in Name |-> 0]
  /\ att = [x \in Name |-> NoAttempt]
  /\ lease = None /\ held = {}
  /\ caLimit = 0 /\ streak = <<>> /\ lifted = FALSE
  /\ caller = [c \in Client |-> [exit |-> None, got |-> 0, unread |-> 0]]
  /\ request = [c \in Client |-> NoRequest]

-----------------------------------------------------------------------------
(* retryBudget *)

\* (A slip, for the checks: a companion has a budget of its own.)
budgetKeyOfName(x) == x

budgetKey(x) == Domain

BelowMax(x) == Len(failures[budgetKey(x)]) < MaxRetries

\* (A slip, for the checks: a rate limit does not outlast the attempt.)
allowWithinBudget(x) == BelowMax(x)

allow(x) == blocked[budgetKey(x)] = 0 /\ BelowMax(x)

recordFailure(x) == failures' = [failures EXCEPT ![budgetKey(x)] = Append(@, Window)]

\* block replaces whatever limit there was.
block(x, wait) == blocked' = [blocked EXCEPT ![budgetKey(x)] = wait]

\* A success, or a flush, clears the failures and the block.
reset(x) ==
  /\ failures' = [failures EXCEPT ![budgetKey(x)] = <<>>]
  /\ blocked' = [blocked EXCEPT ![budgetKey(x)] = 0]

\* The CA clears nothing: a new streak is counted, and a wait that is not over has
\* been let go of.
Cleared == streak' = <<>> /\ lifted' = (caLimit > 0) /\ UNCHANGED caLimit

-----------------------------------------------------------------------------
(* An attempt: allow, lease, order, store *)

At(x, label) == att[x].pc = label
Goto(x, label) == att' = [att EXCEPT ![x].pc = label]

\* The attempt ends; whoever asked for it is told, and the lease is released.
End(x, outcome) ==
  /\ att' = [y \in Name |-> IF y = x THEN NoAttempt
                 ELSE [att[y] EXCEPT !.late = @ \/ (At(x, "limited") /\ (At(y, "lease") \/ At(y, "order")))]]
  /\ lease' = IF lease = x THEN None ELSE lease
  /\ request' = [c \in Client |-> IF c = att[x].for
                   THEN [pc |-> "answer", outcome |-> outcome] ELSE request[c]]

\* A pass or a handshake starts one.
Begin(x) ==
  /\ At(x, "idle")
  /\ Goto(x, "allow")
  /\ UNCHANGED <<budget, lease, held, ca, admin>>

\* (A slip, for the checks: being refused counts as a failure.)
RefusedAndCounted(x) ==
  /\ At(x, "allow") /\ ~allow(x)
  /\ failures' = [failures EXCEPT ![budgetKey(x)] = Append(IF @ = <<>> THEN @ ELSE Tail(@), Window)]
  /\ End(x, "failed")
  /\ UNCHANGED <<blocked, held, ca, caller>>

\* The budget is asked before the lease is taken.
Refused(x) ==
  /\ At(x, "allow") /\ ~allow(x)
  /\ End(x, "failed")
  /\ UNCHANGED <<budget, held, ca, caller>>

Allowed(x) ==
  /\ At(x, "allow") /\ allow(x)
  /\ Goto(x, "lease")
  /\ UNCHANGED <<budget, lease, held, ca, admin>>

\* Free, or held by this process for the other name or by another process.
AcquireLease(x) ==
  /\ At(x, "lease")
  /\ \/ lease = None /\ lease' = x /\ Goto(x, "order") /\ UNCHANGED request
     \/ End(x, "failed")
  /\ UNCHANGED <<budget, held, ca, caller>>

\* The CA refuses, and the attempt comes to know of it later.
OrderFails(x) ==
  /\ At(x, "order")
  /\ streak' = Append(streak, Window)
  /\ Goto(x, "failed")
  /\ UNCHANGED <<budget, lease, held, caLimit, lifted, admin>>

\* ... or it names how long to wait.
OrderRateLimited(x) ==
  /\ At(x, "order")
  /\ \E w \in 1 .. MaxWait :
       /\ caLimit' = IF w > caLimit THEN w ELSE caLimit
       /\ att' = [att EXCEPT ![x].pc = "limited", ![x].wait = w]
  /\ UNCHANGED <<budget, lease, held, streak, lifted, admin>>

OrderSigned(x) ==
  /\ At(x, "order")
  /\ Goto(x, "store")
  /\ UNCHANGED <<budget, lease, held, ca, admin>>

\* A failure is counted when Issue returns it.
Fail(x) ==
  /\ At(x, "failed")
  /\ recordFailure(x)
  /\ End(x, "failed")
  /\ UNCHANGED <<blocked, held, ca, caller>>

\* A limit counts from then on, a shorter one than before included; an attempt of
\* the other name that is past allow by now is late.
Limited(x) ==
  /\ At(x, "limited")
  /\ recordFailure(x) /\ block(x, att[x].wait)
  /\ lifted' = (att[x].wait < caLimit)
  /\ End(x, "failed")
  /\ UNCHANGED <<held, caLimit, streak, caller>>

Got(x) == caller' = [c \in Client |-> IF c = att[x].for
                       THEN [caller[c] EXCEPT !.got = @ + 1] ELSE caller[c]]

Store(x) ==
  /\ At(x, "store")
  /\ reset(x) /\ Cleared
  /\ held' = held \ {x}
  /\ Got(x) /\ End(x, "stored")

\* Storage refuses: the chain is held, and the attempt counts as failed.
StoreFails(x) ==
  /\ At(x, "store")
  /\ recordFailure(x)
  /\ held' = held \cup {x}
  /\ Got(x) /\ End(x, "held")
  /\ UNCHANGED <<blocked, ca>>

\* The chain does not build: spent, with nothing to serve.
Unbuildable(x) ==
  /\ At(x, "store")
  /\ recordFailure(x)
  /\ End(x, "failed")
  /\ UNCHANGED <<blocked, held, ca, caller>>

\* flushHeldChains stores it later, and clears the budget.
Flush(x) ==
  /\ x \in held /\ At(x, "idle")
  /\ held' = held \ {x}
  /\ reset(x) /\ Cleared
  /\ UNCHANGED <<att, lease, admin>>

-----------------------------------------------------------------------------
(* The admin command *)

\* WriteRenewResult and RenewOutcome: a body that is not the service's, a proxy's
\* error page, is a failure like any other.
ExitCode(outcome) ==
  CASE outcome = "stored" -> ExitOK
    [] outcome = "held" -> ExitStored
    [] OTHER -> ExitFailed

Exit(c, code) == caller' = [caller EXCEPT ![c].exit = code]

\* Renew, for the first time or because the last run failed.
Renew(c) ==
  /\ caller[c].exit \in {None, ExitFailed} /\ request[c].pc = "none"
  /\ Exit(c, None)
  /\ request' = [request EXCEPT ![c].pc = "sent"]
  /\ UNCHANGED <<budget, att, lease, held, ca>>

\* The dial fails, or the service is not the leader or does not have the endpoint.
NothingSent(c) ==
  /\ request[c].pc = "sent" /\ caller[c].exit = None
  /\ Exit(c, ExitFailed)
  /\ request' = [request EXCEPT ![c] = NoRequest]
  /\ UNCHANGED <<budget, att, lease, held, ca>>

\* RenewHandler: RenewCertificate has the domain's lock.
Handle(c) ==
  /\ request[c].pc = "sent" /\ At(Domain, "idle")
  /\ att' = [att EXCEPT ![Domain] = [NoAttempt EXCEPT !.pc = "allow", !.for = c]]
  /\ request' = [request EXCEPT ![c].pc = "handled"]
  /\ UNCHANGED <<budget, lease, held, ca, caller>>

Answer(c) ==
  /\ request[c].pc = "answer"
  /\ IF caller[c].exit = None THEN Exit(c, ExitCode(request[c].outcome)) ELSE UNCHANGED caller
  /\ request' = [request EXCEPT ![c] = NoRequest]
  /\ UNCHANGED <<budget, att, lease, held, ca>>

\* (A slip, for the checks: no answer is a failure.)
NoAnswerFails(c) ==
  /\ request[c].pc \in {"sent", "handled", "answer"} /\ caller[c].exit = None
  /\ Exit(c, ExitFailed)
  /\ UNCHANGED <<budget, att, lease, held, ca, request>>

\* RenewTransportFailure after the dial: a timeout, a reset, a body cut short.  The
\* request runs on without its client.
NoAnswer(c) ==
  /\ request[c].pc \in {"sent", "handled", "answer"} /\ caller[c].exit = None
  /\ Exit(c, ExitStored)
  /\ UNCHANGED <<budget, att, lease, held, ca, request>>

\* Something else answers in the service's place, and the request runs on.  (The
\* caller's next one is sent beside it and waits for the domain's lock: it is taken
\* to be sent once this one is over.)
Unreadable(c) ==
  /\ request[c].pc \in {"sent", "handled", "answer"} /\ caller[c].exit = None
  /\ caller[c].unread < MaxUnread
  /\ caller' = [caller EXCEPT ![c].exit = ExitCode("unreadable"), ![c].unread = @ + 1]
  /\ UNCHANGED <<budget, att, lease, held, ca, request>>

-----------------------------------------------------------------------------
\* prune: the oldest come first, and those that have run out are dropped.
Gone(s) == Cardinality({i \in DOMAIN s : s[i] <= 1})
Aged(s) == [i \in 1 .. Len(s) - Gone(s) |-> s[i + Gone(s)] - 1]
Less(t) == IF t = 0 THEN 0 ELSE t - 1

\* Failures leave the window and limits lift.
Elapse ==
  /\ failures' = [k \in Name |-> Aged(failures[k])]
  /\ blocked' = [k \in Name |-> Less(blocked[k])]
  /\ streak' = Aged(streak)
  /\ caLimit' = Less(caLimit) /\ lifted' = (lifted /\ caLimit' > 0)
  /\ UNCHANGED <<att, lease, held, admin>>

Next ==
  \/ \E x \in Name :
       \/ Begin(x) \/ Refused(x) \/ Allowed(x) \/ AcquireLease(x)
       \/ OrderFails(x) \/ OrderRateLimited(x) \/ OrderSigned(x) \/ Fail(x) \/ Limited(x)
       \/ Store(x) \/ StoreFails(x) \/ Unbuildable(x) \/ Flush(x)
  \/ \E c \in Client :
       \/ Renew(c) \/ NothingSent(c) \/ Handle(c) \/ Answer(c) \/ NoAnswer(c) \/ Unreadable(c)
  \/ Elapse

Spec == Init /\ [][Next]_vars

\* Time passes.
LiveSpec == Spec /\ WF_vars(Elapse)

-----------------------------------------------------------------------------
(* Properties *)

\* Between two clearings of the budget, failed validations never reach the CA's
\* limit, although the budget is asked before the lease is taken and a companion may
\* be past it already: "a persistent failure never exhausts the CA-side budget".
UnderCALimit == Len(streak) < CALimit

\* Once the CA has named a wait and the attempt it was told to has returned, nothing
\* is ordered until that is over, except by an attempt that was past allow before,
\* and unless the budget was cleared or told of a shorter wait (reset, block).
LimitHonoured ==
  caLimit > 0 /\ ~lifted => \A x \in Name :
    At(x, "order") => att[x].late \/ \E y \in Name : At(y, "limited")

\* An attempt is refused for a time, never for good: being refused does not postpone
\* the next one, and what was refused is allowed again once the window or the limit
\* is over.
RefusalLapses == \A x \in Name : ~allow(x) ~> allow(x)

\* A caller that runs the command again whenever it fails gets one certificate at
\* most, and one more for each answer that was not the service's: "the one outcome
\* that must never be retried needs a code of its own".
OneCertificatePerCaller == \A c \in Client : caller[c].got <= 1 + caller[c].unread

=============================================================================
