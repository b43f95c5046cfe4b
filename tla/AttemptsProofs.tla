--------------------------- MODULE AttemptsProofs ---------------------------
(***************************************************************************)
(* Proofs about Attempts, for any names, any number of callers and any     *)
(* number of runs of the admin command.                                    *)
(*                                                                         *)
(* A caller's run is one request, served by one attempt.  While the        *)
(* request is in the service, or the command may be run again, nothing has *)
(* been obtained for the caller that an answer it could not read does not  *)
(* account for; whatever else was obtained, and whatever may still be,     *)
(* leaves an exit code that says not to run it again.                      *)
(*                                                                         *)
(* The failures that the CA counts since the budget was last cleared are   *)
(* covered by those that the budget counts (Covers), so that the budget,   *)
(* and the attempts already past it, bound what the CA counts.             *)
(***************************************************************************)
EXTENDS Attempts, FiniteSetTheorems, WellFoundedInduction, TLAPS

Outcome == {"failed", "held", "stored"}

Pc == {"idle", "allow", "lease", "order", "failed", "limited", "store"}
Attempt == [pc : Pc, for : Client \cup {None}, late : BOOLEAN, wait : Nat]

Types ==
  /\ att \in [Name -> Attempt]
  /\ caller \in [Client -> [exit : {None, ExitOK, ExitFailed, ExitStored}, got : Nat, unread : Nat]]
  /\ request \in [Client -> [pc : {"none", "sent", "handled", "answer"},
                             outcome : Outcome \cup {None}]]

\* An attempt made for a caller is the domain's, and its request is in the service.
OwnAttempt ==
  \A x \in Name : att[x].for # None => x = Domain /\ request[att[x].for].pc = "handled"

\* What was obtained for a caller is accounted for by answers it could not read.
Spare(c) == caller[c].got <= caller[c].unread

\* Before its answer, a request has obtained nothing, and the answer that its caller
\* could not read, if any, is yet to be accounted for; an answer that says that it
\* failed tells the truth.
Truthful ==
  \A c \in Client :
    /\ request[c].pc \in {"sent", "handled"} =>
         Spare(c) /\ (caller[c].exit = ExitFailed => caller[c].got < caller[c].unread)
    /\ request[c].pc = "answer" =>
         (request[c].outcome = "failed" \/ caller[c].exit = ExitFailed => Spare(c))

\* An answer says how it went.
Answered == \A c \in Client : request[c].pc = "answer" => request[c].outcome \in Outcome

\* A caller that has not heard, or has heard of a failure, with nothing under way, has
\* nothing else; and one that is waiting has not heard of a success.
RunsAgainWithNothing ==
  \A c \in Client :
    /\ request[c].pc = "none" /\ caller[c].exit \in {None, ExitFailed} => Spare(c)
    /\ request[c].pc # "none" => caller[c].exit # ExitOK

IInv ==
  /\ Types /\ OwnAttempt /\ Truthful /\ Answered /\ RunsAgainWithNothing
  /\ OneCertificatePerCaller

-----------------------------------------------------------------------------
\* No attempt is for no caller.
LEMMA NoAttemptType == NoAttempt \in Attempt /\ NoAttempt.for = None
<1>1. "idle" \in Pc /\ None \in Client \cup {None} /\ 0 \in Nat
  BY DEF Pc
<1>2. FALSE \in BOOLEAN
  BY Zenon
<1> QED BY <1>1, <1>2, Zenon DEF NoAttempt, Attempt

\* Nobody has asked for anything (Init).
LEMMA InitInv == Init => IInv
<1> SUFFICES ASSUME Init PROVE IInv
  OBVIOUS
<1> USE AttemptsAssumption, NoAttemptType DEF Init, NoRequest
<1>1. Types
  BY DEF Types
<1>2. OwnAttempt /\ Truthful /\ Answered /\ RunsAgainWithNothing /\ OneCertificatePerCaller
  BY DEF OwnAttempt, Truthful, Spare, Answered, RunsAgainWithNothing, OneCertificatePerCaller
<1> QED BY <1>1, <1>2 DEF IInv

\* An attempt moved along is an attempt (Goto).
LEMMA AttemptType ==
  ASSUME NEW f \in [Name -> Attempt], NEW x \in Name, NEW label \in Pc, NEW w \in Nat
  PROVE  [f EXCEPT ![x].pc = label, ![x].wait = w] \in [Name -> Attempt]
<1> DEFINE r == [f[x] EXCEPT !.pc = label, !.wait = w]
<1>1. r \in Attempt
  BY Zenon DEF Attempt
<1>2. [f EXCEPT ![x].pc = label, ![x].wait = w] = [f EXCEPT ![x] = r]
  BY Zenon
<1> HIDE DEF r
<1> QED BY <1>1, <1>2

Exits == {None, ExitOK, ExitFailed, ExitStored}
Caller == [exit : Exits, got : Nat, unread : Nat]

\* A caller that has heard something is a caller (Renew).
LEMMA CallerType ==
  ASSUME NEW f \in [Client -> Caller], NEW c \in Client, NEW k \in Nat, NEW e \in Exits
  PROVE  [f EXCEPT ![c].exit = e, ![c].unread = k] \in [Client -> Caller]
<1> DEFINE r == [f[c] EXCEPT !.exit = e, !.unread = k]
<1>1. r \in Caller
  BY Zenon DEF Caller
<1>2. [f EXCEPT ![c].exit = e, ![c].unread = k] = [f EXCEPT ![c] = r]
  BY Zenon
<1> HIDE DEF r
<1> QED BY <1>1, <1>2

\* A step inside an attempt, whoever it is for, keeps the invariant.
LEMMA GotoStep ==
  ASSUME IInv, NEW x \in Name, NEW label \in Pc, NEW w \in Nat,
         att' = [att EXCEPT ![x].pc = label, ![x].wait = w], UNCHANGED admin
  PROVE  IInv'
<1> USE DEF IInv, admin
<1>1. Types'
  BY AttemptType, Zenon DEF Types
<1>2. \A y \in Name : att'[y].for = att[y].for
  BY DEF Types, Attempt
<1>3. OwnAttempt'
  BY <1>2, Zenon DEF OwnAttempt
<1>4. Truthful' /\ Answered' /\ RunsAgainWithNothing' /\ OneCertificatePerCaller'
  BY DEF Answered, Truthful, Spare, RunsAgainWithNothing, OneCertificatePerCaller
<1> QED BY <1>1, <1>3, <1>4

\* The end of an attempt is answered to its caller, who has obtained something only
\* if the answer does not say that it failed (RenewCertificate, RenewOutcome).
LEMMA EndStep ==
  ASSUME IInv, NEW x \in Name, NEW outcome \in Outcome, End(x, outcome),
         \/ outcome = "failed" /\ UNCHANGED caller
         \/ outcome # "failed" /\ Got(x)
  PROVE  IInv'
<1> USE AttemptsAssumption DEF IInv
<1> DEFINE for == att[x].for
<1>0. for \in Client \cup {None} /\ (for # None => x = Domain /\ request[for].pc = "handled")
  BY DEF Types, Attempt, OwnAttempt
<1>1. /\ \A y \in Name : y # x => att'[y].for = att[y].for
      /\ att'[x].for = None
      /\ att' \in [Name -> Attempt]
  <2> DEFINE late(y) ==
        att[y].late \/ (At(x, "limited") /\ (At(y, "lease") \/ At(y, "order")))
  <2>1. \A y \in Name : late(y) \in BOOLEAN
    BY Zenon
  <2>2. att' = [y \in Name |-> IF y = x THEN NoAttempt ELSE [att[y] EXCEPT !.late = late(y)]]
    BY Zenon DEF End
  <2> HIDE DEF late
  <2> QED BY <2>1, <2>2, NoAttemptType, SMTT(30) DEF Types, Attempt
<1>2. \A c \in Client :
        /\ c # for => request'[c] = request[c]
        /\ c = for => request'[c] = [pc |-> "answer", outcome |-> outcome]
  BY DEF End, Types
<1>3. \A c \in Client :
        /\ c # for => caller'[c] = caller[c]
        /\ c = for => /\ caller'[c].exit = caller[c].exit /\ caller'[c].unread = caller[c].unread
                      /\ caller'[c].got = IF outcome = "failed" THEN caller[c].got
                                          ELSE caller[c].got + 1
  BY DEF Got, Types
<1>4. caller' \in [Client -> [exit : {None, ExitOK, ExitFailed, ExitStored}, got : Nat, unread : Nat]]
  BY SMTT(30) DEF Got, Types
<1>5. request' \in [Client -> [pc : {"none", "sent", "handled", "answer"},
                               outcome : Outcome \cup {None}]]
  BY DEF End, Types
<1>a. Types'
  BY <1>1, <1>4, <1>5 DEF Types
<1>b. OwnAttempt'
  <2>1. \A y \in Name : y # x /\ att[y].for # None => att[y].for # for
    BY <1>0 DEF OwnAttempt
  <2>2. \A y \in Name : att[y].for # None => att[y].for \in Client
    BY DEF Types, Attempt
  <2> QED BY <1>1, <1>2, <2>1, <2>2 DEF OwnAttempt
<1>c. Truthful' /\ Answered'
  BY <1>0, <1>2, <1>3 DEF Truthful, Spare, Answered, Types
<1>d. RunsAgainWithNothing'
  BY <1>0, <1>2, <1>3 DEF RunsAgainWithNothing, Spare
<1>e. OneCertificatePerCaller'
  BY <1>0, <1>2, <1>3 DEF OneCertificatePerCaller, Truthful, Spare, Types
<1> QED BY <1>a, <1>b, <1>c, <1>d, <1>e

-----------------------------------------------------------------------------
\* The steps of an attempt (issueWithKey) keep the invariant.
LEMMA AttemptInv ==
  ASSUME IInv, NEW x \in Name,
         \/ Begin(x) \/ Refused(x) \/ Allowed(x) \/ AcquireLease(x)
         \/ OrderFails(x) \/ OrderRateLimited(x) \/ OrderSigned(x) \/ Fail(x) \/ Limited(x)
         \/ Store(x) \/ StoreFails(x) \/ Unbuildable(x)
  PROVE  IInv'
<1>1. ASSUME NEW label \in {"allow", "lease", "order", "failed", "store"},
             Goto(x, label), UNCHANGED admin
      PROVE  IInv'
  <2> DEFINE w == att[x].wait
  <2>1. /\ w \in Nat
        /\ att' = [att EXCEPT ![x].pc = label, ![x].wait = w]
    BY <1>1, Zenon DEF IInv, Types, Attempt, Goto
  <2>2. label \in Pc
    BY DEF Pc
  <2> HIDE DEF w
  <2> QED BY <1>1, <2>1, <2>2, GotoStep, Zenon
<1>2. ASSUME End(x, "failed"), UNCHANGED caller PROVE IInv'
  BY <1>2, EndStep DEF Outcome
<1>3. CASE Begin(x) \/ Allowed(x) \/ OrderFails(x) \/ OrderSigned(x)
  BY <1>1, <1>3 DEF Begin, Allowed, OrderFails, OrderSigned
<1>4. CASE OrderRateLimited(x)
  <2>1. PICK w \in 1 .. MaxWait : att' = [att EXCEPT ![x].pc = "limited", ![x].wait = w]
    BY <1>4, Zenon DEF OrderRateLimited
  <2>2. w \in Nat /\ "limited" \in Pc /\ UNCHANGED admin
    BY <1>4, AttemptsAssumption DEF OrderRateLimited, Pc
  <2> QED BY <2>1, <2>2, GotoStep, Zenon
<1>5. CASE AcquireLease(x)
  BY <1>1, <1>2, <1>5 DEF AcquireLease, admin
<1>6. CASE Refused(x) \/ Fail(x) \/ Limited(x) \/ Unbuildable(x)
  BY <1>2, <1>6 DEF Refused, Fail, Limited, Unbuildable
<1>7. CASE Store(x) \/ StoreFails(x)
  BY <1>7, EndStep DEF Store, StoreFails, Outcome
<1> QED BY <1>3, <1>4, <1>5, <1>6, <1>7

\* The steps of the admin command and of its request (Renew, RenewHandler,
\* RenewTransportFailure) keep the invariant.
LEMMA CommandInv ==
  ASSUME IInv, NEW c \in Client,
         \/ Renew(c) \/ NothingSent(c) \/ Handle(c) \/ Answer(c) \/ NoAnswer(c)
         \/ Unreadable(c)
  PROVE  IInv'
<1> USE AttemptsAssumption DEF IInv, ExitOK, ExitFailed, ExitStored
<1>1. CASE Renew(c)
  <2>1. Types' /\ OwnAttempt'
    BY <1>1, SMTT(30) DEF Renew, Exit, Types, OwnAttempt, Attempt
  <2>2. Truthful' /\ RunsAgainWithNothing' /\ OneCertificatePerCaller' /\ Answered'
    BY <1>1, SMTT(30) DEF Answered, Renew, Exit, Types, Truthful, Spare, RunsAgainWithNothing,
       OneCertificatePerCaller
  <2> QED BY <2>1, <2>2
<1>2. CASE NothingSent(c)
  <2>1. Types'
    BY <1>2, SMTT(30) DEF NothingSent, Exit, NoRequest, Types
  <2>2. OwnAttempt'
    BY <1>2 DEF NothingSent, NoRequest, Types, OwnAttempt, Attempt
  <2>3. Truthful' /\ RunsAgainWithNothing' /\ OneCertificatePerCaller' /\ Answered'
    BY <1>2 DEF Answered, NothingSent, Exit, NoRequest, Types, Truthful, Spare, RunsAgainWithNothing,
       OneCertificatePerCaller
  <2> QED BY <2>1, <2>2, <2>3
<1>3. CASE Handle(c)
  <2> DEFINE new == [NoAttempt EXCEPT !.pc = "allow", !.for = c]
  <2>0. new \in Attempt /\ new.for = c
    BY NoAttemptType, Zenon DEF Attempt, Pc
  <2>1. att' = [att EXCEPT ![Domain] = new]
    BY <1>3 DEF Handle
  <2> HIDE DEF new
  <2>2. Types'
    BY <1>3, <2>0, <2>1, SMTT(30) DEF Handle, Types
  <2>3. OwnAttempt'
    <3>1. request' = [request EXCEPT ![c].pc = "handled"] /\ request[c].pc = "sent"
      BY <1>3 DEF Handle
    <3>2. \A y \in Name : att[y].for # None => att[y].for \in Client
      BY DEF Types, Attempt
    <3> QED BY <2>0, <2>1, <3>1, <3>2 DEF Types, OwnAttempt
  <2>4. Truthful' /\ RunsAgainWithNothing' /\ OneCertificatePerCaller' /\ Answered'
    BY <1>3 DEF Answered, Handle, Types, Truthful, Spare, RunsAgainWithNothing,
       OneCertificatePerCaller
  <2> QED BY <2>2, <2>3, <2>4
<1>4. CASE Answer(c)
  <2>0. /\ UNCHANGED att /\ request' = [request EXCEPT ![c] = NoRequest]
        /\ request[c].pc = "answer"
        /\ \/ caller[c].exit # None /\ UNCHANGED caller
           \/ /\ caller[c].exit = None
              /\ caller' = [caller EXCEPT ![c].exit = ExitCode(request[c].outcome)]
    BY <1>4 DEF Answer, Exit
  <2>1. /\ ExitCode(request[c].outcome) \in {ExitOK, ExitFailed, ExitStored}
        /\ request[c].outcome \in Outcome /\ ExitCode(request[c].outcome) = ExitFailed
             => Spare(c)
    BY <2>0 DEF ExitCode, Outcome, Truthful
  <2>2. request[c].outcome \in Outcome
    BY <2>0 DEF Answered
  <2>3. Types'
    BY <2>0, <2>1, SMTT(30) DEF NoRequest, Types
  <2>4. OwnAttempt'
    BY <2>0 DEF NoRequest, Types, OwnAttempt, Attempt
  <2>5. Truthful' /\ RunsAgainWithNothing' /\ OneCertificatePerCaller' /\ Answered'
    BY <2>0, <2>1, <2>2 DEF Answered, NoRequest, Types, Truthful, Spare, RunsAgainWithNothing,
       OneCertificatePerCaller
  <2> QED BY <2>3, <2>4, <2>5
<1>5. CASE NoAnswer(c)
  <2>1. Types' /\ OwnAttempt'
    BY <1>5, SMTT(30) DEF NoAnswer, Exit, Types, OwnAttempt
  <2>2. Truthful' /\ RunsAgainWithNothing' /\ OneCertificatePerCaller' /\ Answered'
    BY <1>5 DEF Answered, NoAnswer, Exit, Types, Truthful, Spare, RunsAgainWithNothing,
       OneCertificatePerCaller
  <2> QED BY <2>1, <2>2
<1>6. CASE Unreadable(c)
  <2> DEFINE k == caller[c].unread + 1
  <2>1. /\ UNCHANGED <<att, request>> /\ caller[c].exit = None /\ k \in Nat
        /\ caller' = [caller EXCEPT ![c].exit = ExitFailed, ![c].unread = k]
    BY <1>6 DEF Unreadable, ExitCode, Types
  <2> HIDE DEF k
  <2>2. caller' \in [Client -> Caller]
    BY <2>1, CallerType DEF Types, Caller, Exits
  <2>3. Types' /\ OwnAttempt'
    BY <2>1, <2>2, Zenon DEF Types, OwnAttempt, Caller, Exits
  <2>4. /\ caller'[c].exit = ExitFailed /\ caller'[c].got = caller[c].got
        /\ caller'[c].unread = caller[c].unread + 1
        /\ \A d \in Client : d # c => caller'[d] = caller[d]
    BY <2>1 DEF Types, k
  <2>5. Truthful' /\ RunsAgainWithNothing' /\ OneCertificatePerCaller' /\ Answered'
    BY <1>6, <2>1, <2>4 DEF Unreadable, Answered, Types, Truthful, Spare, RunsAgainWithNothing,
       OneCertificatePerCaller
  <2> QED BY <2>3, <2>5
<1> QED BY <1>1, <1>2, <1>3, <1>4, <1>5, <1>6

\* Every step keeps the invariant.
LEMMA StepInv == IInv /\ [Next]_vars => IInv'
<1> SUFFICES ASSUME IInv, [Next]_vars PROVE IInv'
  OBVIOUS
<1>1. ASSUME NEW x \in Name, Flush(x) PROVE UNCHANGED <<att, admin>>
  BY <1>1 DEF Flush
<1>2. ASSUME Elapse PROVE UNCHANGED <<att, admin>>
  BY <1>2 DEF Elapse
<1>3. ASSUME UNCHANGED <<att, admin>> PROVE IInv'
  BY <1>3 DEF admin, IInv, Types, OwnAttempt, Truthful, Spare, RunsAgainWithNothing, Answered,
     OneCertificatePerCaller
<1>4. UNCHANGED vars => UNCHANGED <<att, admin>>
  BY DEF vars, admin
<1> QED BY <1>1, <1>2, <1>3, <1>4, AttemptInv, CommandInv DEF Next

-----------------------------------------------------------------------------
\* A run is one request and one attempt, and a caller that may run the command again
\* has nothing (RenewOutcome, WriteRenewResult, RenewTransportFailure).
THEOREM InvHolds == Spec => []IInv
BY InitInv, StepInv, PTL DEF Spec

\* A caller that runs the command again whenever it fails gets one certificate at
\* most, and one more for each answer that was not the service's, however many
\* callers there are and whatever becomes of the answers.
THEOREM OneCertificateHolds == Spec => []OneCertificatePerCaller
<1>1. IInv => OneCertificatePerCaller
  BY DEF IInv
<1> QED BY <1>1, InvHolds, PTL

-----------------------------------------------------------------------------
(* The wait that the CA names *)

Waiting == \E y \in Name : At(y, "limited")

\* The budget blocks for at least as long, and whoever is past it is late, unless the
\* budget has let go of a wait (reset, block).
Settled ==
  /\ blocked[Domain] >= caLimit
  /\ \A x \in Name : At(x, "lease") \/ At(x, "order") => att[x].late

LimitInv ==
  /\ blocked \in [Name -> Nat] /\ caLimit \in Nat
  /\ caLimit > 0 /\ ~lifted => Waiting \/ Settled

\* An attempt moves within itself, and nobody passes the budget.
LEMMA MoveKeepsLimit ==
  ASSUME IInv, LimitInv, NEW x \in Name, NEW label \in Pc, Goto(x, label),
         ~At(x, "limited"), label = "lease" => blocked[Domain] = 0,
         label = "order" => At(x, "lease"), UNCHANGED <<blocked, caLimit, lifted>>
  PROVE  LimitInv'
<1>1. \A y \in Name : /\ y # x => att'[y] = att[y]
                      /\ att'[y].late = att[y].late
                      /\ y = x => att'[y].pc = label
  BY DEF Goto, IInv, Types, Attempt
<1>2. Waiting => Waiting'
  BY <1>1 DEF Waiting, At
<1>3. caLimit > 0 /\ Settled => Settled'
  BY <1>1, AttemptsAssumption DEF Settled, At, LimitInv
<1> QED BY <1>2, <1>3 DEF LimitInv

\* An attempt that ends without having been told to wait takes nothing back.
LEMMA EndKeepsLimit ==
  ASSUME IInv, LimitInv, NEW x \in Name, NEW outcome, End(x, outcome),
         ~At(x, "limited"), UNCHANGED <<blocked, caLimit, lifted>>
  PROVE  LimitInv'
<1>1. \A y \in Name : /\ y # x => att'[y].pc = att[y].pc /\ (att[y].late => att'[y].late)
                      /\ y = x => att'[y].pc = "idle"
  BY DEF End, IInv, Types, Attempt, NoAttempt
<1>2. Waiting => Waiting'
  BY <1>1 DEF Waiting, At
<1>3. Settled => Settled'
  BY <1>1 DEF Settled, At
<1> QED BY <1>2, <1>3 DEF LimitInv

\* The limit that the budget is told of when the attempt returns is the CA's, and
\* whoever passed the budget before is late (recordFailure, block).
LEMMA LimitedKeepsLimit ==
  ASSUME IInv, LimitInv, NEW x \in Name, Limited(x)
  PROVE  LimitInv'
<1>1. /\ blocked' = [blocked EXCEPT ![Domain] = att[x].wait] /\ caLimit' = caLimit
      /\ ~lifted' => ~(att[x].wait < caLimit)
      /\ End(x, "failed") /\ At(x, "limited")
  BY Zenon DEF Limited, block, budgetKey
<1>2. att[x].wait \in Nat /\ caLimit \in Nat
  BY DEF IInv, Types, Attempt, LimitInv
<1>3. \A y \in Name : /\ y # x => /\ att'[y].pc = att[y].pc
                                  /\ att[y].pc \in {"lease", "order"} => att'[y].late
                      /\ y = x => att'[y].pc = "idle"
  BY <1>1, ZenonT(30) DEF End, At, IInv, Types, Attempt, NoAttempt
<1>4. blocked' \in [Name -> Nat] /\ (~lifted' => blocked'[Domain] >= caLimit')
  BY <1>1, <1>2, AttemptsAssumption DEF LimitInv
<1> QED BY <1>1, <1>2, <1>3, <1>4 DEF LimitInv, Settled, At

\* Every step keeps it.
LEMMA LimitStep == IInv /\ LimitInv /\ [Next]_vars => LimitInv'
<1> SUFFICES ASSUME IInv, LimitInv, [Next]_vars PROVE LimitInv'
  OBVIOUS
<1>1. ASSUME NEW x \in Name, Begin(x) \/ Allowed(x) \/ OrderFails(x) \/ OrderSigned(x)
      PROVE  LimitInv'
  <2>1. PICK label \in Pc :
          /\ Goto(x, label) /\ ~At(x, "limited") /\ label # "order"
          /\ label = "lease" => blocked[Domain] = 0
    BY <1>1 DEF Begin, Allowed, OrderFails, OrderSigned, allow, budgetKey, At, Pc
  <2>2. UNCHANGED <<blocked, caLimit, lifted>>
    BY <1>1 DEF Begin, Allowed, OrderFails, OrderSigned, budget, ca
  <2> QED BY <2>1, <2>2, MoveKeepsLimit
<1>2. ASSUME NEW x \in Name, AcquireLease(x) PROVE LimitInv'
  <2>1. At(x, "lease") /\ ~At(x, "limited") /\ UNCHANGED <<blocked, caLimit, lifted>> /\ "order" \in Pc
    BY <1>2 DEF AcquireLease, At, budget, ca, Pc
  <2> QED BY <1>2, <2>1, MoveKeepsLimit, EndKeepsLimit DEF AcquireLease
<1>3. ASSUME NEW x \in Name, Refused(x) \/ Fail(x) \/ StoreFails(x) \/ Unbuildable(x)
      PROVE  LimitInv'
  <2>1. ~At(x, "limited") /\ UNCHANGED <<blocked, caLimit, lifted>> /\ \E o : End(x, o)
    BY <1>3 DEF Refused, Fail, StoreFails, Unbuildable, At, budget, ca
  <2> QED BY <2>1, EndKeepsLimit
<1>4. ASSUME NEW x \in Name, OrderRateLimited(x) PROVE LimitInv'
  <2>1. PICK w \in 1 .. MaxWait :
          /\ caLimit' = IF w > caLimit THEN w ELSE caLimit
          /\ att' = [att EXCEPT ![x].pc = "limited", ![x].wait = w]
    BY <1>4, Zenon DEF OrderRateLimited
  <2>2. blocked' = blocked /\ caLimit' \in Nat
    BY <1>4, <2>1, AttemptsAssumption DEF OrderRateLimited, budget, LimitInv
  <2>3. Waiting'
    BY <2>1 DEF Waiting, At, IInv, Types, Attempt
  <2> QED BY <2>1, <2>2, <2>3 DEF LimitInv
<1>5. ASSUME NEW x \in Name, Store(x) \/ Flush(x) PROVE LimitInv'
  <2>1. /\ blocked' = [blocked EXCEPT ![Domain] = 0] /\ caLimit' = caLimit
        /\ ~lifted' => ~(caLimit > 0)
    BY <1>5, Zenon DEF Store, Flush, reset, Cleared, budgetKey
  <2>2. blocked' \in [Name -> Nat]
    BY <2>1, AttemptsAssumption DEF LimitInv
  <2> QED BY <2>1, <2>2 DEF LimitInv
<1>6. CASE Elapse
  <2>1. /\ blocked' = [k \in Name |-> Less(blocked[k])] /\ caLimit' = Less(caLimit)
        /\ att' = att /\ (caLimit' > 0 /\ ~lifted' => ~lifted)
    BY <1>6, Zenon DEF Elapse
  <2>2. blocked' \in [Name -> Nat] /\ caLimit' \in Nat /\ (caLimit' > 0 => caLimit > 0)
    BY <2>1 DEF LimitInv, Less
  <2>3. caLimit > 0 /\ Settled => Settled'
    BY <2>1, AttemptsAssumption DEF Settled, At, LimitInv, Less
  <2>4. Waiting => Waiting'
    BY <2>1 DEF Waiting, At
  <2> QED BY <2>1, <2>2, <2>3, <2>4 DEF LimitInv
<1>7. ASSUME UNCHANGED <<blocked, caLimit, lifted, att>> PROVE LimitInv'
  BY <1>7 DEF LimitInv, Waiting, Settled, At
<1>8. ASSUME NEW c \in Client, Renew(c) \/ NothingSent(c) \/ Answer(c) \/ NoAnswer(c) \/ Unreadable(c)
      PROVE  UNCHANGED <<blocked, caLimit, lifted, att>>
  BY <1>8 DEF Renew, NothingSent, Answer, NoAnswer, Unreadable, budget, ca
<1>9. ASSUME NEW c \in Client, Handle(c) PROVE LimitInv'
  <2>1. /\ \A y \in Name :
             /\ y # Domain => att'[y].pc = att[y].pc /\ (att[y].late => att'[y].late)
             /\ y = Domain => att'[y].pc = "allow"
        /\ ~At(Domain, "limited") /\ UNCHANGED <<blocked, caLimit, lifted>>
    BY <1>9, NoAttemptType, AttemptsAssumption
       DEF Handle, At, IInv, Types, Attempt, budget, ca
  <2>2. Waiting => Waiting'
    BY <2>1 DEF Waiting, At
  <2>3. Settled => Settled'
    BY <2>1 DEF Settled, At
  <2> QED BY <2>1, <2>2, <2>3 DEF LimitInv
<1>a. UNCHANGED vars => UNCHANGED <<blocked, caLimit, lifted, att>>
  BY DEF vars
<1> QED BY <1>1, <1>2, <1>3, <1>4, <1>5, <1>6, <1>7, <1>8, <1>9, <1>a, LimitedKeepsLimit DEF Next

\* Once the CA has named a wait and the attempt it was told to has returned, nothing
\* is ordered until it is over, except by an attempt that was past allow before, and
\* unless the budget was cleared or told of a shorter wait (block, reset, allow).
THEOREM LimitHonouredHolds == Spec => []LimitHonoured
<1>1. Init => LimitInv
  BY DEF Init, LimitInv
<1>2. LimitInv => LimitHonoured
  BY DEF LimitInv, LimitHonoured, Waiting, Settled, At
<1> QED BY <1>1, <1>2, InvHolds, LimitStep, PTL DEF Spec

-----------------------------------------------------------------------------
(* Failures and the window they are in *)

Times == Seq(1 .. Window)
Ascending(s) == \A i, j \in 1 .. Len(s) : i <= j => s[i] <= s[j]

Below == {ss \in Nat \X Nat : ss[1] < ss[2]}

\* A set of natural numbers has a least one.
LEMMA LeastNumber ==
  ASSUME NEW T, T \subseteq Nat, T # {}
  PROVE  \E x \in T : \A y \in T : x <= y
<1>1. IsWellFoundedOn(Below, Nat)
  BY NatLessThanWellFounded DEF OpToRel, Below
<1>2. PICK x \in T : \A y \in T : ~(<<y, x>> \in Below)
  BY <1>1, WFMin, Zenon
<1>3. ASSUME NEW y \in T PROVE ~(y < x)
  <2>1. <<y, x>> \in Nat \X Nat /\ <<y, x>>[1] = y /\ <<y, x>>[2] = x
    OBVIOUS
  <2> QED BY <1>2, <2>1 DEF Below
<1> QED BY <1>2, <1>3

\* A window (retryBudget.failures) is a function on the numbers up to its length.
LEMMA SequenceIsFunction ==
  ASSUME NEW S, NEW s \in Seq(S)
  PROVE  Len(s) \in Nat /\ DOMAIN s = 1 .. Len(s) /\ \A i \in 1 .. Len(s) : s[i] \in S
OBVIOUS

\* And the other way round, as prune and record build one.
LEMMA FunctionIsSequence ==
  ASSUME NEW S, NEW n \in Nat, NEW f \in [1 .. n -> S]
  PROVE  f \in Seq(S) /\ Len(f) = n
OBVIOUS

\* What prune drops is what comes first.
LEMMA GoneIsPrefix ==
  ASSUME NEW s \in Times, Ascending(s)
  PROVE  /\ Gone(s) \in 0 .. Len(s)
         /\ \A i \in 1 .. Len(s) : i <= Gone(s) <=> s[i] <= 1
<1> DEFINE old == {i \in DOMAIN s : s[i] <= 1}
<1> DEFINE new == {i \in 1 .. Len(s) : s[i] > 1}
<1>0. /\ Len(s) \in Nat /\ DOMAIN s = 1 .. Len(s)
      /\ \A i \in 1 .. Len(s) : s[i] \in 1 .. Window
  BY SequenceIsFunction, Zenon DEF Times
<1>1. ASSUME NEW m \in 0 .. Len(s), \A i \in 1 .. Len(s) : i <= m <=> s[i] <= 1
      PROVE  Gone(s) = m
  <2>1. old = 1 .. m
    BY <1>0, <1>1
  <2>2. Cardinality(1 .. m) = m
    BY FS_Interval
  <2> QED BY <2>1, <2>2, Zenon DEF Gone
<1>2. CASE new = {}
  <2>1. \A i \in 1 .. Len(s) : i <= Len(s) <=> s[i] <= 1
    BY <1>0, <1>2, AttemptsAssumption
  <2>2. Len(s) \in 0 .. Len(s)
    BY <1>0
  <2>3. Gone(s) = Len(s)
    BY <1>1, <2>1, <2>2, Zenon
  <2> QED BY <2>1, <2>2, <2>3
<1>3. CASE new # {}
  <2>1. PICK k \in new : \A i \in new : k <= i
    <3>1. new \subseteq Nat
      OBVIOUS
    <3> HIDE DEF new
    <3> QED BY <1>3, <3>1, LeastNumber, Zenon
  <2>2. k - 1 \in 0 .. Len(s) /\ k \in 1 .. Len(s) /\ s[k] > 1
    BY <1>0, <2>1
  <2>3. ASSUME NEW i \in 1 .. Len(s) PROVE i <= k - 1 <=> s[i] <= 1
    <3>1. CASE i <= k - 1
      BY <1>0, <2>1, <2>2, <3>1, AttemptsAssumption
    <3>2. CASE k <= i
      BY <1>0, <2>2, <3>2, AttemptsAssumption DEF Ascending
    <3> QED BY <2>2, <3>1, <3>2
  <2> QED BY <1>1, <2>2, <2>3, Zenon
<1> QED BY <1>2, <1>3

\* What is left has moved on by one.
LEMMA AgedProperties ==
  ASSUME NEW s \in Times, Ascending(s)
  PROVE  /\ Aged(s) \in Times /\ Len(Aged(s)) = Len(s) - Gone(s)
         /\ \A i \in 1 .. Len(s) - Gone(s) : Aged(s)[i] = s[i + Gone(s)] - 1
         /\ Ascending(Aged(s))
<1> DEFINE g == Gone(s)
<1> DEFINE n == Len(s) - g
<1>0. /\ Len(s) \in Nat /\ \A i \in 1 .. Len(s) : s[i] \in 1 .. Window
  BY SequenceIsFunction, Zenon DEF Times
<1>1. /\ g \in 0 .. Len(s) /\ n \in Nat
      /\ \A i \in 1 .. Len(s) : i <= g <=> s[i] <= 1
  BY <1>0, GoneIsPrefix
<1>2. Aged(s) = [i \in 1 .. n |-> s[i + g] - 1]
  BY DEF Aged
<1> HIDE DEF g
<1>3. \A i \in 1 .. n : i + g \in 1 .. Len(s) /\ s[i + g] - 1 \in 1 .. Window
  BY <1>0, <1>1, AttemptsAssumption
<1>4. Aged(s) \in Times /\ Len(Aged(s)) = n
  <2>1. Aged(s) \in [1 .. n -> 1 .. Window]
    BY <1>2, <1>3
  <2> QED BY <1>1, <2>1, FunctionIsSequence, Zenon DEF Times
<1>5. \A i \in 1 .. n : Aged(s)[i] = s[i + g] - 1
  BY <1>2
<1>6. Ascending(Aged(s))
  <2>1. ASSUME NEW i \in 1 .. n, NEW j \in 1 .. n, i <= j PROVE Aged(s)[i] <= Aged(s)[j]
    <3>1. s[i + g] <= s[j + g]
      BY <1>1, <1>3, <2>1 DEF Ascending
    <3>2. s[i + g] \in Int /\ s[j + g] \in Int
      BY <1>0, <1>3
    <3> QED BY <1>5, <3>1, <3>2
  <2> QED BY <1>4, <2>1 DEF Ascending
<1> QED BY <1>4, <1>5, <1>6 DEF g

\* A failure recorded now outlasts those before it.
LEMMA AppendProperties ==
  ASSUME NEW s \in Times, Ascending(s)
  PROVE  /\ Append(s, Window) \in Times /\ Len(Append(s, Window)) = Len(s) + 1
         /\ Append(s, Window)[Len(s) + 1] = Window
         /\ \A i \in 1 .. Len(s) : Append(s, Window)[i] = s[i]
         /\ Ascending(Append(s, Window))
<1> DEFINE t == Append(s, Window)
<1>1. /\ Len(s) \in Nat /\ \A i \in 1 .. Len(s) : s[i] \in 1 .. Window
      /\ t \in Times /\ Len(t) = Len(s) + 1 /\ t[Len(s) + 1] = Window
      /\ \A i \in 1 .. Len(s) : t[i] = s[i]
  BY AttemptsAssumption DEF Times
<1> HIDE DEF t
<1>2. Ascending(t)
  BY <1>1, AttemptsAssumption DEF Ascending
<1> QED BY <1>1, <1>2 DEF t

-----------------------------------------------------------------------------
(* What the CA counts and what the budget counts *)

\* Matched from the newest, each failure in c but the k last ones has one in f that
\* leaves the window no sooner.
Covers(f, c, k) ==
  LET lag == Len(f) + k - Len(c) IN
  lag >= 0 /\ \A i \in 1 .. Len(c) : i + lag <= Len(f) => c[i] <= f[i + lag]

\* Time passes for both.
LEMMA CoversAged ==
  ASSUME NEW f \in Times, Ascending(f), NEW c \in Times, Ascending(c),
         NEW k \in {0, 1}, Covers(f, c, k)
  PROVE  Covers(Aged(f), Aged(c), k)
<1> DEFINE gf == Gone(f)
<1> DEFINE gc == Gone(c)
<1>1. /\ Len(f) \in Nat /\ Len(c) \in Nat
      /\ \A i \in 1 .. Len(f) : f[i] \in 1 .. Window
      /\ \A i \in 1 .. Len(c) : c[i] \in 1 .. Window
  BY SequenceIsFunction, Zenon DEF Times
<1>a. /\ Len(f) + k - Len(c) \in Nat
      /\ \A i \in 1 .. Len(c) :
           i + (Len(f) + k - Len(c)) <= Len(f) => c[i] <= f[i + (Len(f) + k - Len(c))]
  BY <1>1 DEF Covers
<1>2. PICK lag \in Nat :
        /\ lag = Len(f) + k - Len(c)
        /\ \A i \in 1 .. Len(c) : i + lag <= Len(f) => c[i] <= f[i + lag]
  BY <1>a, Zenon
<1>3. /\ gf \in 0 .. Len(f) /\ \A i \in 1 .. Len(f) : i <= gf <=> f[i] <= 1
      /\ gc \in 0 .. Len(c) /\ \A i \in 1 .. Len(c) : i <= gc <=> c[i] <= 1
  BY GoneIsPrefix
<1>4. /\ Len(Aged(f)) = Len(f) - gf /\ Len(Aged(c)) = Len(c) - gc
      /\ \A i \in 1 .. Len(f) - gf : Aged(f)[i] = f[i + gf] - 1
      /\ \A i \in 1 .. Len(c) - gc : Aged(c)[i] = c[i + gc] - 1
  BY AgedProperties, Zenon
<1> HIDE DEF gf, gc
<1>5. gf <= gc + lag
  <2> SUFFICES ASSUME gf > lag PROVE gf - lag <= gc
    BY <1>1, <1>2, <1>3
  <2> DEFINE i == gf - lag
  <2>1. i \in 1 .. Len(c) /\ i + lag = gf /\ gf \in 1 .. Len(f)
    BY <1>1, <1>2, <1>3
  <2>2. c[i] <= f[gf] /\ f[gf] <= 1
    BY <1>2, <1>3, <2>1, SMTT(30)
  <2>3. c[i] <= 1
    BY <1>1, <2>1, <2>2
  <2> HIDE DEF i
  <2>4. i <= gc
    BY <1>3, <2>1, <2>3
  <2> QED BY <2>4 DEF i
<1>6. ASSUME NEW i \in 1 .. Len(c) - gc, i + (lag + gc - gf) <= Len(f) - gf
      PROVE  Aged(c)[i] <= Aged(f)[i + (lag + gc - gf)]
  <2> DEFINE j == i + gc
  <2>0. j = i + gc /\ j \in Int
    BY <1>1, <1>3
  <2> HIDE DEF j
  <2>1. j \in 1 .. Len(c) /\ j + lag <= Len(f) /\ j + lag \in 1 .. Len(f)
    BY <1>1, <1>2, <1>3, <1>6, <2>0
  <2>2. c[j] <= f[j + lag] /\ c[j] \in Int /\ f[j + lag] \in Int
    BY <1>1, <1>2, <2>1, SMTT(30)
  <2> DEFINE m == i + (lag + gc - gf)
  <2>3. m \in 1 .. Len(f) - gf /\ m + gf = j + lag
    BY <1>1, <1>2, <1>3, <1>5, <1>6, <2>0
  <2> HIDE DEF m
  <2>4. Aged(f)[m] = f[j + lag] - 1 /\ Aged(c)[i] = c[j] - 1
    BY <1>4, <2>0, <2>3, Zenon
  <2> QED BY <2>2, <2>4 DEF m
<1>7. Len(Aged(f)) + k - Len(Aged(c)) = lag + gc - gf
  BY <1>1, <1>2, <1>3, <1>4
<1>8. lag + gc - gf >= 0
  BY <1>1, <1>2, <1>3, <1>5
<1> QED BY <1>4, <1>6, <1>7, <1>8 DEF Covers

\* The CA counts a failure, and the budget does not yet.
LEMMA CoversAtCA ==
  ASSUME NEW f \in Times, NEW c \in Times, Ascending(c), Covers(f, c, 0)
  PROVE  Covers(f, Append(c, Window), 1)
<1>1. Len(f) \in Nat /\ Len(c) \in Nat
  BY SequenceIsFunction, Zenon DEF Times
<1> QED BY <1>1, AppendProperties DEF Covers

\* The budget counts the failure that the CA has counted already.
LEMMA CoversRecorded ==
  ASSUME NEW f \in Times, Ascending(f), NEW c \in Times, Covers(f, c, 1)
  PROVE  Covers(Append(f, Window), c, 0)
<1>1. /\ Len(f) \in Nat /\ Len(c) \in Nat
      /\ \A i \in 1 .. Len(c) : c[i] \in 1 .. Window
  BY SequenceIsFunction, Zenon DEF Times
<1> DEFINE t == Append(f, Window)
<1>2. /\ Len(t) = Len(f) + 1 /\ t[Len(f) + 1] = Window
      /\ \A i \in 1 .. Len(f) : t[i] = f[i]
  BY AppendProperties
<1> HIDE DEF t
<1> DEFINE lag == Len(f) + 1 - Len(c)
<1>3. lag >= 0 /\ \A i \in 1 .. Len(c) : i + lag <= Len(f) => c[i] <= f[i + lag]
  BY DEF Covers
<1>4. ASSUME NEW i \in 1 .. Len(c) PROVE c[i] <= t[i + lag]
  <2>1. i + lag \in 1 .. Len(f) + 1 /\ i + lag \in Int
    BY <1>1, <1>3
  <2>2. CASE i + lag <= Len(f)
    BY <1>2, <1>3, <2>1, <2>2
  <2>3. CASE i + lag = Len(f) + 1
    BY <1>1, <1>2, <2>3, AttemptsAssumption
  <2> QED BY <1>1, <2>1, <2>2, <2>3, SMTT(30)
<1>5. Len(t) + 0 - Len(c) = lag
  BY <1>1, <1>2
<1>6. Covers(t, c, 0)
  <2> HIDE DEF lag
  <2> QED BY <1>3, <1>4, <1>5 DEF Covers
<1> QED BY <1>6 DEF t

\* The budget counts a failure that the CA knows nothing of.
LEMMA CoversMore ==
  ASSUME NEW f \in Times, Ascending(f), NEW c \in Times, Covers(f, c, 0)
  PROVE  Covers(Append(f, Window), c, 0)
<1> DEFINE t == Append(f, Window)
<1>1. /\ Len(f) \in Nat /\ Len(c) \in Nat
      /\ \A i \in 1 .. Len(c) : c[i] \in 1 .. Window
      /\ \A i \in 1 .. Len(f) : f[i] \in 1 .. Window
  BY SequenceIsFunction, Zenon DEF Times
<1>2. /\ Len(t) = Len(f) + 1 /\ t[Len(f) + 1] = Window
      /\ \A i \in 1 .. Len(f) : t[i] = f[i]
  BY AppendProperties
<1>a. /\ Len(f) + 0 - Len(c) \in Nat
      /\ \A i \in 1 .. Len(c) :
           i + (Len(f) + 0 - Len(c)) <= Len(f) => c[i] <= f[i + (Len(f) + 0 - Len(c))]
  BY <1>1 DEF Covers
<1>3. PICK lag \in Nat :
        /\ lag = Len(f) + 0 - Len(c)
        /\ \A i \in 1 .. Len(c) : i + lag <= Len(f) => c[i] <= f[i + lag]
  BY <1>a, Zenon
<1> HIDE DEF t
<1>4. ASSUME NEW i \in 1 .. Len(c), i + (lag + 1) <= Len(t) PROVE c[i] <= t[i + (lag + 1)]
  <2>1. CASE i + lag = Len(f)
    <3>0. i \in Int /\ Len(f) \in Int /\ lag \in Int
      BY <1>1
    <3>1. i + (lag + 1) = Len(f) + 1
      BY <2>1, <3>0
    <3>2. c[i] <= Window
      BY <1>1
    <3> QED BY <1>2, <3>1, <3>2
  <2>2. CASE i + lag < Len(f)
    <3> DEFINE j == i + lag
    <3>1. j \in 1 .. Len(f) /\ j + 1 \in 1 .. Len(f) /\ j + 1 = i + (lag + 1)
      BY <1>1, <1>3, <2>2
    <3>2. c[i] <= f[j]
      BY <1>3, <2>2
    <3> HIDE DEF j
    <3>3. f[j] <= f[j + 1]
      BY <3>1 DEF Ascending
    <3>4. c[i] \in Int /\ f[j] \in Int /\ f[j + 1] \in Int
      BY <1>1, <3>1
    <3>5. c[i] <= f[j + 1] /\ t[j + 1] = f[j + 1]
      BY <1>2, <3>1, <3>2, <3>3, <3>4, SMTT(30)
    <3> QED BY <3>1, <3>5
  <2> QED BY <1>1, <1>2, <1>3, <1>4, <2>1, <2>2
<1>5. Len(t) + 0 - Len(c) = lag + 1 /\ lag + 1 >= 0
  BY <1>1, <1>2, <1>3
<1>6. Covers(t, c, 0)
  BY <1>4, <1>5, SMTT(30) DEF Covers
<1> QED BY <1>6 DEF t

-----------------------------------------------------------------------------
\* Attempts that have asked the budget, and those that have the lease.
Past(pc) == pc \notin {"idle", "allow"}
Engaged(pc) == pc \in {"order", "failed", "limited", "store"}

PastAllow == {x \in Name : Past(att[x].pc)}

\* A failure that the CA has counted and the attempt has yet to record.
Unrecorded == IF \E x \in Name : At(x, "failed") THEN 1 ELSE 0

CAInv ==
  /\ \A x \in Name : Engaged(att[x].pc) => lease = x
  /\ failures \in [Name -> Times] /\ streak \in Times
  /\ \A k \in Name : Ascending(failures[k])
  /\ Ascending(streak)
  /\ Covers(failures[Domain], streak, Unrecorded)
  /\ Len(failures[Domain]) + Cardinality(PastAllow) < MaxRetries + Cardinality(Name)

\* The failures of names other than the hostname's are never counted.
LEMMA RecordFailure ==
  ASSUME CAInv, NEW x \in Name, recordFailure(x)
  PROVE  /\ failures' \in [Name -> Times]
         /\ failures'[Domain] = Append(failures[Domain], Window)
         /\ \A k \in Name : Ascending(failures'[k])
         /\ Len(failures'[Domain]) = Len(failures[Domain]) + 1
<1>1. failures' = [failures EXCEPT ![Domain] = Append(failures[Domain], Window)]
  BY DEF recordFailure, budgetKey
<1>2. /\ Domain \in Name /\ failures \in [Name -> Times]
      /\ \A k \in Name : Ascending(failures[k])
  BY AttemptsAssumption DEF CAInv
<1>3. failures[Domain] \in Times
  BY <1>2
<1>4. /\ Append(failures[Domain], Window) \in Times
      /\ Len(Append(failures[Domain], Window)) = Len(failures[Domain]) + 1
      /\ Ascending(Append(failures[Domain], Window))
  BY <1>2, <1>3, AppendProperties
<1>5. /\ failures'[Domain] = Append(failures[Domain], Window)
      /\ \A k \in Name : k # Domain => failures'[k] = failures[k]
      /\ failures' \in [Name -> Times]
  BY <1>1, <1>2, <1>4
<1>6. \A k \in Name : Ascending(failures'[k])
  BY <1>2, <1>4, <1>5, Zenon
<1> QED BY <1>4, <1>5, <1>6

\* Names are finitely many.
LEMMA NamesCount ==
  ASSUME NEW S, S \subseteq Name
  PROVE  /\ IsFiniteSet(S) /\ Cardinality(S) \in Nat
         /\ Cardinality(Name) \in Nat /\ Cardinality(S) <= Cardinality(Name)
BY AttemptsAssumption, FS_Subset, FS_CardinalityType

\* One attempt moves, and the others are where they were (Goto, End, Handle).
Moved(x, label) ==
  /\ att'[x].pc = label
  /\ \A y \in Name : y # x => att'[y].pc = att[y].pc

\* How an attempt that moves changes the count of those past the budget.
LEMMA PastMoves ==
  ASSUME NEW x \in Name, NEW label, Moved(x, label)
  PROVE  Cardinality(PastAllow') =
           Cardinality(PastAllow)
             + (IF Past(label) THEN 1 ELSE 0) - (IF Past(att[x].pc) THEN 1 ELSE 0)
<1>1. IsFiniteSet(PastAllow) /\ Cardinality(PastAllow) \in Nat
  BY NamesCount DEF PastAllow
<1>2. CASE Past(label) /\ ~Past(att[x].pc)
  <2>1. PastAllow' = PastAllow \cup {x} /\ x \notin PastAllow
    BY <1>2, Zenon DEF PastAllow, Moved
  <2> QED BY <1>1, <1>2, <2>1, FS_AddElement, SMTT(30)
<1>3. CASE ~Past(label) /\ Past(att[x].pc)
  <2>1. PastAllow' = PastAllow \ {x} /\ x \in PastAllow
    BY <1>3 DEF PastAllow, Moved
  <2> QED BY <1>1, <1>3, <2>1, FS_RemoveElement, SMTT(30)
<1>4. CASE Past(label) <=> Past(att[x].pc)
  <2>1. PastAllow' = PastAllow
    BY <1>4 DEF PastAllow, Moved
  <2> QED BY <1>1, <1>4, <2>1
<1> QED BY <1>2, <1>3, <1>4, Zenon

\* The lease goes from one attempt to the next (acquireIssueLease, release).
LeaseMoves(x, label) ==
  \/ lease' = lease /\ (Engaged(label) => Engaged(att[x].pc))
  \/ lease = None /\ lease' = x
  \/ lease = x /\ lease' = None /\ ~Engaged(label)

\* An attempt at the CA has the lease.
LEMMA LeaseKept ==
  ASSUME CAInv, NEW x \in Name, NEW label, Moved(x, label), LeaseMoves(x, label)
  PROVE  \A y \in Name : Engaged(att'[y].pc) => lease' = y
BY AttemptsAssumption, Zenon DEF CAInv, Moved, LeaseMoves

\* A step that counts no failure, neither at the CA nor in the budget.
LEMMA QuietMove ==
  ASSUME CAInv, NEW x \in Name, NEW label, Moved(x, label), LeaseMoves(x, label),
         UNCHANGED <<failures, streak>>, label # "failed", att[x].pc # "failed",
         Past(label) => Past(att[x].pc) \/ Len(failures[Domain]) < MaxRetries
  PROVE  CAInv'
<1>1. \A y \in Name : Engaged(att'[y].pc) => lease' = y
  BY LeaseKept
<1>2. Unrecorded' = Unrecorded
  BY DEF Unrecorded, At, Moved
<1>3. Len(failures[Domain]) \in Nat
  BY AttemptsAssumption, SequenceIsFunction, Zenon DEF CAInv, Times
<1>4. /\ Cardinality(PastAllow) \in Nat /\ Cardinality(PastAllow') \in Nat
      /\ Cardinality(Name) \in Nat /\ Cardinality(PastAllow') <= Cardinality(Name)
  BY NamesCount, Zenon DEF PastAllow
<1>5. Len(failures[Domain]) + Cardinality(PastAllow') < MaxRetries + Cardinality(Name)
  <2>1. CASE Len(failures[Domain]) < MaxRetries
    BY <1>3, <1>4, <2>1, AttemptsAssumption
  <2>2. CASE Past(label) => Past(att[x].pc)
    <3>1. Cardinality(PastAllow') <= Cardinality(PastAllow)
      BY <1>4, <2>2, PastMoves
    <3> QED BY <1>3, <1>4, <3>1, AttemptsAssumption, SMTT(30) DEF CAInv
  <2> QED BY <2>1, <2>2, Zenon
<1> QED BY <1>1, <1>2, <1>5, Zenon DEF CAInv

\* The CA counts a failure (the order of issueWithKey that fails).
LEMMA FailureAtCA ==
  ASSUME CAInv, NEW x \in Name, Moved(x, "failed"), att[x].pc = "order",
         UNCHANGED <<failures, lease>>, streak' = Append(streak, Window)
  PROVE  CAInv'
<1>0. /\ Engaged("failed") /\ Engaged("order") /\ Past("failed") /\ Past("order")
      /\ LeaseMoves(x, "failed")
  BY DEF Engaged, Past, LeaseMoves
<1>1. \A y \in Name : Engaged(att'[y].pc) => lease' = y
  BY <1>0, LeaseKept, Zenon
<1>2. Unrecorded = 0 /\ Unrecorded' = 1
  <2>1. \A y \in Name : ~At(y, "failed")
    BY <1>0, Zenon DEF CAInv, At, Engaged
  <2>2. At(x, "failed")'
    BY Zenon DEF At, Moved
  <2> QED BY <2>1, <2>2 DEF Unrecorded
<1>3. failures[Domain] \in Times /\ streak \in Times /\ Ascending(streak)
  BY AttemptsAssumption, Zenon DEF CAInv
<1>4. streak' \in Times /\ Ascending(streak')
  BY <1>3, AppendProperties, Zenon
<1>5. Covers(failures[Domain], streak', 1)
  BY <1>2, <1>3, CoversAtCA, Zenon DEF CAInv
<1>6. Cardinality(PastAllow') = Cardinality(PastAllow)
  <2>1. Cardinality(PastAllow) \in Nat
    BY NamesCount DEF PastAllow
  <2> QED BY <1>0, <2>1, PastMoves
<1> QED BY <1>1, <1>2, <1>3, <1>4, <1>5, <1>6, Zenon DEF CAInv

\* The budget counts a failure, of the CA or after it (recordFailure).
LEMMA FailureRecorded ==
  ASSUME CAInv, NEW x \in Name, Moved(x, "idle"),
         att[x].pc \in {"failed", "limited", "store"}, recordFailure(x),
         UNCHANGED streak, LeaseMoves(x, "idle")
  PROVE  CAInv'
<1>0. ~Engaged("idle") /\ Engaged(att[x].pc) /\ ~Past("idle") /\ Past(att[x].pc)
  BY Zenon DEF Engaged, Past
<1>1. \A y \in Name : Engaged(att'[y].pc) => lease' = y
  BY LeaseKept
<1>2. \A y \in Name : y # x => ~At(y, "failed")
  BY <1>0, Zenon DEF CAInv, At, Engaged
<1>3. Unrecorded = (IF att[x].pc = "failed" THEN 1 ELSE 0) /\ Unrecorded' = 0
  BY <1>2, Zenon DEF Unrecorded, At, Moved
<1>4. /\ failures[Domain] \in Times /\ streak \in Times /\ Ascending(failures[Domain])
      /\ Len(failures[Domain]) \in Nat
  BY AttemptsAssumption, SequenceIsFunction, Zenon DEF CAInv, Times
<1>5. /\ failures' \in [Name -> Times] /\ \A k \in Name : Ascending(failures'[k])
      /\ failures'[Domain] = Append(failures[Domain], Window)
      /\ Len(failures'[Domain]) = Len(failures[Domain]) + 1
  BY RecordFailure, Zenon
<1>6. Covers(failures'[Domain], streak, 0)
  BY <1>3, <1>4, <1>5, CoversRecorded, CoversMore, Zenon DEF CAInv
<1>7. Len(failures'[Domain]) + Cardinality(PastAllow') < MaxRetries + Cardinality(Name)
  <2>1. Cardinality(PastAllow) \in Nat /\ Cardinality(Name) \in Nat
    BY NamesCount, Zenon DEF PastAllow
  <2>2. Cardinality(PastAllow') = Cardinality(PastAllow) - 1
    BY <1>0, <2>1, PastMoves
  <2> QED BY <1>4, <1>5, <2>1, <2>2, SMTT(30) DEF CAInv
<1> QED BY <1>1, <1>3, <1>5, <1>6, <1>7, Zenon DEF CAInv

\* A success or a flush clears the budget, and a new streak begins (reset).
LEMMA ClearedCA ==
  ASSUME CAInv, NEW x \in Name, reset(x), Cleared,
         \A y \in Name : Engaged(att'[y].pc) => lease' = y
  PROVE  CAInv'
<1> DEFINE none == <<>>
<1>1. none \in Times /\ Len(none) = 0
  BY DEF Times
<1>2. Ascending(none)
  BY <1>1 DEF Ascending
<1>3. /\ failures' = [failures EXCEPT ![Domain] = none] /\ streak' = none
      /\ Domain \in Name /\ failures \in [Name -> Times]
  BY AttemptsAssumption, Zenon DEF reset, Cleared, budgetKey, CAInv
<1> HIDE DEF none
<1>4. /\ failures' \in [Name -> Times] /\ failures'[Domain] = none
      /\ \A k \in Name : Ascending(failures'[k])
  BY <1>1, <1>2, <1>3, Zenon DEF CAInv
<1>5. Covers(none, none, Unrecorded')
  <2>1. Unrecorded' \in {0, 1}
    BY DEF Unrecorded
  <2>2. Covers(none, none, 0) /\ Covers(none, none, 1)
    BY <1>1 DEF Covers
  <2> QED BY <2>1, <2>2
<1>6. Cardinality(PastAllow') < MaxRetries + Cardinality(Name)
  <2>1. /\ Cardinality(PastAllow') \in Nat /\ Cardinality(Name) \in Nat
        /\ Cardinality(PastAllow') <= Cardinality(Name)
    BY NamesCount DEF PastAllow
  <2> QED BY <2>1, AttemptsAssumption
<1>7. 0 + Cardinality(PastAllow') < MaxRetries + Cardinality(Name)
  <2>1. Cardinality(PastAllow') \in Nat
    BY NamesCount DEF PastAllow
  <2> QED BY <1>6, <2>1
<1> QED BY <1>1, <1>2, <1>3, <1>4, <1>5, <1>7, Zenon DEF CAInv

\* Time passes for the budget and for the CA (prune).
LEMMA TimePasses == ASSUME CAInv, Elapse PROVE CAInv'
<1>1. /\ failures' = [k \in Name |-> Aged(failures[k])] /\ streak' = Aged(streak)
      /\ UNCHANGED <<att, lease>> /\ Domain \in Name
  BY AttemptsAssumption, Zenon DEF Elapse
<1>2. /\ failures \in [Name -> Times] /\ \A k \in Name : Ascending(failures[k])
      /\ streak \in Times /\ Ascending(streak)
  BY DEF CAInv
<1>3. \A k \in Name : Aged(failures[k]) \in Times /\ Ascending(Aged(failures[k]))
  BY <1>2, AgedProperties
<1>4. Aged(streak) \in Times /\ Ascending(Aged(streak))
  BY <1>2, AgedProperties
<1>5. /\ failures' \in [Name -> Times] /\ \A k \in Name : Ascending(failures'[k])
      /\ failures'[Domain] = Aged(failures[Domain])
  BY <1>1, <1>3
<1>6. Unrecorded' = Unrecorded /\ Unrecorded \in {0, 1} /\ PastAllow' = PastAllow
  BY <1>1 DEF Unrecorded, At, PastAllow
<1>7. Covers(failures'[Domain], streak', Unrecorded)
  BY <1>1, <1>2, <1>5, <1>6, CoversAged, Zenon DEF CAInv
<1>8. Len(failures'[Domain]) \in Nat /\ Len(failures'[Domain]) <= Len(failures[Domain])
  <2>1. failures[Domain] \in Times /\ Ascending(failures[Domain])
    BY <1>1, <1>2
  <2>2. /\ Len(failures[Domain]) \in Nat /\ Gone(failures[Domain]) \in 0 .. Len(failures[Domain])
        /\ Len(Aged(failures[Domain])) = Len(failures[Domain]) - Gone(failures[Domain])
    BY <2>1, SequenceIsFunction, GoneIsPrefix, AgedProperties, Zenon DEF Times
  <2> QED BY <1>5, <2>2
<1>9. Len(failures'[Domain]) + Cardinality(PastAllow') < MaxRetries + Cardinality(Name)
  <2>1. Cardinality(PastAllow) \in Nat /\ Cardinality(Name) \in Nat
    BY NamesCount DEF PastAllow
  <2>2. Len(failures[Domain]) \in Nat
    BY <1>1, <1>2, SequenceIsFunction DEF Times
  <2> QED BY <1>6, <1>8, <2>1, <2>2, AttemptsAssumption DEF CAInv
<1>10. \A x \in Name : Engaged(att'[x].pc) => lease' = x
  BY <1>1 DEF CAInv
<1> QED BY <1>1, <1>4, <1>5, <1>6, <1>7, <1>9, <1>10, Zenon DEF CAInv

\* How the end of an attempt moves it and the lease (End).
LEMMA EndMoves ==
  ASSUME IInv, NEW x \in Name, NEW outcome, End(x, outcome)
  PROVE  Moved(x, "idle") /\ LeaseMoves(x, "idle")
<1>1. Moved(x, "idle")
  BY DEF End, Moved, NoAttempt, IInv, Types, Attempt
<1>2. ~Engaged("idle")
  BY DEF Engaged
<1> QED BY <1>1, <1>2 DEF End, LeaseMoves

\* How an attempt goes on (Goto).
LEMMA GotoMoves ==
  ASSUME IInv, NEW x \in Name, NEW label, Goto(x, label)
  PROVE  Moved(x, label)
BY DEF Goto, Moved, IInv, Types, Attempt

\* Every step of an attempt keeps what the CA counts within what the budget counts.
LEMMA AttemptCA ==
  ASSUME IInv, CAInv, NEW x \in Name,
         \/ Begin(x) \/ Refused(x) \/ Allowed(x) \/ AcquireLease(x)
         \/ OrderFails(x) \/ OrderRateLimited(x) \/ OrderSigned(x) \/ Fail(x) \/ Limited(x)
         \/ Store(x) \/ StoreFails(x) \/ Unbuildable(x) \/ Flush(x)
  PROVE  CAInv'
<1> USE DEF At, budget, ca
<1>1. CASE Begin(x) \/ Allowed(x) \/ OrderSigned(x)
  <2>1. PICK label \in {"allow", "lease", "store"} :
          /\ Goto(x, label) /\ UNCHANGED <<failures, streak, lease>>
          /\ att[x].pc # "failed"
          /\ label = "store" => att[x].pc = "order"
          /\ label = "lease" => Len(failures[Domain]) < MaxRetries
    BY <1>1, Zenon DEF Begin, Allowed, OrderSigned, allow, BelowMax, budgetKey
  <2>2. LeaseMoves(x, label) /\ (Past(label) => Past(att[x].pc) \/ Len(failures[Domain]) < MaxRetries)
    BY <2>1, Zenon DEF LeaseMoves, Engaged, Past
  <2> QED BY <2>1, <2>2, GotoMoves, QuietMove, Zenon
<1>2. CASE Refused(x)
  <2>1. End(x, "failed") /\ att[x].pc = "allow" /\ UNCHANGED <<failures, streak>>
    BY <1>2, Zenon DEF Refused
  <2>2. ~Past("idle")
    BY DEF Past
  <2> QED BY <2>1, <2>2, EndMoves, QuietMove, Zenon
<1>3. CASE AcquireLease(x)
  <2>1. att[x].pc = "lease" /\ UNCHANGED <<failures, streak>>
    BY <1>3, Zenon DEF AcquireLease
  <2>2. CASE lease = None /\ lease' = x /\ Goto(x, "order")
    <3>1. LeaseMoves(x, "order") /\ Past(att[x].pc)
      BY <2>1, <2>2, Zenon DEF LeaseMoves, Past
    <3> QED BY <2>1, <2>2, <3>1, GotoMoves, QuietMove, Zenon
  <2>3. CASE End(x, "failed")
    <3>1. ~Past("idle")
      BY DEF Past
    <3> QED BY <2>1, <2>3, <3>1, EndMoves, QuietMove, Zenon
  <2> QED BY <1>3, <2>2, <2>3, Zenon DEF AcquireLease
<1>4. CASE OrderFails(x)
  BY <1>4, GotoMoves, FailureAtCA, Zenon DEF OrderFails
<1>5. CASE OrderRateLimited(x)
  <2>1. Moved(x, "limited")
    BY <1>5, ZenonT(30) DEF OrderRateLimited, Moved, IInv, Types, Attempt
  <2>2. att[x].pc = "order" /\ UNCHANGED <<failures, streak, lease>>
    BY <1>5 DEF OrderRateLimited
  <2>3. LeaseMoves(x, "limited") /\ Past(att[x].pc)
    BY <2>2, Zenon DEF LeaseMoves, Past, Engaged
  <2> QED BY <2>1, <2>2, <2>3, QuietMove, Zenon
<1>6. CASE Fail(x) \/ Limited(x) \/ StoreFails(x) \/ Unbuildable(x)
  <2>1. /\ \E outcome : End(x, outcome)
        /\ att[x].pc \in {"failed", "limited", "store"}
        /\ recordFailure(x) /\ UNCHANGED streak
    BY <1>6, Zenon DEF Fail, Limited, StoreFails, Unbuildable
  <2> QED BY <2>1, EndMoves, FailureRecorded, Zenon
<1>7. CASE Store(x)
  <2>1. End(x, "stored") /\ reset(x) /\ Cleared
    BY <1>7, Zenon DEF Store
  <2> QED BY <2>1, EndMoves, LeaseKept, ClearedCA, Zenon
<1>8. CASE Flush(x)
  <2>1. reset(x) /\ Cleared /\ UNCHANGED <<att, lease>>
    BY <1>8, Zenon DEF Flush
  <2>2. \A y \in Name : Engaged(att'[y].pc) => lease' = y
    BY <2>1 DEF CAInv
  <2> QED BY <2>1, <2>2, ClearedCA
<1> QED BY <1>1, <1>2, <1>3, <1>4, <1>5, <1>6, <1>7, <1>8

\* So does every other step.
LEMMA CAStep == IInv /\ CAInv /\ [Next]_vars => CAInv'
<1> SUFFICES ASSUME IInv, CAInv, [Next]_vars PROVE CAInv'
  OBVIOUS
<1>1. ASSUME NEW c \in Client, Handle(c) PROVE CAInv'
  <2>1. /\ att' = [att EXCEPT ![Domain] = [NoAttempt EXCEPT !.pc = "allow", !.for = c]]
        /\ att[Domain].pc = "idle" /\ Domain \in Name
        /\ UNCHANGED <<failures, streak, lease>>
    BY <1>1, AttemptsAssumption DEF Handle, At, budget, ca
  <2>2. Moved(Domain, "allow")
    BY <2>1 DEF Moved, NoAttempt, IInv, Types, Attempt
  <2>3. LeaseMoves(Domain, "allow") /\ ~Past("allow")
    BY <2>1 DEF LeaseMoves, Engaged, Past
  <2> QED BY <2>1, <2>2, <2>3, QuietMove
<1>2. ASSUME UNCHANGED <<failures, streak, att, lease>> PROVE CAInv'
  BY <1>2, Zenon DEF CAInv, Unrecorded, At, PastAllow
<1>3. ASSUME NEW c \in Client, Renew(c) \/ NothingSent(c) \/ Answer(c) \/ NoAnswer(c) \/ Unreadable(c)
      PROVE  UNCHANGED <<failures, streak, att, lease>>
  BY <1>3 DEF Renew, NothingSent, Answer, NoAnswer, Unreadable, budget, ca
<1>4. UNCHANGED vars => UNCHANGED <<failures, streak, att, lease>>
  BY DEF vars
<1> QED BY <1>1, <1>2, <1>3, <1>4, AttemptCA, TimePasses, Zenon DEF Next

\* Nothing has failed to begin with (Init).
LEMMA InitCA == Init => CAInv
<1> SUFFICES ASSUME Init PROVE CAInv
  OBVIOUS
<1> DEFINE none == <<>>
<1>1. none \in Times /\ Len(none) = 0
  BY DEF Times
<1>2. Ascending(none)
  BY <1>1 DEF Ascending
<1>3. /\ failures = [k \in Name |-> none] /\ streak = none /\ Domain \in Name
      /\ \A x \in Name : att[x].pc = "idle"
  BY AttemptsAssumption, Zenon DEF Init, NoAttempt
<1> HIDE DEF none
<1>4. Unrecorded = 0 /\ PastAllow = {} /\ \A x \in Name : ~Engaged(att[x].pc)
  BY <1>3 DEF Unrecorded, At, PastAllow, Past, Engaged
<1>5. Covers(none, none, 0)
  BY <1>1 DEF Covers
<1>6. 0 + Cardinality({}) < MaxRetries + Cardinality(Name)
  <2>1. Cardinality({}) = 0 /\ Cardinality(Name) \in Nat
    BY NamesCount, FS_EmptySet
  <2> QED BY <2>1, AttemptsAssumption
<1>7. failures[Domain] = none /\ failures \in [Name -> Times]
  BY <1>1, <1>3
<1> QED BY <1>1, <1>2, <1>3, <1>4, <1>5, <1>6, <1>7, Zenon DEF CAInv

\* Each failed validation that the CA still counts is one that the budget counts, or
\* that the attempt holding the lease is about to record.
THEOREM BudgetCoversCA == Spec => []CAInv
BY InitCA, CAStep, InvHolds, PTL DEF Spec

\* Failed validations never reach the CA's limit between two clearings of the budget
\* (reset), for any budget and any number of names that share it, if the limit leaves
\* room for the budget and for one attempt per name (the default of 3, a hostname and
\* its companion: 5).
THEOREM UnderCALimitHolds ==
  ASSUME MaxRetries + Cardinality(Name) <= CALimit
  PROVE  Spec => []UnderCALimit
<1>1. CAInv => UnderCALimit
  <2> SUFFICES ASSUME CAInv PROVE Len(streak) < CALimit
    BY DEF UnderCALimit
  <2>1. failures[Domain] \in Times /\ streak \in Times
    BY AttemptsAssumption DEF CAInv
  <2>2. Len(failures[Domain]) \in Nat /\ Len(streak) \in Nat
    BY <2>1, SequenceIsFunction DEF Times
  <2>3. Cardinality(PastAllow) \in Nat /\ Cardinality(Name) \in Nat /\ IsFiniteSet(PastAllow)
    BY NamesCount DEF PastAllow
  <2>4. Unrecorded \in {0, 1} /\ (Unrecorded = 1 => PastAllow # {})
    BY DEF Unrecorded, At, PastAllow, Past
  <2>5. Unrecorded <= Cardinality(PastAllow)
    BY <2>3, <2>4, FS_EmptySet
  <2>6. Len(streak) <= Len(failures[Domain]) + Unrecorded
    BY <2>2, <2>4 DEF CAInv, Covers
  <2>7. Len(failures[Domain]) + Cardinality(PastAllow) < MaxRetries + Cardinality(Name)
    BY DEF CAInv
  <2> QED BY <2>2, <2>3, <2>4, <2>5, <2>6, <2>7, AttemptsAssumption
<1> QED BY <1>1, BudgetCoversCA, PTL
=============================================================================
