----------------------------- MODULE Challenges -----------------------------
(***************************************************************************)
(* The answers to a CA's challenges (challenge.go, fulfillAuthorization    *)
(* and present of issuer.go) for one domain.  The process that drives the  *)
(* order mirrors the answer to storage, because the CA may ask any         *)
(* process; a process that finds no answer to an HTTP-01 request remembers *)
(* that for tokenMissTTL.                                                  *)
(*                                                                         *)
(* One attempt runs at a time, under the lease IssueLease is about.  Each  *)
(* call to storage or to the CA is one step.  A token is the number of its *)
(* authorization and stands for the answer as well; 0 is none.             *)
(***************************************************************************)
EXTENDS Integers, FiniteSets

CONSTANTS
  Node,
  Reached,      \* processes that the CA's requests arrive at
  MissCap,      \* tokenMissCap
  MaxTokens,    \* bound on authorizations
  MaxFaults     \* bound on crashes and on writes and removals that fail

ASSUME ChallengesAssumption ==
  /\ Reached \subseteq Node
  /\ MissCap \in Nat \ {0} /\ MaxTokens \in Nat \ {0} /\ MaxFaults \in Nat

VARIABLES
  authz,        \* the CA's authorization: token, challenges offered, status
  accepted,     \* whether the CA has been told to validate
  alpn, http,   \* ChallengeServer.alpn (of the domain) and .http
  alpnStored,   \* challenges/alpn/<domain>
  httpStored,   \* the tokens under challenges/http/
  misses,       \* ChallengeServer.misses
  recent,       \* those of them younger than tokenMissTTL
  noting,       \* the token a request handler found no answer for, or 0
  pc, driver,   \* the attempt, and the process it runs in
  faults

ca == <<authz, accepted>>
answers == <<alpn, http, alpnStored, httpStored>>
table == <<misses, recent, noting>>
attempt == <<pc, driver>>
vars == <<authz, accepted, alpn, http, alpnStored, httpStored,
          misses, recent, noting, pc, driver, faults>>

Token == 1 .. MaxTokens

Init ==
  /\ authz = [token |-> 0, offered |-> {}, status |-> "valid"] /\ accepted = FALSE
  /\ alpn = [n \in Node |-> 0] /\ http = [n \in Node |-> {}]
  /\ alpnStored = 0 /\ httpStored = {}
  /\ misses = http /\ recent = http /\ noting = alpn
  /\ pc = "idle" /\ driver \in Node
  /\ faults = 0

-----------------------------------------------------------------------------
Fault == faults < MaxFaults /\ faults' = faults + 1
At(label) == pc = label
Goto(label) == pc' = label /\ UNCHANGED driver

\* pickChallenge: tls-alpn-01 if it is offered, then http-01
UsesALPN == "tls-alpn-01" \in authz.offered
UsesHTTP == ~UsesALPN /\ "http-01" \in authz.offered

-----------------------------------------------------------------------------
(* The attempt: Issue with fulfillAuthorization *)

\* A new order, or the one outstanding (resumeOrder), whose authorization and
\* token are the same as before.
Order(n) ==
  /\ At("idle")
  /\ pc' = "present" /\ driver' = n
  /\ \/ authz.status = "pending" /\ UNCHANGED ca
     \/ /\ authz.token < MaxTokens
        /\ \E offered \in SUBSET {"tls-alpn-01", "http-01"} :
             authz' = [token |-> authz.token + 1, offered |-> offered, status |-> "pending"]
        /\ accepted' = FALSE
  /\ UNCHANGED <<answers, table, faults>>

\* An authorization that is valid by now needs no challenge; one that offers no
\* challenge we support is an error.
Skip ==
  /\ At("present") /\ (authz.status = "valid" \/ ~(UsesALPN \/ UsesHTTP))
  /\ Goto("idle")
  /\ UNCHANGED <<ca, answers, table, faults>>

\* PutALPN or PutHTTP up to its write: the answer is in this process's memory.
Present ==
  /\ At("present") /\ authz.status # "valid"
  /\ \/ /\ UsesALPN
        /\ alpn' = [alpn EXCEPT ![driver] = authz.token] /\ UNCHANGED <<http, misses, recent>>
     \/ /\ UsesHTTP
        /\ http' = [http EXCEPT ![driver] = @ \cup {authz.token}]
        /\ misses' = [misses EXCEPT ![driver] = @ \ {authz.token}]
        /\ recent' = [recent EXCEPT ![driver] = @ \ {authz.token}] /\ UNCHANGED alpn
  /\ Goto("mirror")
  /\ UNCHANGED <<ca, alpnStored, httpStored, noting, faults>>

\* The answer is in storage.
Mirrored ==
  /\ alpnStored' = IF UsesALPN THEN authz.token ELSE alpnStored
  /\ httpStored' = IF UsesHTTP THEN httpStored \cup {authz.token} ELSE httpStored

\* The answer is in this process's memory no longer.
Forget ==
  /\ alpn' = IF UsesALPN THEN [alpn EXCEPT ![driver] = 0] ELSE alpn
  /\ http' = IF UsesHTTP THEN [http EXCEPT ![driver] = @ \ {authz.token}] ELSE http

Mirror ==
  /\ At("mirror")
  /\ Mirrored
  /\ Goto("accept")
  /\ UNCHANGED <<ca, alpn, http, table, faults>>

\* (A slip, for the checks: the answer stays in memory.)
MirrorFailsRemembered ==
  /\ At("mirror") /\ Fault
  /\ Mirrored \/ UNCHANGED <<alpnStored, httpStored>>
  /\ Goto("idle")
  /\ UNCHANGED <<ca, alpn, http, table>>

\* The write fails, and may have landed: "not accepting the challenge".
MirrorFails ==
  /\ At("mirror") /\ Fault
  /\ Mirrored \/ UNCHANGED <<alpnStored, httpStored>>
  /\ Forget
  /\ Goto("idle")
  /\ UNCHANGED <<ca, table>>

\* The CA refuses an authorization that is invalid by now.
Accept ==
  /\ At("accept")
  /\ IF authz.status = "invalid"
       THEN Goto("forget") /\ UNCHANGED accepted
       ELSE Goto("wait") /\ accepted' = TRUE
  /\ UNCHANGED <<authz, answers, table, faults>>

\* The answer to Accept is lost, or Accept.
AcceptFails ==
  /\ At("accept")
  /\ accepted' \in {accepted, TRUE}
  /\ Goto("forget")
  /\ UNCHANGED <<authz, answers, table, faults>>

\* WaitAuthorization returns.
Validated ==
  /\ At("wait") /\ authz.status # "pending"
  /\ Goto("forget")
  /\ UNCHANGED <<ca, answers, table, faults>>

\* The attempt's deadline passes first.
TimesOut ==
  /\ At("wait") /\ authz.status = "pending"
  /\ Goto("forget")
  /\ UNCHANGED <<ca, answers, table, faults>>

\* cleanup: DeleteALPN or DeleteHTTP, memory first
Clean ==
  /\ At("forget")
  /\ Forget
  /\ Goto("remove")
  /\ UNCHANGED <<ca, alpnStored, httpStored, table, faults>>

\* (A slip, for the checks: only memory is cleaned.)
RemoveNothing ==
  /\ At("remove")
  /\ Goto("idle")
  /\ UNCHANGED <<ca, answers, table, faults>>

Remove ==
  /\ At("remove")
  /\ alpnStored' = IF UsesALPN THEN 0 ELSE alpnStored
  /\ httpStored' = IF UsesHTTP THEN httpStored \ {authz.token} ELSE httpStored
  /\ Goto("idle")
  /\ UNCHANGED <<ca, alpn, http, table, faults>>

\* removeFromStorage logs what went wrong and goes on.
RemoveFails ==
  /\ At("remove") /\ Fault
  /\ Goto("idle")
  /\ UNCHANGED <<ca, answers, table>>

-----------------------------------------------------------------------------
(* The CA asks *)

\* GetALPN: what is staged here, otherwise what storage has
GetALPN(n) == IF alpn[n] # 0 THEN alpn[n] ELSE alpnStored

\* (A slip, for the checks: a miss is remembered for good.)
EverMissed(n, t) == t \in misses[n]

recentTokenMiss(n, t) == t \in recent[n]

\* Whether HTTPHandler answers, if it can read storage.
GetHTTP(n, t) == t \in http[n] \/ (~recentTokenMiss(n, t) /\ t \in httpStored)

Asked == accepted /\ authz.status = "pending"

\* A request that is answered with the authorization's own answer
Answer(n) ==
  /\ n \in Reached /\ Asked /\ noting[n] = 0
  /\ \/ UsesALPN /\ GetALPN(n) = authz.token
     \/ UsesHTTP /\ GetHTTP(n, authz.token)
  /\ authz' = [authz EXCEPT !.status = "valid"]
  /\ UNCHANGED <<accepted, answers, table, attempt, faults>>

\* HTTPHandler goes to storage and finds nothing, or cannot read it.
Miss(n, readable) ==
  /\ n \in Reached /\ Asked /\ noting[n] = 0 /\ UsesHTTP
  /\ authz.token \notin http[n] /\ ~recentTokenMiss(n, authz.token)
  /\ readable => authz.token \notin httpStored
  /\ noting' = [noting EXCEPT ![n] = authz.token]
  /\ UNCHANGED <<ca, answers, misses, recent, attempt, faults>>

\* A full table is dropped whole.
noteTokenMiss(n) ==
  LET keep(tokens) == IF Cardinality(misses[n]) >= MissCap THEN {} ELSE tokens IN
  /\ noting[n] # 0
  /\ misses' = [misses EXCEPT ![n] = keep(@) \cup {noting[n]}]
  /\ recent' = [recent EXCEPT ![n] = keep(@) \cup {noting[n]}]
  /\ noting' = [noting EXCEPT ![n] = 0]
  /\ UNCHANGED <<ca, answers, attempt, faults>>

\* The CA has had enough of wrong answers or of none, or the authorization expires.
Reject ==
  /\ authz.status = "pending" /\ authz.token < MaxTokens
  /\ authz' = [authz EXCEPT !.status = "invalid"]
  /\ UNCHANGED <<accepted, answers, table, attempt, faults>>

-----------------------------------------------------------------------------
\* tokenMissTTL has passed.
MissAges(n, t) ==
  /\ t \in recent[n]
  /\ recent' = [recent EXCEPT ![n] = @ \ {t}]
  /\ UNCHANGED <<ca, answers, misses, noting, attempt, faults>>

Crash(n) ==
  /\ Fault
  /\ alpn' = [alpn EXCEPT ![n] = 0] /\ http' = [http EXCEPT ![n] = {}]
  /\ misses' = [misses EXCEPT ![n] = {}] /\ recent' = [recent EXCEPT ![n] = {}]
  /\ noting' = [noting EXCEPT ![n] = 0]
  /\ pc' = (IF n = driver THEN "idle" ELSE pc)
  /\ UNCHANGED <<ca, alpnStored, httpStored, driver>>

-----------------------------------------------------------------------------
Attempt ==
  \/ Skip \/ Present \/ Mirror \/ Accept \/ Validated \/ Clean \/ Remove
  \/ \E n \in Node : Order(n)

Serve(n) ==
  \/ Answer(n) \/ Miss(n, TRUE) \/ noteTokenMiss(n) \/ \E t \in Token : MissAges(n, t)

Refused ==
  \/ MirrorFails \/ AcceptFails \/ TimesOut \/ RemoveFails
  \/ \E n \in Node : Miss(n, FALSE)

Next ==
  \/ Attempt \/ Refused \/ Reject
  \/ \E n \in Node : Serve(n) \/ Crash(n)

Spec == Init /\ [][Next]_vars

\* Attempts go on, the CA asks again (only the processes of Reached), time passes,
\* and from some point on storage and the CA refuse nothing and answer in time.
Fairness ==
  /\ WF_vars(Attempt)
  /\ \A n \in Node : WF_vars(Serve(n))
  /\ <>[][Refused => Attempt \/ \E n \in Node : Serve(n)]_vars

LiveSpec == Spec /\ Fairness

-----------------------------------------------------------------------------
(* Properties *)

\* Once the CA has been told to validate, whichever process it asks has the right
\* answer, in memory or in storage, except where an HTTP-01 miss is fresh: "a token
\* only this node can serve is a validation the CA may well fail, and count"
\* (PutALPN, PutHTTP, present).  An answer left over from another attempt, in
\* storage or in a peer's memory, is a wrong one.
AcceptedIsAnswered ==
  At("wait") =>
    \A n \in Node :
      IF UsesALPN THEN GetALPN(n) = authz.token
      ELSE recentTokenMiss(n, authz.token) \/ GetHTTP(n, authz.token)

\* Answers stay in storage after their attempt only where a crash, a failed removal
\* or a failed write that landed left them: each fault leaves one at most (cleanup,
\* DeleteALPN, DeleteHTTP).
LeftoversAreFaults ==
  LET presented == pc \in {"accept", "wait", "forget", "remove"}
      stored == Cardinality(httpStored) + (IF alpnStored # 0 THEN 1 ELSE 0) IN
  stored <= faults + (IF presented THEN 1 ELSE 0)

\* An authorization that is pending gets validated, or rejected, although the CA may
\* always ask a process that has just noted a miss: a token "must not be refused for
\* long" (recentTokenMiss, tokenMissTTL).
ValidatedInTheEnd ==
  LET pending == authz.status = "pending" /\ (UsesALPN \/ UsesHTTP) IN pending ~> ~pending

=============================================================================
