----------------------------- MODULE ObjectStore -----------------------------
(****************************************************************************)
(* What the Backend interface promises its callers (storage/interface.go):   *)
(* a request takes effect at one instant, with its precondition evaluated at *)
(* that instant, or fails with the precondition, or fails without effect.    *)
(* An object is the number of the put that wrote it, 0 when there is none.   *)
(****************************************************************************)
EXTENDS Naturals

CONSTANTS Writer, Key, None

VARIABLES
    obj,      \* obj[k]: the object stored under k
    req,      \* req[w]: the request w is waiting for, or its last answer
    seen,     \* seen[w][k]: what w's last stat of k found
    puts      \* the puts requested

vars == <<obj, req, seen, puts>>

Idle(ans) == [st |-> "idle", kind |-> "none", key |-> None, want |-> 0, new |-> 0, ans |-> ans]

Init ==
    /\ obj = [k \in Key |-> 0]
    /\ req = [w \in Writer |-> Idle("none")]
    /\ seen = [w \in Writer |-> [k \in Key |-> 0]]
    /\ puts = 0

\* The precondition of a request (PutOptions.IfNoneMatch and IfMatch).
Holds(r) ==
    CASE r.kind = "create" -> obj[r.key] = 0
      [] r.kind = "swap"   -> obj[r.key] = r.want
      [] OTHER             -> TRUE

Result(r) == IF r.kind = "remove" THEN 0 ELSE r.new

Ends(w, ans) == req' = [req EXCEPT ![w] = Idle(ans)]

Stat(w) ==
    /\ req[w].st = "idle"
    /\ \E k \in Key : seen' = [seen EXCEPT ![w][k] = obj[k]]
    /\ UNCHANGED <<obj, req, puts>>

Request(w) ==
    /\ req[w].st = "idle"
    /\ \E k \in Key, kind \in {"create", "swap", "put", "remove"} :
          /\ kind = "swap" => seen[w][k] # 0
          /\ req' = [req EXCEPT ![w] =
                [st |-> "pending", kind |-> kind, key |-> k, want |-> seen[w][k],
                 new |-> puts + 1, ans |-> "none"]]
    /\ puts' = puts + 1
    /\ UNCHANGED <<obj, seen>>

Succeed(w) ==
    /\ req[w].st = "pending" /\ Holds(req[w])
    /\ obj' = [obj EXCEPT ![req[w].key] = Result(req[w])]
    /\ Ends(w, "ok")
    /\ UNCHANGED <<seen, puts>>

Conflict(w) ==
    /\ req[w].st = "pending" /\ ~Holds(req[w])
    /\ Ends(w, "conflict")
    /\ UNCHANGED <<obj, seen, puts>>

Fail(w) ==
    /\ req[w].st = "pending"
    /\ Ends(w, "error")
    /\ UNCHANGED <<obj, seen, puts>>

\* The process dies, and its requests with it.
Crash ==
    /\ req' = [w \in Writer |-> Idle("none")]
    /\ seen' = [w \in Writer |-> [k \in Key |-> 0]]
    /\ UNCHANGED <<obj, puts>>

Next ==
    \/ \E w \in Writer : Stat(w) \/ Request(w) \/ Succeed(w) \/ Conflict(w) \/ Fail(w)
    \/ Crash

Spec == Init /\ [][Next]_vars
=============================================================================
