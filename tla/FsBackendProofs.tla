--------------------------- MODULE FsBackendProofs ---------------------------
(****************************************************************************)
(* The file system backend implements the object store of the interface, for *)
(* any goroutines, keys, requests and crashes.  The mutex is held exactly    *)
(* from the compare to the rename of a conditional put; while it is held     *)
(* nothing touches the object compared: a link finds it there, a plain       *)
(* rename is for other keys, another conditional put and a remove wait.      *)
(****************************************************************************)
EXTENDS FsBackend, TLAPS

Pc == {"idle", "link", "lock", "compare", "swap", "rename", "remove"}
Kind == {"none", "create", "swap", "put", "remove"}
Answer == {"none", "ok", "conflict", "error"}

Call == [pc : Pc, kind : Kind, key : Key \cup {None}, want : Nat, new : Nat, ans : Answer]

\* The state has its types (FilesystemBackend and the calls in progress).
TypeOK ==
    /\ file \in [Key -> Nat]
    /\ op \in [Writer -> Call]
    /\ seen \in [Writer -> [Key -> Nat]]
    /\ puts \in Nat
    /\ fsCondPutMu \in Writer \cup {None}
    /\ crashes \in Nat

\* A call is at a step of its own kind, on a key that admits it.
Consistent(c) ==
    /\ c.pc # "idle" => c.key \in Key
    /\ c.pc = "link" => c.kind = "create"
    /\ c.pc = "rename" => c.kind = "put" /\ c.key \notin Swapped
    /\ c.pc = "remove" => c.kind = "remove"
    /\ c.pc \in {"lock", "compare", "swap"}
          => c.kind = "swap" /\ c.key \in Swapped /\ c.want # 0

InOrder == \A w \in Writer : Consistent(op[w])

Locked == \A w \in Writer : op[w].pc \in {"compare", "swap"} => fsCondPutMu = w

IInv == TypeOK /\ InOrder /\ Locked /\ ComparedIsReplaced

\* Before any call there is no file, no call and no lock (NewFilesystemBackend).
LEMMA InitInv == Init => IInv
  BY FsAssumption DEF Init, IInv, TypeOK, InOrder, Consistent, Locked, ComparedIsReplaced,
     Nothing, Idle, At, Call, Pc, Kind, Answer

\* A call that ends leaves the others as they were (the returns of PutObject
\* and RemoveObject).
LEMMA ReturnInv ==
    ASSUME TypeOK, InOrder, NEW w \in Writer, NEW ans \in Answer, Return(w, ans)
    PROVE  /\ op' \in [Writer -> Call]
           /\ op'[w] = Idle(ans)
           /\ \A v \in Writer \ {w} : op'[v] = op[v]
           /\ InOrder'
  <1>1. Idle(ans) \in Call
    BY DEF Idle, Call, Pc, Kind, Answer
  <1>2. Consistent(Idle(ans))
    BY DEF Idle, Consistent
  <1> QED
    BY <1>1, <1>2 DEF Return, TypeOK, InOrder, Consistent

\* Every step keeps the mutex over the compared object (putIfMatch,
\* RemoveObject).
LEMMA StepInv == IInv /\ [Next]_vars => IInv'
  <1> SUFFICES ASSUME IInv, [Next]_vars PROVE IInv'
    OBVIOUS
  <1> USE FsAssumption
  <1>1. ASSUME NEW w \in Writer, StatObject(w) PROVE IInv'
    <2>1. TypeOK'
      BY <1>1 DEF StatObject, IInv, TypeOK
    <2> QED
      BY <1>1, <2>1 DEF StatObject, IInv, InOrder, Consistent, Locked, ComparedIsReplaced, At
  <1>2. ASSUME NEW w \in Writer, NEW k \in Key,
               NEW kind \in {"create", "swap", "put", "remove"}, Begin(w, kind, k)
        PROVE  IInv'
    <2> DEFINE c == [pc |-> Publishes(kind), kind |-> kind, key |-> k, want |-> seen[w][k],
                     new |-> puts + 1, ans |-> "none"]
    <2>1. c \in Call /\ Publishes(kind) \in {"link", "lock", "rename", "remove"}
      BY DEF IInv, TypeOK, Call, Pc, Kind, Answer, Publishes
    <2>2. Consistent(c)
      BY <1>2 DEF Begin, Consistent, Publishes
    <2>3. op' = [op EXCEPT ![w] = c] /\ puts' = puts + 1 /\ UNCHANGED <<file, seen, fsCondPutMu, crashes>>
      BY <1>2 DEF Begin
    <2> HIDE DEF c
    <2>4. TypeOK' /\ InOrder'
      BY <2>1, <2>2, <2>3 DEF IInv, TypeOK, InOrder, Consistent
    <2>5. c.pc \in {"link", "lock", "rename", "remove"}
      BY <2>1 DEF c
    <2> QED
      BY <2>3, <2>4, <2>5 DEF IInv, TypeOK, Locked, ComparedIsReplaced, At
  <1>3. ASSUME NEW w \in Writer, Link(w) PROVE IInv'
    <2>1. PICK ans \in Answer : Return(w, ans)
      BY <1>3 DEF Link, Answer
    <2>2. /\ op' \in [Writer -> Call] /\ op'[w] = Idle(ans) /\ InOrder'
          /\ \A v \in Writer \ {w} : op'[v] = op[v]
      BY <2>1, ReturnInv DEF IInv
    <2>3. op[w] \in Call /\ op[w].key \in Key /\ op[w].new \in Nat
      BY <1>3 DEF IInv, TypeOK, InOrder, Consistent, Link, At, Call
    <2>4. TypeOK'
      BY <1>3, <2>2, <2>3 DEF IInv, TypeOK, Link, Publish
    <2>5. \A v \in Writer : At(v, "swap") => file'[op[v].key] = file[op[v].key]
      BY <1>3, <2>3 DEF IInv, TypeOK, InOrder, Consistent, ComparedIsReplaced, Link, Publish, At
    <2> QED
      BY <1>3, <2>2, <2>4, <2>5 DEF IInv, Locked, ComparedIsReplaced, Link, At, Idle
  <1>4. ASSUME NEW w \in Writer, Rename(w) PROVE IInv'
    <2>2. /\ op' \in [Writer -> Call] /\ op'[w] = Idle("ok") /\ InOrder'
          /\ \A v \in Writer \ {w} : op'[v] = op[v]
      BY <1>4, ReturnInv DEF IInv, Rename, Answer
    <2>3. op[w] \in Call /\ op[w].key \in Key \ Swapped /\ op[w].new \in Nat
      BY <1>4 DEF IInv, TypeOK, InOrder, Consistent, Rename, At, Call
    <2>4. TypeOK'
      BY <1>4, <2>2, <2>3 DEF IInv, TypeOK, Rename, Publish
    <2>5. \A v \in Writer : At(v, "swap") => file'[op[v].key] = file[op[v].key]
      BY <1>4, <2>3 DEF IInv, TypeOK, InOrder, Consistent, Rename, Publish, At
    <2> QED
      BY <1>4, <2>2, <2>4, <2>5 DEF IInv, Locked, ComparedIsReplaced, Rename, At, Idle
  <1>5. ASSUME NEW w \in Writer, PutIfMatch(w) PROVE IInv'
    <2>1. TypeOK' /\ InOrder'
      BY <1>5, SMTT(30) DEF PutIfMatch, Goto, Lock, IInv, TypeOK, InOrder, Consistent, Call, Pc, At
    <2>2. \A v \in Writer : op[v].pc \notin {"compare", "swap"}
      BY <1>5 DEF PutIfMatch, Lock, IInv, Locked
    <2>3. /\ op'[w].pc = "compare" /\ fsCondPutMu' = w /\ file' = file
          /\ \A v \in Writer \ {w} : op'[v] = op[v]
      BY <1>5 DEF PutIfMatch, Goto, Lock, IInv, TypeOK, Call
    <2> QED
      BY <2>1, <2>2, <2>3 DEF IInv, Locked, ComparedIsReplaced, At
  <1>6. ASSUME NEW w \in Writer, Mismatch(w) PROVE IInv'
    <2>1. /\ op' \in [Writer -> Call] /\ op'[w] = Idle("conflict") /\ InOrder'
          /\ \A v \in Writer \ {w} : op'[v] = op[v]
      BY <1>6, ReturnInv DEF IInv, Mismatch, Answer
    <2>2. TypeOK'
      BY <1>6, <2>1 DEF IInv, TypeOK, Mismatch, Unlock
    <2>3. \A v \in Writer \ {w} : op[v].pc \notin {"compare", "swap"}
      BY <1>6 DEF IInv, Locked, Mismatch, At
    <2> QED
      BY <2>1, <2>2, <2>3 DEF IInv, Locked, ComparedIsReplaced, At, Idle
  <1>7. ASSUME NEW w \in Writer, Match(w) PROVE IInv'
    <2>1. TypeOK' /\ InOrder'
      BY <1>7, SMTT(30) DEF Match, Goto, IInv, TypeOK, InOrder, Consistent, Call, Pc, At
    <2>2. /\ op'[w].pc = "swap" /\ op'[w].key = op[w].key /\ op'[w].want = op[w].want
          /\ UNCHANGED <<file, fsCondPutMu>>
          /\ \A v \in Writer \ {w} : op'[v] = op[v]
      BY <1>7 DEF Match, Goto, IInv, TypeOK, Call
    <2> QED
      BY <1>7, <2>1, <2>2 DEF IInv, Locked, ComparedIsReplaced, Match, At
  <1>8. ASSUME NEW w \in Writer, RenameMatched(w) PROVE IInv'
    <2>1. /\ op' \in [Writer -> Call] /\ op'[w] = Idle("ok") /\ InOrder'
          /\ \A v \in Writer \ {w} : op'[v] = op[v]
      BY <1>8, ReturnInv DEF IInv, RenameMatched, Answer
    <2>2. op[w] \in Call /\ op[w].key \in Key /\ op[w].new \in Nat
      BY <1>8 DEF IInv, TypeOK, InOrder, Consistent, RenameMatched, At, Call
    <2>3. TypeOK'
      BY <1>8, <2>1, <2>2 DEF IInv, TypeOK, RenameMatched, Publish, Unlock
    <2>4. \A v \in Writer \ {w} : op[v].pc \notin {"compare", "swap"}
      BY <1>8 DEF IInv, Locked, RenameMatched, At
    <2> QED
      BY <2>1, <2>3, <2>4 DEF IInv, Locked, ComparedIsReplaced, At, Idle
  <1>9. ASSUME NEW w \in Writer, RemoveObject(w) PROVE IInv'
    <2>1. /\ op' \in [Writer -> Call] /\ op'[w] = Idle("ok") /\ InOrder'
          /\ \A v \in Writer \ {w} : op'[v] = op[v]
      BY <1>9, ReturnInv DEF IInv, RemoveObject, Remove, Answer
    <2>2. TypeOK'
      BY <1>9, <2>1, Zenon DEF IInv, TypeOK, RemoveObject, Remove
    <2>3. \A v \in Writer : op[v].pc \notin {"compare", "swap"}
      BY <1>9 DEF IInv, Locked, RemoveObject
    <2> QED
      BY <2>1, <2>2, <2>3 DEF IInv, Locked, ComparedIsReplaced, At, Idle
  <1>10. ASSUME NEW w \in Writer, Fails(w) PROVE IInv'
    <2>1. /\ op' \in [Writer -> Call] /\ op'[w] = Idle("error") /\ InOrder'
          /\ \A v \in Writer \ {w} : op'[v] = op[v]
      BY <1>10, ReturnInv DEF IInv, Fails, Answer
    <2>2. TypeOK'
      BY <1>10, <2>1 DEF IInv, TypeOK, Fails
    <2> QED
      BY <1>10, <2>1, <2>2 DEF IInv, Locked, ComparedIsReplaced, Fails, At, Idle
  <1>11. CASE Crash
    BY <1>11 DEF Crash, IInv, TypeOK, InOrder, Consistent, Locked, ComparedIsReplaced,
       Nothing, Idle, At, Call, Pc, Kind, Answer
  <1>12. CASE UNCHANGED vars
    BY <1>12 DEF vars, IInv, TypeOK, InOrder, Consistent, Locked, ComparedIsReplaced, At
  <1> QED
    BY <1>1, <1>2, <1>3, <1>4, <1>5, <1>6, <1>7, <1>8, <1>9, <1>10, <1>11, <1>12
       DEF Next, Step, PutObject

\* The inductive invariant holds throughout (the calls of FilesystemBackend).
THEOREM InvHolds == Spec => []IInv
  BY InitInv, StepInv, PTL DEF Spec

\* A conditional put renames over the very file whose ETag it compared,
\* whatever runs between the two (putIfMatch).
THEOREM SwapIsAtomic == Spec => []ComparedIsReplaced
  <1>1. IInv => ComparedIsReplaced
    BY DEF IInv
  <1> QED
    BY InvHolds, <1>1, PTL

\* A call that returns is a request that ends (the returns of PutObject and
\* RemoveObject).
LEMMA ReturnEnds ==
    ASSUME TypeOK, NEW w \in Writer, NEW ans \in Answer, Return(w, ans)
    PROVE  Store!Ends(w, ans)
  <1>1. Asked(Idle(ans)) = Store!Idle(ans)
    BY DEF Asked, Idle, Store!Idle
  <1>2. \A v \in Writer : op'[v] = IF v = w THEN Idle(ans) ELSE op[v]
    BY DEF Return, TypeOK
  <1>3. Requests' = [v \in Writer |-> Asked(op'[v])]
    BY DEF Requests, Asked
  <1>4. Requests' = [Requests EXCEPT ![w] = Store!Idle(ans)]
    BY <1>1, <1>2, <1>3, Zenon DEF Requests
  <1> QED
    BY <1>4 DEF Store!Ends

\* A call in progress is a request pending (PutObject, RemoveObject).
LEMMA InProgress ==
    ASSUME TypeOK, InOrder, NEW w \in Writer, op[w].pc # "idle"
    PROVE  /\ Requests[w].st = "pending" /\ Requests[w].kind = op[w].kind
           /\ Requests[w].key = op[w].key /\ Requests[w].want = op[w].want
           /\ Requests[w].new = op[w].new /\ op[w].key \in Key
  BY Zenon DEF Requests, Asked, TypeOK, InOrder, Consistent, Call

\* Moving on without returning changes nothing for the caller (putIfMatch).
LEMMA GotoStutters ==
    ASSUME TypeOK, NEW w \in Writer, op[w].pc # "idle", NEW l \in Pc \ {"idle"}, Goto(w, l)
    PROVE  Requests' = Requests
  <1>1. \A v \in Writer : Asked(op'[v]) = Asked(op[v])
    <2> TAKE v \in Writer
    <2>1. CASE v = w
      <3>1. op'[v] = [op[v] EXCEPT !.pc = l]
        BY <2>1 DEF Goto, TypeOK
      <3> QED
        BY <2>1, <3>1 DEF Asked, TypeOK, Call, Pc
    <2>2. CASE v # w
      BY <2>2 DEF Goto, TypeOK
    <2> QED
      BY <2>1, <2>2, Zenon
  <1> QED
    BY <1>1 DEF Requests, Asked

\* An empty directory is an empty store (NewFilesystemBackend).
LEMMA InitImplements == Init => Store!Init
  BY DEF Init, Store!Init, Nothing, Requests, Asked, Idle, Store!Idle

\* Every step of a call is a step of the store or is invisible to it
\* (PutObject, putIfMatch, RemoveObject).
LEMMA StepImplements == IInv /\ [Next]_vars => [Store!Next]_(Store!vars)
  <1> SUFFICES ASSUME IInv, [Next]_vars PROVE [Store!Next]_(Store!vars)
    OBVIOUS
  <1> USE FsAssumption
  <1>t. TypeOK /\ InOrder /\ ComparedIsReplaced
    BY DEF IInv
  <1>1. ASSUME NEW w \in Writer, StatObject(w) PROVE Store!Stat(w)
    <2>1. Requests[w].st = "idle" /\ Requests' = Requests
      BY <1>1 DEF StatObject, At, Requests, Asked
    <2> QED
      BY <1>1, <2>1, Zenon DEF StatObject, Store!Stat
  <1>2. ASSUME NEW w \in Writer, NEW k \in Key,
               NEW kind \in {"create", "swap", "put", "remove"}, Begin(w, kind, k)
        PROVE  Store!Request(w)
    <2> DEFINE c == [pc |-> Publishes(kind), kind |-> kind, key |-> k, want |-> seen[w][k],
                     new |-> puts + 1, ans |-> "none"]
               r == [st |-> "pending", kind |-> kind, key |-> k, want |-> seen[w][k],
                     new |-> puts + 1, ans |-> "none"]
    <2>1. Asked(c) = r
      BY DEF Asked, Publishes
    <2>2. op' = [op EXCEPT ![w] = c]
      BY <1>2 DEF Begin
    <2> HIDE DEF c
    <2>3. \A v \in Writer : op'[v] = IF v = w THEN c ELSE op[v]
      BY <1>t, <2>2 DEF TypeOK
    <2>4. Requests' = [v \in Writer |-> Asked(op'[v])]
      BY DEF Requests, Asked
    <2> HIDE DEF r
    <2>5. Requests' = [Requests EXCEPT ![w] = r]
      BY <2>1, <2>3, <2>4, Zenon DEF Requests
    <2>6. Requests[w].st = "idle"
      BY <1>2 DEF Begin, At, Requests, Asked
    <2> QED
      BY <1>2, <2>5, <2>6, Zenon DEF Begin, Store!Request, r
  <1>3. ASSUME NEW w \in Writer, Link(w) PROVE Store!Succeed(w) \/ Store!Conflict(w)
    <2>1. op[w].pc = "link" /\ op[w].kind = "create"
      BY <1>3, <1>t DEF Link, At, InOrder, Consistent
    <2>2. Store!Holds(Requests[w]) <=> file[op[w].key] = 0
      BY <1>t, <2>1, InProgress DEF Store!Holds
    <2>3. Store!Result(Requests[w]) = op[w].new
      BY <1>t, <2>1, InProgress DEF Store!Result
    <2>4. CASE file[op[w].key] = 0
      BY <1>3, <1>t, <2>1, <2>2, <2>3, <2>4, InProgress, ReturnEnds, Zenon
         DEF Link, Publish, Store!Succeed, Answer
    <2>5. CASE file[op[w].key] # 0
      BY <1>3, <1>t, <2>1, <2>2, <2>5, InProgress, ReturnEnds, Zenon DEF Link, Store!Conflict, Answer
    <2> QED
      BY <2>4, <2>5
  <1>4. ASSUME NEW w \in Writer, Rename(w) PROVE Store!Succeed(w)
    <2>1. op[w].pc = "rename" /\ op[w].kind = "put"
      BY <1>4, <1>t DEF Rename, At, InOrder, Consistent
    <2>2. Store!Holds(Requests[w]) /\ Store!Result(Requests[w]) = op[w].new
      BY <1>t, <2>1, InProgress DEF Store!Holds, Store!Result
    <2> QED
      BY <1>4, <1>t, <2>1, <2>2, InProgress, ReturnEnds, Zenon DEF Rename, Publish, Store!Succeed, Answer
  <1>5. ASSUME NEW w \in Writer, PutIfMatch(w) PROVE UNCHANGED Store!vars
    BY <1>5, <1>t, GotoStutters DEF PutIfMatch, At, Pc, Store!vars
  <1>6. ASSUME NEW w \in Writer, Mismatch(w) PROVE Store!Conflict(w)
    <2>1. op[w].pc = "compare" /\ op[w].kind = "swap"
      BY <1>6, <1>t, Zenon DEF Mismatch, At, InOrder, Consistent
    <2>2. ~Store!Holds(Requests[w])
      BY <1>6, <1>t, <2>1, InProgress DEF Store!Holds, Mismatch
    <2> QED
      BY <1>6, <1>t, <2>1, <2>2, InProgress, ReturnEnds, Zenon DEF Mismatch, Store!Conflict, Answer
  <1>7. ASSUME NEW w \in Writer, Match(w) PROVE UNCHANGED Store!vars
    BY <1>7, <1>t, GotoStutters DEF Match, At, Pc, Store!vars
  <1>8. ASSUME NEW w \in Writer, RenameMatched(w) PROVE Store!Succeed(w)
    <2>1. op[w].pc = "swap" /\ op[w].kind = "swap" /\ file[op[w].key] = op[w].want
      BY <1>8, <1>t, Zenon DEF RenameMatched, At, InOrder, Consistent, ComparedIsReplaced
    <2>2. Store!Holds(Requests[w]) /\ Store!Result(Requests[w]) = op[w].new
      BY <1>t, <2>1, InProgress DEF Store!Holds, Store!Result
    <2> QED
      BY <1>8, <1>t, <2>1, <2>2, InProgress, ReturnEnds, Zenon
         DEF RenameMatched, Publish, Store!Succeed, Answer
  <1>9. ASSUME NEW w \in Writer, RemoveObject(w) PROVE Store!Succeed(w)
    <2>1. op[w].pc = "remove" /\ op[w].kind = "remove"
      BY <1>9, <1>t DEF RemoveObject, At, InOrder, Consistent
    <2>2. Store!Holds(Requests[w]) /\ Store!Result(Requests[w]) = 0
      BY <1>t, <2>1, InProgress DEF Store!Holds, Store!Result
    <2> QED
      BY <1>9, <1>t, <2>1, <2>2, InProgress, ReturnEnds, Zenon
         DEF RemoveObject, Remove, Store!Succeed, Answer
  <1>10. ASSUME NEW w \in Writer, Fails(w) PROVE Store!Fail(w)
    BY <1>10, <1>t, InProgress, ReturnEnds DEF Fails, At, Store!Fail, Answer
  <1>11. CASE Crash
    <2>1. Requests' = [w \in Writer |-> Store!Idle("none")]
      BY <1>11 DEF Crash, Requests, Asked, Idle, Store!Idle
    <2> QED
      BY <1>11, <2>1 DEF Crash, Nothing, Store!Next, Store!Crash
  <1>12. CASE UNCHANGED vars
    BY <1>12 DEF vars, Requests, Asked, Store!vars
  <1> QED
    BY <1>1, <1>2, <1>3, <1>4, <1>5, <1>6, <1>7, <1>8, <1>9, <1>10, <1>11, <1>12
       DEF Next, Step, PutObject, Store!Next

\* The file system backend implements the object store the interface promises
\* (Backend's contract, PutObject, RemoveObject, StatObject).
THEOREM FsImplementsStore == Spec => ImplementsStore
  <1>1. Spec => Store!Init /\ [][Store!Next]_(Store!vars)
    BY InvHolds, InitImplements, StepImplements, PTL DEF Spec
  <1> QED
    BY <1>1 DEF ImplementsStore, Store!Spec
=============================================================================
