------------------------------ MODULE FsBackend ------------------------------
(****************************************************************************)
(* FilesystemBackend (storage/filesystem.go), the calls of one process on    *)
(* one directory.  A put writes a temporary file and publishes it: by a link *)
(* when the object must not exist, by a rename under fsCondPutMu after the   *)
(* ETag was compared when the object must be the one seen, by a plain rename *)
(* otherwise.  Other calls run between any two of these steps.               *)
(*                                                                          *)
(* A file is the number of the put that wrote it, 0 when there is none.  Its *)
(* ETag, the digest of its key and modification time, stands for the same    *)
(* number: no two puts of a key fall into one tick of the file system clock. *)
(****************************************************************************)
EXTENDS Naturals

CONSTANTS
    Writer,     \* the goroutines that use the backend
    Key,
    Swapped,    \* the keys written with IfMatch, which nobody puts plainly
    None,       \* nobody
    MaxPuts,    \* bound on the requests
    MaxCrashes  \* bound on the crashes

\* The lease is the one object written with IfMatch, and is never put plainly
\* (lease.go).
ASSUME FsAssumption == Swapped \subseteq Key /\ None \notin Writer \cup Key

VARIABLES
    file,       \* file[k]: the file published as k
    op,         \* op[w]: the call w is in, or what its last one returned
    seen,       \* seen[w][k]: the ETag w's last StatObject of k returned
    puts,       \* the requests made
    fsCondPutMu,\* who holds the mutex of the conditional puts
    crashes

vars == <<file, op, seen, puts, fsCondPutMu, crashes>>

Idle(ans) == [pc |-> "idle", kind |-> "none", key |-> None, want |-> 0, new |-> 0, ans |-> ans]
Nothing == [k \in Key |-> 0]

Init ==
    /\ file = Nothing
    /\ op = [w \in Writer |-> Idle("none")]
    /\ seen = [w \in Writer |-> Nothing]
    /\ puts = 0 /\ fsCondPutMu = None /\ crashes = 0

At(w, l) == op[w].pc = l
Goto(w, l) == op' = [op EXCEPT ![w].pc = l]
Return(w, ans) == op' = [op EXCEPT ![w] = Idle(ans)]
Lock(w) == fsCondPutMu = None /\ fsCondPutMu' = w
Unlock == fsCondPutMu' = None
Publish(w) == file' = [file EXCEPT ![op[w].key] = op[w].new]

StatObject(w) ==
    /\ At(w, "idle")
    /\ \E k \in Key : seen' = [seen EXCEPT ![w][k] = file[k]]
    /\ UNCHANGED <<file, op, puts, fsCondPutMu, crashes>>

\* The step that publishes, by the options of the put.
Publishes(kind) ==
    CASE kind = "create" -> "link"
      [] kind = "swap"   -> "lock"
      [] kind = "put"    -> "rename"
      [] kind = "remove" -> "remove"

\* A put up to its temporary file, written and synced, or a RemoveObject.
Begin(w, kind, k) ==
    /\ At(w, "idle") /\ puts < MaxPuts
    /\ kind = "swap" => k \in Swapped /\ seen[w][k] # 0
    /\ kind = "put" => k \notin Swapped
    /\ puts' = puts + 1
    /\ op' = [op EXCEPT ![w] =
          [pc |-> Publishes(kind), kind |-> kind, key |-> k, want |-> seen[w][k],
           new |-> puts + 1, ans |-> "none"]]
    /\ UNCHANGED <<file, seen, fsCondPutMu, crashes>>

PutObject(w) == \E k \in Key, kind \in {"create", "swap", "put"} : Begin(w, kind, k)

\* os.Link fails when the name exists.
Link(w) ==
    /\ At(w, "link")
    /\ \/ file[op[w].key] = 0 /\ Publish(w) /\ Return(w, "ok")
       \/ file[op[w].key] # 0 /\ UNCHANGED file /\ Return(w, "conflict")
    /\ UNCHANGED <<seen, puts, fsCondPutMu, crashes>>

Rename(w) ==
    /\ At(w, "rename") /\ Publish(w) /\ Return(w, "ok")
    /\ UNCHANGED <<seen, puts, fsCondPutMu, crashes>>

\* putIfMatch: the mutex, the compare, the rename.
PutIfMatch(w) ==
    /\ At(w, "lock") /\ Lock(w) /\ Goto(w, "compare")
    /\ UNCHANGED <<file, seen, puts, crashes>>

\* (A slip, for the checks: the early return leaves the mutex locked.)
MismatchKeepsLock(w) ==
    /\ At(w, "compare") /\ file[op[w].key] # op[w].want
    /\ Return(w, "conflict")
    /\ UNCHANGED <<file, seen, puts, fsCondPutMu, crashes>>

\* The object is gone or is another one.
Mismatch(w) ==
    /\ At(w, "compare") /\ file[op[w].key] # op[w].want
    /\ Return(w, "conflict") /\ Unlock
    /\ UNCHANGED <<file, seen, puts, crashes>>

Match(w) ==
    /\ At(w, "compare") /\ file[op[w].key] = op[w].want
    /\ Goto(w, "swap")
    /\ UNCHANGED <<file, seen, puts, fsCondPutMu, crashes>>

RenameMatched(w) ==
    /\ At(w, "swap") /\ Publish(w) /\ Return(w, "ok") /\ Unlock
    /\ UNCHANGED <<seen, puts, crashes>>

Remove(w) ==
    /\ file' = [file EXCEPT ![op[w].key] = 0] /\ Return(w, "ok")
    /\ UNCHANGED <<seen, puts, fsCondPutMu, crashes>>

\* (A slip, for the checks: the delete does without the mutex.)
RemoveUnlocked(w) == At(w, "remove") /\ Remove(w)

\* The mutex is taken, the file removed if there is one, the mutex released.
RemoveObject(w) == At(w, "remove") /\ fsCondPutMu = None /\ Remove(w)

\* Any call to the file system may fail; the temporary file is removed.
Fails(w) ==
    /\ ~At(w, "idle") /\ Return(w, "error")
    /\ fsCondPutMu' = IF fsCondPutMu = w THEN None ELSE fsCondPutMu
    /\ UNCHANGED <<file, seen, puts, crashes>>

\* The process dies: what was published stays, temporary files are litter.
Crash ==
    /\ crashes < MaxCrashes /\ crashes' = crashes + 1
    /\ op' = [w \in Writer |-> Idle("none")]
    /\ seen' = [w \in Writer |-> Nothing]
    /\ fsCondPutMu' = None
    /\ UNCHANGED <<file, puts>>

Step(w) ==
    \/ Link(w) \/ Rename(w) \/ PutIfMatch(w) \/ Mismatch(w) \/ Match(w)
    \/ RenameMatched(w) \/ RemoveObject(w)

Next ==
    \/ \E w \in Writer : \/ StatObject(w) \/ PutObject(w)
                         \/ \E k \in Key : Begin(w, "remove", k)
                         \/ Step(w) \/ Fails(w)
    \/ Crash

Spec == Init /\ [][Next]_vars

\* A call that has begun goes on, and sync.Mutex starves nobody.
LiveSpec == Spec /\ \A w \in Writer : SF_vars(Step(w))

-----------------------------------------------------------------------------
\* A call as its caller sees it: waited for, or returned.
Asked(c) ==
    [st |-> IF c.pc = "idle" THEN "idle" ELSE "pending",
     kind |-> c.kind, key |-> c.key, want |-> c.want, new |-> c.new, ans |-> c.ans]
Requests == [w \in Writer |-> Asked(op[w])]

Store == INSTANCE ObjectStore WITH obj <- file, req <- Requests

\* The compare and the rename of a conditional put are one step to everybody
\* else: the file renamed over is the one whose ETag was compared (putIfMatch,
\* and the mutex of RemoveObject: "a delete must not interleave with
\* putIfMatch's stat-compare-rename").
ComparedIsReplaced == \A w \in Writer : At(w, "swap") => file[op[w].key] = op[w].want

\* The backend implements the object store of the interface: every put and
\* every remove takes effect at one instant, with its precondition evaluated
\* then, through crashes and failed calls (PutObject, RemoveObject).
ImplementsStore == Store!Spec

\* Every call returns: each path out of putIfMatch lets go of the mutex.
CallsReturn == \A w \in Writer : ~At(w, "idle") ~> At(w, "idle")
=============================================================================
