------------------------------ MODULE CertStore ------------------------------
(****************************************************************************)
(* The operator's `tls delete` and `tls clean` (certstore) beside the node   *)
(* of LocalCopy: the command looks at the stored chain, waits for the        *)
(* operator's confirmation, looks again and removes.  Nothing excludes a     *)
(* renewal between its steps.  The name is configured, so `clean` and an     *)
(* unforced `delete` spare it on the same condition.                         *)
(****************************************************************************)
EXTENDS LocalCopy

CONSTANT MaxCommands   \* bound on the commands an operator runs

VARIABLES
    cmd,         \* [pc, force, look, unread]: the command; the chain its own
                 \* last look found, and whether that look could not read it
    commands,    \* the commands run
    stored,      \* history: every chain that storage has held
    overtook     \* history: the chains let go of by a flush of an older one

cmdVars == <<cmd, commands>>
vars == <<copyVars, cmdVars, stored, overtook>>

NoCommand == [pc |-> "idle", force |-> FALSE, look |-> NoChain, unread |-> FALSE]

CmdInit == Init /\ cmd = NoCommand /\ commands = 0 /\ stored = {chain} /\ overtook = {}

CmdAt(l) == cmd.pc = l
CmdGoto(l) == cmd' = [cmd EXCEPT !.pc = l]
CmdEnds == cmd' = NoCommand

\* The certificate described: a chain that could not be read, or is gone by
\* the time it is read, is invalid.
Unreadable == down \/ chain = NoChain
Unservable == Unreadable \/ Expired(chain)
InUse == ~Unservable

\* The listing, or Get's stat, finds the name.
Look(force) ==
    /\ CmdAt("idle") /\ commands < MaxCommands
    /\ ~down /\ chain # NoChain
    /\ commands' = commands + 1
    /\ cmd' = [NoCommand EXCEPT !.pc = "describe", !.force = force]
    /\ UNCHANGED copyVars

\* The chain is read: one in use ends an unforced command here.
Describe ==
    /\ CmdAt("describe")
    /\ IF InUse /\ ~cmd.force THEN CmdEnds ELSE CmdGoto("confirm")
    /\ UNCHANGED <<copyVars, commands>>

\* The operator answers, and Delete begins with a stat of its own.
Confirm ==
    /\ CmdAt("confirm")
    /\ IF down \/ chain = NoChain THEN CmdEnds ELSE CmdGoto("look")
    /\ UNCHANGED <<copyVars, commands>>

Decline == CmdAt("confirm") /\ CmdEnds /\ UNCHANGED <<copyVars, commands>>

Seen == [cmd EXCEPT !.pc = "remove", !.look = chain, !.unread = Unreadable]

\* (A slip, for the checks: Delete goes by the listing.)
DeleteByListing ==
    /\ CmdAt("look") /\ cmd' = Seen
    /\ UNCHANGED <<copyVars, commands>>

\* Delete reads the chain again and refuses one in use.
Delete ==
    /\ CmdAt("look")
    /\ IF InUse /\ ~cmd.force THEN CmdEnds ELSE cmd' = Seen
    /\ UNCHANGED <<copyVars, commands>>

RemoveObject ==
    /\ CmdAt("remove") /\ CmdEnds
    /\ IF down THEN UNCHANGED chain ELSE chain' = NoChain
    /\ UNCHANGED <<key, made, due, old, down, outages, leased, nodeVars, commands>>

Command ==
    \/ \E force \in BOOLEAN : Look(force)
    \/ Describe \/ Confirm \/ Decline \/ Delete \/ RemoveObject

\* A flush or a restore has written its snapshot and let go of something else.
LetGo == IF at \in {"flush", "writeBack"} /\ Written(snap) THEN {pend} \ {NoChain, snap} ELSE {}

Recorded ==
    /\ stored' = stored \cup ({chain'} \ {NoChain})
    /\ overtook' = overtook \cup LetGo
Beside(A) == A /\ UNCHANGED cmdVars /\ Recorded

Next == Beside(CopyNext) \/ (Command /\ Recorded)

Spec == CmdInit /\ [][Next]_vars

\* The node goes on with its ticks and its orders, an outage ends and a lease
\* expires.
Fairness ==
    /\ WF_vars(Beside(TickStep))
    /\ WF_vars(Beside(Store \/ StoreFails))
    /\ WF_vars(Beside(StorageReturns))
    /\ WF_vars(Beside(LeaseExpires))

LiveSpec == Spec /\ Fairness

-----------------------------------------------------------------------------
\* An unforced delete or clean removes a chain that can be served only if it
\* was stored after the command's own last look, or that look failed to read
\* it (Inventory.Delete: "a chain that was expired when listed may have been
\* renewed since").
RemovesOnlyUnservable ==
    [][CmdAt("remove") /\ chain # NoChain /\ chain' = NoChain /\ ~cmd.force /\ ~Expired(chain)
       => chain # cmd.look \/ cmd.unread]_vars

\* The local copy is a pair that storage has held: a chain that storage refused is
\* served and held, and never started from (certCache.confirmed).  The exception is
\* a chain that came to be held after the flush under way had made its snapshot:
\* flushOne then writes the one, lets go of the other and confirms that.
CopyWasStored == disk \in stored \cup overtook

\* The node does not go on serving its local copy while storage has a chain,
\* leader or not (supersedeLocalCopies).
CopySuperseded == []<>(~local \/ chain = NoChain)

\* The certificate served is for a key that has been replaced.
RetiredServed == mem # NoChain /\ mem.key # key
\* The bound on certificates stands in the way of an order.
NoMoreOrders == made = MaxChains /\ Due(mem)

\* A chain that was removed comes back: a leader writes back what it serves,
\* or orders when that is due.  A leader that serves a chain for a key since
\* replaced is the exception (restoreMissingChains).
RemovedComesBack == []<>(chain # NoChain \/ ~leads \/ RetiredServed \/ NoMoreOrders)
=============================================================================
