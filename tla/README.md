# go-certs-manager in TLA+

A cluster of identical processes keeps TLS certificates current through an ACME
CA and shares everything through one object store. One process at a time is
meant to lead (`isLeader`, supplied by the host application and not fenced);
only leaders order. This directory models the parts of that system where order,
failure and concurrency decide whether it is correct.

## The system

| Part | State | Operations | What makes it hard | Modules |
|---|---|---|---|---|
| Storage backends (`storage/`) | objects, ETags | create once, conditional put, put, remove | compare and rename are two calls | `ObjectStore`, `FsBackend` |
| Issuance lease (`lease.go`) | `locks/issue/<domain>` | acquire, take-over, release | expiry on wall clocks, crashes, writes that failed but were applied | `IssuanceMutex`, `IssueLease` |
| Key store (`keystore.go`) | `keys/<domain>`, `.next` | create once, stage, promote | two writes that are not atomic | `KeyCeremony` |
| Key-replacement ceremony (`scheduler.go`) | keys, chain, markers | replace, activate, roll forward | crash between any two steps; roll-forward takes no lock | `KeyCeremony` |
| DANE controller (`dane_controller.go`) | `dane/retiring/<host>` | mark, clean up, desired records | read-modify-write from two goroutines or two processes | `KeyCeremony` |
| Issuance (`manager.go`, `issuer.go`, `order_journal.go`) | the CA's orders, `orders/<domain>`, `certs/<domain>` | obtain, renew, resume, store | the CA charges before we have the certificate | `Issuance` |
| Challenge store (`challenge.go`) | answers in memory and storage, recent misses | put, get, delete | an answer must be visible everywhere before it is promised | `Challenges` |
| Retry budget (`retry_budget.go`), admin API (`adminapi/`) | failures and limits per name | allow, record, block, reset; renew | asked before the lease is held; lost answers | `Attempts` |
| Certificate cache (`cert_cache.go`) | memory, held chains | Store, hold, Refresh | memory and storage differ for a while | `Issuance`, `KeyCeremony`, `LocalCopy`, `OnDemand` |
| Maintenance loop (`scheduler.go`) | – | flush, supersede, restore, roll forward, renew, clean up, refresh | decides from memory, leadership changes under it | `Issuance`, `KeyCeremony`, `LocalCopy`, `OnDemand` |
| Local copy (`local_copy.go`) | one file per name on each node's disk | save, load, supersede | a node starts with it during an outage | `LocalCopy` |
| `certstore` | – | list, delete, clean | acts on an earlier look | `CertStore` |
| On-demand names (`ondemand.go`) | allow-set, certificate index, token bucket | refresh, publish, note, take | two processes publish, followers compare expiries | `AllowSet`, `OnDemand` |

The parts meet in storage and in each process's memory. The lease rests on the
store's conditional writes (`FsBackend` is proved to provide them), issuance and
ceremony on the lease (`IssueLease` is proved to provide mutual exclusion), and
the modules above take the layer below at its word.

## Modules

**ObjectStore** is what `storage/interface.go` promises: a request takes effect at
one instant with its precondition evaluated then, or fails with the precondition,
or fails without effect. **FsBackend** is the filesystem backend with one action
per file system call: `Link`, `Rename`, `PutIfMatch` (the lock), `Mismatch`,
`Match`, `RenameMatched`, `RemoveObject`, `Fails`, `Crash`. A file is the number
of its put, and its ETag stands for that number.

**IssueLease.** An `Attempt` is one call of `acquire` and the work under it. Its
`pc` follows the code: `create` (`tryCreate`), `stat`, `read`, `takeOver`,
`driving`, `release` (the releaser's read), `remove`. Each storage call is an
action and has a failing twin, and a failed write may have been applied. An ETag
stands for the record it was taken from. `Skew` is how far a process's clock
is ahead. `MaxHold` bounds the time from building the record to the end of the
release; `HoldsFitLease` says that this and the skew fit the TTL. In the code:
an order has 120 s, clearing the journal 5 s, the release 10 s, the TTL is 300 s.
**IssuanceMutex** is what it promises: at most one attempt drives an order.

**KeyCeremony.** A `Proc` is a goroutine, an operator's call or a maintenance
loop; every storage call is a step. Keys are generation numbers. A chain is the
key it is bound to and its order's number, which stands for its expiry.
`ReplaceStart`/`PutNext` are `ReplaceCertificateKey`; `ActivateStart` to
`RemoveNext` are `ActivateCertificateKey` with `markRetiring` and
`PromoteNextCertKey`; `ReconcileStart`/`LoadChain` enter the same steps as
`reconcileCeremony`; `RenewStart` is a forced renewal; `Flush*` is `flushOne`;
`Drop*` is `cleanupExpiredRetiring`. `RefreshChain`/`RefreshKey` are the two reads
of a `Refresh`, done by followers and by processes that serve nothing.
`SoakElapses` is the clock: `RetireAfter` is fixed when the marker is written and
passes whoever still serves the key. `ServedIsDesired` therefore speaks of keys whose
soak is not over, and `FollowersCatchUp` of how a process leaves a key at all.
`OneAtATime` and `OneLeader` select how much overlaps.

**Issuance.** One name with one key; a chain is its order's number. `Obtain`,
`RenewIfNeeded` and `RenewCertificate` are the three ways in;
`AcquireLease`, `Recheck`, `Decide` the rest of `issueWithKey` before the CA;
`ResumeOrder` to `ClearJournal` are `Issue`; `Store`/`StoreFails` end it;
`FlushHeld`, `RestoreMissing` and `Flush*` are the loop's writes. The CA knows an
order as new, valid (signed, charged) or gone. `GiveUp` is every early return
that changes nothing: a failed read, the retry budget, the deadline.

**Attempts.** One process's attempts for a hostname and its companion, each under
its own lock and both under the hostname's lease and budget. The order of
`issueWithKey` is kept: the budget is asked first, then the lease is taken. Time
is relative, so `Elapse` can go on for ever. The CA keeps its own account: the longest
wait it has named runs down with time and in no other way (`caLimit`). Two history
variables record where the budget parts from it: `streak`, the failures since the
budget was last cleared, and `lifted`, a wait that the budget has let go of. A `Client`
runs the admin command and runs it again when the exit code says that it failed;
answers may be lost (`NoAnswer`), or be somebody else's (`Unreadable`).

**Challenges.** One domain's authorizations. The driver of the attempt presents
an answer in its memory, mirrors it to storage, tells the CA and waits; the CA
asks any process; a process that finds nothing remembers the miss of an HTTP-01
token for a while, in a bounded table. A token is its authorization's number.

**LocalCopy** and **CertStore.** One node in detail, with its memory, its disk, the
shared chain and key, and its ticks step by step; peers are changes of storage.
Outages, restarts, elections, an operator's renewal and key replacement run
beside it. A flush works from the snapshot made when the tick began
(`FlushHeldChains`, `FlushSnapshot`), a restore from what it nominated
(`restoreMissingChains`, `WriteBack`). `CertStore` adds the operator's `delete` and
`clean`: look, wait for the confirmation, look again, remove, with nothing to exclude
a renewal.

**AllowSet** and **OnDemand.** `AllowSet` is the set of hostnames: the leader
enumerates and publishes, followers read, `store` forgets what has left.
`OnDemand` is what happens to the hostnames in it: each process's maintenance pass
with a worker per hostname, handshakes that issue in the background, the token
bucket, and the index of expiries. What happens under the issuance lease is one
step there, but for `hold`, which serves the chain and then marks it as pending
(`IssuedNotStored`, `Held`); `recordIssued` asks for pending and then for memory
(`RecordIssued`, `LeafNotAfter`), and the two pairs interleave. The DNS
pre-flight and the back-off after it appear as a refusal at the start of a worker;
a follower's remembered misses as a read that may not happen.

Each module also holds a few operators marked as slips: plausible mistakes, which
are not part of `Next` and exist to show that the properties notice them.

## Runs

| Run | Result | Shows |
|---|---|---|
| `lease` | pass | mutual exclusion, the record covers its holder, only expired records replaced, a release spares peers, refinement of `IssuanceMutex`, abandoned leases reclaimed |
| `filesystem` | pass | the file a conditional put replaces is the one it compared; refinement of `ObjectStore`; every call returns |
| `ceremony` | pass | served keys are among the desired records until their soak is over; digest on record before the key goes; only a late flush parts chain and key; interrupted ceremonies complete |
| `markers` | pass | within one process no unexpired marker is lost; processes that serve a replaced key come to serve another |
| `issuance` | pass | the stored chain never gets older; an outstanding order is never doubled; held chains reach storage, whatever runs beside the flush |
| `issuance_ticks` | pass | no order over a fresh chain; due certificates are renewed, deleted ones restored |
| `attempts` | pass | failures since the budget was cleared stay under the CA's limit; a wait the CA names is kept until the budget lets go of it; refusals lapse; a caller that retries gets one certificate, and one more per answer that was not the service's |
| `challenges` | pass | whoever is asked has the answer; leftovers are accounted for; a remembered miss does not prevent validation |
| `certstore` | pass | the local copy was stored and is superseded; an unforced removal spares what can be served; what was removed comes back |
| `allowset` | pass | a set that its leader has not noted as published is published, the empty one too; what left the set leaves the index |
| `ondemand` | pass | the index describes storage; renewals are not starved by first issuances; a late write is announced |
| `followers` | violated | a follower notes an expiry it has not read the chain for, and never reads it |

`followers` has no failing writes, handshakes, restarts or elections, and nothing fails
in its counterexample. The
follower finds the first chain announced and refreshes it; the leader, for which the
chain has come due, stores the next and publishes its expiry; the follower then reads
the index again in `noteRefreshed` and notes the new expiry (`ondemand.go:450`). To
`changedSince` the hostname is current from then on.

**Exceptions in the properties.** Some properties hold only with a reservation, and
each is a behaviour to know about:

- `ServedIsDesired`: not once the soak of a key that is still served has run out.
- `OnlyFlushUnpairs`: a flush may write a chain for a key that has been replaced.
- `FollowersCatchUp`: not if the process is elected before it has refreshed.
- `HeldReachesStorage`: a flush lets go of a chain that came to be held after its
  snapshot (`Overtaken`).
- `CopyWasStored`: that same chain is confirmed and saved by the flush (`overtook`).
- `UnderCALimit`: counted since the budget was last cleared; the CA forgets nothing when
  a companion's success, or a flush, clears it.
- `LimitHonoured`: not once a success or a flush has cleared the budget, or the CA has
  named a shorter wait, which replaces the longer one (`lifted`).
- `OneCertificatePerCaller`: an answer that is not the service's exits as a failure,
  and running the command again may spend another order.
- `IndexDescribesStorage`: not for a chain that a handshake comes to hold while a
  worker of the same process is in `recordIssued` (`crossed`).
- `LateWriteAnnounced`: only if failed writes do not land (`Landing = FALSE`).
- `ChangePublished`: not after a write that failed, and not for a leader that comes
  back, after a peer has published another set, to the one it noted itself.
- `IndexForgets`: not on a follower that finds no published set.
- `RemovesOnlyUnservable`: a chain stored after the command's last look, or one that
  could not be read for a moment, is removed.
- `RemovedComesBack`: not while the leader serves a chain for a replaced key.

**Bounds.** Two processes: every hazard found is between two. In `lease`, TTL 4, hold
1 and time 7 leave room for a lease to be taken, abandoned, expire and be fought
over. In `ceremony`, three keys allow a second replacement inside the first one's
soak, and one fault a crash or a handover between any two steps. In `markers` all
goroutines run in one process, since that is what the mutex is for; the other one
follows, and nothing crashes. In `issuance`, four orders and two faults allow a lost
order, its collection, and another; in `issuance_ticks`, five orders cover the
initial one, two renewals and one wasted order per fault, so the bound on orders
never stops progress. In `attempts`, a budget of 2 in a window of 2 and a limit of 4
leave exactly the room that one companion past `allow` needs; waits of 1 and 2 let a
shorter one replace a longer, and one unreadable answer lets the caller run the
command after a success. In `challenges`, three tokens and a table of two overflow
the table, and two faults allow a leftover and a second one on top. In `certstore`,
three chains and two keys allow a renewal and a replacement during one outage with
one restart or election. In `filesystem`, four requests allow two conditional puts, a
removal and a plain put to overlap. In `ondemand`, one token, one due chain and three
orders let first issuances exhaust the budget before the renewal; in `followers`, two
orders are the first chain and its renewal. In `allowset`, two changes, two elections
and one restart let a leader come back to a set it published before. Deadlock is not
checked where bounds used up, or all processes down, stop the system: `lease`,
`ceremony`, `markers`, `issuance`, `issuance_ticks`, `challenges`, `followers`.

**Fairness.** Storage and CA calls have deadlines, so a started operation
proceeds (weak fairness), and the loops tick for ever. What a loop is able to
start only now and then it starts at some point (strong fairness): the
roll-forward, the leader's enumeration, a goroutine's turn at a mutex. "Storage
and the CA at some point stop refusing" is stated as such: without it nothing can
be promised. `attempts` assumes only that time passes. In `ondemand` the budget
need never refill. `lease` also assumes one process that keeps running.

## Proofs

All theorems hold for any values of the constants. Between them they state every
safety property that a run checks; where one needs a hypothesis beyond the named
assumptions of its module, the paragraph gives it.

`IssueLeaseProofs`: `TypeCorrect`; and, when holds fit the lease (`HoldsFitLease`),
`AtMostOneHolder`, `HolderCovered`, `ReplacesOnlyExpired`, `ReleaseDeletesOwn` and
`LeaseImplementsMutex`. They rest on `LeaseAssumption` (constants have their types).
`MutualExclusion` is not inductive: an attempt about to take over knows nothing
of holders. `IInv` adds four facts. A holder's record is the one in storage
(`HolderOwns`). A holder is still within its hold (`MeetsDeadline`). An attempt
about to take over has an ETag of an expired record (`TakesExpired`), hence not of
a holder's, whose record is unexpired on every clock. An attempt that reads after
its ETag was taken finds either that record or one too young to be expired
(`FreshReadsFresh`), which is why the order of stat and read matters. The writes
of `tryCreate` and `takeOver` then find the lease free.

`FsBackendProofs`: `SwapIsAtomic` and `FsImplementsStore`, from `FsAssumption` (keys
written with IfMatch are never put plainly). The invariant adds that a call at a
step of the conditional put is on such a key (`InOrder`) and holds the mutex from
the compare to the rename (`Locked`). Then nothing can touch the object compared:
a link finds it there, a plain rename is for other keys, another conditional put
and a removal wait. Each publishing call maps to one step of `ObjectStore`, every
other step to a stutter.

`CertStoreProofs`: `CopyIsFromStorage` and `RemovalsJustified`. The first needs that
what is served was stored, is held, or was let go of by a flush of an older chain
(`Served`), that what the superseding read got was stored (`Read`), and that a flush
or a restore has a chain to write and one is served (`Snapped`); the second that a
command about to remove was forced, failed to read, or saw an expired chain
(`LookHolds`), which stays expired.

`ChallengesProofs`: `EveryProcessAnswers` and `AnswersAreRemoved`. The invariant says
that from the mirror to the removal the answer is in storage (`Shared`), that
memory holds only the driver's own answer (`OwnAnswer`), so a peer's memory never
shadows it, and that an attempt past its choice has one (`Chosen`). The count of
leftovers is then an induction over steps that add or take one.

`IssuanceProofs`: `NeverOlderHolds` and `OutstandingCollectedHolds`, from
`IssuanceAssumption` (constants have their types, and at least one order may be
placed). The invariant says that the lease has one holder (`OneHolder`); that
orders are numbered as they are placed and whatever is stored, served, held or in
hand was placed (`InSequence`, `AllKnown`); that an order in hand, and an order on
record that the CA still honours, is the last one placed (`HandIsLast`,
`JournalIsLast`); that an attempt about to place has found nothing open
(`PlacesAlone`); and that a flush about to write has a newer chain than storage
(`WritesNewer`). What an attempt stores is then at least as new as anything else.
`FreshNotReorderedHolds` is for processes in which one goroutine reads storage into
memory (`OneReader`): from `Recheck` to `Decide` memory then has what storage has or
storage is empty, and an attempt past `Decide` that nobody forced has a chain that is
due (`FreshInv`); peers cannot store in between, since it holds the lease.
That hypothesis is the one of the `issuance_ticks` run, with any number of processes,
and it cannot be dropped: the table below has the counterexample.
`HeldReachesStorageHolds` has no hypothesis: an attempt has the last order in hand, so
what it stores or holds is at least as new as what was held, and a flush that lets go of
a chain either had it in its snapshot or has been overtaken.

`KeyCeremonyProofs`, from `CeremonyAssumption`. `TypeCorrect` has no further hypothesis:
it holds with operations that overlap and several believed leaders. It needs that a
goroutine at a step has in hand the key or the chain that the step writes
(`AllEquipped`), and that what processes serve, hold and have seen are chains
(`Cached`), since a failed load or a crash could otherwise have left a step with
nothing. `MarkersKeptInOneProcess` needs only
that all goroutines run in one process (`OneProcess`): between reading the list and
writing it one goroutine holds the mutex, and what it will write has every marker
that has not elapsed (`MarkerInv`). `ServedIsDesiredHolds`,
`RetiredBeforeReplacedHolds` and `OnlyFlushUnpairsHolds` are for one operation at a
time (`OneAtATime`), with any number of processes, believed leaders, crashes and
failed writes. A goroutine at work is then alone (`Alone`) and what it has read is
still so (`Sound`): the key in hand is the live or the staged one, from the mark to
the promotion the stored chain is for the staged key, and once marked the live
key's digest stays on record, because the cleanup is an operation too. What is served
or held is then for a key that is to be published or whose soak is over (`Served`).
They are not claimed for operations that overlap; the table below has what happens.

`AttemptsProofs`: `OneCertificateHolds` and `LimitHonouredHolds`, from
`AttemptsAssumption` (no caller, name or exit code is `None`, and there are
finitely many names, besides types). An
attempt made for a caller has its request in the service (`OwnAttempt`); before a
request is answered, or when it is answered as failed, what its caller has obtained is
accounted for by answers it could not read (`Truthful`); and so it is for a caller that
may run the command again (`RunsAgainWithNothing`). For the second, a wait that nothing
has lifted is one that the attempt told of it has yet to record, or the budget blocks
for at least as long and whoever is past `allow` is late (`LimitInv`).
`BudgetCoversCA` and `UnderCALimitHolds` compare the budget's window with the CA's. Both
prune what is too old, but they do not hold the same failures: the CA counts one before
the attempt records it, and only one under the lease can be in that state. `Covers` says
that, matched from the newest, each failure the CA has counted since the budget was
last cleared has one in the budget that leaves the window no sooner. Ageing, and
appending to both in turn, keep that; a clearing starts a new count.
The budget admits an attempt while it has fewer than `MaxRetries`, and every name may
have one past that check, so that count stays below `MaxRetries + Cardinality(Name)`.
The theorem assumes that this is within `CALimit`, which it is for the default of 3, a
hostname with its companion and Let's Encrypt's 5, and not for a larger
`MaxRetriesPerHour`. That pruning removes a prefix of an ascending sequence is shown
with the least number of a set, which needs no induction over an operator, and that
attempts past the check can be counted is why `Name` is assumed finite.

`OnDemandProofs`: `IndexDescribesStorageHolds`, for any number of hostnames and
whether or not failed writes land. Memory is ahead of storage only for a chain that is
held, or that `hold` is about to mark while the lease is still taken, and that is the
last one ordered (`Backed`). A worker that finds nothing pending therefore reads from
memory a chain of storage or one in `crossed`, and so it stays until the worker has its
expiry (`Reading`). Storage only gets newer and `crossed` only grows, so the index, its
copies and the write in flight stay sound (`Truthful`). `TypeCorrect` adds where each
pass, worker and handshake can be (`Control`).

Only model-checked: liveness (`Reclaimed`, `CallsReturn`, `CeremonyCompletes`,
`FollowersCatchUp`, `DueIsRenewed`, `MissingIsRestored`, `RefusalLapses`,
`ValidatedInTheEnd`, `CopySuperseded`, `RemovedComesBack`, `IndexForgets`,
`ChangePublished`, `RenewedDespiteBudget`, `LateWriteAnnounced`), which is beyond
this prover. `AllowSet` has liveness properties alone and so no theorem.

## Other disagreements between code and documents

These have no run of their own. Each can be seen by checking the formula on the
configuration named, with its other properties taken out.

| Formula | Configuration | What happens | What is said |
|---|---|---|---|
| `chain.key \in {live, next}` | `MCKeyCeremony.cfg`; `MCKeyMarkers.cfg` | a held chain for the old key is flushed over the new key's (`scheduler.go:557`); or a roll-forward overtakes a forced renewal, with no failure | a mismatch "self-heals" (`INTEGRATION.md:241`) |
| `next = live => \E p \in Proc : proc[p] # Idle` | `MCKeyCeremony.cfg` | a staged key that outlives its promotion is handed to the next ceremony (`keystore.go:151`) | a replacement "stages a NEW key" (`scheduler.go:733`) |
| `MarkersKept` | `MCKeyCeremony.cfg` with `OneLeader` and `OneAtATime` FALSE | two believed leaders lose a marker (`dane_controller.go:174`) | "Same process is the whole of it" (`dane_controller.go:171`) |
| `FollowersCatchUp` without its exception for leaders | `MCKeyCeremony.cfg` | a process elected before it has refreshed keeps the retired key's certificate (`scheduler.go:109`) | the soak is "long enough for lagging nodes" (`manager.go:265`) |
| `mem[n].key \in Desired` for every process that serves | `MCKeyCeremony.cfg` | the soak of a key runs out on the clock while a process still serves it: the promotion is slow, or the process was elected before it refreshed (`dane_controller.go:186`, `scheduler.go:109`) | the soak is "long enough for lagging nodes" (`manager.go:265`) |
| `HeldReachesStorage` without `Overtaken` | `MCIssuance.cfg` | a flush drops a newer held chain than the one it wrote (`scheduler.go:612`) | a held chain "reaches storage as soon as storage recovers" (`cert_cache.go:166`) |
| `disk \in stored` | `MCCertStore.cfg` | the same flush confirms what is served, the chain it has just dropped, and saves it (`scheduler.go:613`) | "A file is written only after storage confirmed what it holds" (`local_copy.go:38`) |
| every order that is valid is in storage, in the journal, in memory or in an attempt | `MCIssuance.cfg` | a crash between clearing the journal and storing loses the chain (`issuer.go:149`) | such an order is "collected on the next attempt" (`README.md:334`) |
| a renewal that ends well has `chain' > chain` | `MCIssuance.cfg` | a journal entry that could not be cleared is collected again (`issuer.go:244`) | a forced renewal "ALWAYS drives a new order" (`manager.go:966`) |
| `FreshNotReordered` | `MCIssuance.cfg` without the operator | a handshake's slow read between `Recheck` and `Decide` leads to an order over a fresh chain | – |
| `LimitHonoured` without `lifted` | `MCAttempts.cfg` | a companion's success or a flush clears the wait, or a shorter one replaces it (`retry_budget.go:55`, `:95`) | "the `Retry-After` the CA names is honoured across attempts" (`README.md:338`) |
| `UnderCALimit` with a `Cleared` that keeps `streak` | `MCAttempts.cfg` | the CA still counts failures that a success has cleared from the budget (`retry_budget.go:95`) | "the budget maps directly onto the CA's own accounting" (`retry_budget.go:13`) |
| `caller[c].got <= 1` for every caller | `MCAttempts.cfg` | a proxy's error page in the service's place exits as a failure while the request runs on (`adminapi/renew.go:279`) | "the one outcome that must never be retried needs a code of its own" (`adminapi/renew.go:51`) |
| `certIndex[h] <= chain[h]` for every hostname | `MCOnDemand.cfg` | a handshake's `hold` has served the chain and not yet marked it when a worker asks `isPending` (`scheduler.go:399`, `cert_cache.go:169`) | a held chain "is the one entry it must never carry" (`scheduler.go:393`) |
| `ChangePublished` without `published[n] # s` | `MCAllowSet.cfg` | a leader that comes back to the set it noted in an earlier term does not write it over its peer's (`ondemand.go:277`) | – |
| `ChangePublished` for every process | `MCAllowSet.cfg` | a set whose write failed is not written again while it stays the same (`ondemand.go:278`) | – |

If work outlasts the lease, the release can delete a peer's (`HoldsFitLease`
excludes it; the repository's README says so too).

## Plan

1. Composition: the journal with two keys (a ceremony beside a renewal).
2. Weaker hypotheses for `ServedIsDesiredHolds`: which operations may overlap.
3. Companions in the maintenance pass; first keys and account keys.

## Not modelled

- The S3 backend: its conditions are evaluated by the server, so it is the
  interface's promise by another name. The listing of objects and the probe of
  storage at start read and report.
- The filesystem backend shared by two processes, and puts of one key within one
  tick of the file system's clock.
- DNS lookups, record encoding, naming, and file reading (`file_provider.go`):
  input/output or pure conversions. The drift alarm and the issuance gate read DNS
  and change nothing here.
- RSA companions outside `Attempts`: they repeat the primary's steps under their own
  name and the same lease.
- The creation of account keys and of a name's first key; loss of a live key, which
  no operation of the program causes.
- Several hostnames on demand at once: they share the index object and the budget;
  `OnDemand` is checked with one, and `IndexDescribesStorage` proved for any number.
