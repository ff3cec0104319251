# go-adpwsh in TLA+

go-adpwsh drives Active Directory from Go by running constant PowerShell scripts
on a Windows host.  There is no transaction, no compare-and-swap and, most of the
time, no way to know whether a script whose answer was lost has run.  What the
library promises all the same (no doubled write, read-back after write, serialized
writes, verified deletes, honest replication errors) rests on a few concurrent
mechanisms.  These modules model those mechanisms, TLC checks them on small
instances, and TLAPS proves the most important results for every size.

All source paths below are relative to the repository.  `PROJECT.json` maps every
definition to its lines.

## The system

    caller ── OUClient, UserClient, ... ── core.exec ── Transport.Run ── pwsh ── domain controller
              keyed lock, read, payload    retry,        warm pool, or       script,     replication
              (ou.go, user.go, ...)        classify      one process         cmdlet by   to the others
                                           (core.go)     per call            cmdlet

| Component | State it keeps | Operations | Interacts through | What is hard, and what makes it correct |
|---|---|---|---|---|
| `Transport` (transport.go) | none | `Run` | the interface every transport keeps | an error must say whether the script may have run: `KindTransient` only if it did not |
| warm pool (internal/warm) | idle conns in a channel, each with an executor, `up`, `lastUsed`; reaper; `closeOnce` | `Run`, the reaper's sweep, `Close` | channel receives and sends; `Executor` calls | Runs, sweeps and Close share conns; a dead shell is rebuilt and the script sent once more; conns are exclusive, shells do not leak, nothing is doubled |
| psrun and winrm executors | an open runspace or client | `Connect`, `Execute`, `Close`, the classifiers | called by the pool | which failures are certain to precede execution |
| WinRM failover (transport/winrm) | negative cache and rotation counter, shared by the pool | `Connect` | mutex per look-up; one `Connect` per conn | conns mark and clear endpoints under each other's feet; a healthy endpoint is found in the end |
| `core` (core.go, envelope.go, errors.go) | none across calls | `exec`, `probeDeleted`, `annotateAlreadyExists` | one `Run` after the other | one answer stands for a write and its read-back; retry, refusal and success must match what was done |
| object clients (ou.go, group.go, user.go, computer.go, serviceaccount.go) | the keyed mutex they share | `Create`, `Get`, `Search`, `Update`, `Delete`, members, password | `core.exec`; the mutex | read, then write what the read calls for; partial failures of a multi-cmdlet script; several names of one object |
| replication wait (replication.go) | none across calls | `replicate` | execs on the pinned server | answers spread over time, a deadline, failed polls |
| ACL client | the keyed mutex | `Get`, `Grant`, `Revoke` | `core.exec` | key equality of ACEs, whatever the order of their rights |
| local transport | semaphore, child processes, temporary scripts | `Run` | OS processes | context, kill and completion race; the child is reaped on every path, and the removal of the file tried |
| WinRM cold transport | semaphore, one shell per `Run` | `Run` | SOAP requests | a request may fail after it was carried out; the shell is closed, and only what cannot have run is transient |
| SSH transport | semaphore, one client all `Run`s share, temporary scripts | `Run`, `Close` | a mutex around the client | `reset` closes the client others use; redial, retry of the upload and of the session, clean-up |
| schema resolution | none | `Resolve` | `core.exec` | none of the properties below |
| oop adapter and framer | packet queue, wake-up channel | `Read`, `Write`, `Close` | reader goroutine | lost wake-ups, chunking |
| fake directory (transport/fake) | objects, members, ACEs, passwords | one handler per op | a lock around each request | scans over a Go map, so any of several answers; long legal sequences of requests |
| adschema | the class graph | `Resolve`, `Build` | none | closure over diamonds |

Go's scheduler, the domain controllers and the callers all act between any two
steps of these components; the hazards that follow are listed, at their lines,
under `hazards` in `PROJECT.json`, with the properties that cover them.

## The modules

| Module | Models | Composition |
|---|---|---|
| `TransportContract` | transport.go: what one `Run` promises | the abstract specification |
| `WarmPool` | internal/warm, over internal/psrun or transport/winrm | implements `TransportContract` (`ContractSpec`) |
| `CoreExec` | core.go, envelope.go, errors.go under a `Create` | uses `TransportContract` for its transport |
| `OuClient` | ou.go's `Update` and `Delete` with ou_update.ps1 and ou_delete.ps1 | beside `CoreExec`, which has `Create` |
| `Replication` | replication.go, config.go | the wait after a `Create` or an `Update` |
| `Failover` | transport/winrm/failover.go | the `Connect` of a WinRM conn in the pool |
| `Directory` | transport/fake: directory.go, filter.go | the handlers as operators, under `Accounts` |
| `Accounts` | ou.go, group.go, user.go, computer.go, serviceaccount.go, acl_client.go, cmdletvalues.go | every operation of every sub-client, several at once, over `Directory` |
| `Membership` | what calls promise of the members of groups | the abstract specification `Accounts` implements (`MembershipSpec`) |
| `OneShot` | what transport/local, ssh and winrm's cold.go share | extended by the three below |
| `LocalTransport`, `ColdTransport`, `SSHTransport` | transport/local; winrm/cold.go and coldexec.go; transport/ssh | one module each |
| `Transports` | `Run` of any one of the three | implements `TransportContract` (`ContractSpec`) |
| `MC...` | | symmetry, lists and jobs for TLC |
| `...Proofs`, `WarmPoolOwnership` | | the theorems |

`TransportContract` is the joint of the project.  A run has an outcome and a count
of the times its script took effect.  An effect happens at most once.  `ok` is a
Result with the script's answer, and only comes after the effect.  `bare` is a Result
without one: PowerShell never started, or died, and Run reports an exit code and no
error all the same; the effect may have happened or not, but will not any more, and
`core.exec` takes it for a `KindTransport`, since there is no envelope in it.  Once a
run has ended `transient` its script never takes effect; `transport` says nothing.
`WarmPool` and `Transports`,
which are all of the library's transports, are shown to keep it, and `CoreExec`
assumes no more than it.

**WarmPool.** `idle` is the buffered channel, a sequence; whoever receives a conn
owns it, so `conn.mu` is never contended and is left out.  A call of `Run` goes
through `Checkout`, `Connect`, the phases of `Execute` (create the pipeline,
invoke, wait), `Triage`, `Invalidate`, one retry and `ReturnConn`, the deferred
send.  The reaper has a sweep with a bounded number of visits; `Close` stops the
reaper, then receives every conn.  `shell` is what became of each executor's
process, `sent` and `applied` the copies of a call's script on the server.
`Backend` selects the classifier: psrun's never answers `KindTransient` for a
failed `Execute` and calls a failure before the script was sent a dead shell;
go-psrp's raises busy sentinels, its `Execute` stops with its context and its
closed client cannot connect again.  Shells die, time passes and callers give up
at any moment.

**CoreExec.** One call makes at most `MaxAttempts` attempts of the create and,
after an `AlreadyExists`, of the deleted-object probe.  The script runs some time
after it was handed to the transport, even after `Run` has returned an error.
Its answers are the ones `Classify` tells apart, and an envelope that was lost
or garbled on the way is `KindTransport` whatever the script did.  Other clients
create and delete objects of the same names; a deleted account keeps its
sAMAccountName, a deleted OU does not keep its RDN (`tombsBlock`).

**OuClient.** One OU, several calls, each named by GUID or by DN.  `holder` is the
keyed mutex, `todo` the cmdlets a script has yet to run.  Every cmdlet is a step:
it may succeed, be refused, fail without effect, or lose the DC after its effect.
`Abandon` is a transport that gives up: the lock is released while the script
may go on.  The payload is decided from the read (`current`), as in the code.

**Replication.** The steps of `replicate` between its execs, and every target's
answer of a poll as a step of its own, while the object travels.  Time is a
counter up to `Horizon = Timeout + PollInterval`; later, nothing new can happen.

**Failover.** A `Connect` looks endpoints up in the negative cache one by one,
then probes its list; marks and clears of other conns fall in between.  Cooling
down is counted in ticks.

**Directory** is the in-memory directory the library is tested on.  A handler runs
under one mutex, so it is an operator: from the directory and a request, the set of
responses it may give, each with the directory after it.  `find` and the scans
range over a Go map, whose order is arbitrary, hence the set.  Objects have a
class, a name, a container (so that a DN is computed, not stored as text), a
sAMAccountName of a base and, for computers and gMSAs, `"$"`, members by GUID, a
DACL and a deleted flag.  `Texts` are the values of attributes (`STRING` for TLC);
`Objects` and the assumptions `TextsAssumption` and `NoneAssumption` say what the
proofs need of them.

**Accounts.**  A call is `Lock` (for writes), `Get`, and one request after the
other; between any two requests the other calls have theirs.  What it sends is
decided from what it has read, as in the code: the diffed fields, the rename, the
move, the protection to lift.  A refused create goes on to look for a tombstone; a
search asks for one row more than its limit; deletes go by the GUID that was read.
`Requests` is what a caller can ask once validation has passed, with a
sAMAccountName without `$` (serviceaccount.go:198: the configured one never has it);
`JobsAssumption` and `SeedsAssumption` hold the jobs and the directories to that,
and to objects that are numbered as they were created.

**Membership.**  The abstract specification has the edges between groups and members
that are both there, and of each call what it is `doing`, the objects its group (or
what it deletes) may stand for and the objects each member it names may stand for.
`Add`, `Remove` and `Vanish` are the only steps that change edges; each is the step in
which an AddMembers, a RemoveMembers or a Delete answers without an error, and it
makes, breaks or takes away what that call was asked for, all of it and nothing else.
Every other step of any call is `Quiet`: a call that fails, that reads, creates,
renames or updates, or that finds nothing to remove (`Missed`), leaves the edges as
they are.  `Accounts` gives these variables by `Edges`, `Doing`, `Targets` and
`Candidates`.

**OneShot, LocalTransport, ColdTransport, SSHTransport.**  A Run acquires a slot of
the semaphore, starts one PowerShell process, and returns.  `proc` is what became
of the process: `blocked` until its input is complete, `fed`, `working`, then
`exited` with the script's answer, `died` by itself, or `dead` because it was killed.
It may die at any point, before it has read its script as well (pwsh is not on the
host, the child is killed at its start); `exited` and `died` are both a Result
(local.go:119, ssh.go:306, coldexec.go:232).  `file` and `shell` are what the Run has
left on the host: a file is `stuck` where its removal was tried and failed, which
nobody looks at (local.go:73, ssh.go:250-260), and `left` where none was tried.  A
script takes effect when PowerShell sets to work on it.  Over WinRM each request may be carried out and fail all the
same.  Over SSH the connections are numbered in the order of their dials; `client`
is the one the transport has, `conn` the one in a Run's local variable, `session`
the one its channel is on, and `lost` the ones that `reset`, `Close` or the network
has ended.

## The runs

| Run | Instance | Shows |
|---|---|---|
| `pool_safety` | 2 calls, 2 conns, 3 executors, psrun | conns are in one place and never lost, no shell leaks, closed means released, at most one copy of a script, no shell closed under a call or reaped while in use, the contract |
| `pool_live` | 2 calls, 1 conn, 1 executor, WinRM | `Close` returns, calls are served, cancelled calls return |
| `exec` | 1 call, 2 names, 3 attempts | reports are truthful, a lost answer ends the call, the call returns |
| `exec_readback` | 1 call, 1 name, 2 attempts | violation: a create whose read-back lost its DC is sent again |
| `ou` | 2 calls by GUID, 2 names, 2 containers, 2 attempts | an Update returns what was asked, no update is lost, no Update denies itself, Delete is verified, locks are released |
| `ou_lost_update` | 2 calls, GUID and DN | violation: two names of one OU are two locks |
| `ou_dn` | 1 call by DN | violation: the script loses the OU it has renamed |
| `replication_wait` | 3 servers, timeout 3, interval 2, all configurations | nil and `KindReplication` mean what they say; the wait ends |
| `replication_model` | the same | violation: other errors come beside a model too |
| `failover` | 2 conns, 2 endpoints, cooldown 2, both strategies | the cache never replaces an attempt; a healthy endpoint is found |
| `accounts` | 2 calls out of about fifty jobs and a deleter, 2 directories | memberships change only in the call that asks for it and as it asks, recursive reads are exact, searches are never cut silently, created names are unique, refused creates are explained, Updates converge, Deletes delete what they read |
| `transports` | 2 Runs of one of the three transports, 3 SSH connections | the contract, clean-up, no lost connection, every Run returns |

**Why these bounds are enough.**  Two calls and two conns give every contention
in the pool: a conn changing hands, a conn idle while the other works, a sweep
that meets a returning conn.  The third executor makes a rebuild succeed and the
next one fail.  With one conn and one executor in `pool_live`, each call needs
what the other holds and no rebuild ever succeeds, the worst case for progress.
Three attempts give `exec` a first, a middle and a last one; two names let other
clients interfere with the call's own name and with another.  Two calls on one OU are
the smallest lost update; two names, two containers and both protections let an
update change each, leave it or change it back.  One description is enough: it is
written only when a spec asks for it and no decision depends on it, so the field
an update can lose is the protection.  Three servers give a source and two targets that differ; a
timeout of 3 and an interval of 2 put polls before, at and after the deadline.
Two endpoints and two conns let each conn mark what the other is about to look
up, and a cooldown of two ticks lets a mark expire between them.
In `accounts` a conflict needs two calls, one that acts between two requests of the
other; the third, which deletes by a name, makes room for a second use of that
name in between.  The jobs take every operation, and for each the spec that changes
something, the one that changes nothing and the one that collides.  The two
directories have what is hard to answer: groups in a cycle and by two paths,
members that are deleted or of any class, tombstones of users, computers, groups
and OUs, names used by two classes.  `MaxObjects` of 9 leaves room for every create
of the two calls.  In `transports`, two Runs over SSH share a client, so that each
resets what the other uses; three connections let a Run dial again after either
reset.  The SSH semaphore has two slots, the others one, so that Runs also wait.

**Fairness.**  Liveness rests on what the code's environment guarantees.
`pool_live`: each goroutine is scheduled, dials and executes end (they have
timeouts), and a goroutine that waits in a channel's receive queue is served when
conns keep coming; Go's queue is first come first served, hence strong fairness
of the receives.  `exec`: `Transport.Run` returns and timers fire.
`replication_wait`: execs end and the clock runs; nothing is assumed of the
replication itself.  `failover`: probes end within `connectBudget`, calls keep
needing the conn, the clock runs.  Contexts, shells, hosts and other clients are
never assumed to do anything.  `transports`: a Run that waits gets its slot if one
stays free (each other Run can take it once before); requests are answered or
fail, local calls return, timers fire.  The local and the SSH Run have a timer that
does what the end of the context does, so their contexts need no state of their own.  A WinRM cold Run has no timer of its own
and waits for its script as long as the caller's context lets it, so `RunReturns`
asks for its return only once the context is done.  `HealthyEndpointFound` has premises of its own:
one host stays up from some moment on and contexts stop ending early; without
the first there is nothing to find, without the second no probe need succeed.

Deadlock is checked in `failover` and in `accounts`, whose last state may stutter
(`AllReturned`) so that a call stuck on a lock would show.  In the other modules
every call is made once, and a run that is over is a state without a successor;
liveness properties, where stated, catch a call that is stuck.

## The proofs

The proofs hold for every value of the constants under the named assumptions of
the modules (non-empty lists, positive times and attempts, `None` apart from the
values).  Each rests on an inductive invariant, which TLC has also checked.

- `WarmPoolProofs`.  `TypeCorrect` adds to the types that a call holds a conn
  exactly between its checkout and its return.  `SentAtMostOnce` (`AtMostOnce`)
  and `RunKeepsContract` (`ContractSpec`, a refinement) need to know *where* a
  call may be with a script on the server: `EffectOf` says that nothing has been
  sent before `Invoke`, and that the two errors that lead to a retry or to
  `KindTransient` are only raised before it.  `NoShellEverLeaks` needs that no two
  conns share an executor and that a conn that is not up has no open shell.
- `CoreExecProofs`.  `TypeCorrect`, `ReportsAreTruthful` (`ReportIsTruthful`) and
  `NoAttemptAfterLostAnswer` (`LostAnswerEndsCall`).  The invariant adds what the
  contract makes of each attempt (`Contract`), that all attempts before the
  current one failed transiently (`Sequence`), and that after a refusal no
  attempt is left that could still write (`Verdict`): a script the transport lost
  sight of may run at any later time, so the property alone is not inductive.
- `WarmPoolOwnership`.  `ConnsAreExclusive` (`ExclusiveConns`): the invariant
  `OwnInv` gives every conn exactly one place, and the five steps that move a conn
  take it from one place to another (`Receive` and `SendBack` are the channel).
  With it, `ShellsStayOpenUnderRuns` (`NoCloseUnderRun`): whoever closes a shell
  owns its conn, so it is no other Run's.  `ReapsOnlyUnused` (`ReapOnlyUnused`)
  adds that what the tick took for unused is still unused (`DueInv`), and
  `CloseReleasesAll` (`ClosedMeansReleased`) what Close has done so far
  (`CloseInv`): a drained conn has no open shell and gets none.
- `OuClientProofs`.  `LocksInOrder` (`LockedByItsCall`), `DeletesAreVerified`
  (`DeleteVerified`) and `TypeCorrect`.  A Delete's `ok` can only come from the
  re-read, because what is left of its script always ends with it
  (`VerifiedScripts`), and an OU that is gone does not come back.  The types need
  that a script only has cmdlets its job may ask for (`Allowed`), since `set` writes
  the description whether or not the spec has one.
  `UpdatesAgree` (`UpdateAgrees`), `NeverDeniesItself` (`NeverSelfDenied`) and
  `NoUpdateIsLost` (`NoLostUpdate`) have the hypothesis that callers name the OU by
  its GUID (`Forms = {"guid"}`).  With both forms `NoLostUpdate` is false, which is
  what `ou_lost_update` shows; with DNs alone the other two are, because a rename in
  the middle of a script gives the OU a DN whose lock another call can get.  `SerialInv` follows a script cmdlet by cmdlet: what has
  been executed is what the spec asked for, what is left is in the order of the
  ranks (`Progress`), and what an Update that has returned has set stays until
  another Update asks for something else (`Kept`).  It holds while no script is
  left behind by its caller; a script that runs on after `Abandon` may write in any
  later call.
- `ReplicationProofs`.  `TypeCorrect`, `NilIsTrue` (`NilMeansReplicated`) and
  `TimeoutIsTrue` (`TimeoutIsHonest`): objects do not disappear from a server, so
  what a poll has found stays true until it is judged (`PollIsTrue`).
- `FailoverProofs`.  `FailsOnlyAfterTrying` (`AlwaysTries`) and `TypeCorrect`:
  without candidates, what has been tried and what is left of the list are together
  all endpoints (`ProbesAll`), since a rotation of the list loses none
  (`RotatedFacts`).
- `TransportsProofs`, for the three transports together.  `TypeCorrect`,
  `RunKeepsContract` (`ContractSpec`) and `RunCleansUp` (`NothingLeftBehind`).  The
  invariant says which connection can be alive (`OneConnection`: only the one the
  transport has, since every step that forgets a client ends its connection), what
  the place of a Run tells of its effect (`Effects`: nothing before its process has
  been fed; `transient` is decided only where it has not, an answer only where the
  process has worked, a Result only where it is over), and what each place still has to
  clean up (`Tidy`).  `NothingLeftBehind` cannot say that nothing stays on the host,
  because a failed removal is swallowed: it says that every path tries, but for the SSH
  Run whose redial failed, which has run nothing and returns an error.  None of the three properties is inductive without
  `Effects`, because what a Run returns is decided steps before it returns.

- `AccountsProofs`, for any calls, jobs, filters and directories.  First what each
  handler may answer: an Update, a deletion, a change of members, of a password or
  of an access control list replaces one object it finds and says in which fields
  (`UpdateResponse`, `DeleteResponse`, ...), a create refuses or adds one object of
  fresh names (`CreateResponse`).  Then the steps, sorted twice: by what they do to
  the directory (nothing, `Made`, `Overwritten`) and by what they do to their call
  (`Began`, `GotLock`, `HasRead`, `WasRefused`, `Ended`).  From this and `Typed`
  follow the action properties: `SearchesAreComplete` (`SearchIsComplete`),
  `CreatesAreUnique` (`CreateIsUnique`), `TombstonesAreNamed` (`TombstoneNamed`),
  `DeletesOnlyWhatItRead` (`DeletesWhatItRead`), and the refinement
  `MembershipIsKept` (`MembershipSpec`), which goes through the steps of a call: each
  moves what that call is doing and no other's (`DoingStep`), a request that wrote
  members answers without an error and wrote exactly the named ones (`MembersWritten`,
  `EdgesChanged`), and one that failed wrote nothing (`RequestPromised`).  `LockedInvariance` is mutual exclusion
  per identity text.
  `TypeInvariance` (`TypeOK`) and `UpdatesConverge` (`UpdateConverges`) hold for
  calls that are made as intended (`AsIntended`): an Update goes by GUID, through
  the client of the object's class, and members are added to groups.  The fake does
  not look at the class, so that a `GroupClient` can rename a computer to a name
  without `$`, or give a user members; and an Update by a name passes that name on,
  which may have come to stand for another object after the read (only Deletes pin
  the GUID).  `AsIntended` speaks of constants alone, and TLC evaluates it for the
  jobs and directories of `accounts` (`MCAsIntended`).  `UpdateConverges` says
  what was written, not that the read was fresh, so it is not inductive: `Converging`
  adds that what an Update has read still stands, or its object is gone
  (`StillRead`).  Another Update of the object would use the same text and need the
  lock (`Locked`); a deletion takes the object away, and no other request touches
  what the model shows (`ReadStands`).  That the `$` which the server adds is the one
  the model takes off is `DollarRoundTrip`.

Only model-checked: every liveness property (`CloseCompletes`, `RunServed`,
`CancelledReturns`, `CreateReturns`, `WaitEnds`, `HealthyEndpointFound`,
`RunReturns`), which is out of the prover's reach, and `RecursiveIsReached`, since
what the recursive walk of the membership graph (`Walk`) returns for every graph
takes an induction over it.  The invariants that the runs `exec_readback`,
`ou_lost_update`, `ou_dn` and `replication_model` violate are false, of course.

## What the runs found

1. `exec_readback`: a create whose read-back throws `ADServerDownException` is
   `KindTransient` (errors.go:37) and is sent again, although the object exists;
   wrap.go:51 promises that `KindTransient` means the operation did not execute.
   The second attempt reports `AlreadyExists` for the caller's own object.
2. `ou_lost_update`: the lock of `Update` is the text of the identity, so a GUID
   and a DN of one OU do not exclude each other (README.md:103 says that writes
   naming the same object are serialized).
3. `ou_dn`: every cmdlet of ou_update.ps1 gets the identity the caller used; after
   a rename a DN names nothing (ou.go:120 speaks of the order that keeps the DN
   valid).
4. `replication_model`: `Create` and `Update` return any error of the wait's own
   execs beside the model, not only the timeout (ou.go:41).

Divergences that were met while modelling and have no run:
- reap.go:12 says that `conn.invalidate` never closes the executor it replaces;
  it does (conn.go:73), and `NoShellEverLeaks` depends on it.
- core.go:222 calls the deleted object the cause of an `AlreadyExists`; a live
  object may be the cause, with a deleted one of the same name beside it.
- ou.go:172-182: when a move fails after the protection was lifted, the OU stays
  unprotected and the next Update takes that for the value to keep.
- config.go:86 of transport/winrm says that endpoint[0] is preferred whenever
  healthy; a recovered one stays in its cooldown first (failover.go:26).
- group.go:296 says that after a not-found the edges are gone regardless; when one
  of the named members is unknown and the others are not, `RemoveMembers` returns
  nil although the edges to the others stay.
- group.go:213 builds the tombstone filter from the sAMAccountName of the spec; a
  computer's and a gMSA's tombstone hold it with `$` (computer.go:184,
  serviceaccount.go:122), so a refused create of those is never explained.
  `TombstoneNamed` is stated for users, groups and OUs.
- acl_client.go speaks of taking rights away; the fake's revoke removes the ACEs
  whose key is equal and no others.
- The fake's reads and updates do not look at the class; an update checks no
  uniqueness and leaves the DNs of an OU's children (directory.go:473); a create
  into a deleted container is accepted.
- ssh.go:174: `runLarge` cleans up with the client that wrote the script, which is
  stale when `runOnSession` has reset and redialled in between; the script stays.
- ssh.go:333: a Run that dials after `Close` makes a connection nobody closes.
- coldexec.go: when the answer to the request for a shell is lost, the shell stays
  on the host until its own idle timeout.

## Abstractions

Text is left out everywhere: scripts are the sequence of their cmdlets, envelopes
the answer `Classify` reads from them, identities model values.  The dialects,
ConstrainedLanguage and the wrapping of scripts for the wire change the text only.
Backoff delays and probe budgets are "some time"; `MaxBackoff` and the jitter are
not modelled.  The pool's `conn.mu` is left out because only the owner of a conn
takes it.  `Replication`'s Kinds of a failed exec are one value, as `replicate`
does not look at them.  `OuClient` has the writes of one OU; children exist or do
not at any moment.  In `Directory`, `description`, `enabled` and `spns` stand for the
families of texts, flags and multi-valued fields that the handlers treat alike, and
the updates TLC makes name their objects by GUID.  `Accounts`' execs are one request
each, answered at once: retries, lost answers and replication are `CoreExec`'s and
`Replication`'s.  A user's nil `Name` and an empty one are one value, as user.go:81 and
226 treat them alike; a filter's pattern is the set of the values it matches.  In
`OneShot` the shell that sshd or WinRS starts PowerShell with counts as the same
process: where it dies, PowerShell does.  TLC's bounds are those of the `.cfg` files and `Horizon`.

## Not modelled

- **The out-of-process adapter and framer** (internal/oop).  They carry bytes between
  go-psrp and a child process; that packets are not lost, merged or reordered is a
  matter of the framing, which is left out with the text.  `WarmPool` takes what
  comes over them, or fails to, as the outcome of its phases.  The adapter's reader
  polls beside its wake-up channel, so a lost token costs a poll interval.
- **The schema closure and the adschema command** (internal/adschema, cmd/adschema).
  A sequential walk of one class graph into tables and files; nothing runs beside it.
- **Schema resolution, client construction** (schema_resolve.go, client.go).  Reads at
  the start, before any concurrent use; the pinned server is `Replication`'s source.
- **PSOpenAD's dialect** of the scripts.  The same operations over LDAP cmdlets; its
  arithmetic on security descriptors is PowerShell code on binary data.
- **Value encoding, scripts and payloads** (spec.go, internal/adscript).  Conversions
  of single values and embedded text.  `applyStringField` and `queryPayload` are
  modelled by what they do.
- **The wiring of the warm transports** (transport/winrm/winrm.go, localwarm,
  sshwarm), option parsing and credentials: `WarmPool`'s `Backend` is what differs.
- **go-adcore and go-psrp**, external modules of which only what src/ relies on is
  modelled (marked external in the map).

Left to prove: that `NoLostUpdate` also holds for callers who all name the OU by its
DN, as TLC finds for the instance of `ou` with `Forms = {"dn"}`.
