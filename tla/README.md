# Verification of etcdlabs

etcdlabs runs an etcd cluster inside a web server so that visitors of a page can
write and read keys, stop and restart members and watch what happens. This
directory holds TLA+ models of its core, the TLC configurations that check them
on small instances, and TLAPS proofs of the properties that matter most.
Definitions carry the names of the Go code; `PROJECT.json` maps each of them to
the lines it models.

## 1. The system

| Part | Source | State | Operations |
| --- | --- | --- | --- |
| Member | `cluster/member.go` | embedded server `srv`, `status` under `statusLock`, `rootCtx` | `Start`, `Stop`, `Restart`, `Client`, `FetchMemberStatus`, `WaitForLeader` |
| Cluster | `cluster/cluster.go`, `cluster/cluster_other.go` | `Members`, `size`, `basePort`, `clientHostToIndex`, `LeadIdx`, two locks: `opLock` and `mmu` | `Start`, `Add`, `Remove`, `Stop`, `Restart`, `Shutdown`, `UpdateMemberStatus`, `WaitForLeader`, accessors |
| Request limiter | `pkg/ratelimit/ratelimit.go` | a `rate.Limiter` of burst one, `lastRequest` | `Check`, `Advance`, `SetInterval` |
| Request handlers | `backend/web/handler.go` | the two global limiters, the global cluster | `clientRequestHandler` for write, stress, get, delete, stop-node, restart-node |
| User sessions | `backend/web/handler.go`, `context.go` | `globalUserCache` | `withCache`, `connectHandler`, `serverStatusHandler`, the sweep |
| Web server | `backend/web/server.go`, `cmd/backend-web-server` | listener, `rootCtx`, `stopc`, `donec`, `globalCluster` | `StartServer`, `Stop`, the two background loops |
| Page | `frontend/app/play` | `playgroundActive`, `connected`, the polling interval `serverStatusHandler` | connect, disconnect, poll, submit |

How they interact. Every HTTP request runs its handler in a goroutine of its
own. A handler passes a limiter (`Check`, then `Advance`), reads the status of a
member through an accessor under `statusLock`, and calls an operation of the
cluster. `Stop`, `Restart`, `Add`, `Remove` and `Shutdown` exclude each other by
`opLock`. Beside them a background loop calls `UpdateMemberStatus` once a
second while there are users; that takes `mmu` but **not** `opLock`, and starts
one goroutine per member that asks the member's server for its status and
writes the answer into the very `status.State` by which `Member.Stop` and
`Member.Restart` decide whether there is anything to do. `Server.Stop` shuts
the cluster down while all of this may be in flight.

What is hard about it:

- the status is a cache of the truth (is the server up?) written by two parties
  that do not exclude each other, and operations decide by the cache;
- `Shutdown` cancels the context that fetches in flight use before it owns the
  lock;
- members are asked for their leader one after the other while leaders change, die
  or give up;
- `Server.Stop` takes the HTTP server, the loops and the cluster away from under
  goroutines that use them, and may be called twice;
- `Add` and `Remove` change a list, its index, ports, directories and etcd's own
  membership in several steps each of which may fail and none of which is undone;
- `Check` races a goroutine, a timer and a cancellation in one `select`, and its
  decision is recorded by a separate call;
- a handler looks at statuses under one lock, section by section, and acts under
  another; nothing it looked at need still be true;
- requests of a page overtake each other and are lost, several pages share one
  entry of the user cache, and every handler takes the lock of the cache twice;
- everything must come to an end although locks, wait groups and contexts wait
  for one another.

What makes each part correct:

- operations exclude each other, take effect once and return; a status is wrong
  only for a reason one can name, and not for ever; `Shutdown` closes the servers;
- a wait for a leader ends once there is one, and names a leader of its own time;
- requests find a cluster as long as they are accepted, and the process returns
  only after it has shut the cluster down;
- hosts lead to their members, ports are never shared, etcd counts no member the
  cluster does not know, data is deleted of the removed member only;
- requests are admitted an interval apart, no token gets lost, and no `Check` or
  goroutine of one is left behind;
- a response with success is true, a request that would act without quorum is
  refused, and every request ends;
- a page holds on to its interval, is active exactly when it polls, and a user who
  has gone is forgotten.

`PROJECT.json` lists the hazards at their lines and the properties that watch them.

## 2. Modules

| Module | Models |
| --- | --- |
| `MemberOps` | `Cluster.Stop`, `Restart`, `Shutdown`, `Member.Stop`, `Member.Restart`, `UpdateMemberStatus`, `FetchMemberStatus`, step by step |
| `MemberOps_proofs` | theorems about `MemberOps`: types, exclusion, and that it implements `ClusterService` |
| `StatusTrust` | `MemberOps` with two history variables and the properties stated with them |
| `MCStatusTrust` | symmetry of the callers, for TLC |
| `ClusterService` | what a cluster promises of `Stop`, `Restart` and `Shutdown`: the abstract specification |
| `StatusTrust_proofs` | theorems about `StatusTrust` |
| `LeaderWait` | `Start` with `Member.Start`, `Cluster.WaitForLeader` with `Member.WaitForLeader`, beside elections and failing servers |
| `LeaderWait_proofs` | theorems about `LeaderWait` |
| `Membership` | `Add`, `Remove` and, as whole steps, `Stop`, `Restart`, `Shutdown` and a fetch on the list of members, index, ports, names, directories |
| `Membership_proofs` | theorems about `Membership` |
| `RequestLimiter` | `Check`, its goroutine and `select`, `Advance`, and the part of `rate.Limiter` they use |
| `RequestLimiter_proofs` | theorems about `RequestLimiter` |
| `MCRequestLimiter` | what `limiter_spacing` needs: the time of the last admission, symmetry of the slots |
| `Playground` | `clientRequestHandler` and the accessors it uses, over `StatusTrust`: the handlers are the callers of `MemberOps` |
| `MCPlayground` | symmetry of members and handlers, for TLC |
| `Playground_proofs` | theorems about `Playground`; it implements `StatusTrust` |
| `WebServer` | `main`, `StartServer`, `Server.Stop`, the serving goroutine and the two loops, over `MemberOps` |
| `WebServer_proofs` | theorems about `WebServer`; it implements `MemberOps` |
| `UserSession` | the user cache (`withCache`, `connectHandler`, `serverStatusHandler`, `cleanCache`) beside the pages that connect, poll, submit, disconnect and leave |
| `MCUserSession` | whose each page is, symmetry of the requests, for TLC |
| `UserSession_proofs` | theorems about `UserSession` |

Operators whose name says how they are wrong (`EnterUnlocked`, `OnePort`,
`RestoredAll`, ...) are plausible mistakes. No specification uses them;
`PROJECT.json` names the property that each would violate. Inductive invariants are kept
with the proofs that need them.

### MemberOps

`serving[m]` is whether the embedded server is up; `state[m]` is `status.State`,
abstracted to `Stopped` or `Started` since no operation tells Follower from
Leader. `routine[m]` is the place inside `Member.Stop` or `Member.Restart`,
`fetch[m]` the place inside `FetchMemberStatus`. One step is one section under
`statusLock`, one call of the server, or one RPC. `Member.Stop` reads the
status, marks it Stopped and *then* closes the server; `Member.Restart` reads the
status, starts a server and *then* marks it. `FetchMemberStatus` asks for the
status and then for the hash, and stores Stopped if either fails. With an
embedded client the first of these is a call in process, which answers for a
closed server too and ignores the context; both settings of `EmbeddedClient` are
covered. In `Shutdown` the cancellation of `rootCtx` is a step before the lock. The context
belongs to whoever started the cluster and may be canceled before that, as the web server
does when it stops serving (`RootCancel`).
`UpdateMemberStatus` has one more subtlety: the operand of its `select` is
evaluated first, so `wg.Wait()` returns before `stopc` is ever looked at, and the
update cannot be interrupted.

External: the etcd server (it can be started when its port is free; after the
data directories are gone only if another server is up to join) and its RPCs
(they fail when the server is down or the context canceled, and at most
`MaxFaults` times for no reason of the cluster's).

### StatusTrust

A fetch is in `overlap` if an operation ran on its member at any time since the
fetch began, if `rootCtx` is canceled, or if it met a fault. A member is
`suspect` from the time such a fetch wrote its status until an operation or a
clean fetch writes it again. No action reads the two.

### ClusterService

Servers are up or down, callers have asked for something or not, `Shutdown` has been
called or has returned. A call takes effect on its member's server at one instant
between invocation and return, at most once; it may also have no effect, because the
status said so or an error is returned. Nothing but calls and `Shutdown` touches a
server. The refinement mapping (`Pending`, `Service` in `MemberOps`) reads the request
off the caller's place and the routine of its member: a caller is done as soon as the
routine is past the point where the server is closed or started, or decided to leave it.
Locks, statuses and fetches are hidden, so the promise is what `opLock` and the order of
steps in `Member.Stop` and `Member.Restart` are for.

### LeaderWait

One goroutine per member (`wpc`), first inside `Member.Start`, later inside
`Member.WaitForLeader`: look at the status, repeat the linearizable `Get`, repeat `Lead()`
until it names a member, ask for the status, and go back to `Lead()` if the two disagree.
`cpc` is the holder of the cluster, who starts it, waits and in between stops and restarts
members, as the tests do. The scan of the statuses that sets `LeadIdx` is as in the code:
no claim leaves it alone, two claims are an error.
External: raft. `lead` is the leader of the latest term, `view` what each server takes for
it, which may lag; a server that knows the leader answers a linearizable `Get` while there
is a majority. Elections, resignations, dying servers and the cancellation of `rootCtx`
come between any two steps. `led` is a history variable: who was in office, nobody
included, since the wait began.

### Membership

A member is identified by its client port. `members` is the Go slice,
`hostIdx` is `clientHostToIndex`, `node` the number in the name `node<k>` and so
in the data directory, `dir` whose data each directory holds, `raft` the
membership etcd itself has (external). `Add` and `Remove` hold both locks
throughout, so each is one step with one action per outcome: failure before
etcd was asked, failure although etcd applied the change, success, and the panics
on a member whose server is nil. Of the statuses only one thing is kept: a server in
`srv` is `stray` when it is up and its status says Stopped, which a member is whose
`Start` gave up on it and one whose fetch failed (`FetchMemberStatus`). `Member.Stop`
leaves such a server up, whoever calls it, and a `Restart` fails on its ports. `Remove` is translated as written: after the
list has shrunk it reads `Members[i]` again.

### RequestLimiter

Time is counted in ticks and tokens are kept in ticks too (a token is worth
`Interval` of them). A slot is one `Check` with its goroutine. The `select` takes
any ready branch. `Prompt = TRUE` restricts time so that no goroutine that can
run is ever late; with `FALSE` any goroutine may be delayed at any point. The places of
the goroutine are those of `waitN` in the vendored library: it looks at its context
(`start`), reads the clock (`clock`), takes the lock and reserves a token as of that
reading (`reserve`), waits for its timer or its context (`wait`), and in the latter case has
read the clock again and takes the lock to give the token back as of that (`cancel`).
`mark` is the reading it carries, or when its timer fires. Since the reading comes before
the lock, it may be older than `last`, the time of the last use of the bucket: `advance`
then finds that no time has passed, and `last` is set back to the reading.

Two history variables. `overtaken`: `last` has been set back. `lost` counts the reservations
canceled after others had been made behind them, for which `CancelAt` gives back less than
the token. The three error messages of `Check` are one (`idle`).

### Playground

`hpc` is the place of each handler: `check` (the limiters, the body, the endpoint),
`etcd` (a request on keys), `gate` (the test for quorum), `look` (`IsStopped`), `call` (inside `Stop` or
`Restart`, which is `MemberOps`). `ActiveNodeN` reads one status per step and holds
`mmu` meanwhile, which keeps fetches out but not the operations. `Cluster` is a step
of `MemberOps` and `StatusTrust` while the handlers wait. A handler may be refused
at `check` for any of its reasons; the limiters may say either, since what they
promise (`RequestLimiter`) does not keep two requests apart. Keys and values are
left out: a request to etcd may succeed while a quorum is up and may always fail,
and the three seconds of its context make sure that it ends, with an error or with
the panic of `delete` and `get` on a nil response. After `Server.Stop` has cleared
`globalCluster`, the next use of it panics (`Vanished`).

Two history variables: `sound`, none of the statuses counted at the gate was suspect when
it was read; and `overtaken`, the members counted as active whose server was closed since.

### WebServer

`proc` is the process; a panic outside a handler, `lg.Fatal` and the return of `main` end
it. `main` and the goroutines `Others` may all call `Server.Stop`: `stop` is the place of
each (`lock`: waiting for `mu`; `close`: `stopc` is closed; `await`: the HTTP server is
closed; `shutdown`: `donec` was seen and `mu` is released). `serve` is the goroutine that
calls `ListenAndServe` and, when it returns, `rootCancel` and `close(donec)`: here `rootCtx`
is canceled before `Shutdown` is called, and not by it. `loop` is `updateClusterStatus`,
`clean` whether `cleanCache` runs, `users` whether the user cache holds anybody. Handlers
(`inside`) are reduced to what the life cycle sees of them: they put a user into the cache
and may call `Stop` or `Restart`, which are the actions of `MemberOps`. Everything the web server does
to the cluster is a step of `MemberOps`; the return of `ListenAndServe` is its `RootCancel`.
`ListenAndServe` may fail at once or while it accepts, and `lg.Fatal` then exits. `Close` acts on the
listener there is; one that `ListenAndServe` makes later stays open, with the Go 1.10 the
Dockerfile names.

### UserSession

`idle[u]` is the age of the entry of user `u` in `globalUserCache`, or absent. A
request is a slot that moves from `sent` over `cached` (past `withCache`) to
`answered` (past the section of its own handler); in between anything else may
happen, and a request or an answer may be lost. Pages
follow `play.component.ts`: buttons are shown by `connected`, handlers go by
`playgroundActive`, and an interval runs on if its handle is overwritten. Nothing
unsubscribes an answer, so a page that has been left still processes it. One tick
stands for any time span; five and fifteen minutes become `SweepEvery` and `Idle`.
The sweep is never late, requests may be.
External: the browser's intervals and the clock.

## 3. Runs

Passing runs:

| Run | Checks | Instance |
| --- | --- | --- |
| `status_trust` | `TypeOK`, `OpExclusion`, `TrustedStatus`, `ShutdownClosesTrusted`, `KeepsPromise` | 2 members, 2 callers, 1 fault, client over sockets |
| `leader_wait` | `TypeOK`, `LeadIsRecent`, `WaitNamesLeader`, `WaitEnds` | 3 members, 2 elections, 1 fault |
| `web_server` | `WTypeOK`, `ServedByCluster`, `ExitIsClean`, `LocksOwned`, `CrashIsLate`, `StopEnds`, `OpsReturn`, `WatchedConverges` | 1 member, 1 handler, `main` and 1 other caller of `Stop` |
| `membership` | `TypeOK`, `IndexExact`, `PortsDisjoint`, `RaftKnown`, `AddFindsServer` | 3 members, 2 calls of `Add` |
| `limiter` | `TypeOK`, `DebtBounded`, `GrantSpacing`, `CheckReturns` | 2 slots, interval 2, 3 ticks |
| `play` | `HandlerTypeOK`, `CountIsTrue`, `AnswersTrue`, `RequestsEnd` | 1 member, 2 handlers, get, stop-node, restart-node and an unknown action |
| `session` | `TypeOK`, `NoOrphanTimer`, `StaleBound`, `GhostsLeave` | 2 pages of one user, 2 requests under way |

What the newer of these say: `LocksOwned`, each of `opLock`, `mmu` and `Server.mu` is held
exactly while the one goroutine that will release it is on its way; `CrashIsLate`, the two
panics that end the process (`stopc` closed twice, a status update on a nil cluster) find
the server closed and, for the second, the cluster shut down; `CountIsTrue`, a member that
`ActiveNodeN` counted as active is up or was closed after it was counted, unless a suspect
status was read.

Runs that show the code departing from what is said of it:

| Run | Violates | What happens |
| --- | --- | --- |
| `shutdown_stops_all` | `ShutdownStopsAll` | `rootCancel` cuts a fetch short, the fetch marks a running member Stopped, and `Member.Stop` then leaves its server running |
| `remove_data` | `RemovedDataDeleted` | `Remove` stops and deletes the member *after* the one removed |
| `limiter_spacing` | `AdmissionSpacing` | a `Check` that timed out decides by a `lastRequest` that an admitted request has not stored yet |
| `play_gate_race` | `GateHolds` | two stop-node requests pass the gate together and the second acts after the first has taken the quorum |
| `session_late` | `AlreadyConnected` | an answer to a poll sent before the disconnect makes the page active with no interval; Connect then does nothing |

Reading for the models turned up divergences that no run is spent on:

- after a `Remove`, `Add` gives a name a second time (the length of the list plus one)
  and deletes the directory of the member that has it (`cluster.go:263`, `cluster.go:267`):
  the model does so too, and no property claims otherwise;
- when `srv.Err()` ends `Member.Start`, the server runs on under a status that says Stopped,
  so that neither `Stop` nor `Shutdown` closes it (`member.go:50`, `member.go:114`);
- the host of a removed member keeps its entry in `clientHostToIndex`, although `FindIndex`
  is to return -1 (`cluster.go:371`, `cluster_other.go:153`);
- when a member fails to start, `Start` returns nil and the error, and the servers of the
  others run on with nobody to stop them (`cluster.go:214`);
- `Member.WaitForLeader` retries for ever when the server has died or `rootCtx` is canceled
  (`member.go:175`), so `WaitEnds` is about a settled cluster; and `Cluster.WaitForLeader`
  returns nil with `LeadIdx` left from before when nobody claims to lead (`cluster.go:426`);
- `httpServer` is never set to nil, so a second `Stop` closes `stopc` twice and panics
  (`server.go:169`): when some other goroutine has called `Stop`, the deferred one of `main`
  ends the process that way;
- `StopNotify` hands out `stopc`, which is closed before the server has stopped
  (`server.go:156`);
- `Stop` before `ListenAndServe` waits for `donec` for ever (`server.go:170`), so `StopEnds`
  is about a server that listens;
- a status loop that took its timer branch finds `globalCluster` nil after `Stop` has
  cleared it, and panics (`handler.go:59`);
- two `Check`s whose goroutines take the lock of `rate.Limiter` in the other order than they
  read the clock set its time back, and time then counts twice: with interval 2 and readings
  0 and 1, the one that read 1 first gets a token for 1 and the other one for 2
  (`rate.go:246`, `rate.go:348`). `GrantSpacing` is about what comes before; without its premise
  TLC finds this in the instance of `limiter`;
- a reservation canceled after another was made behind it gives nothing back, although
  nobody was granted its token (`rate.go:167`). The bucket owes an interval more each time, as
  `lost` counts and `DebtBounded` allows for; requests are then admitted by `lastRequest` alone,
  until the bucket has caught up and its token comes beside one of those;
- after a cancellation the goroutine of `Check` closes its channel too, so the message may
  be "context canceled" (`ratelimit.go:97`);
- a DELETE served between `withCache` and the handler of a poll makes it answer inactive,
  and `processServerStatusResponse` then leaves `connected` set: the page shows Disconnect,
  which does nothing (`play.component.ts:305`);
- `getUserIDs` returns 21 of more than 20 users (`handler.go:166`).

The bounds, and why they are enough. Interference is between one operation on a
member, a second caller (who can only wait or follow), the member's own fetch and
the shutdown; the second member is there because `Shutdown` runs all routines at
once and an update waits for all fetches. Nothing limits how often callers and
updates repeat. One fault is one more than none, and what a fault leads to is
what a stopped server leads to. The theorems of section 5 remove these bounds
for the safety properties. `LeaderWait` has three members so
that one can be lost and a quorum stays; two elections put a change of leader into a wait,
and the one fault is a failed start, a dead server, a client or the cancellation. In
`WebServer` one handler and one member are what a `Server.Stop` can overtake; the second
caller of `Stop` finds the first at any place, and nothing limits requests and updates.
In `Membership`, three members and two `Add`s give
removals from the front, the middle and the end, lists shorter and longer than
at the beginning, loss of quorum and members without a server. In the limiter,
`MaxTime` is an interval and a half, so that tokens run out, are given back and fill up
again, in part or in full; a token's spacing relates two reservations, and two slots that are used
again and again produce every order of two. A state where a reading has been overtaken, and
one where two tokens are lost, is reached. `limiter_spacing` has a longer
interval than grace period, as the code does. In `Playground`, what one handler
looked at is overtaken by one other handler, by fetches and by the shutdown; the
race at the gate needs a second member, of which a quorum needs both, and a `get`
stands for the four actions on keys. In `UserSession`, two requests are a poll and
the DELETE that overtakes it, or the answers of two connections; two pages of one
user are what shares an entry. `Idle` 2 and `SweepEvery` 1 leave room for an entry
to be fresh, stale and overdue. For the safety properties the
theorems remove these bounds too.

Deadlock is checked in the runs of `MemberOps` and `Playground` (updates go on for
ever) and of `UserSession` (time does). It is
not in `Membership`, where a crash or shutdown is the end, nor in the limiter,
where time stops at `MaxTime`, nor in `WebServer`, where the process ends, nor in
`LeaderWait`, where `Start` may fail for good and a wait without a leader goes on for ever.

## 4. Fairness

`WebServer!WFairness`: nobody has to send a request, a signal or call `Stop`. While the
process runs, a goroutine that can run does (weak fairness of the routines, the fetches,
the loops, the return of `ListenAndServe` and of `main`). Whoever waits for `opLock`,
a caller or `Shutdown` inside `Server.Stop`, gets it (strong fairness): a Go mutex enters
starvation mode after a waiter has waited a millisecond and is then handed over in order.
The loop's branch on `stopc` is strongly fair as well: once `stopc` is closed every pass
through the `select` finds it ready, and Go picks among ready branches at random. `RestartStart`
and `RestartError` are steps of one fair routine: `StartEtcd` may always fail.
`WatchedConverges` has its users as a premise, since the loop idles without.

`LeaderWait!Fairness`: the goroutines and the holder's call go on when they can. Raft is left
open: nobody has to be elected or learn of the leader, and `WaitEnds` has as its premise
that in the end there is a leader whom the running servers know.

`RequestLimiter!Fairness`: goroutines that can run do, and time passes.

`Playground!PFairness`: routines, fetches and returns as in `WebServer`, with the
goroutine of a request strongly fair as a whole: it waits for `opLock`, or for `mmu` for reading, which a `sync.RWMutex`
grants to the readers that wait before the next writer. Updates need not start, and
`Shutdown` need not get `opLock`, but it goes on once it has it.

`UserSession!Fairness`: handlers run, an answer arrives or is lost, time passes and
the sweep goes on. Nobody has to open, use or leave a page, and no interval has to
fire.

## 5. Proofs

From `ConfigAssumption` (there is a member, `EmbeddedClient` is Boolean, `MaxFaults`
a natural number), for any set of members and callers:

- `TypeCorrect`: `Spec => []TypeOK`.
- `Exclusion`: `Spec => []OpExclusion`. Inductive through `LockInv`, which adds that a
  routine runs only while `opLock` is held and on a member of its holder's, that a lock that
  is taken has a holder, that under `Shutdown` every routine is one of `Member.Stop`
  (`StopPlaces`), and that fetches run only under `mmu`.
- `PromiseKept`: `Spec => KeepsPromise`, that is, `MemberOps` implements `ClusterService`
  under the mapping of section 2. By `LockInv` only the holder of `opLock` has a routine, so
  a step of a routine settles one call (`RoutinePromise`), and the steps of everybody else
  leave the mapped variables alone (`PendingFrame`). The history variables have no part in
  it; the specifications that implement `Spec` inherit it: `HandlersKeepPromise` for the
  request handlers, `ServerKeepsPromise` for the web server.
- `HistoryOnly`: `HSpec => Spec`, the history variables of `StatusTrust` restrict nothing.
- `StatusIsTrusted`: `HSpec => []TrustedStatus`, and `ShutdownCloses`:
  `HSpec => ShutdownClosesTrusted`. `TrustedStatus` says nothing while a routine
  runs and nothing about what a fetch carries, so it is not inductive.
  `IndInv` adds: the value of the status at each point of a routine (`StatusInv`:
  between marking and closing the status is ahead of the server, between starting
  and marking behind it); that a clean fetch carries the truth and no routine
  runs beside it (`CleanFetch`); and that the members `Shutdown` is done with are
  closed (`ShutdownInv`), which needs that no fetch is clean once `rootCtx` is
  canceled. The proof has a lemma for what each group of actions leaves alone
  (`RoutineFrame`, `FetchFrame`, `OtherFrame`) and one for each part of `IndInv`.

From `ClusterAssumption` (the size and the root port are positive, `MaxAdds` a natural
number):

- `MembershipTypes`, `HostsLeadHome` (`IndexExact`), `PortsNeverShared`
  (`PortsDisjoint`), `RaftIsListed` (`RaftKnown`), and `AddNeverPanics`
  (`AddFindsServer`: the member `Add` takes its client from has a server). The
  invariant is the conjunction of these with `PortsDisjoint` replaced by `PortInv`:
  every member's two ports lie below
  `basePort`, and client ports are at least two apart. `Distinct` shows that
  `IndexExact` makes the list free of duplicates, which `Remove` needs.

From `LeaderAssumption` (a finite set of members that is not empty, the bounds natural numbers):

- `TypesHold`, `LeadIsRecentHolds` and `WaitNamesLeaderHolds`, for any number of elections and
  faults. `IndInv` adds which goroutines run in which phase and that a leader in office
  runs and knows it (`PhaseInv`); and that what a member takes for its leader after its
  linearizable `Get` is somebody who led since the wait began (`RecentInv`).

From `ConfigAssumption` again and `OthersAssumption` (`main` is not among the other callers of
`Server.Stop`), for any number of handlers and callers of `Server.Stop`:

- `ServerTypes`, `RequestsFindCluster` (`ServedByCluster`), `MainReturnsClean` (`ExitIsClean`: a
  normal return; the second close of `stopc` may end the process in the middle of a `Shutdown`).
  `LifeInv` ties the place of each caller of `Stop` to what has happened by then:
  past `await` `donec` is closed, returned means shut down and forgotten, and before the
  listener is closed nothing is canceled.
- `ServerImplements`: `WSpec => Spec`. Each action of the web server is an action of
  `MemberOps` or leaves its variables alone; when the process has ended nothing moves.
- `LocksAreOwned` (`LocksOwned`). `MuInv` says that at most one caller of `Stop` is between
  taking `mu` and seeing `donec`; `LoopInv`, that `mmu` is the status loop's. For `opLock` it is
  `LockInv`, which `ServerImplements` carries over.
- `CrashesAreLate` (`CrashIsLate`). A second `Stop` gets `mu` only after the first has seen
  `donec`, which by `LifeInv` is closed after `rootCancel`; `globalCluster` is cleared only
  by a `Stop` whose `Shutdown` has returned.

From `TimeAssumption` (the interval and the grace are positive) and, for `DebtsAreBounded`,
`SlotAssumption` (finitely many slots), for any number of overlapping `Check`s and any scheduling:

- `LimiterTypes`. `Reserved` and `Canceled` are what the two sections under the lock of
  `rate.Limiter` do to the bucket, for a reading that may have been overtaken.
- `GrantsAreSpaced` (`GrantSpacing`): until a reading is overtaken. `SpacingInv` says that every
  reservation held, and the latest granted, lie an interval before the instant of the next
  token and apart from each other; and that those that can still be given back, the ones not
  before `last`, lie on a grid of intervals that ends at `lastEvent`. The grid is what makes
  `CancelAt` restore a whole token or none, and a `last` that is set back is what breaks it.
- `DebtsAreBounded` (`DebtBounded`), overtaken or not. The bound is not inductive, since the
  reservations after now become fewer as time passes: `DebtInv` states it for every instant
  from now on, with the reservations after that instant, and adds that a timer never fires
  before the instant reserved. The count is by the cardinality theorems for finite sets.

From `ConfigAssumption`, `AskedAssumption` (clients ask for the actions of the model) and
`FiniteAssumption` (finitely many members), for any number of members and handlers:

- `HandlerTypes`: `PSpec => []HandlerTypeOK`.
- `HandlersImplement`: `PSpec => HSpec`. The handlers are callers of the cluster, and
  every other step of theirs leaves it alone; so `IndInv` and all that follows from it
  hold with the handlers in front.
- `AnswersAreTrue`: `PSpec => AnswersTrue`. `CallInv` ties the place of a handler and
  its action to the routine it runs, so that the routine that returns is the one asked
  for; then `StatusInv` says what the server is at each place a routine can return
  from, and `LockInv` that no other operation is under way.
- `CountsAreTrue`: `PSpec => []CountIsTrue`. A status that says Started, of a member that is
  not suspect, means that the server is up at every place of a routine (`ActiveIsUp`, from
  `StatusInv`): `Member.Stop` marks before it closes, `Member.Restart` starts before it
  marks. After the count, the server either stays up or is put in `overtaken` by the step
  that closes it. `CountInv` adds that a stop-node past the gate still holds a count that
  makes a quorum (`CountCluster`, `CountHandler`: one lemma for the steps of the cluster, one
  for those of a handler).
- `GateIsOvertaken`: `PSpec => GateOvertaken`, what is left of the gate's promise, which
  `play_gate_race` shows broken: whenever stop-node closes a server, the servers up and those
  closed since its count make a quorum together, if no status it counted was suspect. It follows from `CountInv` by the
  cardinality theorems for finite sets. It is stated with the proof and is no property of a
  run: with two members and two handlers, which it takes to mean anything, the requests of
  `play` exceed what a run may take. TLC confirms it with stop-node as the only action.

From `SessionAssumption` (there is a page, each has a user, the times are natural numbers and the sweep's period is positive), for any number of
requests under way:

- `SessionTypes`, `TimersAreHeld` (`NoOrphanTimer`, inductive together with the types)
  and `CacheForgets` (`StaleBound`). `StaleBound` is not inductive: a tick could exceed
  it. `StaleInv` bounds the age of an entry by `Idle` and the time since the last sweep.

Only model-checked: liveness (`OpsReturn`, `StopEnds`, `WatchedConverges`, `WaitEnds`,
`CheckReturns`, `RequestsEnd`, `GhostsLeave`), which is out of the prover's reach.

## 6. Not modelled, and the plan

What could be added:

- `Playground` and `WebServer` in one: the handlers of the former are reduced in the latter.
  Both implement `MemberOps`, so what is proved of the cluster holds under either.

Left out for good: `SetInterval` of the limiter (only a test calls it, between its requests),
the limit on the displayed list of users (no state depends on it), identifiers and random keys (`utils.go`, `utils_id.go`: string
formatting without state), generated protocol buffer code, the pages with
installation commands (text rendered from form fields), loggers, and the vendored
libraries but for what the models above use of them.
