# Formal models of the DCP platform

TLA+ specifications of the DCP platform in this repository: a Go control plane
(`dcp-control-plane`, the binary `dcp-cp`) that places deploy requests of buyers
on provider machines, and a Go agent (`dcp-provider`) that runs on each of them.
The modules are translated from the Go sources; TLC checks them on small
instances, and TLAPS proves the main properties for every value of the constants.

To check one configuration: `tlc -config scheduler_safety.cfg MCScheduler.tla`;
to check the proofs of a module: `tlapm SchedulerProofs.tla`. `PROJECT.json` maps
every definition to the lines it models, and lists the runs, the mutants (each
property fails when the code is changed the way a plausible bug would change
it), the hazards of the code and the theorems.

Paths below are relative to `src/`; `cp/` stands for `dcp-control-plane/` and
`pr/` for `dcp-provider/`.

## 1. The system

| Component | State | Operations | Talks to |
|---|---|---|---|
| Scheduler, `cp/internal/scheduler` | none of its own; rows of `jobs` (Postgres), list `dcp:jobs:<provider>` (Redis) | `Submit` (POST /deploy), `PollForProvider` (GET /providers/{id}/jobs) | Postgres, Redis, buyers, agents |
| Stores, `cp/pkg/store` | Postgres tables `providers`, `jobs`, `vms`; Redis lists, counters, token set | one SQL statement or Redis command per method; `NextPendingJob` is a transaction | |
| Registry, `cp/internal/registry` | rows of `providers` | `Register`, `Heartbeat`, goroutine `SweepOffline` every 60 s | stores, agents |
| WireGuard relay, `cp/internal/wgrelay` | interface `wg0`, file `wg0.conf` | `Init` at start, `AddPeer` per registration | `wg`, `wg-quick` |
| Allocators, `cp/pkg/store/redis.go` | two Redis counters | `AllocWGIP`, `AllocPort` | Registry |
| Tokens, `cp/cmd/tokens.go` | Redis set of registration tokens | `AddToken`, `TokenValid` | administrator, register handler |
| Provider keys and WireGuard, `pr/internal/wireguard` | `prov_private`, `prov_public`, `wg0.conf`, interface `wg0` | `GenerateKeypair`, `WriteConfig` with `bringUp`, once per start of the agent | `wg`, `wg-quick`, setup through the files |
| Agent loop, `pr/internal/agent` | provider id, relay port, ticker | register, poll, heartbeat every 30 s, one goroutine `handleJob` per job | control plane over HTTP |
| VM back ends, `pr/internal/vm` | package variable `ipCounter`, tap devices, processes, containers, `authorized_keys` | `Spawn`, `SpawnContainer`, `SpawnSSH` | `ip`, jailer, docker, the file system |
| Tunnel, `pr/internal/tunnel` | one listener per process and port | `Proxy` | control plane over WireGuard |
| Setup, `cp/internal/setup`, `pr/internal/setup` | key, password and configuration files | `Run`, a list of steps skipped when their file exists | `ssh-keygen`, `wg`, `spire-server`, `psql` |
| SSH CA and JWT, `cp/internal/sshca`, `cp/internal/api/jwt.go` | none | sign a certificate, check a bearer token | buyers |

There is no lock and no shared memory in the control plane: its handlers meet in
Postgres, Redis, the interface and the file `wg0.conf`. In the agent, goroutines
share one variable, one port and one file without any synchronisation.

### What is hard here

* **Two stores, no transaction over both.** `Submit` writes the job to Postgres
  and then pushes a wakeup to Redis; a poll pops a wakeup and then claims a row.
  The wakeup is not bound to the job it was pushed for.
* **Timeouts that overlap.** The agent gives up a poll after 15 s, the control
  plane blocks in BRPOP for 25 s: handlers outlive their clients.
* **At-most-once delivery.** A job is marked running before its answer is written.
* **Clocks.** 30 s heartbeats, a 60 s sweep and a 90 s limit, across crashes.
* **Interleaved registrations** of several machines, and of one machine that
  restarts every 10 s, each a sequence of Redis, Postgres and `wg` commands.
* **Files.** `wg-quick save` reads and then replaces; `os.WriteFile` truncates and
  then writes; existence is taken for completeness.
* **Two programs, two tests of one fact.** On a provider, setup makes a key pair if
  there is no private key and the agent if there is no public one.
* **Identities that do not last.** Every start of an agent is a new provider, with a
  new row, address and port, on a machine that keeps its key.
* **Goroutines of one agent** that allocate tap addresses, listen and append to
  a file at the same time, and a process that ends in the middle of all that.

### What makes each component correct

* Scheduler: a job is handed over at most once and only to the provider it was
  placed on; rows never regress; wakeups and scheduled jobs balance; an accepted
  job reaches its agent unless something named went wrong.
* Registry: an online row is recent; the sweep never hits a live provider; the
  row of an ended agent is offline for good in the end. No job that needs memory is
  placed on a row nobody answers for, nor on one that ended long ago; a provider
  that joins becomes eligible.
* Registration: addresses are granted once and for good; rows precede routes, files
  and answers; a running agent stays routed unless something named took its route.
* Provider: one key pair for life, the same on disk and at the control plane,
  whatever was cut off; two at the most if setup and agent overlap; a complete setup
  is complete.
* Agent: what it reports is true when it says so; every job is reported; VMs of
  a process do not share subnets; a relay comes for every VM that has one.
* Setup of the control plane: secrets are never replaced, what is made from them agrees with them, and
  a complete run leaves the machine complete.

## 2. Modules

| Module | Models | Composes with |
|---|---|---|
| `JobLifecycle` | abstract: what the deploy path promises about each job | implemented by `Scheduler` |
| `Scheduler` | `Submit`, `PollForProvider`, the statements they run, the poll loops of the agents | INSTANCE of `JobLifecycle` |
| `Presence` | `Register`'s row, heartbeats, `SweepOffline`, clocks, crashes of the control plane | extended by `Placement` |
| `Placement` | `mem_free_mb` and the SELECT of `BestProvider` over the rows of `Presence` | EXTENDS `Presence`, each action of which it takes whole |
| `AddressBook` | abstract: what registration promises about addresses | implemented by `Registration` |
| `Allocators` | `AllocWGIP`, `AllocPort` | extended by `Registration` |
| `Registration` | tokens, `Register`, `AddPeer`, `wg0.conf`, restarts of both sides | EXTENDS `Allocators`, INSTANCE of `AddressBook` |
| `Provider` | `dcp-provider setup`, `GenerateKeypair`, `Run` up to the poll loop, `WriteConfig`, `bringUp` | registers as `Registration` lets it |
| `Agent` | `handleJob` in its three modes, `Spawn*`, `Proxy`, `reportVM` | takes jobs as `Scheduler` hands them over |
| `Setup` | `dcp-cp setup`, cut off and run again | |
| `MC*` | finite instances for TLC; `MCSchedulerOrder` adds a record of the insertion order | |
| `SchedulerProofs`, `SchedulerWakeups`, `PresenceProofs`, `PlacementProofs`, `RegistrationProofs` (with the allocators), `ProviderProofs`, `AgentProofs`, `SetupProofs` | theorems | EXTEND their module and TLAPS |

### Scheduler

`jobs` is the table, `queue` the Redis lists, `submits[j]` the progress of the
`Submit` call of job `j` (job ids are numbered in the order of the calls; the code
draws UUIDs), `polls[p][s]` the handlers of `PollForProvider` for provider `p`.
Each SQL statement and Redis command is an action: `FindProvider` (`BestProvider`
over any rows the query may read), `InsertJob`, `AssignJob`, `PushJob`; `PopJob`,
`SelectJob` (`SELECT ... FOR UPDATE SKIP LOCKED`, which holds the lock until
`CommitJob`), `Respond`. Failures are actions too: a failing statement, a
cancelled request, a lost answer, a push repeated or lost by the Redis client. A
crash of the control plane is the failure of each of its handlers at any point,
which those actions cover one at a time. `Submit` works on the context of the
buyer's request: once `BuyerLeaves`, any statement that is left may be refused
(`SubmitFails`, which needs no fault then), or succeed all the same. A statement that
took effect although its answer was lost is its own action followed by
`SubmitFails`. `Slots` bounds the overlapping handlers of a provider: an agent
polls one at a time, gives up after 15 s and waits 5 s, so of the handlers it
started in the last 25 s at most two are in BRPOP at once. `spilled` and `resent`
are history: wakeups that ended without a job handed over, be it by a handler that
consumed one and failed or by a `Submit` that assigned its job and did not push, and
wakeups too many.

### Presence

Time advances by `Tick`, which waits for every deadline. `age` is `NOW() -
last_seen`, `timer` the agent's ticker, `flight` the heartbeat on its way, `slack`
(history) how many more heartbeats may be lost before the 90 s are over. Between its
registration and its first heartbeat an agent runs `wg-quick`, without a time-out:
`Join` may come at any time, when the sweep may have had the row already, and one that
comes later than 30 s leaves the agent no slack before a heartbeat arrives. `ControlPlaneCrashes` ends the ticker and every request.
An id is one process of an agent, for every process registers anew.

### Placement

Each action of `Presence` that a column or a job depends on is taken together with
what it does here: `InsertProvider` (the row of `UpsertProvider`, where
`mem_free_mb` keeps its default 0), `UpdateHeartbeat` (the report of the agent),
`Joins`, `Time`. The others leave the columns alone (`Unnoticed`). `BestProvider`
is the SELECT with its conditions and its order, over any set of rows with cores
enough; what becomes of the job it places is `Scheduler`'s subject. `joined` and
`endedFor` are history. `Scheduler` lets `BestProvider` read any rows, so it makes
no claim about which provider is chosen; that claim is made here.

### Registration

`stage[r]` is the progress of the `r`-th registration through `CheckToken`,
`GetWGIP`, `GetPort`, `InsertRow`, `SetPeer`, `ReadPeers`, `WriteConf` and its
answer. `peers` is the interface and `conf` the file; `SetPeer` also takes the
address from any other key that had it, as `wg set` does. A machine keeps its key
pair (`Provider` shows it), so a second registration of one machine replaces its
peer. An agent whose `WriteConfig` fails is one that ends. The relay port has no
variable: it goes into the row and the answer and no two machines compare theirs.
`UsedIPs` and `UsedPorts` are what the counters start at, for Redis keeps them. `ControlPlaneRestarts` covers a restart of
the process and of its host: the interface is synced with the file, or the sync
fails and it stays. `disturbed` (history) holds the machines whose route a failed
`AddPeer`, an overtaking older registration or a restart has taken.

`Book` is the refinement mapping: a row is a grant of its address to its machine,
the peers of the interface are the routes, and the holder of an address is the agent
that runs with it. `GetWGIP` grants nothing yet: an address whose INSERT fails is lost.

### Provider

`disk[f]` is the content of each file: absent, empty (its write was cut short), or
the number of the key pair it comes from. `setup` and
`agent` are the steps of the two programs, which run beside each other and may each
end at any step; `agent` covers as many processes as systemd starts. `SkipKeys` and
`ReuseKeys` are the two different tests, and both see a file that the other program
has created and not yet filled. `cut` (history) holds the key files that an ended process
left empty or unwritten; `overlapped` (history) says that setup and an agent were
ever making keys at the same time, when either may overwrite the other's:
`KeyForLife` and `HalvesMatch` hold as long as it is false, `FewKeys` holds always.

`WriteConf` stores what `buildWGConfig` made, and `BringUpFails` is all that can follow:
the file says `PrivateKey = /etc/wireguard/prov_private` (`registry.go:129`), and `wg` reads the
path as a key; nor does `wg syncconf` know the `Address` the file has. So with the
standard `wg` and `wg-quick` no agent reaches its poll loop: it registers, fails and is
started again after 10 s (the last hazard of `PROJECT.json`). `Presence`, `Placement`,
`Scheduler`, `Registration` and `Agent` also describe the system with agents that have
joined, as it is once that file is one `wg` accepts; nothing in them depends on how it
is parsed. The interface `wg0` of a provider has no variable, for it never gets a key.

### Agent

`stage[j]` is the progress of `handleJob` for job `j`. `ipCounter += 4; base :=
ipCounter` has a data race: the addition is a read and a write, and the second
read may see the goroutine's own value or the variable's. Each command of
`setupTap` is a step, since a failure between two leaves a device behind; the
jailer's start, the wait for its socket with the five API requests, `docker run`,
`docker inspect`, and `authorizeKey`'s read and append are steps as well.
`authorized_keys` is a sequence of lines, each a sequence of keys and fragments: a key
appended to a file whose last line has no newline becomes part of that line. The owner
may have left it so, or a write cut off by a full disk (`TornAppend`); `unended`
(history) says that either ever happened. `docker run` may fail after it has created the
container (`DockerRunFails`). A `--mode` that `handleJob` has no case for builds nothing
and is reported as running (`BuildNothing`). `rows` is the `status` column of `vms`.
`AgentStops` cuts every goroutine off; containers go on.

### Setup

`disk[f]` is the content of each file: absent, torn (a write was cut short), a
secret, or `Hollow` (made from a torn file, so that its key or password is empty).
A secret is a number, and a public key, a connection string or a password of the
database role has the number of the secret it was made from. The actions follow
`Run`; `Interrupt`, `Tear` and `Reboot` end a run between or inside two writes, and
`Start` begins the next. `cut` (history) holds the files whose last write was cut
short, or that were not reached although the file they belong to was written.

## 3. What TLC checks

| Run | Expect | Properties |
|---|---|---|
| `scheduler_safety` | pass | `TypeOK`, `ExclusiveHandoff`, `HandoffToOwner`, `WakeupsConserved`, `WokenFindsJob`, `NoRegress`, `ImplementsLifecycle` |
| `scheduler_live` | pass | `AcceptedSettles`, `AbandonedPollEnds`, `LossesAbandoned` |
| `scheduler_wakeup` | violation | `AcceptedHasWakeup` |
| `scheduler_order` | violation | `OldestFirst` |
| `placement` | pass | `TypeOK`, `PlacementTypes`, `StaleBounded`, `LiveStaysOnline`, `PlacedWasHeard`, `PlacedLately`, `EndedGoesOffline`, `JoinedBecomesEligible` |
| `registration` | pass | `TypeOK`, `UniqueAddresses`, `RowsFirst`, `RoutedWhenRunning`, `ImplementsBook` |
| `registration_persist` | violation | `PeersPersisted` |
| `agent` | pass | `TypeOK`, `RunningWasBuilt`, `FailedIsDead`, `SubnetsDistinct`, `KeyAuthorized`, `JobSettles`, `RelayComesUp` |
| `agent_relay` | violation | `RelayPerVM` |
| `setup` | pass | `TypeOK`, `SecretsAgree`, `CompleteUnlessCut`, `SecretsKept` |
| `setup_rerun` | violation | `SafeToRerun` |
| `provider` | pass | `TypeOK`, `KeyForLife`, `HalvesMatch`, `FewKeys`, `SetupComplete` |

What is less than obvious in the passing ones:

* `scheduler_live` has no faults of the stores, so `AcceptedSettles` must name the
  other ways to lose a job: its agent's process ends, a wakeup of its provider is
  spilled, or its answer is lost. `LossesAbandoned` says that the last two come from
  clients that did not wait: the agent of a poll gave up after 15 s or ended, or the
  buyer disconnected between `AssignJob` and `PushJob`. In the second case it is not
  the buyer's own job alone that suffers: it is scheduled without a wakeup, a later
  wakeup of that provider hands it out, and the accepted job that wakeup was for stays
  behind.
* `placement` checks the properties of `Presence` as well, in a system where jobs are
  placed meanwhile; `Presence` has no run of its own. `PlacedWasHeard` says why the
  row of an agent that never got its answer draws no job, unless the job asks for no
  memory: only the default 0 of `mem_free_mb` prevents it, not the status, which is
  `online` for up to 150 s. `PlacedLately` bounds the other rows of ended agents.
* `provider`: setup and agent test different files, and it comes out right all the
  same: a private key without a public one is replaced by the agent together with
  its half. What does not heal is an empty `prov_public`: it is registered, and
  registered again, for ever (`KeyForLife` holds of it), and what is left of an overlap,
  be it two halves that do not match. The damage of an overlap is bounded: setup and one
  agent have made a pair each, and no third is ever registered (`FewKeys`).
* `agent`: nothing but a line left open keeps a buyer's key off a line of its own, and
  then the key is at least in the file (`KeyAuthorized`). That two jobs read the file
  before either writes is in the model, and at worst makes a key stand there twice.

### Disagreements the violation runs show

1. **`scheduler_wakeup`**: a poll the agent has given up on pops the wakeup of an
   accepted job, fails on its cancelled context, and drops it. The job is
   scheduled, its list is empty, nobody waits: it stays until another deploy goes to
   the same provider, and from then on one job always lags.
2. **`scheduler_order`**: "the oldest pending job" is any: `created_at` is Go's zero
   time in every row, because `Submit` never sets it and the INSERT names it.
3. **`registration_persist`**: `wg-quick save` of two registrations interleave, and
   the file lacks a peer the interface has.
4. **`agent_relay`**: the relay port is one per registration, not one per VM; the
   second VM of a provider is reported with a port that leads to the first.
5. **`setup_rerun`**: a setup cut off between `cp_private` and `cp_public` completes
   when it is run again, without the public key `serve` needs.

One more is a theorem and needs no run: `AddressRange` proves that an address is in
the range `redis.go:56` documents if and only if it is one of the first 64516. The
64517th registration gets 10.99.255.1, the 64771st 10.99.256.1, which is no address.
The counter never goes back, and a crashing agent takes a slot every 10 s.

### Bounds, and why they are enough

* Scheduler: two providers (one job must be able to reach the wrong one), two
  overlapping polls each (the code allows no more, see above), two jobs (one
  wakeup can let the other's job through), one repeated push. Rows are online or
  offline, with room for both, one or none of two requests. The liveness and
  violation runs take one provider, for nothing there crosses providers, and no
  faults, so that what they show needs none. Polls and providers are symmetric;
  the run with symmetry has no liveness property.
* Presence: the unit is 15 s, so the code's 15, 30, 60 and 90 s are 1, 2, 4 and 6.
  `AgeCap` 12 exceeds every age the properties compare; two failures let a crash
  follow a failed sweep and the reverse. One id: no action relates two rows, and the
  theorems of `PresenceProofs` hold for any set of ids.
* Placement: the same clocks, one job, which may ask for no memory or for some, and
  agents that report some. One id makes the choice between rows trivial: no property
  is about which of the fitting rows is best, and the theorems of `PlacementProofs`
  hold for any ids, jobs, reports and needs. An agent on a host without
  `/proc/meminfo` reports 0 always and is never eligible: `JoinedBecomesEligible`
  holds for the others.
* Registration: three registrations of two machines let one machine overtake
  itself while another saves `wg0.conf`; one restart, between any two steps. The
  counters start at 252 and 9998, so that the third octet carries and the port wraps
  within the run.
* Provider: four key pairs and three registrations, so that two keys and the empty one
  could all be registered and one key too many would be; two runs of setup, so that one
  follows a cut-off one; ends of processes are unbounded. Two keys are reached. The
  theorems hold for any bounds.
* Agent: two jobs, the least that share anything; two processes, so that one
  follows a crash; `MaxOctet` 5 stands for 255, so that the second allocation of
  a process passes it (the code's 64th does). Two good keys, so that one can be glued
  to the other, one that does not parse, none, and the owner's own. The theorems hold
  for any number of jobs and processes.
* Setup: three runs, so that the repair of a cut-off run may be cut off as well.

Runs say `CHECK_DEADLOCK FALSE` where the bounded system stops: when the jobs,
registrations, failures, keys or runs are used up. `placement` does not need it.

### Fairness

* `Scheduler`: handlers run on, BRPOP ends (it has a 25 s limit of its own), an
  agent that lives polls again: the loop in `agent.go` has no other exit than its
  context. No buyer has to call and no client has to give up.
* `Placement`, and with it `Presence`: clocks run, tickers fire, HTTP requests end
  within the client's 15 s, a registration is answered and `wg-quick` run or the agent
  ends, and systemd restarts the control plane (`Restart=always`). No agent has to register, and one
  that has joined may run for ever; no buyer has to deploy. `JoinedBecomesEligible`
  excepts agents that end, those that lose a heartbeat too many and those that join
  too late to lose any; at the end of `wg-quick` nothing but fairness is assumed.
* `Agent`: goroutines run on and the commands they wait for end; docker and the
  jailer are external, and `fcPut` sets no timeout, so this is an assumption about
  them, and `JobSettles` and `RelayComesUp` hold under it only.
* `Registration`, `Provider` and `Setup` have only safety properties and no fairness.

## 4. What is proved

| Theorems | Rest on |
|---|---|
| `SchedulerProofs`: `TypeCorrect`, `HandedOverOnce`, `HandedToOwner`, `RowsAdvance`, `Implements` | `HandoffInv` |
| `SchedulerWakeups`: `WakeupsAddUp`, `WokenPollsFindJobs`, `WakeupUnlessSpilled`, `AcceptedIsOnTheWay`, `OnlyDisconnectsLose`, `SettledForGood` | `WakeupInv`, `PlacedInv`, `LossInv` |
| `PresenceProofs`: `TypeCorrect`, `OnlineIsRecent`, `OnlineWithinPeriod`, `SweepSparesLive`, `GoneStays` | an invariant of timers, ages and slack; `SweepInv` |
| `PlacementProofs`: `PlacementIsPresence`, `PlacementTyped`, `PlacementSparesLive`, `PlacedAreHeard`, `PlacementIsRecent`, `EndedIsGoneInTime` | `PlacementInv`, and the theorems of `PresenceProofs` |
| `RegistrationProofs`: `AddressesDiffer`, `AddressRange`, `AddressNotControlPlane`, `PortsDiffer` | arithmetic of quotients and remainders |
| `RegistrationProofs`: `RegistrationTypes`, `AddressesUnique`, `RoutesAreDistinct`, `RowsComeFirst`, `RowsNeedToken`, `RunningIsRouted`, `RegistrationImplementsBook`, `SerialAddPeerPersists` | `RegInv`, `TokenInv`, `SavedInv` |
| `ProviderProofs`: `ProviderTypes`, `OneKeyForLife`, `KeysArePair`, `TwoKeysAtMost`, `KeysNeverReplaced`, `SetupCompletes` | `ProviderInv` |
| `AgentProofs`: `AgentTypes`, `ReportedWasBuilt`, `ReportIsFinal`, `FailedLeavesNoVM`, `SubnetsDiffer`, `AddressesLast`, `KeysAuthorized`, `KeysAreKept`, `RelayNeedsOneVM` | `AgentInv`, `CounterInv`, `RelayInv` |
| `SetupProofs`: `SetupTypes`, `DerivedAgree`, `CompleteRuns`, `SecretsStay`, `FilesAreKept`, `UndamagedRuns` | `SetupInv`, `PubInv`, `LinkInv` |

They hold for every finite number of providers, polls, jobs, ids, machines,
registrations, processes and runs, and for the assumptions named in the modules;
no proof assumes anything else; `SerialAddPeerPersists` states its condition. Each inductive invariant adds to the property what
the code relies on without saying so:

* **Handing over once.** `NextPendingJob`'s UPDATE and `AssignJob`'s have no guard on
  the status they replace. That no claimed row is reset rests on `AssignJob` running
  before its row can be claimed, and that no row is claimed twice on the row lock:
  `HandoffInv` says which rows each handler may hold and what their status is.
  The refinement follows: each step of `Scheduler` is a step of `JobLifecycle` for
  one job or a stutter.
* **Wakeups.** `WakeupInv` is the balance of wakeups and scheduled jobs, by
  cardinalities, together with `HandoffInv`. A poll that consumed a wakeup finds
  a job, because fewer rows are locked than wakeups are held.
* **Presence.** The age of a live agent's row is bounded by what its timer, its
  heartbeat in flight and its remaining slack leave of 90 s; so `SweepSparesLive`
  needs `2 * HeartbeatPeriod + Delay <= OfflineAfter` and `HeartbeatPeriod + Delay
  < SweepPeriod`, which the code's 30, 15, 90 and 60 s satisfy. A new provider may
  lose no heartbeat, an old one one; a new one that joins within `HeartbeatPeriod` of its
  registration is in time, for no sweep has touched its row.
* **Registration.** `RegInv` ties each address to the counter value it came from;
  uniqueness is the injectivity of `WGAddress`, and `RunningIsRouted` says that the
  newest handler of a machine is the last to set its route. With it each action is a
  step of `AddressBook` or a stutter: a new row grants an address that is in no
  other, and whatever is routed, saved, restored or told has its row.
* **Placement.** A step of `Placement` is a step of `Presence` or a stutter
  (`PlacementIsPresence`), so the theorems of `PresenceProofs` carry over. `HeardInv`
  adds that a row with free memory is one whose agent has joined; `EndedInv` that the
  age of a row is at least the time since its agent ended, less the `Delay` of a
  heartbeat then on its way. Together with `StaleBounded` that bounds `PlacedLately`.
* **Provider.** `KeyInv` is why two tests of two files agree: the private key is always
  the first to be written and the public one the last, so neither program starts
  on keys while the other is past its test, but for the overlap; and an agent in its
  later steps holds what `prov_public` holds. `HalfInv` says who was cut off where a
  private key stands alone. `PairsInv` is the part that overlaps leave true: an agent
  that got as far as `prov_public`, and a run of setup that got past `prov_private`,
  have left the file that the next one of its kind tests, so each writes a pair once.
* **Agent.** `AgentInv` states per stage what has been built, and that without
  interference every base is below the counter and different.
* **Losses.** `LossInv` adds that without faults no wakeup is duplicated; so a handler
  past BRPOP has a job to find (`WokenPollsFindJobs`) and `NoJobFound` cannot be what
  spills; what remains is a handler whose client is away and a `Submit` whose buyer has
  left. A running job that nobody was given is let go of by its answer alone.
* **Counting.** `AddressesLast` compares the counter, which racing goroutines write,
  with the number of jobs that have drawn from it: a lost update can only keep it
  back, for no call writes more than 4 over what a call before it left.
* **Setup.** `SetupInv` says that what a run remembers is what its files hold, that
  nothing derived exists without its source, and that whatever is skipped is
  whole or in `cut`. `PubInv` is why `cp_public`, written without a test, never replaces
  one: where the private key is missing, so is the public.

### What the refuted properties lack

For four of the five properties that a run refutes, a theorem says what they lack:

* `AcceptedHasWakeup`: only a spilled wakeup breaks it (`WakeupUnlessSpilled`), and
  without faults only a client that does not wait spills one (`OnlyDisconnectsLose`):
  an abandoned poll, which the 15 s and 25 s time-outs make, or a buyer who disconnects
  between `AssignJob` and `PushJob`, which `Submit` runs on the context of the request.
  Concurrent polls that are waited for are no cause, nor are repeated pushes.
* `PeersPersisted`: it would hold if `AddPeer` had a lock (`SerialAddPeerPersists`,
  for the behaviours in which `wg set` waits for the save of every other handler, and
  no failure or restart comes between a `wg set` and the end of its save; the run
  that refutes it has neither). Other failures and restarts do no harm to it.
* `RelayPerVM`: a VM that lacks its relay although no command failed has lost the port
  to another VM of the same process (`RelayNeedsOneVM`): one VM per process is served.
* `SafeToRerun`: a complete run leaves the whole configuration, secrets in agreement,
  unless a file was left empty or `cp_private` without its half (`UndamagedRuns`).
  `FilesAreKept` is the other side: no run replaces a file that exists, so no key that
  providers were given changes, and none that is empty is repaired either.

### The safety side of what only TLC checks

Liveness under fairness is out of this prover's reach: `AcceptedSettles`,
`AbandonedPollEnds`, `EndedGoesOffline`, `JoinedBecomesEligible`, `JobSettles` and
`RelayComesUp` are model-checked only. What can be proved of them is:

* `AcceptedSettles`: until it is settled, an accepted job is held by a handler or is
  unlocked with a wakeup on its way (`AcceptedIsOnTheWay`), so the next step towards
  the agent is always there to be taken; and a settled job stays so (`SettledForGood`).
* `EndedGoesOffline`: the clock makes a deadline of it. While no sweep fails, an
  online row is at most 150 s old (`OnlineWithinPeriod`), the row of an agent that
  ended 165 s ago is offline with no heartbeat left to undo it (`EndedIsGoneInTime`),
  and that is for good (`GoneStays`).
* `JobSettles`: a job is reported at most once, and its row in `vms` is final
  (`ReportIsFinal`).

The definitions that those theorems add are in the proof modules. They are not
properties of the runs, but each was model-checked on the instance of its module.
`OldestFirst` has no such theorem: all rows have the same `created_at`, so the
query's order says nothing about age.

## 5. What is not modelled

* **SSH CA and JWT**: functions of one request, a signature and a validity window,
  with no state and nothing to interleave.
* **Attestation, sysinfo, command lines, Makefiles**: read-only or without protocol
  state. Admin routes only read.
* **The older scripts** in `scripts/`: `control-plane.sh` and `provider-agent.sh` make
  the database role `dcp` with a password of their own, `wireguard.sh` key pairs under
  the names of both setups and a `wg0.conf`. `Setup` and `Provider` start on machines on which they were
  not run: after them, `dcp-cp setup` would keep the role (its CREATE USER fails and
  nobody looks) and write a `pg_dsn` with another password.
* **Termux**: the agent there uses its own directory and `wireguard-go`, and there is
  no setup.
* **Both programs on one machine**: agent and control plane then write the same
  `/etc/wireguard/wg0.conf`; the models take them to be on different ones.
* **The relay's bytes** (`forward`), the text of generated configurations, log lines.
* `Kill` of the VM back ends and `RevokeToken` have no caller.
* **The connection pool** of the Redis client, whose limits are the library's.
* **Starvation among equal `created_at`**: `AcceptedSettles` is checked for the jobs
  of an instance, where every job is claimed in the end; with an endless stream of
  deploys the arbitrary order could pass one over for ever.
* What external tools make of their input is modelled from how the code uses them:
  `wg`, `wg-quick`, `docker`, the jailer, `psql`, `spire-server`, systemd. Of `wg` it
  matters that its `PrivateKey` is a key in base64 and its configuration has no `Address`.

## 6. Plan

Done, in this order: `Scheduler` with `JobLifecycle`; `Presence`; `Allocators` and
`Registration`; `Agent`; `Setup`; `Provider`; `AddressBook` and its refinement;
`Placement`; and the proofs of each.

What could follow:

1. Memory that is not reserved: `BestProvider` places every job of 30 s on the same
   row. It needs `Scheduler` and `Placement` composed, with a bound on the jobs per
   heartbeat, and a coarser clock than `Presence` to stay small.
2. `Provider` and `Registration` composed, for the address that an interface keeps and
   the one its machine is routed at, when the agent's `wg0.conf` is one `wg` accepts.
3. Both programs on one machine, and the file they share.
