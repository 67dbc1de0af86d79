------------------------------- MODULE Agent -------------------------------
(***************************************************************************)
(* What the provider's agent does with the jobs it is given: a goroutine   *)
(* handleJob per job, which builds a microVM, starts a container or opens  *)
(* the machine itself to the buyer, starts the relay of the VM's ssh port  *)
(* and reports the outcome to the control plane's vms table.               *)
(*                                                                         *)
(* Jobs come as Scheduler hands them over, each at most once.  The         *)
(* goroutines of one process share the tap address counter, the tunnel     *)
(* port and the file authorized_keys, and nothing orders them.  The        *)
(* process may end at any moment; systemd starts the next, which registers *)
(* anew.  What is outside the process stays: taps, containers, the file.   *)
(* Nothing ever removes a VM: the Kill methods of the package have no      *)
(* caller.                                                                 *)
(***************************************************************************)
EXTENDS Integers, Sequences

CONSTANTS
    Jobs,           \* ids of the jobs given to this machine
    Modes,          \* how the machine may be configured to run
    Keys, BadKeys,  \* the buyers' ssh keys, and those that do not parse
    NoKey,          \* a job without one
    HostKey,        \* a key the owner of the machine has authorized
    Fragment,       \* the beginning of a key, cut off
    MaxOctet,       \* 255: the greatest octet of an address
    MaxRuns,        \* bound: processes of the agent
    Faults          \* whether a command, a file or the network may fail

ASSUME KeysAssumption ==
    /\ BadKeys \subseteq Keys
    /\ NoKey \notin Keys
    /\ HostKey \notin Keys
    /\ Fragment \notin Keys \cup {HostKey}
ASSUME OctetAssumption == MaxOctet \in Nat
ASSUME RunsAssumption == MaxRuns \in Nat \ {0}
ASSUME FaultsAssumption == Faults \in BOOLEAN
\* "other" is any --mode that the switch of handleJob has no case for.
ASSUME ModesAssumption == Modes \subseteq {"firecracker", "container", "ssh", "other"}

VARIABLES
    mode,       \* the mode the agent resolved
    agent,      \* the process: "up" or "down"
    run,        \* which process it is, and so which provider id it has
    stage,      \* stage[j]: how far handleJob has come with j
    runOf,      \* runOf[j]: the process that was given j
    key,        \* key[j]: the buyer's ssh key
    ipCounter,  \* the variable behind allocateTapIP
    seen,       \* seen[j]: the value of ipCounter that j's goroutine has read
    base,       \* base[j]: the third octet of the tap address of j, or 0
    tap,        \* tap[j]: the tap device of j
    vm,         \* vm[j]: the process or the container of j
    proxy,      \* proxy[j]: the goroutine running tunnel.Proxy for j
    lines,      \* authorized_keys: the keys on each of its lines
    ending,     \* whether its last line is "closed" by a newline or "open"
    unended,    \* whether the owner, or a write that failed, ever left it open
    rows,       \* rows[j]: the status column of j in the vms table
    raced       \* processes in which two allocateTapIP calls have interfered

tapVars == <<ipCounter, seen, base, raced>>
sshVars == <<lines, ending, unended>>
runVars == <<mode, agent, run>>
jobVars == <<runOf, key>>
vars == <<runVars, jobVars, tapVars, sshVars, stage, tap, vm, proxy, rows>>

NoRun == 0
NoBase == 0
Runs == 1 .. MaxRuns

FirecrackerStages == {"counter", "bump", "base", "tap", "address", "link", "jailer", "boot"}
Stages == FirecrackerStages \cup
          {"idle", "nothing", "docker", "inspect", "authorize", "append", "running", "failed",
           "reported", "unreported", "cut"}
Busy(j) == stage[j] \notin {"idle", "reported", "unreported", "cut"}
Reporting(j) == stage[j] \in {"running", "failed"}

Init ==
    /\ mode \in Modes
    /\ agent = "up"
    /\ run = 1
    /\ stage = [j \in Jobs |-> "idle"]
    /\ runOf = [j \in Jobs |-> NoRun]
    /\ key = [j \in Jobs |-> NoKey]
    /\ ipCounter = 1
    /\ seen = [j \in Jobs |-> 0]
    /\ base = [j \in Jobs |-> NoBase]
    /\ tap = [j \in Jobs |-> "none"]
    /\ vm = [j \in Jobs |-> "none"]
    /\ proxy = [j \in Jobs |-> "none"]
    /\ \/ lines = <<>> /\ ending = "closed"
       \/ lines = <<<<HostKey>>>> /\ ending \in {"closed", "open"}
    /\ unended = (ending = "open")
    /\ rows = [j \in Jobs |-> "none"]
    /\ raced = {}

-----------------------------------------------------------------------------
(* handleJob, and allocateTapIP: ipCounter += 4; base := ipCounter, with no *)
(* lock.  The addition is a read and a write; the second read may come from *)
(* the register or from the variable.                                       *)

FirstStage == CASE mode = "firecracker" -> "counter"
                [] mode = "container" -> "docker"
                [] mode = "ssh" -> "authorize"
                [] mode = "other" -> "nothing"

Receive(j, k) ==
    /\ agent = "up"
    /\ stage[j] = "idle"
    /\ k = NoKey \/ mode = "ssh"
    /\ stage' = [stage EXCEPT ![j] = FirstStage]
    /\ runOf' = [runOf EXCEPT ![j] = run]
    /\ key' = [key EXCEPT ![j] = k]
    /\ UNCHANGED <<runVars, tapVars, sshVars, tap, vm, proxy, rows>>

\* From one stage to the next, when what it does succeeds.
Go(j, from, to) ==
    /\ stage[j] = from
    /\ stage' = [stage EXCEPT ![j] = to]
    /\ UNCHANGED <<runVars, jobVars, rows>>

\* The switch has no default: in an unknown mode nothing is built, and the job
\* is reported as running, with a relay that leads nowhere.
BuildNothing(j) ==
    /\ Go(j, "nothing", "running")
    /\ proxy' = [proxy EXCEPT ![j] = "starting"]
    /\ UNCHANGED <<tapVars, sshVars, tap, vm>>

ReadCounter(j) ==
    /\ Go(j, "counter", "bump")
    /\ seen' = [seen EXCEPT ![j] = ipCounter]
    /\ UNCHANGED <<ipCounter, base, raced, sshVars, tap, vm, proxy>>

Interfered(if) == IF if THEN raced \cup {run} ELSE raced

WriteCounter(j) ==
    /\ Go(j, "bump", "base")
    /\ ipCounter' = seen[j] + 4
    /\ raced' = Interfered(ipCounter # seen[j])
    /\ UNCHANGED <<seen, base, sshVars, tap, vm, proxy>>

TakeBase(j) ==
    /\ Go(j, "base", "tap")
    /\ \E b \in {seen[j] + 4, ipCounter} :
           /\ base' = [base EXCEPT ![j] = b]
           /\ raced' = Interfered(b # seen[j] + 4)
    /\ UNCHANGED <<ipCounter, seen, sshVars, tap, vm, proxy>>

-----------------------------------------------------------------------------
(* vm.Spawn                                                                 *)

AddTap(j) ==
    /\ Go(j, "tap", "address")
    /\ tap' = [tap EXCEPT ![j] = "bare"]
    /\ UNCHANGED <<tapVars, sshVars, vm, proxy>>

\* A second device may have the same address.
AddAddress(j) ==
    /\ Go(j, "address", "link")
    /\ base[j] <= MaxOctet
    /\ tap' = [tap EXCEPT ![j] = "addressed"]
    /\ UNCHANGED <<tapVars, sshVars, vm, proxy>>

\* Mutant: the errors of setupTap's commands are ignored.
MutNoSuchAddressIgnored(j) ==
    /\ Go(j, "address", "link")
    /\ base[j] > MaxOctet
    /\ UNCHANGED <<tapVars, sshVars, tap, vm, proxy>>

\* 172.16.257.1 is no address: the command fails, and the bare tap stays.
NoSuchAddress(j) ==
    /\ Go(j, "address", "failed")
    /\ base[j] > MaxOctet
    /\ UNCHANGED <<tapVars, sshVars, tap, vm, proxy>>

LinkUp(j) ==
    /\ Go(j, "link", "jailer")
    /\ tap' = [tap EXCEPT ![j] = "up"]
    /\ UNCHANGED <<tapVars, sshVars, vm, proxy>>

StartJailer(j) ==
    /\ Go(j, "jailer", "boot")
    /\ vm' = [vm EXCEPT ![j] = "alive"]
    /\ UNCHANGED <<tapVars, sshVars, tap, proxy>>

\* Mutant: handleJob starts the relay for containers only.
MutBootUnproxied(j) ==
    /\ Go(j, "boot", "running")
    /\ vm[j] = "alive"
    /\ UNCHANGED <<tapVars, sshVars, tap, vm, proxy>>

\* waitForSocket and the five requests of configure succeed; handleJob goes on
\* to start tunnel.Proxy.
Boot(j) ==
    /\ Go(j, "boot", "running")
    /\ vm[j] = "alive"
    /\ proxy' = [proxy EXCEPT ![j] = "starting"]
    /\ UNCHANGED <<tapVars, sshVars, tap, vm>>

\* Mutant: Spawn returns the error and forgets cmd.Process.Kill().
MutBootFailsUnkilled(j) ==
    /\ Go(j, "boot", "failed")
    /\ Faults \/ vm[j] = "dead"
    /\ UNCHANGED <<tapVars, sshVars, tap, vm, proxy>>

\* Mutant: waitForSocket has no deadline, and a dead VM opens no socket.
MutBootFailsNever(j) ==
    /\ Go(j, "boot", "failed")
    /\ Faults /\ vm[j] = "alive"
    /\ vm' = [vm EXCEPT ![j] = "dead"]
    /\ UNCHANGED <<tapVars, sshVars, tap, proxy>>

\* The socket does not appear within 3 s or configure fails: the process is
\* killed, the tap stays.
BootFails(j) ==
    /\ Go(j, "boot", "failed")
    /\ Faults \/ vm[j] = "dead"
    /\ vm' = [vm EXCEPT ![j] = "dead"]
    /\ UNCHANGED <<tapVars, sshVars, tap, proxy>>

-----------------------------------------------------------------------------
(* vm.SpawnContainer                                                        *)

DockerRun(j) ==
    /\ Go(j, "docker", "inspect")
    /\ vm' = [vm EXCEPT ![j] = "alive"]
    /\ UNCHANGED <<tapVars, sshVars, tap, proxy>>

\* docker run -d may fail after it has created the container: nobody knows its
\* id then, and nothing removes it.
DockerRunFails(j) ==
    /\ Faults
    /\ Go(j, "docker", "failed")
    /\ \E made \in {"none", "leaked"} : vm' = [vm EXCEPT ![j] = made]
    /\ UNCHANGED <<tapVars, sshVars, tap, proxy>>

Inspect(j) ==
    /\ Go(j, "inspect", "running")
    /\ vm[j] = "alive"
    /\ proxy' = [proxy EXCEPT ![j] = "starting"]
    /\ UNCHANGED <<tapVars, sshVars, tap, vm>>

\* No address: docker rm -f, whose own failure nobody looks at.
InspectFails(j) ==
    /\ Go(j, "inspect", "failed")
    /\ Faults \/ vm[j] = "dead"
    /\ \E left \in {"dead"} \cup (IF vm[j] = "alive" THEN {"leaked"} ELSE {}) :
           vm' = [vm EXCEPT ![j] = left]
    /\ UNCHANGED <<tapVars, sshVars, tap, proxy>>

-----------------------------------------------------------------------------
(* vm.SpawnSSH: authorizeKey reads the file, and later appends to it.       *)

Authorized(k) == \E i \in DOMAIN lines : lines[i] = <<k>>

SkipAuthorize(j) ==
    /\ Go(j, "authorize", "running")
    /\ key[j] = NoKey \/ (key[j] \notin BadKeys /\ Authorized(key[j]))
    /\ UNCHANGED <<tapVars, sshVars, tap, vm, proxy>>

RejectKey(j) ==
    /\ Go(j, "authorize", "failed")
    /\ key[j] \in BadKeys
    /\ UNCHANGED <<tapVars, sshVars, tap, vm, proxy>>

\* The key is not there, or the file cannot be read.
MissKey(j) ==
    /\ Go(j, "authorize", "append")
    /\ key[j] \notin BadKeys \cup {NoKey}
    /\ Faults \/ ~ Authorized(key[j])
    /\ UNCHANGED <<tapVars, sshVars, tap, vm, proxy>>

\* A write at the end of the file: a new line, or the rest of an open one.
Appended(w) ==
    IF ending = "closed" THEN Append(lines, <<w>>)
    ELSE [lines EXCEPT ![Len(lines)] = Append(@, w)]

\* Mutant: the key is written without the newline.
MutAppendKeyBare(j) ==
    /\ Go(j, "append", "running")
    /\ lines' = Appended(key[j])
    /\ ending' = "open"
    /\ UNCHANGED <<unended, tapVars, tap, vm, proxy>>

AppendKey(j) ==
    /\ Go(j, "append", "running")
    /\ lines' = Appended(key[j])
    /\ ending' = "closed"
    /\ UNCHANGED <<unended, tapVars, tap, vm, proxy>>

\* The disk is full: a part of the key is written, or all but its newline, and
\* stays; the next key follows on the same line.
TornAppend(j) ==
    /\ Faults
    /\ Go(j, "append", "failed")
    /\ \E written \in {Fragment, key[j]} : lines' = Appended(written)
    /\ ending' = "open"
    /\ unended' = TRUE
    /\ UNCHANGED <<tapVars, tap, vm, proxy>>

-----------------------------------------------------------------------------
\* Mutant: a Spawn that fails gives its address back to the counter.
MutSpawnFailsReturns(j) ==
    /\ Faults
    /\ stage[j] \in {"tap", "address", "link", "jailer"}
    /\ Go(j, stage[j], "failed")
    /\ ipCounter' = ipCounter - 4
    /\ UNCHANGED <<seen, base, raced, sshVars, tap, vm, proxy>>

\* A command or a file operation fails, without a trace: Spawn returns and undoes
\* nothing.
SpawnFails(j) ==
    /\ Faults
    /\ stage[j] \in {"counter", "tap", "address", "link", "jailer", "authorize", "append"}
    /\ Go(j, stage[j], "failed")
    /\ UNCHANGED <<tapVars, sshVars, tap, vm, proxy>>

-----------------------------------------------------------------------------
(* ReportVM and UpsertVM: the row is new, for a job is given out once.      *)

\* Mutant: the report of a failure says nothing in its status.
MutReportBlank(j) ==
    /\ Reporting(j)
    /\ rows' = [rows EXCEPT ![j] = IF stage[j] = "running" THEN "running" ELSE ""]
    /\ stage' = [stage EXCEPT ![j] = "reported"]
    /\ UNCHANGED <<runVars, jobVars, tapVars, sshVars, tap, vm, proxy>>

Report(j) ==
    /\ Reporting(j)
    /\ rows' = [rows EXCEPT ![j] = stage[j]]
    /\ stage' = [stage EXCEPT ![j] = "reported"]
    /\ UNCHANGED <<runVars, jobVars, tapVars, sshVars, tap, vm, proxy>>

\* A report that fails is logged and not repeated.
ReportLost(j) ==
    /\ Faults
    /\ Reporting(j)
    /\ stage' = [stage EXCEPT ![j] = "unreported"]
    /\ UNCHANGED <<runVars, jobVars, tapVars, sshVars, tap, vm, proxy, rows>>

-----------------------------------------------------------------------------
(* tunnel.Proxy: every VM of a process is given the same address and port.  *)

Listening(i) == proxy[i] = "listening"

Listen(j) ==
    /\ proxy[j] = "starting"
    /\ \A i \in Jobs : ~ Listening(i)
    /\ proxy' = [proxy EXCEPT ![j] = "listening"]
    /\ UNCHANGED <<runVars, jobVars, tapVars, sshVars, stage, tap, vm, rows>>

\* The port is taken: only a log line says so.
ListenFails(j) ==
    /\ proxy[j] = "starting"
    /\ Faults \/ \E i \in Jobs : Listening(i)
    /\ proxy' = [proxy EXCEPT ![j] = "failed"]
    /\ UNCHANGED <<runVars, jobVars, tapVars, sshVars, stage, tap, vm, rows>>

-----------------------------------------------------------------------------
(* The machine.                                                             *)

\* The guest shuts down or crashes: nobody watches, the row stays.
VMDies(j) ==
    /\ vm[j] = "alive"
    /\ vm' = [vm EXCEPT ![j] = "dead"]
    /\ UNCHANGED <<runVars, jobVars, tapVars, sshVars, stage, tap, proxy, rows>>

\* The process ends with its goroutines and its listener.  Its microVMs may
\* end with it, its containers go on; a report it has sent may still arrive.
AgentStops ==
    /\ agent = "up"
    /\ agent' = "down"
    /\ \E sent \in SUBSET {j \in Jobs : Reporting(j)} :
           stage' = [j \in Jobs |-> IF Busy(j) /\ j \notin sent THEN "cut" ELSE stage[j]]
    /\ \E killed \in SUBSET {j \in Jobs : mode = "firecracker" /\ vm[j] = "alive"} :
           vm' = [j \in Jobs |-> IF j \in killed THEN "dead" ELSE vm[j]]
    /\ proxy' = [j \in Jobs |-> "none"]
    /\ UNCHANGED <<mode, run, jobVars, tapVars, sshVars, tap, rows>>

\* A new process: another provider id, address and port, and its counter at 1.
AgentStarts ==
    /\ agent = "down"
    /\ run < MaxRuns
    /\ agent' = "up"
    /\ run' = run + 1
    /\ ipCounter' = 1
    /\ UNCHANGED <<mode, jobVars, seen, base, raced, sshVars, stage, tap, vm, proxy, rows>>

-----------------------------------------------------------------------------
SpawnStep(j) ==
    \/ ReadCounter(j) \/ WriteCounter(j) \/ TakeBase(j)
    \/ AddTap(j) \/ AddAddress(j) \/ NoSuchAddress(j) \/ LinkUp(j)
    \/ StartJailer(j) \/ Boot(j) \/ BootFails(j)
    \/ DockerRun(j) \/ DockerRunFails(j) \/ Inspect(j) \/ InspectFails(j)
    \/ SkipAuthorize(j) \/ RejectKey(j) \/ MissKey(j) \/ AppendKey(j) \/ TornAppend(j)
    \/ BuildNothing(j)
    \/ SpawnFails(j)

HandlerStep(j) == SpawnStep(j) \/ Report(j) \/ ReportLost(j)

ProxyStep(j) == Listen(j) \/ ListenFails(j)

Next ==
    \/ \E j \in Jobs, k \in Keys \cup {NoKey} : Receive(j, k)
    \/ \E j \in Jobs : HandlerStep(j) \/ ProxyStep(j) \/ VMDies(j)
    \/ AgentStops
    \/ AgentStarts

Spec == Init /\ [][Next]_vars

\* Goroutines run on, and the commands and requests they wait for come to an
\* end.  No process of the agent is obliged to end or to be given a job.
Fairness == \A j \in Jobs : WF_vars(HandlerStep(j)) /\ WF_vars(ProxyStep(j))

FairSpec == Spec /\ Fairness

-----------------------------------------------------------------------------
(* Properties.                                                              *)

\* Types; the status column only takes the values the agent's reports carry.
TypeOK ==
    /\ mode \in Modes
    /\ agent \in {"up", "down"}
    /\ run \in Runs
    /\ stage \in [Jobs -> Stages]
    /\ runOf \in [Jobs -> Runs \cup {NoRun}]
    /\ key \in [Jobs -> Keys \cup {NoKey}]
    /\ ipCounter \in Nat
    /\ seen \in [Jobs -> Nat]
    /\ base \in [Jobs -> Nat]
    /\ tap \in [Jobs -> {"none", "bare", "addressed", "up"}]
    /\ vm \in [Jobs -> {"none", "alive", "dead", "leaked"}]
    /\ proxy \in [Jobs -> {"none", "starting", "listening", "failed"}]
    /\ lines \in Seq(Seq(Keys \cup {HostKey, Fragment}))
    /\ ending \in {"open", "closed"}
    /\ unended \in BOOLEAN
    /\ rows \in [Jobs -> {"none", "running", "failed"}]
    /\ raced \subseteq Runs

Started(j) == vm[j] \in {"alive", "dead"}

\* A job the control plane takes for running was built to the end: its VM was
\* started, in firecracker mode on a tap that is up with a real address.  It
\* may have died since, and nobody will say so.  (In a mode the agent does not
\* know there is nothing to build; in ssh mode see KeyAuthorized.)
RunningWasBuilt ==
    \A j \in Jobs : rows[j] = "running" =>
        /\ mode = "firecracker" => Started(j) /\ tap[j] = "up" /\ base[j] <= MaxOctet
        /\ mode = "container" => Started(j)

\* A job reported as failed has left no VM behind that runs, except a container
\* docker would not remove; taps it does leave.
FailedIsDead ==
    \A j \in Jobs : rows[j] = "failed" => vm[j] # "alive"

\* Two VMs of one process have different tap subnets, unless two calls of
\* allocateTapIP interfered; failed calls of Spawn do not matter.  Taps that an
\* earlier process left behind do have the addresses of this one's.
SubnetsDistinct ==
    \A i, j \in Jobs :
        i # j /\ runOf[i] = runOf[j] /\ base[i] # NoBase /\ base[i] = base[j]
            => runOf[i] \in raced

\* The key is somewhere in the file, at least as a part of a line.
Written(k) == \E i \in DOMAIN lines : \E n \in DOMAIN lines[i] : lines[i][n] = k

\* In ssh mode, a job reported as running has its buyer's key on a line of its
\* own, unless the owner or a torn write has at some time left the last line
\* without a newline: then the key is at least in the file, but may share its
\* line with what stood there, or with the key written after it, and the buyer,
\* who is told the job runs, cannot log in.  Nothing else keeps a key off its
\* line, however many jobs read and append at once.
KeyAuthorized ==
    \A j \in Jobs :
        mode = "ssh" /\ rows[j] = "running" /\ key[j] # NoKey =>
            Authorized(key[j]) \/ (unended /\ Written(key[j]))

\* Every job the agent is given is reported, unless the report is lost or the
\* process ends first: no failure of Spawn is passed over in silence.
JobSettles ==
    \A j \in Jobs :
        stage[j] # "idle" ~> rows[j] # "none" \/ stage[j] \in {"unreported", "cut"}

\* The report of a VM may come before the relay listens, but the relay comes:
\* the port of a VM reported as running is served in the end (it may be by
\* another VM's relay), unless Listen failed or the process ended.
RelayComesUp ==
    \A j \in Jobs :
        rows[j] = "running" /\ mode # "ssh" ~>
            \/ \E i \in Jobs : Listening(i)
            \/ proxy[j] = "failed"
            \/ agent = "down"
            \/ run # runOf[j]

\* "AllocPort returns a unique SSH relay port for a new VM" (redis.go:44): once
\* its Proxy has called Listen, the port reported for a VM leads to that VM.
RelayPerVM ==
    \A j \in Jobs :
        rows[j] = "running" /\ proxy[j] \in {"listening", "failed"} => Listening(j)
=============================================================================
