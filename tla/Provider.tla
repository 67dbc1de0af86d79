------------------------------ MODULE Provider ------------------------------
(***************************************************************************)
(* A provider machine: dcp-provider setup, and what its agent does before  *)
(* it polls for jobs.  GenerateKeypair reuses or makes the WireGuard key   *)
(* pair, Register sends the public half, WriteConfig stores the wg0.conf   *)
(* of the answer and has wg read it.                                       *)
(*                                                                         *)
(* Setup and agent share the two key files and test different ones: setup  *)
(* skips its key step if prov_private is there, the agent reuses the pair  *)
(* if prov_public is.  Either may end anywhere; systemd or the             *)
(* administrator starts them again.  os.WriteFile truncates a file and     *)
(* then writes it, so a write cut short leaves an empty file.              *)
(*                                                                         *)
(* wg does not accept the wg0.conf that the control plane builds, so that  *)
(* every process of the agent ends in bringUp, after it has registered.    *)
(*                                                                         *)
(* A key pair is a number, the content of both of its files.               *)
(***************************************************************************)
EXTENDS Naturals, FiniteSets

CONSTANTS
    Absent,         \* what is on disk where there is no file
    Empty,          \* the content of a file whose write was cut short
    MaxKeys,        \* bound: key pairs made
    MaxCalls,       \* bound: registrations
    MaxRuns         \* bound: runs of setup

ASSUME ContentAssumption == Absent \notin Nat /\ Empty \notin Nat \cup {Absent}
ASSUME BoundAssumption == MaxKeys \in Nat /\ MaxCalls \in Nat /\ MaxRuns \in Nat

VARIABLES
    disk,       \* disk[f]: the content of f
    setup,      \* the step of the run of setup, "off" or "done"
    setupKey,   \* the pair in the memory of setupWGKeypair
    runs,       \* runs of setup so far
    agent,      \* the step of the agent process
    pubKey,     \* the public key in its memory
    fresh,      \* key pairs made so far
    calls,      \* registrations so far
    registered, \* the public keys of all of them
    cut,        \* the key files that the end of a process left empty or unwritten
    overlapped  \* whether setup and an agent ever made keys at the same time

setupVars == <<setup, setupKey, runs>>
agentVars == <<agent, pubKey>>
cpVars == <<calls, registered>>
vars == <<disk, setupVars, agentVars, fresh, cpVars, cut, overlapped>>

KeyFiles == {"priv", "pub"}
\* The files setup writes on every run; the SPIRE token only if it has one.
PlainFiles == {"spireConf", "joinToken", "spireUnit", "env", "unit"}
Files == KeyFiles \cup PlainFiles \cup {"conf"}
Plain == 0
Contents == Nat \cup {Absent, Empty}

\* Setup writes one file at each of its steps, in this order.
After == [priv |-> "pub", pub |-> "spireConf", spireConf |-> "joinToken",
          joinToken |-> "spireUnit", spireUnit |-> "env", env |-> "unit",
          unit |-> "done"]

Missing(f) == disk[f] = Absent

Init ==
    /\ disk = [f \in Files |-> Absent]
    /\ setup = "off" /\ setupKey = Absent /\ runs = 0
    /\ agent = "off" /\ pubKey = Absent
    /\ fresh = 0
    /\ calls = 0 /\ registered = {}
    /\ cut = {}
    /\ overlapped = FALSE

-----------------------------------------------------------------------------
(* dcp-provider setup                                                       *)

StartSetup ==
    /\ setup \in {"off", "done"}
    /\ runs < MaxRuns
    /\ setup' = "keys"
    /\ runs' = runs + 1
    /\ UNCHANGED <<disk, setupKey, agentVars, fresh, cpVars, cut, overlapped>>

\* setupWGKeypair: prov_private exists, at least as the file that the agent
\* has created but not written yet.
SkipKeys ==
    /\ setup = "keys"
    /\ ~ Missing("priv") \/ agent = "priv"
    /\ setup' = "spireConf"
    /\ UNCHANGED <<disk, setupKey, runs, agentVars, fresh, cpVars, cut, overlapped>>

\* Mutant: the pair is made on every run.
MutMakeKeys ==
    /\ setup = "keys"
    /\ fresh < MaxKeys
    /\ fresh' = fresh + 1
    /\ setupKey' = fresh + 1
    /\ setup' = "priv"
    /\ overlapped' = (overlapped \/ agent \in KeyFiles)
    /\ UNCHANGED <<disk, runs, agentVars, cpVars, cut>>

MakeKeys ==
    /\ setup = "keys"
    /\ Missing("priv")
    /\ fresh < MaxKeys
    /\ fresh' = fresh + 1
    /\ setupKey' = fresh + 1
    /\ setup' = "priv"
    /\ overlapped' = (overlapped \/ agent \in KeyFiles)
    /\ UNCHANGED <<disk, runs, agentVars, cpVars, cut>>

SetupWrite ==
    /\ setup \in KeyFiles \cup PlainFiles
    /\ disk' = [disk EXCEPT ![setup] = IF setup \in KeyFiles THEN setupKey ELSE Plain]
    /\ cut' = cut \ {setup}
    /\ setup' = After[setup]
    /\ setupKey' = IF setup = "priv" THEN setupKey ELSE Absent
    /\ UNCHANGED <<runs, agentVars, fresh, cpVars, overlapped>>

\* Mutant: without a SPIRE token the unit of the SPIRE agent is not written.
MutNoJoinToken ==
    /\ setup = "joinToken"
    /\ setup' = "env"
    /\ UNCHANGED <<disk, setupKey, runs, agentVars, fresh, cpVars, cut, overlapped>>

\* No --spire-token was given: what is in join_token, if anything, stays.
NoJoinToken ==
    /\ setup = "joinToken"
    /\ setup' = After[setup]
    /\ UNCHANGED <<disk, setupKey, runs, agentVars, fresh, cpVars, cut, overlapped>>

\* The disk after a process ends at this step: a file it was writing is left
\* as it was, or empty.
DiskAfter(step) ==
    IF step \in Files THEN {disk, [disk EXCEPT ![step] = Empty]} ELSE {disk}

\* The key files which that leaves behind empty or, for the public key when its
\* private key is not written either, missing.
CutAfter(step) ==
    {f \in KeyFiles : f = step \/ (step = "priv" /\ f = "pub")}

\* A command or a write fails, or the process is killed.
SetupEnds ==
    /\ setup \notin {"off", "done"}
    /\ disk' \in DiskAfter(setup)
    /\ cut' = cut \cup CutAfter(setup)
    /\ setup' = "off"
    /\ setupKey' = Absent
    /\ UNCHANGED <<runs, agentVars, fresh, cpVars, overlapped>>

-----------------------------------------------------------------------------
(* The agent up to its poll loop                                            *)

AgentStarts ==
    /\ agent = "off"
    /\ agent' = "keys"
    /\ UNCHANGED <<disk, setupVars, pubKey, fresh, cpVars, cut, overlapped>>

\* Mutant: the error of os.ReadFile is not looked at.
MutReuseKeys ==
    /\ agent = "keys"
    /\ pubKey' = disk["pub"]
    /\ agent' = "register"
    /\ overlapped' = (overlapped \/ setup \in KeyFiles)
    /\ UNCHANGED <<disk, setupVars, fresh, cpVars, cut>>

\* GenerateKeypair: prov_public can be read, be it empty, as it also is while
\* setup writes it.
ReuseKeys ==
    /\ agent = "keys"
    /\ \/ ~ Missing("pub") /\ pubKey' = disk["pub"]
       \/ setup = "pub" /\ pubKey' = Empty
    /\ agent' = "register"
    /\ overlapped' = (overlapped \/ setup \in KeyFiles)
    /\ UNCHANGED <<disk, setupVars, fresh, cpVars, cut>>

\* Mutant: the pair is made again on every start.
MutGenerateAlways ==
    /\ agent = "keys"
    /\ fresh < MaxKeys
    /\ fresh' = fresh + 1
    /\ pubKey' = fresh + 1
    /\ agent' = "priv"
    /\ overlapped' = (overlapped \/ setup \in KeyFiles)
    /\ UNCHANGED <<disk, setupVars, cpVars, cut>>

\* Otherwise both files are made, whatever prov_private holds.
GenerateKeypair ==
    /\ agent = "keys"
    /\ Missing("pub")
    /\ fresh < MaxKeys
    /\ fresh' = fresh + 1
    /\ pubKey' = fresh + 1
    /\ agent' = "priv"
    /\ overlapped' = (overlapped \/ setup \in KeyFiles)
    /\ UNCHANGED <<disk, setupVars, cpVars, cut>>

WriteKey ==
    /\ agent \in KeyFiles
    /\ disk' = [disk EXCEPT ![agent] = pubKey]
    /\ cut' = cut \ {agent}
    /\ agent' = IF agent = "priv" THEN "pub" ELSE "register"
    /\ UNCHANGED <<setupVars, pubKey, fresh, cpVars, overlapped>>

AgentOff == agent' = "off" /\ pubKey' = Absent

\* The control plane takes any key and answers with a wg0.conf; the agent may
\* not get the answer.
Register ==
    /\ agent = "register"
    /\ calls < MaxCalls
    /\ calls' = calls + 1
    /\ registered' = registered \cup {pubKey}
    /\ \/ agent' = "conf" /\ UNCHANGED pubKey
       \/ AgentOff
    /\ UNCHANGED <<disk, setupVars, fresh, cut, overlapped>>

\* WriteConfig
WriteConf ==
    /\ agent = "conf"
    /\ disk' = [disk EXCEPT !["conf"] = Plain]
    /\ agent' = "up"
    /\ UNCHANGED <<setupVars, pubKey, fresh, cpVars, cut, overlapped>>

\* bringUp.  The file says PrivateKey = /etc/wireguard/prov_private, and wg takes
\* what stands there for the key itself; it has an Address too, which wg-quick
\* knows and wg does not.  So wg-quick up, wg syncconf and wg setconf all refuse
\* it, whether or not there is an interface, and Run returns their error.
BringUpFails ==
    /\ agent = "up"
    /\ AgentOff
    /\ UNCHANGED <<disk, setupVars, fresh, cpVars, cut, overlapped>>

\* An error makes Run return, or the process is killed.
AgentEnds ==
    /\ agent # "off"
    /\ disk' \in DiskAfter(agent)
    /\ cut' = cut \cup CutAfter(agent)
    /\ AgentOff
    /\ UNCHANGED <<setupVars, fresh, cpVars, overlapped>>

-----------------------------------------------------------------------------
SetupStep ==
    StartSetup \/ SkipKeys \/ MakeKeys \/ SetupWrite \/ NoJoinToken \/ SetupEnds

AgentStep ==
    \/ AgentStarts \/ ReuseKeys \/ GenerateKeypair \/ WriteKey \/ Register
    \/ WriteConf \/ BringUpFails \/ AgentEnds

Next == SetupStep \/ AgentStep

Spec == Init /\ [][Next]_vars

-----------------------------------------------------------------------------
(* Properties.                                                              *)

\* Types; setupKey and pubKey are whole pairs whenever they are written, and
\* there is always a key to register, be it the empty one.
TypeOK ==
    /\ disk \in [Files -> Contents]
    /\ setup \in {"off", "keys", "done"} \cup KeyFiles \cup PlainFiles
    /\ setupKey \in Nat \cup {Absent}
    /\ setup \in KeyFiles => setupKey \in Nat
    /\ runs \in 0 .. MaxRuns
    /\ agent \in {"off", "keys", "register", "conf", "up"} \cup KeyFiles
    /\ pubKey \in Contents
    /\ agent \in KeyFiles => pubKey \in Nat
    /\ agent = "register" => pubKey # Absent
    /\ fresh \in 0 .. MaxKeys
    /\ calls \in 0 .. MaxCalls
    /\ registered \subseteq Contents \ {Absent}
    /\ cut \subseteq KeyFiles
    /\ overlapped \in BOOLEAN

\* A machine has one key for life (GenerateKeypair: "reuse them, idempotent
\* across restarts"): every key it ever registered is still its prov_public.
\* That is also true of the empty one, which no run of setup or agent repairs.
KeyForLife ==
    ~ overlapped => registered \subseteq {disk["pub"]}

\* Whoever made them, and wherever a run ended before, the key files are the
\* two halves of one pair as soon as there is a public one.
HalvesMatch ==
    ~ overlapped /\ disk["pub"] \in Nat => disk["priv"] = disk["pub"]

\* Even if setup and agents make keys at the same time, the control plane gets
\* to know a machine by two keys at the most, however often either is started or
\* cut off: that of the one run of setup and that of the one agent which came as
\* far as prov_public.  (The empty one is no key.)
FewKeys == Cardinality(registered \ {Empty}) <= 2

\* A complete run of setup leaves every file it writes, but for the key files
\* if a process before it ended in the middle of them: setup skips those
\* forever, and it is the agent that makes a missing public key, together with
\* a new private one.  Or the agent is making them right now.
SetupComplete ==
    setup = "done" =>
        /\ \A f \in PlainFiles \ {"joinToken"} : disk[f] = Plain
        /\ \A f \in KeyFiles :
               disk[f] \in Nat \/ f \in cut \/ agent \in KeyFiles \/ overlapped
=============================================================================
