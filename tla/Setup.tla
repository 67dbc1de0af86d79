------------------------------- MODULE Setup -------------------------------
(***************************************************************************)
(* dcp-cp setup: the first-boot configurator of the control plane, a list  *)
(* of steps that each generate a secret or write a file unless the file is *)
(* there already.                                                          *)
(*                                                                         *)
(* A run may end anywhere: a command fails, the disk is full, the process  *)
(* is killed or the machine restarts.  os.WriteFile truncates the file and *)
(* then writes it, so a file whose write was cut short exists all the same *)
(* and the next run skips it.  The administrator may run setup again after *)
(* any end of a run, also after a complete one.                            *)
(*                                                                         *)
(* A secret is a number, and so is a file made from it: the public key has *)
(* the number of its private key, a connection string that of its password.*)
(***************************************************************************)
EXTENDS Naturals

CONSTANTS
    Absent,         \* what is on disk where there is no file
    Torn,           \* the content of a file whose write was cut short
    Hollow,         \* what is made from such a file: a key or password is lacking
    MaxStarts       \* bound: runs of setup

ASSUME ContentAssumption ==
    /\ Absent \notin Nat
    /\ Torn \notin Nat \cup {Absent}
    /\ Hollow \notin Nat \cup {Absent, Torn}
ASSUME StartsAssumption == MaxStarts \in Nat

VARIABLES
    pc,         \* the step of the run that is under way, "off" or "done"
    disk,       \* disk[f]: the content of f
    key,        \* the private key in the memory of setupWireGuard
    pass,       \* the password in the memory of setupPostgres
    role,       \* the password of the role dcp in PostgreSQL
    link,       \* the private key the interface wg0 has, Absent if it is down
    fresh,      \* the secrets generated so far
    cut,        \* the files whose last write was cut short, or not reached
                \* although the file it belongs to was written
    starts      \* the runs so far

memory == <<key, pass>>
outside == <<role, link>>
vars == <<pc, disk, memory, outside, fresh, cut, starts>>

\* The files that are written only while they are missing, the others that
\* setup writes on every run, and the configurations that hold no secret.
Once == {"ca", "wgPriv", "wgPub", "wgConf", "serverConf", "agentConf", "pgPass", "jwt"}
Always == {"joinToken", "pgDsn"}
Files == Once \cup Always
Secrets == {"ca", "wgPriv", "pgPass", "jwt"}
Plain == 0

Missing(f) == disk[f] = Absent
Whole(f) == disk[f] \in Nat

\* The secret that is read back from f.
Secret(f) == IF Whole(f) THEN disk[f] ELSE Hollow

\* The files made from a secret, and where it is kept.
Source == [wgPub |-> "wgPriv", wgConf |-> "wgPriv", pgDsn |-> "pgPass"]
Derived == {"wgPub", "wgConf", "pgDsn"}

\* The file that the run writes next at each of its steps.
Target == [ca |-> "ca", priv |-> "wgPriv", pub |-> "wgPub", conf |-> "wgConf",
           server |-> "serverConf", token |-> "joinToken", agent |-> "agentConf",
           pass |-> "pgPass", dsn |-> "pgDsn", jwt |-> "jwt"]
WriteSteps == {"ca", "priv", "pub", "conf", "server", "token", "agent", "pass", "dsn", "jwt"}
Steps == WriteSteps \cup {"genkey", "up", "role", "unit"}
Running == pc \in Steps
Writing(f) == pc \in WriteSteps /\ Target[pc] = f

\* A machine that setup is the first to configure: control-plane.sh and
\* wireguard.sh of scripts/, which make a role dcp and a key pair, were not run.
Init ==
    /\ pc = "off"
    /\ disk = [f \in Files |-> Absent]
    /\ key = Absent
    /\ pass = Absent
    /\ role = Absent
    /\ link = Absent
    /\ fresh = 0
    /\ cut = {}
    /\ starts = 0

-----------------------------------------------------------------------------
Start ==
    /\ ~ Running
    /\ starts < MaxStarts
    /\ pc' = "ca"
    /\ starts' = starts + 1
    /\ UNCHANGED <<disk, memory, outside, fresh, cut>>

\* writeFile, to the end; then the run goes on to the step next.
Write(f, content, next) ==
    /\ disk' = [disk EXCEPT ![f] = content]
    /\ cut' = cut \ {f}
    /\ pc' = next
    /\ UNCHANGED <<outside, starts>>

\* fileExists: the step is skipped.
Skip(step, next) ==
    /\ pc = step
    /\ ~ Missing(Target[step])
    /\ pc' = next
    /\ UNCHANGED <<disk, memory, outside, fresh, cut, starts>>

NewSecret == fresh' = fresh + 1

MakeCA ==
    /\ pc = "ca" /\ Missing("ca")
    /\ NewSecret
    /\ Write("ca", fresh + 1, "genkey")
    /\ UNCHANGED memory

SkipCA == Skip("ca", "genkey")

-----------------------------------------------------------------------------
(* setupWireGuard                                                           *)

\* Mutant: the error of wg genkey is not looked at.
MutGenKeyUnchecked ==
    /\ pc = "genkey" /\ Missing("wgPriv")
    /\ NewSecret
    /\ key' \in {fresh + 1, Hollow}
    /\ pc' = "priv"
    /\ UNCHANGED <<disk, pass, outside, cut, starts>>

\* Mutant: the key pair is generated on every run.
MutGenKeyAlways ==
    /\ pc = "genkey"
    /\ NewSecret
    /\ key' = fresh + 1
    /\ pc' = "priv"
    /\ UNCHANGED <<disk, pass, outside, cut, starts>>

GenKey ==
    /\ pc = "genkey" /\ Missing("wgPriv")
    /\ NewSecret
    /\ key' = fresh + 1
    /\ pc' = "priv"
    /\ UNCHANGED <<disk, pass, outside, cut, starts>>

SkipKeys ==
    /\ pc = "genkey" /\ ~ Missing("wgPriv")
    /\ pc' = "conf"
    /\ UNCHANGED <<disk, memory, outside, fresh, cut, starts>>

WritePriv ==
    /\ pc = "priv"
    /\ Write("wgPriv", key, "pub")
    /\ UNCHANGED <<memory, fresh>>

\* Mutant: the error of writing the public key is not looked at.
MutWritePubUnchecked ==
    /\ pc = "pub"
    /\ \E written \in {key, disk["wgPub"]} : Write("wgPub", written, "conf")
    /\ UNCHANGED <<memory, fresh>>

WritePub ==
    /\ pc = "pub"
    /\ Write("wgPub", key, "conf")
    /\ UNCHANGED <<memory, fresh>>

\* The key is read from the file: an empty one gives a wg0.conf without a key.
WriteConf ==
    /\ pc = "conf" /\ Missing("wgConf")
    /\ Write("wgConf", Secret("wgPriv"), "up")
    /\ UNCHANGED <<memory, fresh>>

SkipConf == Skip("conf", "up")

\* wg-quick up, unless the interface exists: it refuses an empty key, but not
\* an empty file.
LinkUp ==
    /\ pc = "up"
    /\ link # Absent \/ disk["wgConf"] # Hollow
    /\ link' = IF link = Absent THEN disk["wgConf"] ELSE link
    /\ pc' = "server"
    /\ UNCHANGED <<disk, memory, role, fresh, cut, starts>>

-----------------------------------------------------------------------------
(* setupSpireServer and setupSpireAgent                                     *)

WriteServerConf ==
    /\ pc = "server" /\ Missing("serverConf")
    /\ Write("serverConf", Plain, "token")
    /\ UNCHANGED <<memory, fresh>>

SkipServerConf == Skip("server", "token")

\* spire-server gives out a token only if it could read its configuration.
WriteToken ==
    /\ pc = "token" /\ Whole("serverConf")
    /\ NewSecret
    /\ Write("joinToken", fresh + 1, "agent")
    /\ UNCHANGED memory

WriteAgentConf ==
    /\ pc = "agent" /\ Missing("agentConf")
    /\ Write("agentConf", Plain, "pass")
    /\ UNCHANGED <<memory, fresh>>

SkipAgentConf == Skip("agent", "pass")

-----------------------------------------------------------------------------
(* setupPostgres                                                            *)

MakePass ==
    /\ pc = "pass" /\ Missing("pgPass")
    /\ NewSecret
    /\ pass' = fresh + 1
    /\ Write("pgPass", fresh + 1, "role")
    /\ UNCHANGED key

\* Mutant: the password file is not read back.
MutReadPassNew ==
    /\ pc = "pass" /\ ~ Missing("pgPass")
    /\ NewSecret
    /\ pass' = fresh + 1
    /\ pc' = "role"
    /\ UNCHANGED <<disk, key, outside, cut, starts>>

ReadPass ==
    /\ pc = "pass" /\ ~ Missing("pgPass")
    /\ pass' = Secret("pgPass")
    /\ pc' = "role"
    /\ UNCHANGED <<disk, key, outside, fresh, cut, starts>>

\* CREATE USER fails when the role exists, and may fail otherwise: nobody looks.
CreateRole ==
    /\ pc = "role"
    /\ role' \in {role, IF role = Absent THEN pass ELSE role}
    /\ pc' = "dsn"
    /\ UNCHANGED <<disk, memory, link, fresh, cut, starts>>

WriteDsn ==
    /\ pc = "dsn"
    /\ Write("pgDsn", pass, "jwt")
    /\ UNCHANGED <<memory, fresh>>

\* The error of this write is not looked at.
DsnFails ==
    /\ pc = "dsn"
    /\ \E left \in {disk["pgDsn"], Torn} : disk' = [disk EXCEPT !["pgDsn"] = left]
    /\ cut' = cut \cup {"pgDsn"}
    /\ pc' = "jwt"
    /\ UNCHANGED <<memory, outside, fresh, starts>>

-----------------------------------------------------------------------------
MakeSecret ==
    /\ pc = "jwt" /\ Missing("jwt")
    /\ NewSecret
    /\ Write("jwt", fresh + 1, "unit")
    /\ UNCHANGED memory

SkipSecret == Skip("jwt", "unit")

WriteUnit ==
    /\ pc = "unit"
    /\ pc' = "done"
    /\ UNCHANGED <<disk, memory, outside, fresh, cut, starts>>

-----------------------------------------------------------------------------
(* The end of a run before its last step.                                   *)

\* A command fails or the process ends, between two writes.
Interrupt ==
    /\ Running
    /\ pc' = "off"
    /\ cut' = IF pc = "pub" THEN cut \cup {"wgPub"} ELSE cut
    /\ UNCHANGED <<disk, memory, outside, fresh, starts>>

\* The write of f is cut short, by a full disk or by the end of the process.
Tear(f) ==
    /\ Writing(f)
    /\ f \in Once => f = "wgPub" \/ Missing(f)
    /\ f = "joinToken" => Whole("serverConf")
    /\ disk' = [disk EXCEPT ![f] = Torn]
    /\ cut' = cut \cup {f}
    /\ pc' = "off"
    /\ UNCHANGED <<memory, outside, fresh, starts>>

\* systemd brings wg0 up again from wg0.conf, if it was enabled and works.
Reboot ==
    /\ pc' = "off"
    /\ cut' = IF pc = "pub" THEN cut \cup {"wgPub"} ELSE cut
    /\ link' \in {Absent, disk["wgConf"]} \ {Hollow}
    /\ UNCHANGED <<disk, memory, role, fresh, starts>>

WireGuardStep == GenKey \/ SkipKeys \/ WritePriv \/ WritePub \/ WriteConf \/ SkipConf \/ LinkUp
SpireStep == WriteServerConf \/ SkipServerConf \/ WriteToken \/ WriteAgentConf \/ SkipAgentConf
PostgresStep == MakePass \/ ReadPass \/ CreateRole \/ WriteDsn \/ DsnFails
RunStep ==
    \/ MakeCA \/ SkipCA
    \/ WireGuardStep
    \/ SpireStep
    \/ PostgresStep
    \/ MakeSecret \/ SkipSecret \/ WriteUnit

Next ==
    \/ Start
    \/ RunStep
    \/ Interrupt
    \/ \E f \in Files : Tear(f)
    \/ Reboot

Spec == Init /\ [][Next]_vars

-----------------------------------------------------------------------------
(* Properties.                                                              *)

Content == Nat \cup {Absent, Torn, Hollow}

\* Types; a file that setup generates, and is not made from another one, is never
\* written without its content.
TypeOK ==
    /\ pc \in Steps \cup {"off", "done"}
    /\ disk \in [Files -> Content]
    /\ \A f \in Files \ Derived : disk[f] # Hollow
    /\ key \in Content
    /\ pass \in Content
    /\ role \in Content
    /\ link \in Content
    /\ fresh \in Nat
    /\ cut \subseteq Files
    /\ starts \in 0 .. MaxStarts

\* No re-run replaces a secret that is on disk whole: what was signed, encrypted
\* or configured with it stays valid, wherever the run before it ended.
SecretsKept ==
    [][\A f \in Secrets : Whole(f) => disk'[f] = disk[f]]_vars

\* However often setup is cut off and run again, what is made from a secret is
\* made from the secret on disk: the public key, wg0.conf and the interface from
\* cp_private, the role's password and the connection string from pg_pass.
SecretsAgree ==
    /\ \A f \in Derived : Whole(f) => disk[f] = disk[Source[f]]
    /\ link \in Nat => link = disk["wgPriv"]
    /\ role # Absent => role = Secret("pgPass")

\* A run that reaches its end leaves every file whole and the interface up,
\* whatever happened to earlier runs: except for a file whose last write was cut
\* short or not reached, and those made from it.
CompleteUnlessCut ==
    pc = "done" =>
        /\ \A f \in Files : Whole(f) \/ f \in cut \/ (f \in Derived /\ Source[f] \in cut)
        /\ link # Absent

\* README.md:106 and cmd/setup.go:11 say "idempotent" and "safe to re-run": a
\* run that reaches its end leaves the key pair the README's table lists.
SafeToRerun == pc = "done" => ~ Missing("wgPub")
=============================================================================
