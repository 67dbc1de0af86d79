---------------------------- MODULE AgentProofs ----------------------------
(***************************************************************************)
(* What the agent's goroutines do to the VMs, the file authorized_keys and *)
(* the reports, for any number of jobs, processes and keys.                *)
(*                                                                         *)
(* The invariant AgentInv says what each stage of handleJob has done so    *)
(* far (StageInv), which lines authorized_keys can have (KeyInv), and that *)
(* the addresses taken from the counter, and those about to be, are below  *)
(* it and distinct until two calls interfere (SubnetInv).                  *)
(***************************************************************************)
EXTENDS Agent, FiniteSets, FiniteSetTheorems, SequenceTheorems, TLAPS

DockerStages == {"docker", "inspect"}
KeyStages == {"authorize", "append"}
Spawning == FirecrackerStages \cup DockerStages \cup KeyStages \cup {"nothing"}
Unstarted == {"idle", "counter", "bump", "base", "tap", "address", "link", "jailer", "docker",
              "authorize", "append", "nothing"}

Built(j) ==
    /\ mode = "firecracker" => Started(j) /\ tap[j] = "up" /\ base[j] <= MaxOctet
    /\ mode = "container" => Started(j)

\* What authorized_keys is written from.
Words == Keys \cup {HostKey, Fragment}

ModeInv ==
    \A j \in Jobs :
        /\ stage[j] \in Spawning => runOf[j] = run /\ agent = "up"
        /\ stage[j] \in FirecrackerStages => mode = "firecracker"
        /\ stage[j] \in DockerStages => mode = "container"
        /\ stage[j] \in KeyStages => mode = "ssh"
        /\ stage[j] = "nothing" => mode = "other"
        /\ runOf[j] <= run

StageInv ==
    \A j \in Jobs :
        /\ stage[j] \in Unstarted => vm[j] = "none"
        /\ stage[j] \in {"boot", "inspect"} => Started(j)
        /\ stage[j] \in {"link", "jailer", "boot"} => base[j] <= MaxOctet
        /\ stage[j] \in {"jailer", "boot"} => tap[j] = "up"
        /\ rows[j] # "none" => stage[j] = "reported"
        /\ stage[j] = "running" \/ rows[j] = "running" => Built(j)
        /\ stage[j] = "failed" \/ rows[j] = "failed" => vm[j] # "alive"

KeyDone(j) == key[j] = NoKey \/ Authorized(key[j]) \/ (unended /\ Written(key[j]))

KeyInv ==
    /\ ending = "open" => lines # <<>> /\ unended
    /\ \A j \in Jobs :
           /\ stage[j] = "append" => key[j] # NoKey
           /\ rows[j] # "none" => stage[j] = "reported"
           /\ mode = "ssh" /\ (stage[j] = "running" \/ rows[j] = "running") => KeyDone(j)

\* The address j has, or will have if nothing interferes.
Claims(j) == base[j] # NoBase \/ stage[j] = "base"
Claim(j) == IF stage[j] = "base" THEN seen[j] + 4 ELSE base[j]

SubnetInv ==
    /\ \A j \in Jobs :
           /\ stage[j] \in {"idle", "counter", "bump", "base"} => base[j] = NoBase
           /\ Claims(j) /\ runOf[j] = run /\ run \notin raced => Claim(j) <= ipCounter
    /\ \A i, j \in Jobs :
           i # j /\ runOf[i] = runOf[j] /\ Claims(i) /\ Claims(j) /\ Claim(i) = Claim(j)
               => runOf[i] \in raced

AgentInv == TypeOK /\ ModeInv /\ StageInv /\ KeyInv /\ SubnetInv
USE DEF NoRun, NoBase

-----------------------------------------------------------------------------
\* The machine as it is first started satisfies the invariant.
LEMMA InitInv == Init => AgentInv
<1> SUFFICES ASSUME Init PROVE AgentInv
  OBVIOUS
<1> USE KeysAssumption, RunsAssumption, OctetAssumption, ModesAssumption DEF Init
<1>1. TypeOK
  <2>1. lines \in Seq(Seq(Words))
    <3>1. <<HostKey>> \in Seq(Words)
      BY DEF Words
    <3>2. <<<<HostKey>>>> \in Seq(Seq(Words))
      BY <3>1
    <3>3. <<>> \in Seq(Seq(Words))
      OBVIOUS
    <3> QED BY <3>2, <3>3
  <2>2. ending \in {"open", "closed"} /\ unended \in BOOLEAN /\ run \in Runs
    BY DEF Runs
  <2> QED BY <2>1, <2>2 DEF TypeOK, Stages, Words
<1>2. ModeInv
  <2>1. \A j \in Jobs : stage[j] = "idle" /\ runOf[j] = 0
    OBVIOUS
  <2>2. run = 1
    OBVIOUS
  <2>3. "idle" \notin Spawning
    BY DEF Spawning, FirecrackerStages, DockerStages, KeyStages
  <2>4. "idle" \notin FirecrackerStages
    BY DEF FirecrackerStages
  <2>5. "idle" \notin DockerStages /\ "idle" \notin KeyStages
    BY DEF DockerStages, KeyStages
  <2> HIDE DEF Init
  <2>6. \A j \in Jobs : runOf[j] <= run
    <3> TAKE j \in Jobs
    <3>1. runOf[j] = 0
      BY <2>1
    <3>2. 0 <= 1
      OBVIOUS
    <3> QED BY <2>2, <3>1, <3>2
  <2> QED BY <2>1, <2>3, <2>4, <2>5, <2>6 DEF ModeInv
<1>3. StageInv
  BY DEF StageInv, Built, Started, Unstarted
<1>4. KeyInv
  <2>1. ending = "open" => lines # <<>> /\ unended
    <3>1. ending = "open" => unended
      BY Zenon
    <3>2. ending = "open" => lines = <<<<HostKey>>>>
      OBVIOUS
    <3> QED BY <3>1, <3>2
  <2>2. \A j \in Jobs : stage[j] = "idle" /\ rows[j] = "none"
    OBVIOUS
  <2> QED BY <2>1, <2>2 DEF KeyInv
<1>5. SubnetInv
  BY DEF SubnetInv, Claims, Claim
<1> QED BY <1>1, <1>2, <1>3, <1>4, <1>5 DEF AgentInv

\* A line stays as it is once it is ended by a newline.
Ended(i) == i < Len(lines) \/ ending = "closed"

\* What an append does: the file keeps its lines, those that are ended as they
\* are, and an open one as the beginning of a longer one; what is written stands
\* at the end of the last line, and alone there if the file was ended.
LEMMA AppendedLines ==
    ASSUME TypeOK, KeyInv, NEW w \in Words, lines' = Appended(w)
    PROVE  /\ lines' \in Seq(Seq(Words))
           /\ lines' # <<>>
           /\ Len(lines) \in Nat /\ Len(lines') \in Nat
           /\ Len(lines') >= Len(lines)
           /\ ending = "closed" => Len(lines') > Len(lines)
           /\ \A i \in DOMAIN lines :
                  /\ i \in DOMAIN lines'
                  /\ Ended(i) => lines'[i] = lines[i]
                  /\ \A n \in DOMAIN lines[i] :
                         n \in DOMAIN lines'[i] /\ lines'[i][n] = lines[i][n]
           /\ \E i \in DOMAIN lines' :
                  /\ \E n \in DOMAIN lines'[i] : lines'[i][n] = w
                  /\ ending = "closed" => lines'[i] = <<w>>
<1>1. lines \in Seq(Seq(Words))
  BY DEF TypeOK, Words
<1>2. CASE ending = "closed"
  <2>1. lines' = Append(lines, <<w>>)
    BY <1>2 DEF Appended
  <2>2. <<w>> \in Seq(Words) /\ Len(<<w>>) = 1 /\ <<w>>[1] = w /\ DOMAIN <<w>> = {1}
    OBVIOUS
  <2>3. lines' \in Seq(Seq(Words))
    BY <1>1, <2>1, <2>2
  <2>4. /\ Len(lines) \in Nat
        /\ Len(lines') = Len(lines) + 1
        /\ DOMAIN lines = 1 .. Len(lines)
        /\ DOMAIN lines' = 1 .. Len(lines) + 1
        /\ lines'[Len(lines) + 1] = <<w>>
        /\ \A i \in DOMAIN lines : lines'[i] = lines[i]
    BY <1>1, <2>1, <2>2
  <2>5. Len(lines) + 1 \in DOMAIN lines' /\ lines' # <<>>
    BY <2>4
  <2>6. \E i \in DOMAIN lines' :
            (\E n \in DOMAIN lines'[i] : lines'[i][n] = w) /\ lines'[i] = <<w>>
    BY <2>2, <2>4, <2>5
  <2>7. \A i \in DOMAIN lines : i \in DOMAIN lines' /\ lines'[i] = lines[i]
    BY <2>4
  <2>8. Len(lines') \in Nat /\ Len(lines') >= Len(lines) /\ Len(lines') > Len(lines)
    BY <2>4
  <2> QED BY <2>3, <2>4, <2>5, <2>6, <2>7, <2>8
<1>3. CASE ending = "open"
  <2> DEFINE m == Len(lines)
             last == Append(lines[m], w)
  <2>1. lines' = [lines EXCEPT ![m] = last]
    BY <1>3 DEF Appended
  <2>2. m \in Nat /\ m \in 1 .. m /\ DOMAIN lines = 1 .. m
    BY <1>1, <1>3 DEF KeyInv
  <2>3. lines[m] \in Seq(Words)
    BY <1>1, <2>2
  <2>4. /\ last \in Seq(Words)
        /\ Len(last) = Len(lines[m]) + 1
        /\ last[Len(lines[m]) + 1] = w
        /\ \A n \in DOMAIN lines[m] : n \in DOMAIN last /\ last[n] = lines[m][n]
        /\ Len(lines[m]) + 1 \in DOMAIN last
    BY <2>3
  <2> HIDE DEF last
  <2>5. lines' \in Seq(Seq(Words)) /\ Len(lines') = m
    BY <1>1, <2>1, <2>2, <2>4, ExceptSeq
  <2>6. DOMAIN lines' = 1 .. m /\ lines' # <<>>
    BY <2>2, <2>5
  <2>7. lines'[m] = last /\ \A i \in DOMAIN lines \ {m} : lines'[i] = lines[i]
    BY <2>1, <2>2
  <2>8. \A i \in DOMAIN lines : Ended(i) => lines'[i] = lines[i]
    BY <1>3, <2>2, <2>7 DEF Ended
  <2>9. \A i \in DOMAIN lines :
            /\ i \in DOMAIN lines'
            /\ \A n \in DOMAIN lines[i] :
                   n \in DOMAIN lines'[i] /\ lines'[i][n] = lines[i][n]
    <3>1. \A i \in DOMAIN lines : i \in DOMAIN lines'
      BY <2>2, <2>6
    <3>2. \A n \in DOMAIN lines[m] : n \in DOMAIN lines'[m] /\ lines'[m][n] = lines[m][n]
      BY <2>4, <2>7
    <3>3. \A i \in DOMAIN lines \ {m} : \A n \in DOMAIN lines[i] :
              n \in DOMAIN lines'[i] /\ lines'[i][n] = lines[i][n]
      BY <2>7
    <3> QED BY <3>1, <3>2, <3>3
  <2>10. \E i \in DOMAIN lines' : \E n \in DOMAIN lines'[i] : lines'[i][n] = w
    BY <2>2, <2>4, <2>6, <2>7
  <2>11. Len(lines') >= Len(lines) /\ Len(lines) \in Nat /\ Len(lines') \in Nat
    BY <2>2, <2>5
  <2> HIDE DEF m
  <2> QED BY <1>3, <2>5, <2>6, <2>8, <2>9, <2>10, <2>11
<1> QED BY <1>2, <1>3 DEF TypeOK

\* An append leaves every key in the file, puts what it writes there, and takes
\* no key's line for its own unless the file was open.
LEMMA AppendedKeys ==
    ASSUME TypeOK, KeyInv, NEW w \in Words, NEW c \in Keys, lines' = Appended(w)
    PROVE  /\ Written(c) \/ Authorized(c) => Written(c)'
           /\ Written(w)'
           /\ ending = "closed" => (Authorized(c) => Authorized(c)') /\ Authorized(w)'
<1>1. /\ \A i \in DOMAIN lines :
              /\ i \in DOMAIN lines'
              /\ ending = "closed" => lines'[i] = lines[i]
              /\ \A n \in DOMAIN lines[i] :
                     n \in DOMAIN lines'[i] /\ lines'[i][n] = lines[i][n]
      /\ \E i \in DOMAIN lines' :
              /\ \E n \in DOMAIN lines'[i] : lines'[i][n] = w
              /\ ending = "closed" => lines'[i] = <<w>>
  BY AppendedLines DEF Ended
<1>2. Authorized(c) => Written(c)
  <2>1. 1 \in DOMAIN <<c>> /\ <<c>>[1] = c
    OBVIOUS
  <2> QED BY <2>1 DEF Authorized, Written
<1> QED BY <1>1, <1>2 DEF Authorized, Written

-----------------------------------------------------------------------------
\* Every step keeps the types.
LEMMA TypeStep == TypeOK /\ KeyInv /\ [Next]_vars => TypeOK'
<1> SUFFICES ASSUME TypeOK, KeyInv, [Next]_vars PROVE TypeOK'
  OBVIOUS
<1> USE DEF Go, runVars, jobVars, tapVars, sshVars
<1>1. ASSUME NEW j \in Jobs, NEW k \in Keys \cup {NoKey}, Receive(j, k) PROVE TypeOK'
  <2>1. FirstStage \in Stages
    BY ModesAssumption DEF TypeOK, FirstStage, Stages, FirecrackerStages
  <2> QED BY <1>1, <2>1 DEF Receive, TypeOK
<1>2. ASSUME NEW j \in Jobs, ReadCounter(j) \/ WriteCounter(j) \/ TakeBase(j) PROVE TypeOK'
  <2>1. CASE ReadCounter(j)
    BY <2>1 DEF ReadCounter, TypeOK, Stages, FirecrackerStages
  <2>2. CASE WriteCounter(j)
    BY <2>2 DEF WriteCounter, Interfered, TypeOK, Stages, FirecrackerStages
  <2>3. CASE TakeBase(j)
    <3>1. PICK b \in {seen[j] + 4, ipCounter} :
             base' = [base EXCEPT ![j] = b] /\ raced' = Interfered(b # seen[j] + 4)
      BY <2>3 DEF TakeBase
    <3>2. b \in Nat
      BY <3>1 DEF TypeOK
    <3> QED BY <2>3, <3>1, <3>2 DEF TakeBase, Interfered, TypeOK, Stages, FirecrackerStages
  <2> QED BY <1>2, <2>1, <2>2, <2>3
<1>3. ASSUME NEW j \in Jobs,
             \/ AddTap(j) \/ AddAddress(j) \/ NoSuchAddress(j) \/ LinkUp(j)
             \/ StartJailer(j) \/ Boot(j) \/ BootFails(j)
      PROVE TypeOK'
  <2>1. CASE AddTap(j) \/ AddAddress(j) \/ NoSuchAddress(j) \/ LinkUp(j)
    BY <2>1 DEF AddTap, AddAddress, NoSuchAddress, LinkUp, TypeOK, Stages, FirecrackerStages
  <2>2. CASE StartJailer(j) \/ Boot(j) \/ BootFails(j)
    BY <2>2 DEF StartJailer, Boot, BootFails, TypeOK, Stages, FirecrackerStages
  <2> QED BY <1>3, <2>1, <2>2
<1>4. ASSUME NEW j \in Jobs,
             DockerRun(j) \/ DockerRunFails(j) \/ Inspect(j) \/ InspectFails(j)
      PROVE TypeOK'
  <2>1. CASE DockerRun(j)
    BY <2>1 DEF DockerRun, TypeOK, Stages
  <2>2. CASE Inspect(j)
    BY <2>2 DEF Inspect, TypeOK, Stages
  <2>3. CASE InspectFails(j)
    <3>1. PICK left \in {"dead", "leaked"} : vm' = [vm EXCEPT ![j] = left]
      BY <2>3 DEF InspectFails
    <3> QED BY <2>3, <3>1 DEF InspectFails, TypeOK, Stages
  <2>4. CASE DockerRunFails(j)
    <3>1. PICK made \in {"none", "leaked"} : vm' = [vm EXCEPT ![j] = made]
      BY <2>4 DEF DockerRunFails
    <3> QED BY <2>4, <3>1 DEF DockerRunFails, TypeOK, Stages
  <2> QED BY <1>4, <2>1, <2>2, <2>3, <2>4
<1>5. ASSUME NEW j \in Jobs,
             SkipAuthorize(j) \/ RejectKey(j) \/ MissKey(j) \/ BuildNothing(j)
      PROVE TypeOK'
  BY <1>5 DEF SkipAuthorize, RejectKey, MissKey, BuildNothing, TypeOK, Stages
<1>6. ASSUME NEW j \in Jobs, AppendKey(j) PROVE TypeOK'
  <2>1. key[j] \in Keys
    BY <1>6 DEF AppendKey, KeyInv, TypeOK
  <2>2. lines' \in Seq(Seq(Words))
    BY <1>6, <2>1, AppendedLines DEF AppendKey, Words
  <2> QED BY <1>6, <2>2 DEF AppendKey, TypeOK, Stages, Words
<1>12. ASSUME NEW j \in Jobs, TornAppend(j) PROVE TypeOK'
  <2>1. PICK w \in {Fragment, key[j]} : lines' = Appended(w)
    BY <1>12 DEF TornAppend
  <2>2. w \in Words
    BY <1>12, <2>1 DEF TornAppend, KeyInv, TypeOK, Words
  <2>3. lines' \in Seq(Seq(Words))
    BY <2>1, <2>2, AppendedLines
  <2> QED BY <1>12, <2>3 DEF TornAppend, TypeOK, Stages, Words
<1>7. ASSUME NEW j \in Jobs, SpawnFails(j) \/ Report(j) \/ ReportLost(j) PROVE TypeOK'
  <2>1. CASE SpawnFails(j)
    BY <2>1 DEF SpawnFails, TypeOK, Stages
  <2>2. CASE Report(j)
    <3>1. stage[j] \in {"running", "failed"}
      BY <2>2 DEF Report, Reporting
    <3>2. rows' \in [Jobs -> {"none", "running", "failed"}]
      BY <2>2, <3>1 DEF Report, TypeOK
    <3> QED BY <2>2, <3>2 DEF Report, TypeOK, Stages
  <2>3. CASE ReportLost(j)
    BY <2>3 DEF ReportLost, TypeOK, Stages
  <2> QED BY <1>7, <2>1, <2>2, <2>3
<1>8. ASSUME NEW j \in Jobs, Listen(j) \/ ListenFails(j) \/ VMDies(j) PROVE TypeOK'
  BY <1>8 DEF Listen, ListenFails, VMDies, TypeOK
<1>9. ASSUME AgentStops PROVE TypeOK'
  BY <1>9 DEF AgentStops, TypeOK, Stages
<1>10. ASSUME AgentStarts PROVE TypeOK'
  BY <1>10, RunsAssumption DEF AgentStarts, TypeOK, Runs
<1>11. CASE UNCHANGED vars
  BY <1>11 DEF vars, TypeOK
<1> QED
  BY <1>1, <1>2, <1>3, <1>4, <1>5, <1>6, <1>7, <1>8, <1>9, <1>10, <1>11, <1>12
  DEF Next, HandlerStep, SpawnStep, ProxyStep

\* Every step keeps each stage in its mode and in the process that runs it.
LEMMA ModeStep == TypeOK /\ ModeInv /\ [Next]_vars => ModeInv'
<1> SUFFICES ASSUME TypeOK, ModeInv, [Next]_vars PROVE ModeInv'
  OBVIOUS
<1> USE DEF Go, runVars, jobVars, tapVars, sshVars, Spawning, FirecrackerStages,
            DockerStages, KeyStages
<1>1. ASSUME NEW j \in Jobs, NEW k \in Keys \cup {NoKey}, Receive(j, k) PROVE ModeInv'
  <2>1. /\ FirstStage \in {"counter", "docker", "authorize", "nothing"}
        /\ FirstStage = "counter" => mode = "firecracker"
        /\ FirstStage = "docker" => mode = "container"
        /\ FirstStage = "authorize" => mode = "ssh"
        /\ FirstStage = "nothing" => mode = "other"
    BY ModesAssumption DEF TypeOK, FirstStage
  <2> QED BY <1>1, <2>1 DEF Receive, ModeInv, TypeOK, Runs
<1>2. ASSUME NEW j \in Jobs, SpawnStep(j) PROVE ModeInv'
  BY <1>2 DEF SpawnStep, ReadCounter, WriteCounter, TakeBase, AddTap, AddAddress,
              NoSuchAddress, LinkUp, StartJailer, Boot, BootFails, DockerRun, DockerRunFails,
              Inspect, InspectFails, SkipAuthorize, RejectKey, MissKey, AppendKey, TornAppend,
              BuildNothing, SpawnFails, ModeInv, TypeOK
<1>3. ASSUME NEW j \in Jobs, Report(j) \/ ReportLost(j) PROVE ModeInv'
  BY <1>3 DEF Report, ReportLost, ModeInv, TypeOK
<1>4. ASSUME NEW j \in Jobs, ProxyStep(j) \/ VMDies(j) PROVE ModeInv'
  BY <1>4 DEF ProxyStep, Listen, ListenFails, VMDies, ModeInv, TypeOK
<1>5. ASSUME AgentStops PROVE ModeInv'
  <2>1. \A j \in Jobs : stage'[j] \notin Spawning
    BY <1>5 DEF AgentStops, Busy, Reporting
  <2> QED BY <1>5, <2>1 DEF AgentStops, ModeInv
<1>6. ASSUME AgentStarts PROVE ModeInv'
  <2>1. \A j \in Jobs : stage'[j] \notin Spawning
    BY <1>6 DEF AgentStarts, ModeInv
  <2>2. \A j \in Jobs : runOf'[j] <= run'
    <3>1. run' = run + 1 /\ runOf' = runOf
      BY <1>6 DEF AgentStarts
    <3>2. run \in Nat /\ \A j \in Jobs : runOf[j] \in Nat /\ runOf[j] <= run
      BY RunsAssumption DEF ModeInv, TypeOK, Runs
    <3> QED BY <3>1, <3>2
  <2> QED BY <2>1, <2>2 DEF ModeInv
<1>7. CASE UNCHANGED vars
  BY <1>7 DEF vars, ModeInv
<1> QED BY <1>1, <1>2, <1>3, <1>4, <1>5, <1>6, <1>7 DEF Next, HandlerStep

\* Every step keeps what a stage has done: VMs are started after their tap is
\* up, killed before a failure is reported, and only die afterwards.
LEMMA StageStep == TypeOK /\ ModeInv /\ StageInv /\ [Next]_vars => StageInv'
<1> SUFFICES ASSUME TypeOK, ModeInv, StageInv, [Next]_vars PROVE StageInv'
  OBVIOUS
<1> USE DEF Go, runVars, jobVars, tapVars, sshVars, Unstarted, Started, Built
<1>1. ASSUME NEW j \in Jobs, NEW k \in Keys \cup {NoKey}, Receive(j, k) PROVE StageInv'
  <2>1. FirstStage \in {"counter", "docker", "authorize", "nothing"}
    BY ModesAssumption DEF TypeOK, FirstStage
  <2> QED BY <1>1, <2>1 DEF Receive, StageInv, TypeOK
<1>2. ASSUME NEW j \in Jobs, ReadCounter(j) \/ WriteCounter(j) \/ TakeBase(j) PROVE StageInv'
  BY <1>2 DEF ReadCounter, WriteCounter, TakeBase, StageInv, TypeOK
<1>3. ASSUME NEW j \in Jobs, AddTap(j) \/ AddAddress(j) \/ NoSuchAddress(j) \/ LinkUp(j)
      PROVE StageInv'
  BY <1>3 DEF AddTap, AddAddress, NoSuchAddress, LinkUp, StageInv, TypeOK
<1>4. ASSUME NEW j \in Jobs, StartJailer(j) \/ Boot(j) \/ BootFails(j) PROVE StageInv'
  BY <1>4 DEF StartJailer, Boot, BootFails, StageInv, ModeInv, FirecrackerStages, TypeOK
<1>5. ASSUME NEW j \in Jobs,
             DockerRun(j) \/ DockerRunFails(j) \/ Inspect(j) \/ InspectFails(j)
      PROVE StageInv'
  BY <1>5 DEF DockerRun, DockerRunFails, Inspect, InspectFails, StageInv, ModeInv, DockerStages,
              TypeOK
<1>6. ASSUME NEW j \in Jobs,
             \/ SkipAuthorize(j) \/ RejectKey(j) \/ MissKey(j)
             \/ AppendKey(j) \/ TornAppend(j) \/ BuildNothing(j)
      PROVE StageInv'
  <2>1. CASE SkipAuthorize(j) \/ RejectKey(j) \/ MissKey(j)
    BY <2>1 DEF SkipAuthorize, RejectKey, MissKey, StageInv, ModeInv, KeyStages, TypeOK
  <2>2. CASE AppendKey(j) \/ TornAppend(j)
    BY <2>2 DEF AppendKey, TornAppend, StageInv, ModeInv, KeyStages, TypeOK
  <2>3. CASE BuildNothing(j)
    BY <2>3 DEF BuildNothing, StageInv, ModeInv, TypeOK
  <2> QED BY <1>6, <2>1, <2>2, <2>3
<1>7. ASSUME NEW j \in Jobs, SpawnFails(j) PROVE StageInv'
  BY <1>7 DEF SpawnFails, StageInv, TypeOK
<1>8. ASSUME NEW j \in Jobs, Report(j) \/ ReportLost(j) PROVE StageInv'
  BY <1>8 DEF Report, ReportLost, Reporting, StageInv, TypeOK
<1>9. ASSUME NEW j \in Jobs, ProxyStep(j) \/ VMDies(j) PROVE StageInv'
  BY <1>9 DEF ProxyStep, Listen, ListenFails, VMDies, StageInv, TypeOK
<1>10. ASSUME AgentStops PROVE StageInv'
  BY <1>10 DEF AgentStops, Busy, StageInv, TypeOK
<1>11. ASSUME AgentStarts PROVE StageInv'
  BY <1>11 DEF AgentStarts, StageInv
<1>12. CASE UNCHANGED vars
  BY <1>12 DEF vars, StageInv
<1> QED
  BY <1>1, <1>2, <1>3, <1>4, <1>5, <1>6, <1>7, <1>8, <1>9, <1>10, <1>11, <1>12
  DEF Next, HandlerStep, SpawnStep

\* What was authorized stays so while the file and the keys do.
LEMMA SameKeys ==
    ASSUME UNCHANGED <<lines, unended, key>>
    PROVE  \A j \in Jobs : KeyDone(j)' <=> KeyDone(j)
  BY DEF KeyDone, Authorized, Written

\* What was authorized, or just written, stays so when w is appended: on a line
\* of its own if the file was ended, and otherwise at least in the file.
LEMMA KeysDone ==
    ASSUME TypeOK, KeyInv, NEW w \in Words, lines' = Appended(w), key' = key,
           unended => unended',
           NEW i \in Jobs, KeyDone(i) \/ key[i] = w
    PROVE  KeyDone(i)'
<1>1. CASE key[i] = NoKey
  BY <1>1 DEF KeyDone
<1>2. CASE key[i] # NoKey
  <2>1. PICK c \in Keys : c = key[i]
    BY <1>2 DEF TypeOK
  <2>2. /\ Written(c) \/ Authorized(c) => Written(c)'
        /\ Written(w)'
        /\ ending = "closed" => (Authorized(c) => Authorized(c)') /\ Authorized(w)'
    BY AppendedKeys
  <2>3. (c = w => Written(c)') /\ (c = w /\ ending = "closed" => Authorized(c)')
    BY <2>2 DEF Written, Authorized
  <2>4. ending = "closed" \/ unended
    BY DEF TypeOK, KeyInv
  <2>5. Authorized(c) \/ (unended /\ Written(c)) \/ c = w
    BY <1>2, <2>1 DEF KeyDone, Authorized, Written
  <2>6. Authorized(c)' \/ (unended' /\ Written(c)')
    BY <2>2, <2>3, <2>4, <2>5
  <2>7. c = key'[i]
    BY <2>1
  <2> QED BY <2>6, <2>7 DEF KeyDone, Authorized, Written
<1> QED BY <1>1, <1>2

\* Every step keeps the keys that jobs were told are authorized.
LEMMA KeyStep == TypeOK /\ ModeInv /\ KeyInv /\ [Next]_vars => KeyInv'
<1> SUFFICES ASSUME TypeOK, ModeInv, KeyInv, [Next]_vars PROVE KeyInv'
  OBVIOUS
<1> USE DEF Go, runVars, jobVars, tapVars, sshVars
<1>1. ASSUME NEW j \in Jobs, NEW k \in Keys \cup {NoKey}, Receive(j, k) PROVE KeyInv'
  <2>1. FirstStage \in {"counter", "docker", "authorize", "nothing"}
    BY ModesAssumption DEF TypeOK, FirstStage
  <2>2. /\ stage[j] = "idle" /\ UNCHANGED <<sshVars, rows, mode>>
        /\ stage' = [stage EXCEPT ![j] = FirstStage]
        /\ key' = [key EXCEPT ![j] = k]
    BY <1>1 DEF Receive
  <2>3. \A i \in Jobs \ {j} : stage'[i] = stage[i] /\ key'[i] = key[i]
    BY <2>2 DEF TypeOK
  <2>4. stage'[j] \notin {"append", "running", "reported"}
    BY <2>1, <2>2 DEF TypeOK
  <2>5. \A i \in Jobs \ {j} : KeyDone(i) => KeyDone(i)'
    BY <2>2, <2>3 DEF KeyDone, Authorized, Written
  <2>6. rows[j] = "none"
    BY <2>2 DEF KeyInv, TypeOK
  <2> QED BY <2>2, <2>3, <2>4, <2>5, <2>6 DEF KeyInv
<1>2. ASSUME NEW j \in Jobs,
             NEW from, NEW to,
             Go(j, from, to), UNCHANGED sshVars,
             from # "running" /\ from # "failed" /\ from # "reported",
             to \notin {"append", "running", "reported"}
      PROVE KeyInv'
  BY <1>2, SameKeys DEF KeyInv, TypeOK
<1>3. ASSUME NEW j \in Jobs, Boot(j) \/ Inspect(j) \/ BuildNothing(j) PROVE KeyInv'
  <2>1. mode # "ssh"
    BY <1>3 DEF Boot, Inspect, BuildNothing, ModeInv, FirecrackerStages, DockerStages
  <2> QED BY <1>3, <2>1, SameKeys DEF Boot, Inspect, BuildNothing, KeyInv, TypeOK
<1>4. ASSUME NEW j \in Jobs, SkipAuthorize(j) \/ MissKey(j) PROVE KeyInv'
  <2>1. CASE SkipAuthorize(j)
    <3>1. KeyDone(j) /\ UNCHANGED <<lines, unended, key>>
      BY <2>1 DEF SkipAuthorize, KeyDone
    <3> QED BY <2>1, <3>1, SameKeys DEF SkipAuthorize, KeyInv, TypeOK
  <2>2. CASE MissKey(j)
    BY <2>2, SameKeys DEF MissKey, KeyInv, TypeOK
  <2> QED BY <1>4, <2>1, <2>2
<1>5. ASSUME NEW j \in Jobs, AppendKey(j) \/ TornAppend(j) PROVE KeyInv'
  <2>1. PICK w \in {key[j], Fragment} : lines' = Appended(w) /\ (AppendKey(j) => w = key[j])
    BY <1>5 DEF AppendKey, TornAppend
  <2>2. /\ w \in Words
        /\ UNCHANGED <<key, mode, rows>>
        /\ unended => unended'
        /\ ending' = "open" => unended'
        /\ stage' = [stage EXCEPT ![j] = IF AppendKey(j) THEN "running" ELSE "failed"]
    <3>1. CASE AppendKey(j)
      BY <2>1, <3>1 DEF AppendKey, KeyInv, TypeOK, Words
    <3>2. CASE ~ AppendKey(j)
      BY <1>5, <2>1, <3>2 DEF TornAppend, KeyInv, TypeOK, Words
    <3> QED BY <3>1, <3>2
  <2>3. lines' # <<>>
    BY <2>1, <2>2, AppendedLines
  <2>4. \A i \in Jobs : KeyDone(i) \/ key[i] = w => KeyDone(i)'
    BY <2>1, <2>2, KeysDone
  <2>5. AppendKey(j) => KeyDone(j)'
    BY <2>1, <2>4
  <2>6. \A i \in Jobs \ {j} : stage'[i] = stage[i]
    BY <2>2 DEF TypeOK
  <2>7. rows[j] = "none" /\ stage'[j] = IF AppendKey(j) THEN "running" ELSE "failed"
    BY <1>5, <2>2 DEF AppendKey, TornAppend, KeyInv, TypeOK
  <2> QED BY <2>2, <2>3, <2>4, <2>5, <2>6, <2>7 DEF KeyInv
<1>6. ASSUME NEW j \in Jobs, Report(j) \/ ReportLost(j) PROVE KeyInv'
  BY <1>6, SameKeys DEF Report, ReportLost, Reporting, KeyInv, TypeOK
<1>7. ASSUME NEW j \in Jobs, ProxyStep(j) \/ VMDies(j) PROVE KeyInv'
  BY <1>7 DEF ProxyStep, Listen, ListenFails, VMDies, KeyInv, KeyDone, Authorized, Written
<1>8. ASSUME AgentStops PROVE KeyInv'
  BY <1>8, SameKeys DEF AgentStops, Busy, KeyInv, TypeOK
<1>9. ASSUME AgentStarts PROVE KeyInv'
  BY <1>9 DEF AgentStarts, KeyInv, KeyDone, Authorized, Written
<1>10. CASE UNCHANGED vars
  BY <1>10 DEF vars, KeyInv, KeyDone, Authorized, Written
<1> QED
  BY <1>1, <1>2, <1>3, <1>4, <1>5, <1>6, <1>7, <1>8, <1>9, <1>10
  DEF Next, HandlerStep, SpawnStep, ReadCounter, WriteCounter, TakeBase, AddTap, AddAddress,
      NoSuchAddress, LinkUp, StartJailer, BootFails, DockerRun, DockerRunFails, InspectFails,
      SpawnFails, RejectKey

\* Every step keeps the addresses of an undisturbed process below its counter
\* and apart.
LEMMA SubnetStep == TypeOK /\ ModeInv /\ SubnetInv /\ [Next]_vars => SubnetInv'
<1> SUFFICES ASSUME TypeOK, ModeInv, SubnetInv, [Next]_vars PROVE SubnetInv'
  OBVIOUS
<1> USE DEF Go, runVars, jobVars, tapVars, sshVars, Claims, Claim
<1>1. ASSUME NEW j \in Jobs, NEW k \in Keys \cup {NoKey}, Receive(j, k) PROVE SubnetInv'
  <2>1. FirstStage \in {"counter", "docker", "authorize", "nothing"}
    BY ModesAssumption DEF TypeOK, FirstStage
  <2> QED BY <1>1, <2>1 DEF Receive, SubnetInv, TypeOK
<1>2. ASSUME NEW j \in Jobs, ReadCounter(j) PROVE SubnetInv'
  BY <1>2 DEF ReadCounter, SubnetInv, TypeOK
<1>3. ASSUME NEW j \in Jobs, WriteCounter(j) PROVE SubnetInv'
  <2>1. runOf[j] = run
    BY <1>3 DEF WriteCounter, ModeInv, Spawning, FirecrackerStages
  <2>2. CASE ipCounter = seen[j]
    <3>1. /\ UNCHANGED <<base, seen, runOf, run, raced>>
          /\ stage' = [stage EXCEPT ![j] = "base"]
          /\ ipCounter' = ipCounter + 4
      BY <1>3, <2>2 DEF WriteCounter, Interfered
    <3>2. Claims(j)' /\ Claim(j)' = ipCounter + 4 /\ base[j] = NoBase
      BY <1>3, <2>2, <3>1 DEF WriteCounter, SubnetInv, TypeOK
    <3>3. \A i \in Jobs \ {j} : (Claims(i)' <=> Claims(i)) /\ Claim(i)' = Claim(i)
      BY <3>1 DEF TypeOK
    <3>4. \A i \in Jobs \ {j} : Claim(i) \in Nat
      BY DEF TypeOK
    <3>5. \A i \in Jobs \ {j} :
             Claims(i) /\ runOf[i] = run /\ run \notin raced => Claim(i) < ipCounter + 4
      BY <3>4 DEF SubnetInv, TypeOK
    <3>6. \A i \in Jobs : Claims(i)' /\ runOf[i] = run /\ run \notin raced =>
             Claim(i)' <= ipCounter'
      BY <3>1, <3>2, <3>3, <3>4, <3>5 DEF TypeOK
    <3>7. \A i \in Jobs \ {j} :
             Claims(i)' /\ runOf[i] = runOf[j] /\ Claim(i)' = Claim(j)' => runOf[i] \in raced
      <4> TAKE i \in Jobs \ {j}
      <4> HAVE Claims(i)' /\ runOf[i] = runOf[j] /\ Claim(i)' = Claim(j)'
      <4>1. Claim(i) = ipCounter + 4 /\ Claims(i) /\ runOf[i] = run
        BY <2>1, <3>2, <3>3
      <4> QED BY <3>4, <3>5, <4>1 DEF TypeOK
    <3>8. \A i, k \in Jobs :
             /\ i # k /\ runOf[i] = runOf[k] /\ Claims(i)' /\ Claims(k)'
             /\ Claim(i)' = Claim(k)'
             => runOf[i] \in raced
      <4> TAKE i, k \in Jobs
      <4>1. CASE i # j /\ k # j
        BY <3>3, <4>1 DEF SubnetInv
      <4>2. CASE i = j \/ k = j
        BY <3>7, <4>2
      <4> QED BY <4>1, <4>2
    <3>9. \A i \in Jobs : stage'[i] \in {"idle", "counter", "bump", "base"} => base'[i] = NoBase
      BY <3>1, <3>2 DEF SubnetInv, TypeOK
    <3> HIDE DEF Claims, Claim
    <3> QED BY <3>1, <3>6, <3>8, <3>9 DEF SubnetInv
  <2>3. CASE ipCounter # seen[j]
    BY <1>3, <2>1, <2>3 DEF WriteCounter, Interfered, SubnetInv, TypeOK
  <2> QED BY <2>2, <2>3
<1>4. ASSUME NEW j \in Jobs, TakeBase(j) PROVE SubnetInv'
  <2>1. runOf[j] = run
    BY <1>4 DEF TakeBase, ModeInv, Spawning, FirecrackerStages
  <2>2. PICK b \in {seen[j] + 4, ipCounter} :
           base' = [base EXCEPT ![j] = b] /\ raced' = Interfered(b # seen[j] + 4)
    BY <1>4 DEF TakeBase
  <2>3. CASE b = seen[j] + 4
    BY <1>4, <2>1, <2>2, <2>3 DEF TakeBase, Interfered, SubnetInv, TypeOK
  <2>4. CASE b # seen[j] + 4
    BY <1>4, <2>1, <2>2, <2>4 DEF TakeBase, Interfered, SubnetInv, TypeOK
  <2> QED BY <2>3, <2>4
<1>5. ASSUME NEW j \in Jobs, NEW from, NEW to,
             Go(j, from, to), UNCHANGED tapVars,
             from \notin {"idle", "counter", "bump", "base"},
             to \notin {"idle", "counter", "bump", "base"}
      PROVE SubnetInv'
  BY <1>5 DEF SubnetInv, TypeOK
<1>6. ASSUME NEW j \in Jobs, SpawnFails(j) PROVE SubnetInv'
  BY <1>6 DEF SpawnFails, SubnetInv, TypeOK
<1>7. ASSUME NEW j \in Jobs, Report(j) \/ ReportLost(j) PROVE SubnetInv'
  <2>1. /\ stage[j] \in {"running", "failed"}
        /\ UNCHANGED <<tapVars, runVars, jobVars>>
        /\ \E to \in {"reported", "unreported"} : stage' = [stage EXCEPT ![j] = to]
    BY <1>7 DEF Report, ReportLost, Reporting
  <2> QED BY <2>1 DEF SubnetInv, TypeOK
<1>8. ASSUME NEW j \in Jobs, ProxyStep(j) \/ VMDies(j) PROVE SubnetInv'
  BY <1>8 DEF ProxyStep, Listen, ListenFails, VMDies, SubnetInv
<1>9. ASSUME AgentStops PROVE SubnetInv'
  BY <1>9 DEF AgentStops, SubnetInv, TypeOK, Busy
<1>10. ASSUME AgentStarts PROVE SubnetInv'
  <2>1. \A j \in Jobs : runOf[j] # run'
    BY <1>10 DEF AgentStarts, ModeInv, TypeOK, Runs
  <2> QED BY <1>10, <2>1 DEF AgentStarts, SubnetInv
<1>11. CASE UNCHANGED vars
  BY <1>11 DEF vars, SubnetInv
<1> QED
  BY <1>1, <1>2, <1>3, <1>4, <1>5, <1>6, <1>7, <1>8, <1>9, <1>10, <1>11
  DEF Next, HandlerStep, SpawnStep, AddTap, AddAddress, NoSuchAddress, LinkUp, StartJailer,
      Boot, BootFails, DockerRun, DockerRunFails, Inspect, InspectFails, SkipAuthorize,
      RejectKey, MissKey, AppendKey, TornAppend, BuildNothing

-----------------------------------------------------------------------------
\* AgentInv holds in every state, whatever the goroutines of handleJob interleave.
THEOREM AgentInvariant == Spec => []AgentInv
<1>1. AgentInv /\ [Next]_vars => AgentInv'
  BY TypeStep, ModeStep, StageStep, KeyStep, SubnetStep DEF AgentInv
<1> QED BY InitInv, <1>1, PTL DEF Spec

\* The agent keeps its types: a row only ever says running or failed.
THEOREM AgentTypes == Spec => []TypeOK
  BY AgentInvariant, PTL DEF AgentInv

\* A job reported as running has been built, by StageInv: handleJob reports
\* only after vm.Spawn has returned.
THEOREM ReportedWasBuilt == Spec => []RunningWasBuilt
<1>1. AgentInv => RunningWasBuilt
  BY DEF AgentInv, StageInv, Built, RunningWasBuilt
<1> QED BY AgentInvariant, <1>1, PTL

\* A job reported as failed has left no running VM, by StageInv.
THEOREM FailedLeavesNoVM == Spec => []FailedIsDead
<1>1. AgentInv => FailedIsDead
  BY DEF AgentInv, StageInv, FailedIsDead
<1> QED BY AgentInvariant, <1>1, PTL

\* The subnets of allocateTapIP are distinct until two calls interfere.
THEOREM SubnetsDiffer == Spec => []SubnetsDistinct
<1>1. AgentInv => SubnetsDistinct
  BY DEF AgentInv, SubnetInv, SubnetsDistinct, Claims, Claim
<1> QED BY AgentInvariant, <1>1, PTL

\* authorizeKey has authorized the key of every job reported as running; only a
\* last line that the owner or a torn write left open can take it from its line,
\* and never out of the file.
THEOREM KeysAuthorized == Spec => []KeyAuthorized
<1>1. AgentInv => KeyAuthorized
  BY DEF AgentInv, KeyInv, KeyDone, KeyAuthorized
<1> QED BY AgentInvariant, <1>1, PTL
-----------------------------------------------------------------------------
(* What is for good: reports, and lines of authorized_keys.                 *)

Over == {"reported", "unreported", "cut"}

\* A job is reported at most once: when handleJob is over, its row in the vms
\* table, or its lack of one, is final, whatever becomes of the VM.
ReportedOnce ==
    [][\A j \in Jobs : stage[j] \in Over => stage'[j] = stage[j] /\ rows'[j] = rows[j]]_vars

\* Every action of a job starts from a stage it can leave, and so does a stop.
THEOREM ReportIsFinal == Spec => ReportedOnce
<1>1. ASSUME TypeOK, Next, NEW i \in Jobs, stage[i] \in Over
      PROVE  stage'[i] = stage[i] /\ rows'[i] = rows[i]
  <2> USE DEF Go, Over, TypeOK
  <2>1. CASE \E j \in Jobs, k \in Keys \cup {NoKey} : Receive(j, k)
    BY <1>1, <2>1 DEF Receive
  <2>2. ASSUME NEW j \in Jobs, SpawnStep(j) PROVE stage'[i] = stage[i] /\ rows'[i] = rows[i]
    <3>1. PICK from \in Stages \ ({"running", "failed"} \cup Over), to \in Stages : Go(j, from, to)
      <4>1. CASE ReadCounter(j) \/ WriteCounter(j) \/ TakeBase(j) \/ AddTap(j)
        BY <4>1 DEF ReadCounter, WriteCounter, TakeBase, AddTap, Stages, FirecrackerStages
      <4>2. CASE AddAddress(j) \/ NoSuchAddress(j) \/ LinkUp(j) \/ StartJailer(j)
        BY <4>2 DEF AddAddress, NoSuchAddress, LinkUp, StartJailer, Stages, FirecrackerStages
      <4>3. CASE \/ Boot(j) \/ BootFails(j) \/ DockerRun(j) \/ DockerRunFails(j)
                 \/ Inspect(j) \/ InspectFails(j)
        BY <4>3 DEF Boot, BootFails, DockerRun, DockerRunFails, Inspect, InspectFails, Stages,
                    FirecrackerStages
      <4>4. CASE \/ SkipAuthorize(j) \/ RejectKey(j) \/ MissKey(j)
                 \/ AppendKey(j) \/ TornAppend(j)
        BY <4>4 DEF SkipAuthorize, RejectKey, MissKey, AppendKey, TornAppend, Stages
      <4>5. CASE BuildNothing(j) \/ SpawnFails(j)
        BY <4>5 DEF BuildNothing, SpawnFails, Stages, FirecrackerStages
      <4> QED BY <2>2, <4>1, <4>2, <4>3, <4>4, <4>5 DEF SpawnStep
    <3>2. stage[j] = from /\ rows' = rows
      BY <3>1
    <3>3. i # j
      BY <1>1, <3>1, <3>2
    <3> QED BY <1>1, <3>1, <3>2, <3>3
  <2>3. ASSUME NEW j \in Jobs, Report(j) \/ ReportLost(j)
        PROVE  stage'[i] = stage[i] /\ rows'[i] = rows[i]
    <3>1. i # j
      BY <1>1, <2>3 DEF Report, ReportLost, Reporting
    <3> QED BY <1>1, <2>3, <3>1 DEF Report, ReportLost
  <2>4. CASE \E j \in Jobs : ProxyStep(j) \/ VMDies(j)
    BY <2>4 DEF ProxyStep, Listen, ListenFails, VMDies
  <2>5. CASE AgentStops
    BY <1>1, <2>5 DEF AgentStops, Busy
  <2>6. CASE AgentStarts
    BY <2>6 DEF AgentStarts
  <2> QED BY <1>1, <2>1, <2>2, <2>3, <2>4, <2>5, <2>6 DEF Next, HandlerStep
<1>2. TypeOK /\ [Next]_vars =>
        [\A j \in Jobs : stage[j] \in Over => stage'[j] = stage[j] /\ rows'[j] = rows[j]]_vars
  BY <1>1
<1> QED BY <1>2, AgentTypes, PTL DEF Spec, ReportedOnce

\* What authorizeKey writes leaves every line that was there in its place, with
\* what it said first; and a line ended by a newline says nothing else for ever,
\* so that the key on it stays authorized.
KeysStay ==
    [][\A i \in DOMAIN lines :
           /\ i \in DOMAIN lines'
           /\ \A n \in DOMAIN lines[i] :
                  n \in DOMAIN lines'[i] /\ lines'[i][n] = lines[i][n]
           /\ Ended(i) => lines'[i] = lines[i] /\ Ended(i)']_vars

\* Only authorizeKey writes the file, and only at its end: a key on an ended line
\* is never withdrawn, for no VM ends on the agent's side.
THEOREM KeysAreKept == Spec => KeysStay
<1> DEFINE Kept == \A i \in DOMAIN lines :
                       /\ i \in DOMAIN lines'
                       /\ \A n \in DOMAIN lines[i] :
                              n \in DOMAIN lines'[i] /\ lines'[i][n] = lines[i][n]
                       /\ Ended(i) => lines'[i] = lines[i] /\ Ended(i)'
<1>1. ASSUME AgentInv, Next PROVE Kept
  <2>1. CASE UNCHANGED sshVars
    BY <2>1 DEF sshVars, Ended
  <2>2. ASSUME NEW j \in Jobs, AppendKey(j) \/ TornAppend(j) PROVE Kept
    <3>1. TypeOK /\ KeyInv
      BY <1>1 DEF AgentInv
    <3>2. PICK w \in {key[j], Fragment} : lines' = Appended(w)
      BY <2>2 DEF AppendKey, TornAppend
    <3>3. w \in Words
      BY <2>2, <3>1, <3>2 DEF AppendKey, TornAppend, Go, KeyInv, TypeOK, Words
    <3>4. /\ Len(lines) \in Nat /\ Len(lines') \in Nat
          /\ Len(lines') >= Len(lines)
          /\ ending = "closed" => Len(lines') > Len(lines)
          /\ \A i \in DOMAIN lines :
                 /\ i \in DOMAIN lines'
                 /\ Ended(i) => lines'[i] = lines[i]
                 /\ \A n \in DOMAIN lines[i] :
                        n \in DOMAIN lines'[i] /\ lines'[i][n] = lines[i][n]
      BY <3>1, <3>2, <3>3, AppendedLines
    <3>5. DOMAIN lines = 1 .. Len(lines)
      BY <3>1 DEF TypeOK
    <3>6. \A i \in DOMAIN lines : Ended(i) => Ended(i)'
      BY <3>4, <3>5 DEF Ended
    <3> QED BY <3>4, <3>6
  <2>3. ASSUME NEW j \in Jobs, SpawnStep(j), ~ AppendKey(j), ~ TornAppend(j)
        PROVE  UNCHANGED sshVars
    <3>1. CASE ReadCounter(j) \/ WriteCounter(j) \/ TakeBase(j) \/ AddTap(j)
      BY <3>1 DEF ReadCounter, WriteCounter, TakeBase, AddTap
    <3>2. CASE AddAddress(j) \/ NoSuchAddress(j) \/ LinkUp(j) \/ StartJailer(j)
      BY <3>2 DEF AddAddress, NoSuchAddress, LinkUp, StartJailer
    <3>3. CASE \/ Boot(j) \/ BootFails(j) \/ DockerRun(j) \/ DockerRunFails(j)
               \/ Inspect(j) \/ InspectFails(j)
      BY <3>3 DEF Boot, BootFails, DockerRun, DockerRunFails, Inspect, InspectFails
    <3>4. CASE \/ SkipAuthorize(j) \/ RejectKey(j) \/ MissKey(j)
               \/ BuildNothing(j) \/ SpawnFails(j)
      BY <3>4 DEF SkipAuthorize, RejectKey, MissKey, BuildNothing, SpawnFails
    <3> QED BY <2>3, <3>1, <3>2, <3>3, <3>4 DEF SpawnStep
  <2>4. CASE \E j \in Jobs : Report(j) \/ ReportLost(j) \/ ProxyStep(j) \/ VMDies(j)
    BY <2>1, <2>4 DEF Report, ReportLost, ProxyStep, Listen, ListenFails, VMDies
  <2>5. CASE AgentStops \/ AgentStarts \/ \E j \in Jobs, k \in Keys \cup {NoKey} : Receive(j, k)
    BY <2>1, <2>5 DEF AgentStops, AgentStarts, Receive
  <2> HIDE DEF Kept
  <2> QED BY <1>1, <2>1, <2>2, <2>3, <2>4, <2>5 DEF Next, HandlerStep
<1>2. AgentInv /\ [Next]_vars => [Kept]_vars
  BY <1>1
<1> QED BY <1>2, AgentInvariant, PTL DEF Spec, KeysStay

-----------------------------------------------------------------------------
(* The relay: one port for all the VMs of a process.                        *)

\* Proxies belong to the process that runs, and to jobs that are built; one of
\* them at most has the port, and without faults only it keeps others from it.
RelayInv ==
    /\ \A j \in Jobs : proxy[j] # "none" =>
           runOf[j] = run /\ agent = "up" /\ stage[j] \notin Spawning \cup {"idle"}
    /\ \A i, j \in Jobs : Listening(i) /\ Listening(j) => i = j
    /\ ~ Faults => \A j \in Jobs : proxy[j] = "failed" => \E i \in Jobs : Listening(i)

\* At most one VM is served; one that is not, although nothing failed, has lost
\* the port to another VM of the same process.
RelayLostToAnother ==
    /\ \A i, j \in Jobs : Listening(i) /\ Listening(j) => i = j
    /\ ~ Faults => \A j \in Jobs : proxy[j] = "failed" =>
           \E i \in Jobs : i # j /\ runOf[i] = runOf[j] /\ Listening(i)

\* A proxy starts once, after its job is built, and ends with its process.
LEMMA RelayStep == TypeOK /\ ModeInv /\ RelayInv /\ [Next]_vars => RelayInv'
<1> SUFFICES ASSUME TypeOK, ModeInv, RelayInv, [Next]_vars PROVE RelayInv'
  OBVIOUS
<1> USE DEF Go, runVars, jobVars, Spawning, FirecrackerStages, DockerStages, KeyStages, Listening
<1>1. ASSUME NEW j \in Jobs, NEW k \in Keys \cup {NoKey}, Receive(j, k) PROVE RelayInv'
  BY <1>1 DEF Receive, RelayInv, TypeOK
<1>2. ASSUME NEW j \in Jobs, NEW from \in Spawning, NEW to, Go(j, from, to), proxy' = proxy
      PROVE  RelayInv'
  BY <1>2 DEF RelayInv, TypeOK
<1>3. ASSUME NEW j \in Jobs, Boot(j) \/ Inspect(j) \/ BuildNothing(j) PROVE RelayInv'
  <2>1. /\ stage[j] \in Spawning
        /\ stage' = [stage EXCEPT ![j] = "running"]
        /\ proxy' = [proxy EXCEPT ![j] = "starting"]
        /\ UNCHANGED <<run, agent, runOf>>
    BY <1>3 DEF Boot, Inspect, BuildNothing
  <2>2. runOf[j] = run /\ agent = "up" /\ proxy[j] = "none"
    BY <2>1 DEF ModeInv, RelayInv, TypeOK
  <2> QED BY <2>1, <2>2 DEF RelayInv, TypeOK
<1>4. ASSUME NEW j \in Jobs, SpawnStep(j) PROVE RelayInv'
  <2>1. CASE ReadCounter(j) \/ WriteCounter(j) \/ TakeBase(j) \/ AddTap(j)
    BY <1>2, <2>1 DEF ReadCounter, WriteCounter, TakeBase, AddTap
  <2>2. CASE AddAddress(j) \/ NoSuchAddress(j) \/ LinkUp(j) \/ StartJailer(j)
    BY <1>2, <2>2 DEF AddAddress, NoSuchAddress, LinkUp, StartJailer
  <2>3. CASE BootFails(j) \/ DockerRun(j) \/ DockerRunFails(j) \/ InspectFails(j)
    BY <1>2, <2>3 DEF BootFails, DockerRun, DockerRunFails, InspectFails
  <2>4. CASE SkipAuthorize(j) \/ RejectKey(j) \/ MissKey(j) \/ AppendKey(j) \/ TornAppend(j)
    BY <1>2, <2>4 DEF SkipAuthorize, RejectKey, MissKey, AppendKey, TornAppend
  <2>5. CASE SpawnFails(j)
    BY <1>2, <2>5 DEF SpawnFails
  <2> QED BY <1>3, <1>4, <2>1, <2>2, <2>3, <2>4, <2>5 DEF SpawnStep
<1>5. ASSUME NEW j \in Jobs, Report(j) \/ ReportLost(j) PROVE RelayInv'
  BY <1>5 DEF Report, ReportLost, Reporting, RelayInv, TypeOK
<1>6. ASSUME NEW j \in Jobs, Listen(j) PROVE RelayInv'
  BY <1>6 DEF Listen, RelayInv, TypeOK
<1>7. ASSUME NEW j \in Jobs, ListenFails(j) PROVE RelayInv'
  <2>1. proxy[j] = "starting" /\ proxy' = [proxy EXCEPT ![j] = "failed"]
    BY <1>7 DEF ListenFails
  <2>2. \A i \in Jobs : Listening(i)' <=> Listening(i)
    BY <2>1 DEF TypeOK
  <2>3. ~ Faults => \E i \in Jobs : Listening(i)
    BY <1>7 DEF ListenFails
  <2> QED BY <1>7, <2>1, <2>2, <2>3 DEF ListenFails, RelayInv, TypeOK
<1>8. ASSUME NEW j \in Jobs, VMDies(j) PROVE RelayInv'
  BY <1>8 DEF VMDies, RelayInv
<1>9. ASSUME AgentStops PROVE RelayInv'
  BY <1>9 DEF AgentStops, RelayInv
<1>10. ASSUME AgentStarts PROVE RelayInv'
  BY <1>10 DEF AgentStarts, RelayInv
<1>11. CASE UNCHANGED vars
  BY <1>11 DEF vars, RelayInv
<1> QED
  BY <1>1, <1>4, <1>5, <1>6, <1>7, <1>8, <1>9, <1>10, <1>11 DEF Next, HandlerStep, ProxyStep

\* What the violated RelayPerVM lacks is a port for each VM: a VM that is the
\* only one of its process has its relay, unless a command fails.
THEOREM RelayNeedsOneVM == Spec => []RelayLostToAnother
<1>1. Init => RelayInv
  BY DEF Init, RelayInv, Listening
<1>2. RelayInv => RelayLostToAnother
  BY DEF RelayInv, RelayLostToAnother, Listening
<1>3. AgentInv /\ RelayInv /\ [Next]_vars => RelayInv'
  BY RelayStep DEF AgentInv
<1> QED BY <1>1, <1>2, <1>3, AgentInvariant, PTL DEF Spec

-----------------------------------------------------------------------------
(* The counter: how many VMs the addresses suffice for.                     *)

\* The jobs of this process that have drawn an address, or went without.
Drawn == {j \in Jobs : runOf[j] = run /\ stage[j] \notin {"idle", "counter", "bump"}}

\* Each of them has moved the counter by 4 at most, whatever they lost to one
\* another, and nobody is about to move it further than its own share.
CounterInv ==
    agent = "up" =>
        /\ IsFiniteSet(Drawn)
        /\ ipCounter <= 4 * Cardinality(Drawn) + 1
        /\ \A j \in Jobs :
               /\ stage[j] = "bump" => seen[j] <= 4 * Cardinality(Drawn) + 1
               /\ stage[j] = "base" => seen[j] + 4 <= 4 * Cardinality(Drawn) + 1
               /\ runOf[j] = run => base[j] <= 4 * Cardinality(Drawn) + 1

\* A process runs out of addresses (172.16.257.1) only when that many of its
\* jobs have drawn one that they would not fit in 172.16.0.0/16: with octets up
\* to 255, not before its 64th VM, whatever calls of allocateTapIP interfere.
AddressesSuffice ==
    \A j \in Jobs :
        stage[j] = "address" /\ base[j] > MaxOctet => 4 * Cardinality(Drawn) >= MaxOctet

\* What one more job does to the bound.
LEMMA OneMore ==
    ASSUME NEW S, IsFiniteSet(S), NEW j, NEW T, T = S \/ T = S \cup {j}
    PROVE  /\ IsFiniteSet(T)
           /\ Cardinality(S) \in Nat /\ Cardinality(T) \in Nat
           /\ Cardinality(S) <= Cardinality(T)
<1>1. CASE T = S
  BY <1>1, FS_CardinalityType
<1>2. CASE T = S \cup {j} /\ j \notin S
  <2>1. IsFiniteSet(T) /\ Cardinality(T) = Cardinality(S) + 1
    BY <1>2, FS_AddElement
  <2> QED BY <2>1, FS_CardinalityType
<1>3. CASE T = S \cup {j} /\ j \in S
  <2>1. T = S
    BY <1>3
  <2> QED BY <2>1, FS_CardinalityType
<1> QED BY <1>1, <1>2, <1>3

\* Every step of a process keeps its counter within the bound.
LEMMA CounterStep == TypeOK /\ ModeInv /\ SubnetInv /\ CounterInv /\ [Next]_vars => CounterInv'
<1> SUFFICES ASSUME TypeOK, ModeInv, SubnetInv, CounterInv, [Next]_vars, agent' = "up"
             PROVE  CounterInv'
  BY DEF CounterInv
<1>1. ASSUME AgentStarts PROVE CounterInv'
  <2>1. \A j \in Jobs : runOf'[j] # run' /\ stage'[j] \notin {"bump", "base"}
    BY <1>1 DEF AgentStarts, ModeInv, TypeOK, Runs, Spawning, FirecrackerStages, jobVars
  <2>2. Drawn' = {}
    BY <2>1 DEF Drawn
  <2>3. IsFiniteSet(Drawn') /\ Cardinality(Drawn') = 0 /\ ipCounter' = 1
    BY <1>1, <2>2, FS_EmptySet DEF AgentStarts
  <2> QED BY <2>1, <2>3 DEF CounterInv
<1>2. ASSUME ~ AgentStarts PROVE agent = "up"
  BY <1>2 DEF Next, HandlerStep, SpawnStep, ProxyStep, Receive, ReadCounter, WriteCounter, TakeBase,
              AddTap, AddAddress, NoSuchAddress, LinkUp, StartJailer, Boot, BootFails, DockerRun,
              DockerRunFails, Inspect, InspectFails, SkipAuthorize, RejectKey, MissKey, AppendKey,
              TornAppend, BuildNothing, SpawnFails, Report, ReportLost, Listen, ListenFails, VMDies, AgentStops, Go, runVars, vars
<1>3. ASSUME agent = "up", NEW j \in Jobs, run' = run,
             Drawn' = Drawn \/ Drawn' = Drawn \cup {j},
             UNCHANGED <<ipCounter, seen, base>>,
             \A i \in Jobs : stage'[i] \in {"bump", "base"} => stage'[i] = stage[i],
             \A i \in Jobs : runOf'[i] = runOf[i] \/ base[i] = NoBase
      PROVE  CounterInv'
  <2>1. /\ IsFiniteSet(Drawn') /\ Cardinality(Drawn) \in Nat /\ Cardinality(Drawn') \in Nat
        /\ Cardinality(Drawn) <= Cardinality(Drawn')
    BY <1>3, OneMore DEF CounterInv
  <2> QED BY <1>3, <2>1 DEF CounterInv, TypeOK
<1>4. ASSUME NEW j \in Jobs, NEW from, NEW to, Go(j, from, to), from # "idle",
             to \notin {"idle", "counter", "bump"}
      PROVE  Drawn' = Drawn \/ Drawn' = Drawn \cup {j}
  <2>1. \A i \in Jobs \ {j} : stage'[i] = stage[i]
    BY <1>4 DEF Go, TypeOK
  <2>2. stage'[j] = to /\ run' = run /\ runOf' = runOf
    BY <1>4 DEF Go, TypeOK, runVars, jobVars
  <2>3. Drawn' \ {j} = Drawn \ {j}
    BY <2>1, <2>2 DEF Drawn
  <2>4. j \in Drawn => j \in Drawn'
    BY <1>4, <2>2 DEF Drawn
  <2> QED BY <2>3, <2>4
<1>5. ASSUME agent = "up", NEW j \in Jobs, NEW from, NEW to, Go(j, from, to), from # "idle",
             to \notin {"idle", "counter", "bump", "base"}, UNCHANGED <<ipCounter, seen, base>>
      PROVE  CounterInv'
  <2>1. run' = run /\ runOf' = runOf
    BY <1>5 DEF Go, runVars, jobVars
  <2>2. \A i \in Jobs : stage'[i] \in {"bump", "base"} => stage'[i] = stage[i]
    BY <1>5 DEF Go, TypeOK
  <2> QED BY <1>3, <1>4, <1>5, <2>1, <2>2
<1>6. ASSUME agent = "up", NEW j \in Jobs, NEW k \in Keys \cup {NoKey}, Receive(j, k)
      PROVE  CounterInv'
  <2>1. /\ FirstStage \in {"counter", "docker", "authorize", "nothing"}
        /\ stage[j] = "idle" /\ base[j] = NoBase
    BY <1>6, ModesAssumption DEF TypeOK, FirstStage, Receive, SubnetInv
  <2>2. /\ UNCHANGED <<run, ipCounter, seen, base>>
        /\ stage' = [stage EXCEPT ![j] = FirstStage]
        /\ runOf' = [runOf EXCEPT ![j] = run]
    BY <1>6 DEF Receive, runVars, tapVars
  <2>3. \A i \in Jobs \ {j} : stage'[i] = stage[i] /\ runOf'[i] = runOf[i]
    BY <2>2 DEF TypeOK
  <2>4. stage'[j] \notin {"bump", "base"} /\ j \notin Drawn
    BY <2>1, <2>2 DEF TypeOK, Drawn
  <2>5. Drawn' = Drawn \/ Drawn' = Drawn \cup {j}
    <3>1. Drawn' \ {j} = Drawn
      BY <2>2, <2>3, <2>4 DEF Drawn
    <3> QED BY <3>1
  <2> QED BY <1>3, <1>6, <2>1, <2>2, <2>3, <2>4, <2>5
<1>7. ASSUME agent = "up", NEW j \in Jobs, ReadCounter(j) PROVE CounterInv'
  <2>1. /\ UNCHANGED <<run, runOf, ipCounter, base>>
        /\ stage[j] = "counter"
        /\ stage' = [stage EXCEPT ![j] = "bump"]
        /\ seen' = [seen EXCEPT ![j] = ipCounter]
    BY <1>7 DEF ReadCounter, Go, runVars, jobVars
  <2>2. Drawn' = Drawn
    BY <2>1 DEF Drawn, TypeOK
  <2> QED BY <1>7, <2>1, <2>2 DEF CounterInv, TypeOK
<1>8. ASSUME agent = "up", NEW j \in Jobs, WriteCounter(j) PROVE CounterInv'
  <2>1. /\ UNCHANGED <<run, runOf, seen, base>>
        /\ stage[j] = "bump"
        /\ stage' = [stage EXCEPT ![j] = "base"]
        /\ ipCounter' = seen[j] + 4
    BY <1>8 DEF WriteCounter, Go, runVars, jobVars
  <2>2. runOf[j] = run
    BY <2>1 DEF ModeInv, Spawning, FirecrackerStages
  <2>3. Drawn' = Drawn \cup {j} /\ j \notin Drawn
    BY <2>1, <2>2 DEF Drawn, TypeOK
  <2>4. /\ IsFiniteSet(Drawn') /\ Cardinality(Drawn) \in Nat
        /\ Cardinality(Drawn') = Cardinality(Drawn) + 1
    BY <1>8, <2>3, FS_AddElement, FS_CardinalityType DEF CounterInv
  <2>5. seen[j] + 4 <= 4 * Cardinality(Drawn') + 1
    BY <1>8, <2>1, <2>4 DEF CounterInv, TypeOK
  <2>6. \A i \in Jobs \ {j} : stage'[i] = stage[i]
    BY <2>1 DEF TypeOK
  <2>7. \A i \in Jobs : base[i] \in Nat /\ seen[i] \in Nat
    BY DEF TypeOK
  <2>8. \A i \in Jobs \ {j} :
            /\ stage'[i] = "bump" => seen'[i] <= 4 * Cardinality(Drawn') + 1
            /\ stage'[i] = "base" => seen'[i] + 4 <= 4 * Cardinality(Drawn') + 1
    BY <1>8, <2>1, <2>4, <2>6, <2>7 DEF CounterInv
  <2>9. \A i \in Jobs : runOf'[i] = run' => base'[i] <= 4 * Cardinality(Drawn') + 1
    BY <1>8, <2>1, <2>4, <2>7 DEF CounterInv
  <2>10. stage'[j] = "base"
    BY <2>1 DEF TypeOK
  <2>11. ipCounter' <= 4 * Cardinality(Drawn') + 1
    BY <2>1, <2>5
  <2> QED BY <2>1, <2>4, <2>5, <2>8, <2>9, <2>10, <2>11 DEF CounterInv
<1>9. ASSUME agent = "up", NEW j \in Jobs, TakeBase(j) PROVE CounterInv'
  <2>1. PICK b \in {seen[j] + 4, ipCounter} : base' = [base EXCEPT ![j] = b]
    BY <1>9 DEF TakeBase
  <2>2. /\ UNCHANGED <<run, runOf, seen, ipCounter>>
        /\ stage[j] = "base"
        /\ stage' = [stage EXCEPT ![j] = "tap"]
    BY <1>9 DEF TakeBase, Go, runVars, jobVars
  <2>3. Drawn' = Drawn
    BY <2>2 DEF Drawn, TypeOK
  <2>4. b <= 4 * Cardinality(Drawn) + 1
    BY <1>9, <2>1, <2>2 DEF CounterInv
  <2> QED BY <1>9, <2>1, <2>2, <2>3, <2>4 DEF CounterInv, TypeOK
<1>10. ASSUME agent = "up", NEW j \in Jobs, SpawnStep(j) PROVE CounterInv'
  <2> USE DEF tapVars
  <2>1. CASE AddTap(j) \/ AddAddress(j) \/ NoSuchAddress(j) \/ LinkUp(j)
    BY <1>5, <1>10, <2>1 DEF AddTap, AddAddress, NoSuchAddress, LinkUp
  <2>2. CASE StartJailer(j) \/ Boot(j) \/ BootFails(j)
    BY <1>5, <1>10, <2>2 DEF StartJailer, Boot, BootFails
  <2>3. CASE DockerRun(j) \/ DockerRunFails(j) \/ Inspect(j) \/ InspectFails(j)
    BY <1>5, <1>10, <2>3 DEF DockerRun, DockerRunFails, Inspect, InspectFails
  <2>4. CASE SkipAuthorize(j) \/ RejectKey(j) \/ MissKey(j) \/ AppendKey(j) \/ TornAppend(j)
    BY <1>5, <1>10, <2>4 DEF SkipAuthorize, RejectKey, MissKey, AppendKey, TornAppend
  <2>5. CASE BuildNothing(j) \/ SpawnFails(j)
    BY <1>5, <1>10, <2>5 DEF BuildNothing, SpawnFails
  <2> QED BY <1>7, <1>8, <1>9, <1>10, <2>1, <2>2, <2>3, <2>4, <2>5 DEF SpawnStep
<1>11. ASSUME agent = "up", NEW j \in Jobs, Report(j) \/ ReportLost(j) PROVE CounterInv'
  <2>1. PICK to \in {"reported", "unreported"} : stage' = [stage EXCEPT ![j] = to]
    BY <1>11 DEF Report, ReportLost
  <2>2. /\ UNCHANGED <<run, runOf, seen, ipCounter, base>>
        /\ stage[j] \in {"running", "failed"}
    BY <1>11 DEF Report, ReportLost, Reporting, runVars, jobVars, tapVars
  <2>3. Drawn' = Drawn
    BY <2>1, <2>2 DEF Drawn, TypeOK
  <2> QED BY <1>11, <2>1, <2>2, <2>3 DEF CounterInv, TypeOK
<1>12. ASSUME agent = "up", UNCHANGED <<run, runOf, seen, ipCounter, base, stage>> PROVE CounterInv'
  <2>1. Drawn' = Drawn
    BY <1>12 DEF Drawn
  <2> QED BY <1>12, <2>1 DEF CounterInv
<1>13. ASSUME agent = "up", NEW j \in Jobs, ProxyStep(j) \/ VMDies(j) PROVE CounterInv'
  BY <1>12, <1>13 DEF ProxyStep, Listen, ListenFails, VMDies, runVars, jobVars, tapVars
<1>14. CASE UNCHANGED vars
  BY <1>2, <1>12, <1>14 DEF vars, runVars, jobVars, tapVars, AgentStarts
<1>15. ~ AgentStops
  BY DEF AgentStops
<1> QED BY <1>1, <1>2, <1>6, <1>10, <1>11, <1>13, <1>14, <1>15 DEF Next, HandlerStep

\* No process runs out of tap addresses before it has used them up, although
\* allocateTapIP has no lock: interference makes two VMs share an address, but
\* it never moves the counter further than its calls do.
THEOREM AddressesLast == Spec => []AddressesSuffice
<1>1. Init => CounterInv
  <2> SUFFICES ASSUME Init PROVE CounterInv
    OBVIOUS
  <2>1. Drawn = {}
    BY DEF Init, Drawn
  <2>2. IsFiniteSet(Drawn) /\ Cardinality(Drawn) = 0
    BY <2>1, FS_EmptySet
  <2> QED BY <2>2 DEF Init, CounterInv
<1>2. AgentInv /\ CounterInv => AddressesSuffice
  <2> SUFFICES ASSUME AgentInv, CounterInv, NEW j \in Jobs, stage[j] = "address",
                      base[j] > MaxOctet
               PROVE  4 * Cardinality(Drawn) >= MaxOctet
    BY DEF AddressesSuffice
  <2>1. runOf[j] = run /\ agent = "up" /\ base[j] \in Nat
    BY DEF AgentInv, ModeInv, Spawning, FirecrackerStages, TypeOK
  <2>2. Cardinality(Drawn) \in Nat /\ base[j] <= 4 * Cardinality(Drawn) + 1
    BY <2>1, FS_CardinalityType DEF CounterInv
  <2> QED BY <2>1, <2>2, OctetAssumption
<1>3. AgentInv /\ CounterInv /\ [Next]_vars => CounterInv'
  BY CounterStep DEF AgentInv
<1> QED BY <1>1, <1>2, <1>3, AgentInvariant, PTL DEF Spec

=============================================================================
