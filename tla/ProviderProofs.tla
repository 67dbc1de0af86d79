--------------------------- MODULE ProviderProofs ---------------------------
(* A provider's key pair and its setup, for every bound.                    *)
EXTENDS Provider, FiniteSetTheorems, TLAPS

Late == {"register", "conf", "up"}
PastKeys == PlainFiles \cup {"done"}

\* The key step of setup and that of the agent exclude each other by what is
\* on disk.  A public key file is the last thing either of them writes, so
\* with no overlap it is empty only after a write cut short, and otherwise the
\* half of what prov_private holds.
KeyInv ==
    ~ overlapped =>
        /\ agent \in KeyFiles => setup \notin KeyFiles
        /\ Missing("priv") => Missing("pub")
        /\ setup = "priv" => Missing("priv")
        /\ setup = "pub" => Missing("pub") /\ disk["priv"] = setupKey
        /\ agent \in KeyFiles => Missing("pub")
        /\ agent = "pub" => disk["priv"] = pubKey
        /\ agent \in Late => pubKey = disk["pub"] /\ pubKey # Absent
        /\ disk["pub"] \in Nat => disk["priv"] = disk["pub"]
        /\ registered \subseteq {disk["pub"]}
        /\ \A f \in KeyFiles : disk[f] = Empty => f \in cut

\* Whether or not they overlap, both programs write prov_private first.
PrivInv ==
    /\ Missing("priv") => Missing("pub")
    /\ agent = "pub" \/ setup = "pub" => ~ Missing("priv")

\* The pairs whose public halves were written: a by an agent and s by a run of
\* setup, where Absent stands for none.  After that the file which the one or the
\* other tests is there, and nobody makes another.
Pairs(a, s) ==
    /\ registered \subseteq {Empty, a, s}
    /\ disk["pub"] \in {Absent, Empty, a, s}
    /\ agent \in Late => pubKey \in {Empty, a, s} \ {Absent}
    /\ a # Absent => ~ Missing("pub") /\ agent \notin KeyFiles
    /\ s # Absent => ~ Missing("priv") /\ setup \notin KeyFiles

PairsInv == \E a, s \in Nat \cup {Absent} : Pairs(a, s)

\* Where a private key stands without a public one, somebody was cut off.
HalfInv ==
    ~ overlapped /\ ~ Missing("priv") /\ Missing("pub") =>
        "pub" \in cut \/ agent \in KeyFiles \/ setup = "pub"

KeysLeft ==
    setup \in PastKeys =>
        \A f \in KeyFiles : disk[f] \in Nat \/ f \in cut \/ agent \in KeyFiles \/ overlapped

\* The files that the run of setup has behind it.
PlainInv ==
    /\ setup \in {"joinToken", "spireUnit", "env", "unit", "done"} => disk["spireConf"] = Plain
    /\ setup \in {"env", "unit", "done"} => disk["spireUnit"] = Plain
    /\ setup \in {"unit", "done"} => disk["env"] = Plain
    /\ setup = "done" => disk["unit"] = Plain

ProviderInv ==
    TypeOK /\ KeyInv /\ PrivInv /\ PairsInv /\ HalfInv /\ KeysLeft /\ PlainInv

-----------------------------------------------------------------------------
(* What the writes of either process, and its end, do to the key files.     *)

\* The end of a process leaves each file as it was, or empty the one it wrote.
LEMMA DiskAfterEnd ==
    ASSUME TypeOK, NEW step, disk' \in DiskAfter(step)
    PROVE  /\ disk' \in [Files -> Contents]
           /\ \A f \in Files : disk'[f] = disk[f] \/ (f = step /\ disk'[f] = Empty)
<1>1. CASE disk' = disk
  BY <1>1 DEF TypeOK
<1>2. CASE step \in Files /\ disk' = [disk EXCEPT ![step] = Empty]
  BY <1>2 DEF TypeOK, Contents
<1> QED BY <1>1, <1>2 DEF DiskAfter

\* A write changes its own file only.
LEMMA DiskAfterWrite ==
    ASSUME TypeOK, NEW g \in Files, NEW c \in Contents, disk' = [disk EXCEPT ![g] = c]
    PROVE  /\ disk' \in [Files -> Contents]
           /\ disk'[g] = c
           /\ \A f \in Files \ {g} : disk'[f] = disk[f]
BY DEF TypeOK

\* What matters to the keys after a process has ended at this step.
LEMMA KeysAfterEnd ==
    ASSUME TypeOK, NEW step, disk' \in DiskAfter(step), cut' = cut \cup CutAfter(step)
    PROVE  \A f \in KeyFiles :
               /\ disk'[f] = disk[f] \/ (f = step /\ disk'[f] = Empty)
               /\ f \in cut \/ f = step => f \in cut'
<1>1. KeyFiles \subseteq Files
  BY DEF KeyFiles, Files
<1>2. \A f \in KeyFiles : f \in cut \/ f = step => f \in cut'
  BY DEF CutAfter, KeyFiles
<1> QED BY <1>1, <1>2, DiskAfterEnd

-----------------------------------------------------------------------------
\* No step of either program leaves the types.
LEMMA TypeStep == TypeOK /\ [Next]_vars => TypeOK'
<1> SUFFICES ASSUME TypeOK, [Next]_vars PROVE TypeOK'
    OBVIOUS
<1> USE BoundAssumption, ContentAssumption DEF TypeOK, Missing, KeyFiles, PlainFiles, Files, Contents, Plain, setupVars, agentVars, cpVars
<1>1. CASE StartSetup
  BY <1>1 DEF StartSetup
<1>2. CASE SkipKeys
  BY <1>2 DEF SkipKeys
<1>3. CASE MakeKeys
  BY <1>3 DEF MakeKeys
<1>4. CASE SetupWrite
  BY <1>4 DEF SetupWrite, After
<1>5. CASE NoJoinToken
  BY <1>5 DEF NoJoinToken, After
<1>6. CASE SetupEnds
  <2>1. disk' \in [Files -> Contents] /\ cut' \subseteq KeyFiles
    BY <1>6, DiskAfterEnd DEF SetupEnds, CutAfter
  <2> QED BY <1>6, <2>1 DEF SetupEnds
<1>7. CASE AgentStarts
  BY <1>7 DEF AgentStarts
<1>8. CASE ReuseKeys
  BY <1>8 DEF ReuseKeys
<1>9. CASE GenerateKeypair
  BY <1>9 DEF GenerateKeypair
<1>10. CASE WriteKey
  BY <1>10 DEF WriteKey
<1>11. CASE Register
  BY <1>11 DEF Register, AgentOff
<1>12. CASE WriteConf
  BY <1>12 DEF WriteConf
<1>13. CASE BringUpFails
  BY <1>13 DEF BringUpFails, AgentOff
<1>14. CASE AgentEnds
  <2>1. disk' \in [Files -> Contents] /\ cut' \subseteq KeyFiles
    BY <1>14, DiskAfterEnd DEF AgentEnds, CutAfter
  <2> QED BY <1>14, <2>1 DEF AgentEnds, AgentOff
<1>15. CASE UNCHANGED vars
  BY <1>15 DEF vars
<1> QED BY <1>1, <1>2, <1>3, <1>4, <1>5, <1>6, <1>7, <1>8, <1>9, <1>10, <1>11, <1>12, <1>13, <1>14, <1>15 DEF Next, SetupStep, AgentStep

\* The keys: who may write them, and what the writes and ends of each leave.
LEMMA KeyStep == TypeOK /\ KeyInv /\ [Next]_vars => KeyInv'
<1> SUFFICES ASSUME TypeOK /\ KeyInv, [Next]_vars PROVE KeyInv'
    OBVIOUS
<1> USE ContentAssumption DEF TypeOK, KeyInv, Late, Missing, KeyFiles, PlainFiles, Files, Contents, Plain, setupVars, agentVars, cpVars
<1>1. CASE StartSetup
  BY <1>1 DEF StartSetup
<1>2. CASE SkipKeys
  BY <1>2 DEF SkipKeys
<1>3. CASE MakeKeys
  BY <1>3 DEF MakeKeys
<1>4. CASE SetupWrite
  <2>1. CASE setup = "priv"
    BY <1>4, <2>1, DiskAfterWrite DEF SetupWrite, After
  <2>2. CASE setup = "pub"
    BY <1>4, <2>2, DiskAfterWrite DEF SetupWrite, After
  <2>3. CASE setup \in PlainFiles
    <3>1. setup' \in PlainFiles \cup {"done"}
      BY <1>4, <2>3 DEF SetupWrite, After
    <3>2. disk'["priv"] = disk["priv"] /\ disk'["pub"] = disk["pub"]
      BY <1>4, <2>3, DiskAfterWrite DEF SetupWrite
    <3>3. cut' = cut \ {setup} /\ UNCHANGED <<agent, pubKey, registered, overlapped>>
      BY <1>4 DEF SetupWrite
    <3> QED BY <2>3, <3>1, <3>2, <3>3
  <2> QED BY <1>4, <2>1, <2>2, <2>3 DEF SetupWrite
<1>5. CASE NoJoinToken
  BY <1>5 DEF NoJoinToken, After
<1>6. CASE SetupEnds
  <2>1. \A f \in KeyFiles :
            /\ disk'[f] = disk[f] \/ (f = setup /\ disk'[f] = Empty)
            /\ f \in cut \/ f = setup => f \in cut'
    BY <1>6, KeysAfterEnd DEF SetupEnds
  <2>2. setup' = "off" /\ UNCHANGED <<agent, pubKey, registered, overlapped>>
    BY <1>6 DEF SetupEnds
  <2>3. CASE setup = "priv"
    BY <2>1, <2>2, <2>3
  <2>4. CASE setup = "pub"
    BY <2>1, <2>2, <2>4
  <2>5. CASE setup \notin KeyFiles
    BY <2>1, <2>2, <2>5
  <2> QED BY <2>3, <2>4, <2>5
<1>7. CASE AgentStarts
  BY <1>7 DEF AgentStarts
<1>8. CASE ReuseKeys
  BY <1>8 DEF ReuseKeys
<1>9. CASE GenerateKeypair
  BY <1>9 DEF GenerateKeypair
<1>10. CASE WriteKey
  <2>1. /\ disk'[agent] = pubKey
        /\ \A f \in Files \ {agent} : disk'[f] = disk[f]
    BY <1>10, DiskAfterWrite DEF WriteKey
  <2>2. /\ agent \in KeyFiles /\ cut' = cut \ {agent}
        /\ agent' = IF agent = "priv" THEN "pub" ELSE "register"
        /\ UNCHANGED <<setup, setupKey, pubKey, registered, overlapped>>
    BY <1>10 DEF WriteKey
  <2>3. CASE agent = "priv"
    BY <2>1, <2>2, <2>3
  <2>4. CASE agent = "pub"
    BY <2>1, <2>2, <2>4
  <2> QED BY <2>2, <2>3, <2>4
<1>11. CASE Register
  BY <1>11 DEF Register, AgentOff
<1>12. CASE WriteConf
  BY <1>12 DEF WriteConf
<1>13. CASE BringUpFails
  BY <1>13 DEF BringUpFails, AgentOff
<1>14. CASE AgentEnds
  <2>1. \A f \in KeyFiles :
            /\ disk'[f] = disk[f] \/ (f = agent /\ disk'[f] = Empty)
            /\ f \in cut \/ f = agent => f \in cut'
    BY <1>14, KeysAfterEnd DEF AgentEnds
  <2>2. agent' = "off" /\ UNCHANGED <<setup, setupKey, registered, overlapped>>
    BY <1>14 DEF AgentEnds, AgentOff
  <2>3. CASE agent = "priv"
    BY <2>1, <2>2, <2>3
  <2>4. CASE agent = "pub"
    BY <2>1, <2>2, <2>4
  <2>5. CASE agent \notin KeyFiles
    BY <2>1, <2>2, <2>5
  <2> QED BY <2>3, <2>4, <2>5
<1>15. CASE UNCHANGED vars
  BY <1>15 DEF vars
<1> QED BY <1>1, <1>2, <1>3, <1>4, <1>5, <1>6, <1>7, <1>8, <1>9, <1>10, <1>11, <1>12, <1>13, <1>14, <1>15 DEF Next, SetupStep, AgentStep

\* Nothing removes prov_private, and only a step after its write touches prov_public.
LEMMA PrivStep == TypeOK /\ PrivInv /\ [Next]_vars => PrivInv'
<1> SUFFICES ASSUME TypeOK, PrivInv, [Next]_vars PROVE PrivInv'
    OBVIOUS
<1> USE ContentAssumption DEF TypeOK, PrivInv, Missing, KeyFiles, PlainFiles, Files, Contents, Plain, setupVars, agentVars, cpVars
<1>1. CASE StartSetup \/ SkipKeys \/ MakeKeys \/ NoJoinToken
  BY <1>1 DEF StartSetup, SkipKeys, MakeKeys, NoJoinToken, After
<1>2. CASE SetupWrite
  <2>1. \A f \in Files : disk'[f] = disk[f] \/ (f = setup /\ disk'[f] # Absent)
    BY <1>2 DEF SetupWrite
  <2>2. disk'[setup] # Absent /\ setup \in Files /\ agent' = agent
    BY <1>2 DEF SetupWrite
  <2>3. setup' = After[setup]
    BY <1>2 DEF SetupWrite
  <2>4. (setup' = "pub" <=> setup = "priv") /\ setup' # "priv"
    BY <1>2, <2>3 DEF SetupWrite, After
  <2> QED BY <2>1, <2>2, <2>4
<1>3. CASE SetupEnds \/ AgentEnds
  <2>1. PICK step \in {setup, agent} : disk' \in DiskAfter(step)
    BY <1>3 DEF SetupEnds, AgentEnds
  <2>2. \A f \in Files : disk'[f] = disk[f] \/ (f = step /\ disk'[f] = Empty)
    BY <2>1, DiskAfterEnd
  <2>3. /\ setup' = "pub" => setup = "pub"
        /\ agent' = "pub" => agent = "pub"
    BY <1>3 DEF SetupEnds, AgentEnds, AgentOff
  <2> QED BY <2>1, <2>2, <2>3
<1>4. CASE AgentStarts \/ ReuseKeys \/ GenerateKeypair \/ Register \/ BringUpFails
  BY <1>4 DEF AgentStarts, ReuseKeys, GenerateKeypair, Register, BringUpFails, AgentOff
<1>5. CASE WriteKey
  BY <1>5 DEF WriteKey
<1>6. CASE WriteConf
  BY <1>6 DEF WriteConf
<1>7. CASE UNCHANGED vars
  BY <1>7 DEF vars
<1> QED BY <1>1, <1>2, <1>3, <1>4, <1>5, <1>6, <1>7 DEF Next, SetupStep, AgentStep

\* A public key gets to prov_public from one agent and one run of setup only.
LEMMA PairsStep == TypeOK /\ PrivInv /\ PairsInv /\ [Next]_vars => PairsInv'
<1> SUFFICES ASSUME TypeOK, PrivInv, PairsInv, [Next]_vars PROVE PairsInv'
    OBVIOUS
<1> USE ContentAssumption DEF TypeOK, Late, Missing, KeyFiles, PlainFiles, Files, Contents, Plain, setupVars, agentVars, cpVars
<1>1. PICK a \in Nat \cup {Absent}, s \in Nat \cup {Absent} : Pairs(a, s)
  BY DEF PairsInv
<1>2. CASE StartSetup \/ SkipKeys \/ MakeKeys \/ NoJoinToken
  <2>1. /\ UNCHANGED <<disk, agent, pubKey, registered>>
        /\ setup' \notin KeyFiles \/ Missing("priv")
    BY <1>2 DEF StartSetup, SkipKeys, MakeKeys, NoJoinToken, After
  <2>2. Pairs(a, s)'
    BY <1>1, <2>1 DEF Pairs
  <2> QED BY <2>2 DEF PairsInv
<1>3. CASE SetupWrite /\ setup # "pub"
  <2>1. disk'["pub"] = disk["pub"] /\ (~ Missing("priv") => disk'["priv"] # Absent)
    BY <1>3 DEF SetupWrite
  <2>2. setup' \notin KeyFiles \/ setup \in KeyFiles
    BY <1>3 DEF SetupWrite, After
  <2>3. UNCHANGED <<agent, pubKey, registered>>
    BY <1>3 DEF SetupWrite
  <2>4. Pairs(a, s)'
    BY <1>1, <2>1, <2>2, <2>3 DEF Pairs
  <2> QED BY <2>4 DEF PairsInv
<1>4. CASE SetupWrite /\ setup = "pub"
  <2>1. PICK k \in Nat : disk'["pub"] = k /\ disk'["priv"] = disk["priv"]
    BY <1>4 DEF SetupWrite
  <2>2. setup' = "spireConf" /\ UNCHANGED <<agent, pubKey, registered>>
    BY <1>4 DEF SetupWrite, After
  <2>3. ~ Missing("priv") /\ s = Absent
    BY <1>1, <1>4 DEF Pairs, PrivInv
  <2>4. Absent \notin registered /\ (agent \in Late => pubKey # Absent)
    BY <1>1 DEF Pairs
  <2>5. Pairs(a, k)'
    BY <1>1, <2>1, <2>2, <2>3, <2>4 DEF Pairs
  <2> QED BY <2>1, <2>5 DEF PairsInv
<1>5. CASE SetupEnds \/ AgentEnds
  <2>1. PICK step \in {setup, agent} : disk' \in DiskAfter(step)
    BY <1>5 DEF SetupEnds, AgentEnds
  <2>2. \A f \in Files : disk'[f] = disk[f] \/ (f = step /\ disk'[f] = Empty)
    BY <2>1, DiskAfterEnd
  <2>3. /\ setup' \in {setup, "off"}
        /\ (agent' = agent /\ pubKey' = pubKey) \/ agent' = "off"
        /\ registered' = registered
    BY <1>5 DEF SetupEnds, AgentEnds, AgentOff
  <2>4. Pairs(a, s)'
    BY <1>1, <2>2, <2>3 DEF Pairs
  <2> QED BY <2>4 DEF PairsInv
<1>6. CASE AgentStarts \/ ReuseKeys \/ GenerateKeypair \/ Register \/ BringUpFails
  <2>1. Pairs(a, s)'
    BY <1>1, <1>6 DEF Pairs, AgentStarts, ReuseKeys, GenerateKeypair, Register, BringUpFails,
                      AgentOff
  <2> QED BY <2>1 DEF PairsInv
<1>7. CASE WriteKey /\ agent = "priv"
  <2>1. Pairs(a, s)'
    BY <1>1, <1>7 DEF Pairs, WriteKey
  <2> QED BY <2>1 DEF PairsInv
<1>8. CASE WriteKey /\ agent = "pub"
  <2>1. PICK k \in Nat :
          /\ k = pubKey
          /\ disk'["pub"] = k /\ disk'["priv"] = disk["priv"]
          /\ agent' = "register"
          /\ UNCHANGED <<setup, pubKey, registered>>
    BY <1>8 DEF WriteKey
  <2>2. a = Absent /\ Absent \notin registered
    BY <1>1, <1>8 DEF Pairs
  <2>3. Pairs(k, s)'
    BY <1>1, <2>1, <2>2 DEF Pairs
  <2> QED BY <2>1, <2>3 DEF PairsInv
<1>9. CASE WriteConf
  <2>1. Pairs(a, s)'
    BY <1>1, <1>9 DEF Pairs, WriteConf
  <2> QED BY <2>1 DEF PairsInv
<1>10. CASE UNCHANGED vars
  <2>1. Pairs(a, s)'
    BY <1>1, <1>10 DEF Pairs, vars
  <2> QED BY <2>1 DEF PairsInv
<1>11. WriteKey => agent \in {"priv", "pub"}
  BY DEF WriteKey
<1> QED BY <1>2, <1>3, <1>4, <1>5, <1>6, <1>7, <1>8, <1>9, <1>10, <1>11 DEF Next, SetupStep, AgentStep

\* A private key is alone on disk while its writer is at work, or after its end.
LEMMA HalfStep == TypeOK /\ KeyInv /\ HalfInv /\ [Next]_vars => HalfInv'
<1> SUFFICES ASSUME TypeOK /\ KeyInv /\ HalfInv, [Next]_vars PROVE HalfInv'
    OBVIOUS
<1> USE DEF TypeOK, KeyInv, HalfInv, Late, Missing, KeyFiles, PlainFiles, Files, Contents, Plain, setupVars, agentVars, cpVars
<1>1. CASE StartSetup
  BY <1>1 DEF StartSetup
<1>2. CASE SkipKeys
  BY <1>2 DEF SkipKeys
<1>3. CASE MakeKeys
  BY <1>3 DEF MakeKeys
<1>4. CASE SetupWrite
  BY <1>4 DEF SetupWrite, After
<1>5. CASE NoJoinToken
  BY <1>5 DEF NoJoinToken, After
<1>6. CASE SetupEnds
  BY <1>6 DEF SetupEnds, DiskAfter, CutAfter
<1>7. CASE AgentStarts
  BY <1>7 DEF AgentStarts
<1>8. CASE ReuseKeys
  BY <1>8 DEF ReuseKeys
<1>9. CASE GenerateKeypair
  BY <1>9 DEF GenerateKeypair
<1>10. CASE WriteKey
  BY <1>10 DEF WriteKey
<1>11. CASE Register
  BY <1>11 DEF Register, AgentOff
<1>12. CASE WriteConf
  BY <1>12 DEF WriteConf
<1>13. CASE BringUpFails
  BY <1>13 DEF BringUpFails, AgentOff
<1>14. CASE AgentEnds
  BY <1>14 DEF AgentEnds, DiskAfter, CutAfter, AgentOff
<1>15. CASE UNCHANGED vars
  BY <1>15 DEF vars
<1> QED BY <1>1, <1>2, <1>3, <1>4, <1>5, <1>6, <1>7, <1>8, <1>9, <1>10, <1>11, <1>12, <1>13, <1>14, <1>15 DEF Next, SetupStep, AgentStep

\* Setup goes past its key step with the keys accounted for, and they stay so.
LEMMA LeftStep == TypeOK /\ KeyInv /\ HalfInv /\ KeysLeft /\ [Next]_vars => KeysLeft'
<1> SUFFICES ASSUME TypeOK /\ KeyInv /\ HalfInv /\ KeysLeft, [Next]_vars PROVE KeysLeft'
    OBVIOUS
<1> USE DEF TypeOK, KeyInv, HalfInv, KeysLeft, PastKeys, Late, Missing, KeyFiles, PlainFiles, Files, Contents, Plain, setupVars, agentVars, cpVars
<1>1. CASE StartSetup
  BY <1>1 DEF StartSetup
<1>2. CASE SkipKeys
  BY <1>2 DEF SkipKeys
<1>3. CASE MakeKeys
  BY <1>3 DEF MakeKeys
<1>4. CASE SetupWrite
  BY <1>4 DEF SetupWrite, After
<1>5. CASE NoJoinToken
  BY <1>5 DEF NoJoinToken, After
<1>6. CASE SetupEnds
  BY <1>6 DEF SetupEnds, DiskAfter, CutAfter
<1>7. CASE AgentStarts
  BY <1>7 DEF AgentStarts
<1>8. CASE ReuseKeys
  BY <1>8 DEF ReuseKeys
<1>9. CASE GenerateKeypair
  BY <1>9 DEF GenerateKeypair
<1>10. CASE WriteKey
  BY <1>10 DEF WriteKey
<1>11. CASE Register
  BY <1>11 DEF Register, AgentOff
<1>12. CASE WriteConf
  BY <1>12 DEF WriteConf
<1>13. CASE BringUpFails
  BY <1>13 DEF BringUpFails, AgentOff
<1>14. CASE AgentEnds
  BY <1>14 DEF AgentEnds, DiskAfter, CutAfter, AgentOff
<1>15. CASE UNCHANGED vars
  BY <1>15 DEF vars
<1> QED BY <1>1, <1>2, <1>3, <1>4, <1>5, <1>6, <1>7, <1>8, <1>9, <1>10, <1>11, <1>12, <1>13, <1>14, <1>15 DEF Next, SetupStep, AgentStep

\* Nobody but setup writes its files, each before the next.
LEMMA PlainStep == TypeOK /\ PlainInv /\ [Next]_vars => PlainInv'
<1> SUFFICES ASSUME TypeOK /\ PlainInv, [Next]_vars PROVE PlainInv'
    OBVIOUS
<1> USE DEF TypeOK, PlainInv, KeyFiles, PlainFiles, Files, Contents, Plain, setupVars, agentVars, cpVars
<1>1. CASE StartSetup
  BY <1>1 DEF StartSetup
<1>2. CASE SkipKeys
  BY <1>2 DEF SkipKeys
<1>3. CASE MakeKeys
  BY <1>3 DEF MakeKeys
<1>4. CASE SetupWrite
  BY <1>4 DEF SetupWrite, After
<1>5. CASE NoJoinToken
  BY <1>5 DEF NoJoinToken, After
<1>6. CASE SetupEnds
  BY <1>6 DEF SetupEnds, DiskAfter, CutAfter
<1>7. CASE AgentStarts
  BY <1>7 DEF AgentStarts
<1>8. CASE ReuseKeys
  BY <1>8 DEF ReuseKeys
<1>9. CASE GenerateKeypair
  BY <1>9 DEF GenerateKeypair
<1>10. CASE WriteKey
  BY <1>10 DEF WriteKey
<1>11. CASE Register
  BY <1>11 DEF Register, AgentOff
<1>12. CASE WriteConf
  BY <1>12 DEF WriteConf
<1>13. CASE BringUpFails
  BY <1>13 DEF BringUpFails, AgentOff
<1>14. CASE AgentEnds
  BY <1>14 DEF AgentEnds, DiskAfter, CutAfter, AgentOff
<1>15. CASE UNCHANGED vars
  BY <1>15 DEF vars
<1> QED BY <1>1, <1>2, <1>3, <1>4, <1>5, <1>6, <1>7, <1>8, <1>9, <1>10, <1>11, <1>12, <1>13, <1>14, <1>15 DEF Next, SetupStep, AgentStep

\* A new machine satisfies it.
LEMMA InitInv == Init => ProviderInv
<1> SUFFICES ASSUME Init PROVE ProviderInv
    OBVIOUS
<1> USE ContentAssumption, BoundAssumption DEF Init, KeyFiles, PlainFiles, Files, Contents
<1>1. TypeOK
  <2>1. disk \in [Files -> Contents]
    OBVIOUS
  <2>2. 0 \in 0 .. MaxRuns /\ 0 \in 0 .. MaxCalls /\ 0 \in 0 .. MaxKeys
    OBVIOUS
  <2> QED BY <2>1, <2>2 DEF TypeOK
<1>2. disk["priv"] = Absent /\ disk["pub"] = Absent
  OBVIOUS
<1>3. KeyInv /\ PrivInv /\ HalfInv
  BY <1>2 DEF KeyInv, PrivInv, HalfInv, Late, Missing
<1>4. PairsInv
  <2>1. Pairs(Absent, Absent)
    BY <1>2 DEF Pairs, Late
  <2> QED BY <2>1 DEF PairsInv
<1>5. KeysLeft /\ PlainInv
  BY DEF KeysLeft, PlainInv, PastKeys
<1> QED BY <1>1, <1>3, <1>4, <1>5 DEF ProviderInv

\* ProviderInv holds in every state of a provider's machine, wherever the runs
\* of setup and agent interleave, end or leave a file empty.
THEOREM ProviderInvariant == Spec => []ProviderInv
<1>1. ProviderInv /\ [Next]_vars => ProviderInv'
  BY TypeStep, KeyStep, PrivStep, PairsStep, HalfStep, LeftStep, PlainStep DEF ProviderInv
<1> QED BY InitInv, <1>1, PTL DEF Spec

\* Setup and agent keep the types of their state, files included.
THEOREM ProviderTypes == Spec => []TypeOK
BY ProviderInvariant, PTL DEF ProviderInv

\* Every key that GenerateKeypair ever handed to Register is on disk for good.
THEOREM OneKeyForLife == Spec => []KeyForLife
<1>1. ProviderInv => KeyForLife
  BY DEF ProviderInv, KeyInv, KeyForLife
<1> QED BY <1>1, ProviderInvariant, PTL

\* prov_private and prov_public are one pair, whoever made them.
THEOREM KeysArePair == Spec => []HalvesMatch
<1>1. ProviderInv => HalvesMatch
  BY DEF ProviderInv, KeyInv, HalvesMatch
<1> QED BY <1>1, ProviderInvariant, PTL

\* Two keys at the most are ever registered from one machine, by PairsInv: one
\* that an agent made and one that a run of setup made.
THEOREM TwoKeysAtMost == Spec => []FewKeys
<1>1. ProviderInv => FewKeys
  <2> SUFFICES ASSUME PairsInv PROVE FewKeys
    BY DEF ProviderInv
  <2>1. PICK a \in Nat \cup {Absent}, s \in Nat \cup {Absent} : Pairs(a, s)
    BY DEF PairsInv
  <2>2. registered \ {Empty} \subseteq {a, s}
    BY <2>1 DEF Pairs
  <2>3. IsFiniteSet({a}) /\ Cardinality({a}) = 1
    BY FS_Singleton
  <2>4. IsFiniteSet({a, s}) /\ Cardinality({a, s}) <= 2
    <3>1. CASE s = a
      <4>1. {a, s} = {a}
        BY <3>1
      <4> QED BY <2>3, <4>1
    <3>2. CASE s # a
      <4>1. {a} \cup {s} = {a, s} /\ s \notin {a}
        BY <3>2
      <4>2. IsFiniteSet({a} \cup {s}) /\ Cardinality({a} \cup {s}) = Cardinality({a}) + 1
        BY <2>3, <4>1, FS_AddElement
      <4> QED BY <2>3, <4>1, <4>2
    <3> QED BY <3>1, <3>2
  <2>5. Cardinality(registered \ {Empty}) <= Cardinality({a, s})
    BY <2>2, <2>4, FS_Subset
  <2>6. Cardinality(registered \ {Empty}) \in Nat /\ Cardinality({a, s}) \in Nat
    BY <2>2, <2>4, FS_Subset, FS_CardinalityType
  <2> QED BY <2>4, <2>5, <2>6 DEF FewKeys
<1> QED BY <1>1, ProviderInvariant, PTL

\* A complete run of setup leaves its files, apart from cut-off key files.
THEOREM SetupCompletes == Spec => []SetupComplete
<1>1. ProviderInv => SetupComplete
  BY DEF ProviderInv, KeysLeft, PlainInv, SetupComplete, PastKeys, PlainFiles
<1> QED BY <1>1, ProviderInvariant, PTL

-----------------------------------------------------------------------------
\* There is a public key, and neither program is about to write one.
Settled == ~ Missing("pub") /\ setup \notin KeyFiles /\ agent \notin KeyFiles

\* Once there is a prov_public, neither key file changes again, an empty one
\* included: not by a run of setup, by an agent that starts, nor by the end of
\* either.  If the two made keys at the same time, that is so from the moment
\* both have left their key steps: whatever pair of files they have left is final.
KeyFilesStay ==
    [][/\ ~ overlapped /\ ~ Missing("pub") => \A f \in KeyFiles : disk'[f] = disk[f]
       /\ Settled => Settled' /\ \A f \in KeyFiles : disk'[f] = disk[f]]_vars

\* Without an overlap, a process that writes a key file found no prov_public.
LEMMA PairStays ==
    ASSUME TypeOK, KeyInv, ~ overlapped, ~ Missing("pub")
    PROVE  setup \notin KeyFiles /\ agent \notin KeyFiles
<1>1. agent \notin KeyFiles /\ setup # "pub"
  BY DEF KeyInv
<1>2. setup # "priv"
  BY DEF KeyInv
<1> QED BY <1>1, <1>2 DEF KeyFiles

\* GenerateKeypair and setupWGKeypair leave the pair alone that a provider is
\* known by (GenerateKeypair: "reuse them, idempotent across restarts"): setup
\* finds prov_private (PrivInv) and the agent prov_public.
THEOREM KeysNeverReplaced == Spec => KeyFilesStay
<1> DEFINE Same == \A f \in KeyFiles : disk'[f] = disk[f]
           Stay == /\ ~ overlapped /\ ~ Missing("pub") => Same
                   /\ Settled => Settled' /\ Same
<1>1. ASSUME TypeOK, PrivInv, Next, Settled PROVE Settled' /\ Same
  <2> USE DEF KeyFiles, Files
  <2>1. ~ Missing("priv") /\ ~ Missing("pub") /\ setup \notin KeyFiles /\ agent \notin KeyFiles
    BY <1>1 DEF Settled, PrivInv
  <2>2. setup' \notin KeyFiles /\ agent' \notin KeyFiles
    <3>1. CASE StartSetup \/ SkipKeys \/ MakeKeys \/ SetupWrite \/ NoJoinToken \/ SetupEnds
      BY <2>1, <3>1 DEF StartSetup, SkipKeys, MakeKeys, SetupWrite, NoJoinToken, SetupEnds, After,
                        agentVars, PlainFiles
    <3>2. CASE AgentStep
      BY <2>1, <3>2 DEF AgentStep, AgentStarts, ReuseKeys, GenerateKeypair, WriteKey, Register,
                        WriteConf, BringUpFails, AgentEnds, AgentOff, setupVars
    <3> QED BY <1>1, <3>1, <3>2 DEF Next, SetupStep
  <2>3. Same
    <3>1. CASE SetupWrite
      <4>1. setup \in PlainFiles
        BY <2>1, <3>1 DEF SetupWrite
      <4> QED BY <1>1, <3>1, <4>1 DEF SetupWrite, TypeOK, PlainFiles
    <3>2. CASE SetupEnds
      <4>1. disk' \in DiskAfter(setup)
        BY <3>2 DEF SetupEnds
      <4> QED BY <1>1, <2>1, <4>1, DiskAfterEnd
    <3>3. CASE AgentEnds
      <4>1. disk' \in DiskAfter(agent)
        BY <3>3 DEF AgentEnds
      <4> QED BY <1>1, <2>1, <4>1, DiskAfterEnd
    <3>4. CASE StartSetup \/ SkipKeys \/ MakeKeys \/ NoJoinToken
      BY <3>4 DEF StartSetup, SkipKeys, MakeKeys, NoJoinToken
    <3>5. CASE AgentStarts \/ ReuseKeys \/ GenerateKeypair \/ Register \/ BringUpFails
      BY <3>5 DEF AgentStarts, ReuseKeys, GenerateKeypair, Register, BringUpFails
    <3>6. CASE WriteKey
      BY <2>1, <3>6 DEF WriteKey
    <3>7. CASE WriteConf
      BY <1>1, <3>7 DEF WriteConf, TypeOK
    <3> QED BY <1>1, <3>1, <3>2, <3>3, <3>4, <3>5, <3>6, <3>7 DEF Next, SetupStep, AgentStep
  <2> QED BY <2>1, <2>2, <2>3 DEF Settled, Missing
<1>2. ASSUME ProviderInv, Next PROVE Stay
  <2>1. TypeOK /\ KeyInv /\ PrivInv
    BY <1>2 DEF ProviderInv
  <2>2. ~ overlapped /\ ~ Missing("pub") => Settled
    BY <2>1, PairStays DEF Settled
  <2> QED BY <1>1, <1>2, <2>1, <2>2
<1>3. ProviderInv /\ [Next]_vars => [Stay]_vars
  BY <1>2
<1> QED BY ProviderInvariant, <1>3, PTL DEF Spec, KeyFilesStay
=============================================================================
