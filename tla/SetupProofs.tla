---------------------------- MODULE SetupProofs ----------------------------
(***************************************************************************)
(* What holds for every number of runs of dcp-cp setup, cut off anywhere.  *)
(* SetupInv adds to the types what the skipped steps rely on: what is made *)
(* from a secret is only there when the secret is, the memory of a run     *)
(* agrees with the disk, and what is not whole is accounted for in cut.    *)
(***************************************************************************)
EXTENDS Setup, TLAPS

\* A file is whole, or it or the secret it is made from was cut.
Accounted(f) == Whole(f) \/ f \in cut \/ (f \in Derived /\ Source[f] \in cut)

\* The private key and the password that a run holds are those on disk.
MemoryInv ==
    /\ pc = "priv" => Missing("wgPriv") /\ key \in Nat
    /\ pc = "pub" => key \in Nat /\ key = disk["wgPriv"]
    /\ pc \in {"role", "dsn"} => ~ Missing("pgPass") /\ pass = Secret("pgPass")

\* Nothing is made from a secret that is not there.
OrderInv ==
    /\ Missing("wgPriv") => Missing("wgPub") /\ Missing("wgConf") /\ "wgPub" \notin cut
    /\ Missing("wgConf") => link = Absent
    /\ Missing("pgPass") =>
           disk["pgDsn"] \in {Absent, Torn} /\ role = Absent /\ "pgPass" \notin cut
    /\ link # Hollow

AgreeInv ==
    /\ SecretsAgree
    /\ pc = "conf" => ~ Missing("wgPriv")
    /\ pc = "up" => ~ Missing("wgConf")

CutInv ==
    /\ \A f \in Files : Missing(f) \/ Accounted(f)
    /\ ~ Missing("wgPriv") /\ pc # "pub" => ~ Missing("wgPub") \/ Accounted("wgPub")

\* The files that a run has left behind are accounted for, and wg0 is up.
PassedInv ==
    /\ pc \notin {"off", "ca"} => Accounted("ca")
    /\ pc \notin {"off", "ca", "genkey", "priv"} => Accounted("wgPriv")
    /\ pc \notin {"off", "ca", "genkey", "priv", "pub"} => Accounted("wgPub")
    /\ pc \notin {"off", "ca", "genkey", "priv", "pub", "conf"} => Accounted("wgConf")
    /\ pc \notin {"off", "ca", "genkey", "priv", "pub", "conf", "up"} => link # Absent
    /\ pc \in {"token", "agent", "pass", "role", "dsn", "jwt", "unit", "done"}
          => Accounted("serverConf")
    /\ pc \in {"agent", "pass", "role", "dsn", "jwt", "unit", "done"} => Accounted("joinToken")
    /\ pc \in {"pass", "role", "dsn", "jwt", "unit", "done"} => Accounted("agentConf")
    /\ pc \in {"role", "dsn", "jwt", "unit", "done"} => Accounted("pgPass")
    /\ pc \in {"jwt", "unit", "done"} => Accounted("pgDsn")
    /\ pc \in {"unit", "done"} => Accounted("jwt")

SetupInv ==
    /\ TypeOK
    /\ MemoryInv
    /\ OrderInv
    /\ AgreeInv
    /\ CutInv
    /\ PassedInv

-----------------------------------------------------------------------------
\* A fresh machine satisfies SetupInv.
LEMMA InitInv == Init => SetupInv
  BY ContentAssumption, StartsAssumption
  DEF Init, SetupInv, TypeOK, MemoryInv, OrderInv, AgreeInv, CutInv, PassedInv, Accounted,
      SecretsAgree, Missing, Whole, Secret, Source, Derived, Files, Once, Always, Content,
      Steps, WriteSteps, Plain

\* Every step of a run, every end of one and every new one keeps SetupInv.
LEMMA NextInv == SetupInv /\ [Next]_vars => SetupInv'
<1> SUFFICES ASSUME SetupInv, [Next]_vars PROVE SetupInv'
  OBVIOUS
<1> USE ContentAssumption, StartsAssumption
    DEF SetupInv, TypeOK, MemoryInv, OrderInv, AgreeInv, CutInv, PassedInv, Accounted,
        SecretsAgree, Missing, Whole, Secret, Source, Derived, Files, Once, Always, Content,
        Steps, WriteSteps, Running, NewSecret, Write, Skip, Target, memory, outside, Plain
<1>1. CASE Start
  BY <1>1 DEF Start
<1>2. CASE MakeCA
  BY <1>2 DEF MakeCA
<1>3. CASE SkipCA
  BY <1>3 DEF SkipCA
<1>4. CASE GenKey
  BY <1>4 DEF GenKey
<1>5. CASE SkipKeys
  BY <1>5 DEF SkipKeys
<1>6. CASE WritePriv
  BY <1>6 DEF WritePriv
<1>7. CASE WritePub
  BY <1>7 DEF WritePub
<1>8. CASE WriteConf
  <2>1. TypeOK'
    BY <1>8 DEF WriteConf
  <2>2. MemoryInv'
    BY <1>8 DEF WriteConf
  <2>3. OrderInv'
    BY <1>8 DEF WriteConf
  <2>4. AgreeInv'
    <3>1. disk' = [disk EXCEPT !["wgConf"] = Secret("wgPriv")] /\ disk["wgPriv"] # Absent
      BY <1>8 DEF WriteConf
    <3>2. Secret("wgPriv") # Absent
      BY <3>1
    <3>3. Secret("wgPriv") \in Nat => Secret("wgPriv") = disk["wgPriv"]
      OBVIOUS
    <3>4. disk'["wgConf"] = Secret("wgPriv") /\ \A f \in Files \ {"wgConf"} : disk'[f] = disk[f]
      BY <3>1
    <3>5. UNCHANGED <<role, link>> /\ pc' = "up" /\ disk["wgConf"] = Absent
      BY <1>8 DEF WriteConf
    <3> HIDE DEF Secret
    <3>6. \A f \in Derived : Whole(f)' => disk'[f] = disk'[Source[f]]
      BY <3>2, <3>3, <3>4
    <3>7. Secret("pgPass")' = Secret("pgPass")
      BY <3>4 DEF Secret
    <3> QED
      BY <3>2, <3>4, <3>5, <3>6, <3>7
  <2>5. CutInv'
    BY <1>8 DEF WriteConf
  <2>6. PassedInv'
    BY <1>8 DEF WriteConf
  <2> QED
    BY <2>1, <2>2, <2>3, <2>4, <2>5, <2>6
<1>9. CASE SkipConf
  BY <1>9 DEF SkipConf
<1>10. CASE LinkUp
  <2>1. TypeOK'
    BY <1>10 DEF LinkUp
  <2>2. MemoryInv'
    BY <1>10 DEF LinkUp
  <2>3. OrderInv'
    BY <1>10 DEF LinkUp
  <2>4. AgreeInv'
    BY <1>10 DEF LinkUp
  <2>5. CutInv'
    BY <1>10 DEF LinkUp
  <2>6. PassedInv'
    BY <1>10 DEF LinkUp
  <2> QED
    BY <2>1, <2>2, <2>3, <2>4, <2>5, <2>6
<1>11. CASE WriteServerConf
  BY <1>11 DEF WriteServerConf
<1>12. CASE SkipServerConf
  BY <1>12 DEF SkipServerConf
<1>13. CASE WriteToken
  BY <1>13 DEF WriteToken
<1>14. CASE WriteAgentConf
  BY <1>14 DEF WriteAgentConf
<1>15. CASE SkipAgentConf
  BY <1>15 DEF SkipAgentConf
<1>16. CASE MakePass
  <2>1. TypeOK'
    BY <1>16 DEF MakePass
  <2>2. MemoryInv'
    <3>1. pass' = fresh + 1 /\ pc' = "role" /\ disk'["pgPass"] = fresh + 1 /\ fresh + 1 \in Nat
      BY <1>16 DEF MakePass
    <3> QED
      BY <3>1
  <2>3. OrderInv'
    BY <1>16 DEF MakePass
  <2>4. AgreeInv'
    BY <1>16 DEF MakePass
  <2>5. CutInv'
    BY <1>16 DEF MakePass
  <2>6. PassedInv'
    BY <1>16 DEF MakePass
  <2> QED
    BY <2>1, <2>2, <2>3, <2>4, <2>5, <2>6
<1>17. CASE ReadPass
  BY <1>17 DEF ReadPass
<1>18. CASE CreateRole
  BY <1>18 DEF CreateRole
<1>19. CASE WriteDsn
  BY <1>19 DEF WriteDsn
<1>20. CASE DsnFails
  BY <1>20 DEF DsnFails
<1>21. CASE MakeSecret
  BY <1>21 DEF MakeSecret
<1>22. CASE SkipSecret
  BY <1>22 DEF SkipSecret
<1>23. CASE WriteUnit
  BY <1>23 DEF WriteUnit
<1>24. CASE Interrupt
  BY <1>24 DEF Interrupt
<1>25. ASSUME NEW f \in Files, Tear(f) PROVE SetupInv'
  BY <1>25 DEF Tear, Writing
<1>26. CASE Reboot
  BY <1>26 DEF Reboot
<1>27. CASE UNCHANGED vars
  BY <1>27 DEF vars
<1> HIDE DEF SetupInv
<1> QED
  BY <1>1, <1>2, <1>3, <1>4, <1>5, <1>6, <1>7, <1>8, <1>9, <1>10, <1>11, <1>12, <1>13, <1>14,
     <1>15, <1>16, <1>17, <1>18, <1>19, <1>20, <1>21, <1>22, <1>23, <1>24, <1>25, <1>26, <1>27
  DEF Next, RunStep, WireGuardStep, SpireStep, PostgresStep

\* SetupInv holds in every state, after any number of interrupted runs.
THEOREM SetupInvariant == Spec => []SetupInv
  BY InitInv, NextInv, PTL DEF Spec

\* setup keeps its types, and writes no key, password or token without content.
THEOREM SetupTypes == Spec => []TypeOK
  BY SetupInvariant, PTL DEF SetupInv

\* What is made from a secret agrees with the one on disk, by MemoryInv: the key
\* and the password in the memory of a run are those in its files.
THEOREM DerivedAgree == Spec => []SecretsAgree
<1>1. SetupInv => SecretsAgree
  BY DEF SetupInv, AgreeInv
<1> QED BY SetupInvariant, <1>1, PTL

\* A complete run leaves nothing undone that no earlier run left cut short, by
\* PassedInv: a step that is skipped has its file accounted for.
THEOREM CompleteRuns == Spec => []CompleteUnlessCut
<1>1. SetupInv => CompleteUnlessCut
  <2> SUFFICES ASSUME SetupInv, pc = "done"
               PROVE  (\A f \in Files : Accounted(f)) /\ link # Absent
    BY DEF CompleteUnlessCut, Accounted
  <2>1. \A f \in {"ca", "wgPriv", "wgPub", "wgConf", "serverConf"} : Accounted(f)
    BY DEF SetupInv, PassedInv
  <2>2. \A f \in {"joinToken", "agentConf", "pgPass", "pgDsn", "jwt"} : Accounted(f)
    BY DEF SetupInv, PassedInv
  <2>3. link # Absent
    BY DEF SetupInv, PassedInv
  <2> QED
    BY <2>1, <2>2, <2>3 DEF Files, Once, Always
<1> QED BY SetupInvariant, <1>1, PTL

\* No step of a run replaces a secret: each that writes one finds its file
\* missing, and wgPriv still is when its key has been generated.
THEOREM SecretsStay == Spec => SecretsKept
<1> DEFINE Kept == \A f \in Secrets : Whole(f) => disk'[f] = disk[f]
<1>1. SetupInv /\ [Next]_vars => [Kept]_vars
  <2> SUFFICES ASSUME SetupInv, Next PROVE Kept
    OBVIOUS
  <2> USE ContentAssumption
      DEF SetupInv, TypeOK, MemoryInv, Whole, Missing, Secrets, Files, Once, Always, Write, Skip
  <2>1. CASE Start \/ Interrupt \/ Reboot
    BY <2>1 DEF Start, Interrupt, Reboot
  <2>2. CASE MakeCA \/ SkipCA \/ MakeSecret \/ SkipSecret \/ WriteUnit
    BY <2>2 DEF MakeCA, SkipCA, MakeSecret, SkipSecret, WriteUnit
  <2>3. CASE WireGuardStep
    BY <2>3 DEF WireGuardStep, GenKey, SkipKeys, WritePriv, WritePub, WriteConf, SkipConf,
                LinkUp
  <2>4. CASE SpireStep
    BY <2>4 DEF SpireStep, WriteServerConf, SkipServerConf, WriteToken, WriteAgentConf,
                SkipAgentConf
  <2>5. CASE PostgresStep
    BY <2>5 DEF PostgresStep, MakePass, ReadPass, CreateRole, WriteDsn, DsnFails
  <2>6. ASSUME NEW f \in Files, Tear(f) PROVE Kept
    BY <2>6 DEF Tear
  <2> QED
    BY <2>1, <2>2, <2>3, <2>4, <2>5, <2>6 DEF Next, RunStep
<1> QED BY SetupInvariant, <1>1, PTL DEF Spec, SecretsKept

-----------------------------------------------------------------------------
(* What the skipped steps mean for a file: setup writes it once, or never   *)
(* again.                                                                   *)

\* A public key is only written next to a private key that was just made.
PubInv == pc \in {"priv", "pub"} => Missing("wgPub")

\* GenKey, the only way to the write of cp_public, found no private key.
LEMMA PubStep == SetupInv /\ PubInv /\ [Next]_vars => PubInv'
<1> SUFFICES ASSUME SetupInv, PubInv, [Next]_vars PROVE PubInv'
  OBVIOUS
<1> USE DEF PubInv, Missing, Write, Skip, Running
<1>1. CASE Start \/ Interrupt \/ Reboot \/ UNCHANGED vars
  BY <1>1 DEF Start, Interrupt, Reboot, vars
<1>2. CASE MakeCA \/ SkipCA \/ MakeSecret \/ SkipSecret \/ WriteUnit
  BY <1>2 DEF MakeCA, SkipCA, MakeSecret, SkipSecret, WriteUnit
<1>3. CASE GenKey
  <2>1. Missing("wgPub")
    BY <1>3 DEF GenKey, SetupInv, OrderInv
  <2> QED BY <1>3, <2>1 DEF GenKey
<1>4. CASE WritePriv
  BY <1>4 DEF WritePriv, SetupInv, TypeOK, Files, Once
<1>5. CASE SkipKeys \/ WritePub \/ WriteConf \/ SkipConf \/ LinkUp
  BY <1>5 DEF SkipKeys, WritePub, WriteConf, SkipConf, LinkUp
<1>6. CASE SpireStep
  BY <1>6 DEF SpireStep, WriteServerConf, SkipServerConf, WriteToken, WriteAgentConf,
              SkipAgentConf
<1>7. CASE PostgresStep
  BY <1>7 DEF PostgresStep, MakePass, ReadPass, CreateRole, WriteDsn, DsnFails
<1>8. ASSUME NEW f \in Files, Tear(f) PROVE PubInv'
  BY <1>8 DEF Tear
<1> QED
  BY <1>1, <1>2, <1>3, <1>4, <1>5, <1>6, <1>7, <1>8 DEF Next, RunStep, WireGuardStep

\* No step of setup touches a file of Once that exists, be it whole, without its
\* key or empty.  For most of them fileExists says so; cp_public is written
\* without a test.
WrittenOnce ==
    [][\A f \in Once : ~ Missing(f) => disk'[f] = disk[f]]_vars

\* What one step does to the files that are written once.
Keep == \A f \in Once : ~ Missing(f) => disk'[f] = disk[f]

\* Each step that writes a file of Once found it missing.
LEMMA KeepStep == SetupInv /\ PubInv /\ Next => Keep
<1> SUFFICES ASSUME SetupInv, PubInv, Next PROVE Keep
  OBVIOUS
<1> USE DEF Keep, SetupInv, TypeOK, MemoryInv, PubInv, Missing, Files, Once, Always, Write, Skip
<1>1. CASE Start \/ Interrupt \/ Reboot
  BY <1>1 DEF Start, Interrupt, Reboot
<1>2. CASE MakeCA \/ SkipCA \/ MakeSecret \/ SkipSecret \/ WriteUnit
  BY <1>2 DEF MakeCA, SkipCA, MakeSecret, SkipSecret, WriteUnit
<1>3. CASE WireGuardStep
  BY <1>3 DEF WireGuardStep, GenKey, SkipKeys, WritePriv, WritePub, WriteConf, SkipConf,
              LinkUp
<1>4. CASE SpireStep
  BY <1>4 DEF SpireStep, WriteServerConf, SkipServerConf, WriteToken, WriteAgentConf,
              SkipAgentConf
<1>5. CASE PostgresStep
  BY <1>5 DEF PostgresStep, MakePass, ReadPass, CreateRole, WriteDsn, DsnFails
<1>6. ASSUME NEW f \in Files, Tear(f) PROVE Keep
  <2>1. f \in Once => Missing(f)
    <3>1. f = "wgPub" => pc = "pub"
      BY <1>6 DEF Tear, Writing, WriteSteps, Target
    <3> QED BY <1>6, <3>1 DEF Tear
  <2>2. disk' = [disk EXCEPT ![f] = Torn]
    BY <1>6 DEF Tear
  <2> QED BY <2>1, <2>2
<1> QED
  BY <1>1, <1>2, <1>3, <1>4, <1>5, <1>6 DEF Next, RunStep

\* Setup keeps, through all its runs, every file it found on disk: no secret and
\* no public key that providers were given is replaced, and for the same reason
\* no run repairs a file that an earlier one left empty.
THEOREM FilesAreKept == Spec => WrittenOnce
<1>1. SetupInv /\ PubInv /\ [Next]_vars => [Keep]_vars
  BY KeepStep
<1>2. Init => PubInv
  BY DEF Init, PubInv
<1> QED BY SetupInvariant, PubStep, <1>1, <1>2, PTL DEF Spec, WrittenOnce, Keep

\* wg0 has what wg0.conf has: the file is never written again.
LinkInv == link \in {Absent, disk["wgConf"]}

\* LinkUp and a restart take the key from wg0.conf, which is there to stay.
LEMMA LinkStep == SetupInv /\ PubInv /\ LinkInv /\ [Next]_vars => LinkInv'
<1> SUFFICES ASSUME SetupInv, PubInv, LinkInv, [Next]_vars PROVE LinkInv'
  OBVIOUS
<1>1. CASE UNCHANGED vars
  BY <1>1 DEF vars, outside, LinkInv
<1>2. CASE Next
  <2>1. link = Absent \/ disk'["wgConf"] = disk["wgConf"]
    BY <1>2, KeepStep DEF Keep, SetupInv, OrderInv, Once
  <2>2. link' = link \/ (UNCHANGED disk /\ link' \in {Absent, disk["wgConf"]})
    <3>1. CASE LinkUp \/ Reboot
      BY <3>1 DEF LinkUp, Reboot, LinkInv
    <3>2. CASE Start \/ Interrupt \/ MakeCA \/ SkipCA \/ MakeSecret \/ SkipSecret \/ WriteUnit
      BY <3>2 DEF Start, Interrupt, MakeCA, SkipCA, MakeSecret, SkipSecret, WriteUnit, Write,
                  Skip, outside
    <3>3. CASE WireGuardStep \/ SpireStep
      BY <3>1, <3>3 DEF WireGuardStep, GenKey, SkipKeys, WritePriv, WritePub, WriteConf,
                        SkipConf, SpireStep, WriteServerConf, SkipServerConf, WriteToken,
                        WriteAgentConf, SkipAgentConf, Write, Skip, outside
    <3>4. CASE PostgresStep
      BY <3>4 DEF PostgresStep, MakePass, ReadPass, CreateRole, WriteDsn, DsnFails, Write, outside
    <3>5. ASSUME NEW f \in Files, Tear(f) PROVE link' = link
      BY <3>5 DEF Tear, outside
    <3> QED BY <1>2, <3>1, <3>2, <3>3, <3>4, <3>5 DEF Next, RunStep
  <2> QED BY <2>1, <2>2 DEF LinkInv
<1> QED BY <1>1, <1>2

\* A run at its end, with nothing on disk whose last write was cut short or not
\* reached.
Undamaged == pc = "done" /\ cut = {}

\* What README.md:106 means by a complete configuration: every file is there with
\* its content, wg0 has the key of cp_private, what is made from a secret carries
\* it, and the role, if CREATE USER worked, has the password of pg_pass.
Configured ==
    /\ \A f \in Files : Whole(f)
    /\ \A f \in Derived : disk[f] = disk[Source[f]]
    /\ link = disk["wgPriv"]
    /\ role \in {Absent, disk["pgPass"]}

\* Setup is safe to re-run (SafeToRerun) as long as no file was left empty and
\* cp_private never without its cp_public: runs that failed or were killed at any
\* other place, and any number of complete ones, lead to the whole configuration.
THEOREM UndamagedRuns == Spec => [](Undamaged => Configured /\ SafeToRerun)
<1>1. SetupInv /\ LinkInv /\ CompleteUnlessCut /\ Undamaged => Configured /\ SafeToRerun
  <2> SUFFICES ASSUME SetupInv, LinkInv, CompleteUnlessCut, Undamaged PROVE Configured /\ SafeToRerun
    OBVIOUS
  <2>1. (\A f \in Files : Whole(f)) /\ link # Absent
    BY DEF CompleteUnlessCut, Undamaged
  <2>2. SecretsAgree
    BY DEF SetupInv, AgreeInv
  <2>3. \A f \in Derived : disk[f] = disk[Source[f]]
    BY <2>1, <2>2 DEF SecretsAgree, Derived, Files, Once, Always
  <2>4. Whole("wgPriv") /\ Whole("wgPub") /\ Whole("pgPass") /\ Whole("wgConf")
    BY <2>1 DEF Files, Once, Always
  <2>5. role \in {Absent, disk["pgPass"]}
    BY <2>2, <2>4 DEF SecretsAgree, Secret
  <2>6. link = disk["wgPriv"]
    BY <2>1, <2>3 DEF LinkInv, Derived, Source
  <2>7. ~ Missing("wgPub")
    BY <2>4, ContentAssumption DEF Whole, Missing
  <2> QED BY <2>1, <2>3, <2>5, <2>6, <2>7 DEF Configured, SafeToRerun
<1>2. Init => PubInv /\ LinkInv
  BY DEF Init, PubInv, LinkInv
<1> QED BY SetupInvariant, CompleteRuns, PubStep, LinkStep, <1>1, <1>2, PTL DEF Spec
=============================================================================
