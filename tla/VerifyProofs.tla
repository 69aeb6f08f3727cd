---------------------------- MODULE VerifyProofs ----------------------------
(***************************************************************************)
(* Proofs about Verify, for every set of file versions, every set of       *)
(* situations to start in and any number of edits.                         *)
(***************************************************************************)
EXTENDS Verify, TLAPS

\* A look changes what that look saw and nothing else.
LEMMA SeeChangesOneLook ==
    ASSUME TypeOK, NEW look \in Looks, NEW label, See(look, label)
    PROVE  /\ pc' = label
           /\ DOMAIN view' = Looks
           /\ view'[look] = world[FileOf(look)]
           /\ \A other \in Looks \ {look} : view'[other] = view[other]
           /\ UNCHANGED <<world, edits, req, seen>>
BY DEF See, TypeOK

\* Every look is at one of the five files.
LEMMA FileOfLook == \A look \in Looks : FileOf(look) \in Files
BY DEF Looks, Files, FileOf

\* Type correctness of the whole process: the administrator's edits and the
\* looks of the process keep every variable in its type, and every look saw a
\* version that was current while the process ran.
THEOREM TypeCorrect == Spec => []TypeOK
<1>1. Init => TypeOK
  <2> SUFFICES ASSUME Init PROVE TypeOK
      OBVIOUS
  <2>1. DOMAIN world = Files /\ \A f \in Files : world[f] \in AllVersions[f]
      BY BeginsAssumption DEF Init, AllVersions
  <2>2. DOMAIN view = Looks /\ \A look \in Looks : view[look] = world[FileOf(look)]
      BY DEF Init, ViewOf
  <2>3. DOMAIN seen = Files /\ \A f \in Files : seen[f] = {world[f]}
      BY DEF Init
  <2>4. edits \in Nat /\ next \in Nat \ {0} /\ req \in AllRequests
    <3>1. PICK b \in Begins : req = b.req /\ edits = b.edits
        BY DEF Init
    <3>2. b.edits \in Nat
        BY BeginsAssumption, Zenon
    <3>3. next \in Nat \ {0}
        BY DEF Init
    <3>4. req \in AllRequests
        BY <3>1 DEF AllRequests
    <3> QED
        BY <3>1, <3>2, <3>3, <3>4
  <2>5. pc \in Labels /\ allowed \in BOOLEAN
      BY DEF Init, Labels
  <2> QED
      BY <2>1, <2>2, <2>3, <2>4, <2>5, FileOfLook DEF Init, TypeOK
<1>2. TypeOK /\ [Next]_vars => TypeOK'
  <2> SUFFICES ASSUME TypeOK, [Next]_vars PROVE TypeOK'
      OBVIOUS
  <2>1. CASE Edit
    <3>1. PICK f \in Files : \E v \in Versions[f] :
              /\ world' = [world EXCEPT ![f] = v]
              /\ seen' = [seen EXCEPT ![f] = @ \cup {v}]
        BY <2>1 DEF Edit
    <3>2. \A g \in Files : world'[g] \in seen'[g] /\ seen'[g] \subseteq AllVersions[g]
                              /\ seen[g] \subseteq seen'[g]
        BY <3>1 DEF TypeOK, AllVersions
    <3>3. DOMAIN world' = Files /\ DOMAIN seen' = Files
        BY <3>1 DEF TypeOK
    <3>4. edits' \in Nat
        BY <2>1 DEF Edit, TypeOK
    <3> QED
        BY <2>1, <3>2, <3>3, <3>4, FileOfLook DEF Edit, TypeOK, local
  <2>2. ASSUME NEW look \in Looks, NEW label \in Labels, See(look, label),
               next' \in Nat \ {0}, allowed' \in BOOLEAN
        PROVE  TypeOK'
      BY <2>2, SeeChangesOneLook, FileOfLook DEF TypeOK
  <2>3. ASSUME NEW label \in Labels, Go(label), next' \in Nat \ {0}, allowed' \in BOOLEAN
        PROVE  TypeOK'
      BY <2>3 DEF TypeOK, Go
  <2>4. CASE Start
      BY <2>3, <2>4 DEF Start, TypeOK, Labels, local
  <2>5. CASE ProvidersStat
      BY <2>2, <2>5 DEF ProvidersStat, TypeOK, Labels, Final, local, Looks
  <2>6. CASE ProvidersRead
      BY <2>2, <2>6 DEF ProvidersRead, TypeOK, Labels, Final, Looks
  <2>7. CASE ConfigRead
      BY <2>2, <2>7 DEF ConfigRead, TypeOK, Labels, Looks
  <2>8. CASE ConfigStat
      BY <2>2, <2>8 DEF ConfigStat, TypeOK, Labels, Looks
  <2>9. CASE VerifyCert
      BY <2>3, <2>9 DEF VerifyCert, TypeOK, Labels, Final, local
  <2>10. CASE UserInfoLookup
      BY <2>3, <2>10 DEF UserInfoLookup, TypeOK, Labels
  <2>11. CASE EnforceDenyList
      BY <2>3, <2>11 DEF EnforceDenyList, TypeOK, Labels, Final, local
  <2>12. CASE PluginsStat
      BY <2>2, <2>12 DEF PluginsStat, TypeOK, Labels, local, Looks
  <2>13. CASE PluginsRead
      BY <2>2, <2>13 DEF PluginsRead, TypeOK, Labels, Looks
  <2>14. CASE RunPlugin
      BY <2>3, <2>14 DEF RunPlugin, TypeOK, Labels, Final
  <2>15. CASE PluginsDone
      BY <2>3, <2>15 DEF PluginsDone, TypeOK, Labels, local
  <2>16. CASE SystemStat
      BY <2>2, <2>16 DEF SystemStat, TypeOK, Labels, local, Looks
  <2>17. CASE SystemRead
      BY <2>2, <2>17 DEF SystemRead, TypeOK, Labels, Looks
  <2>18. CASE HomeStat
      BY <2>2, <2>3, <2>18 DEF HomeStat, TypeOK, Labels, local, Looks
  <2>19. CASE HomeRead
      BY <2>2, <2>19 DEF HomeRead, TypeOK, Labels, Looks
  <2>20. CASE HomeSudo
      BY <2>2, <2>20 DEF HomeSudo, TypeOK, Labels, Looks
  <2>21. CASE CheckRows
      BY <2>3, <2>21 DEF CheckRows, TypeOK, Labels, Final, local
  <2>22. CASE CheckPrincipals
      BY <2>3, <2>22 DEF CheckPrincipals, TypeOK, Labels, Final, local
  <2>23. CASE UNCHANGED vars
      BY <2>23 DEF vars, local, TypeOK
  <2> QED
      BY <2>1, <2>4, <2>5, <2>6, <2>7, <2>8, <2>9, <2>10, <2>11, <2>12, <2>13,
         <2>14, <2>15, <2>16, <2>17, <2>18, <2>19, <2>20, <2>21, <2>22, <2>23
         DEF Next, Step, Over
<1> QED
    BY <1>1, <1>2, PTL DEF Spec

\* One step of the process, whatever it is, keeps its variables in agreement
\* with the looks it made; so a verdict, once given, is the rule's.
LEMMA StepKeepsAgreement ==
    ASSUME TypeOK, StateFollowsLooks, Step
    PROVE  StateFollowsLooks'
<1> USE DEF Final, PolicyPhase, PluginPhase, AfterDeny, AfterInfo, AfterCert,
            AfterConfig, AfterProviders, Looks, FileOf, Nil
<1>1. CASE ProvidersStat
  <2>1. ProvidersKnown'
      BY <1>1 DEF StateFollowsLooks, ProvidersStat, See, ProvidersKnown,
         TypeOK, local
  <2>2. VerdictJustified'
      BY <1>1 DEF StateFollowsLooks, ProvidersStat, See, VerdictJustified,
         TypeOK, local, Authorized, Authentic
  <2>3. DenyListKnown' /\ TokenKnown' /\ PluginsKnown' /\ PolicyKnown' /\
        SourceKnown'
      BY <1>1 DEF StateFollowsLooks, ProvidersStat, See, TypeOK, local,
         DenyListKnown, TokenKnown, PluginsKnown, PolicyKnown, SourceKnown,
         DenyListOf, GrantedByPlugin, StoppedByPlugin, PluginsConsulted,
         SomePlugin, SystemRows, HomeRows
  <2> QED
      BY <2>1, <2>2, <2>3 DEF StateFollowsLooks
<1>2. CASE ProvidersRead
  <2>1. ProvidersKnown'
      BY <1>2 DEF StateFollowsLooks, ProvidersRead, See, ProvidersKnown,
         TypeOK, local, CreateVerifierOK
  <2>2. VerdictJustified'
      BY <1>2 DEF StateFollowsLooks, ProvidersRead, See, VerdictJustified,
         TypeOK, local, ProvidersKnown, Authorized, Authentic,
         CreateVerifierOK
  <2>3. DenyListKnown' /\ TokenKnown' /\ PluginsKnown' /\ PolicyKnown' /\
        SourceKnown'
      BY <1>2 DEF StateFollowsLooks, ProvidersRead, See, TypeOK, local,
         DenyListKnown, TokenKnown, PluginsKnown, PolicyKnown, SourceKnown,
         DenyListOf, GrantedByPlugin, StoppedByPlugin, PluginsConsulted,
         SomePlugin, SystemRows, HomeRows
  <2> QED
      BY <2>1, <2>2, <2>3 DEF StateFollowsLooks
<1>3. CASE ConfigRead
  <2>1. DenyListKnown'
      BY <1>3 DEF StateFollowsLooks, ConfigRead, See, DenyListKnown, TypeOK,
         local, DenyListOf
  <2>2. ProvidersKnown' /\ TokenKnown' /\ PluginsKnown' /\ PolicyKnown' /\
        SourceKnown' /\ VerdictJustified'
      BY <1>3 DEF StateFollowsLooks, ConfigRead, See, TypeOK, local,
         ProvidersKnown, TokenKnown, PluginsKnown, PolicyKnown, SourceKnown,
         VerdictJustified, GrantedByPlugin, StoppedByPlugin, PluginsConsulted,
         SomePlugin, SystemRows, HomeRows
  <2> QED
      BY <2>1, <2>2 DEF StateFollowsLooks
<1>4. CASE ConfigStat
  <2>1. DenyListKnown'
      BY <1>4 DEF StateFollowsLooks, ConfigStat, See, DenyListKnown, TypeOK,
         local, DenyListOf
  <2>2. ProvidersKnown' /\ TokenKnown' /\ PluginsKnown' /\ PolicyKnown' /\
        SourceKnown' /\ VerdictJustified'
      BY <1>4 DEF StateFollowsLooks, ConfigStat, See, TypeOK, local,
         ProvidersKnown, TokenKnown, PluginsKnown, PolicyKnown, SourceKnown,
         VerdictJustified, GrantedByPlugin, StoppedByPlugin, PluginsConsulted,
         SomePlugin, SystemRows, HomeRows
  <2> QED
      BY <2>1, <2>2 DEF StateFollowsLooks
<1>5. CASE VerifyCert
  <2>1. TokenKnown'
      BY <1>5 DEF StateFollowsLooks, VerifyCert, Go, TokenKnown, TypeOK, local
  <2>2. VerdictJustified'
      BY <1>5 DEF StateFollowsLooks, VerifyCert, Go, VerdictJustified, TypeOK,
         local, ProvidersKnown, Authorized, Authentic
  <2>3. ProvidersKnown' /\ DenyListKnown' /\ PluginsKnown' /\ PolicyKnown' /\
        SourceKnown'
      BY <1>5 DEF StateFollowsLooks, VerifyCert, Go, TypeOK, local,
         ProvidersKnown, DenyListKnown, PluginsKnown, PolicyKnown,
         SourceKnown, DenyListOf, GrantedByPlugin, StoppedByPlugin,
         PluginsConsulted, SomePlugin, SystemRows, HomeRows
  <2> QED
      BY <2>1, <2>2, <2>3 DEF StateFollowsLooks
<1>6. CASE UserInfoLookup
  <2>1. TokenKnown'
      BY <1>6 DEF StateFollowsLooks, UserInfoLookup, Go, TokenKnown, TypeOK,
         local, UserInfoOf
  <2>2. ProvidersKnown' /\ DenyListKnown' /\ PluginsKnown' /\ PolicyKnown' /\
        SourceKnown' /\ VerdictJustified'
      BY <1>6 DEF StateFollowsLooks, UserInfoLookup, Go, TypeOK, local,
         ProvidersKnown, DenyListKnown, PluginsKnown, PolicyKnown,
         SourceKnown, VerdictJustified, DenyListOf, GrantedByPlugin,
         StoppedByPlugin, PluginsConsulted, SomePlugin, SystemRows, HomeRows
  <2> QED
      BY <2>1, <2>2 DEF StateFollowsLooks
<1>7. CASE EnforceDenyList
  <2>1. TokenKnown'
      BY <1>7 DEF StateFollowsLooks, EnforceDenyList, Go, TokenKnown, TypeOK,
         local
  <2>2. PluginsKnown'
      BY <1>7 DEF StateFollowsLooks, EnforceDenyList, Go, PluginsKnown,
         TypeOK, local, GrantedByPlugin, StoppedByPlugin, PluginsConsulted,
         SomePlugin
  <2>3. VerdictJustified'
      BY <1>7 DEF StateFollowsLooks, EnforceDenyList, Go, VerdictJustified,
         TypeOK, local, DenyListKnown, Authorized, Authentic, OnDenyList
  <2>4. ProvidersKnown' /\ DenyListKnown' /\ PolicyKnown' /\ SourceKnown'
      BY <1>7 DEF StateFollowsLooks, EnforceDenyList, Go, TypeOK, local,
         ProvidersKnown, DenyListKnown, PolicyKnown, SourceKnown, DenyListOf,
         GrantedByPlugin, StoppedByPlugin, PluginsConsulted, SomePlugin,
         SystemRows, HomeRows
  <2> QED
      BY <2>1, <2>2, <2>3, <2>4 DEF StateFollowsLooks
<1>8. CASE PluginsStat
  <2>1. PluginsKnown'
      BY <1>8 DEF StateFollowsLooks, PluginsStat, See, PluginsKnown, TypeOK,
         local, GrantedByPlugin, StoppedByPlugin, PluginsConsulted, SomePlugin
  <2>2. ProvidersKnown' /\ DenyListKnown' /\ TokenKnown' /\ PolicyKnown' /\
        SourceKnown' /\ VerdictJustified'
      BY <1>8 DEF StateFollowsLooks, PluginsStat, See, TypeOK, local,
         ProvidersKnown, DenyListKnown, TokenKnown, PolicyKnown, SourceKnown,
         VerdictJustified, DenyListOf, GrantedByPlugin, StoppedByPlugin,
         PluginsConsulted, SomePlugin, SystemRows, HomeRows
  <2> QED
      BY <2>1, <2>2 DEF StateFollowsLooks
<1>9. CASE PluginsRead
  <2>1. PluginsKnown'
      BY <1>9 DEF StateFollowsLooks, PluginsRead, See, PluginsKnown, TypeOK,
         local, GrantedByPlugin, StoppedByPlugin, PluginsConsulted, SomePlugin
  <2>2. ProvidersKnown' /\ DenyListKnown' /\ TokenKnown' /\ PolicyKnown' /\
        SourceKnown' /\ VerdictJustified'
      BY <1>9 DEF StateFollowsLooks, PluginsRead, See, TypeOK, local,
         ProvidersKnown, DenyListKnown, TokenKnown, PolicyKnown, SourceKnown,
         VerdictJustified, DenyListOf, GrantedByPlugin, StoppedByPlugin,
         PluginsConsulted, SomePlugin, SystemRows, HomeRows
  <2> QED
      BY <2>1, <2>2 DEF StateFollowsLooks
<1>10. CASE RunPlugin
  <2>1. PluginsKnown'
    <3>1. pc = "pluginRun" /\ next <= Len(loaded) /\ next \in 1..(Len(loaded) + 1)
        BY <1>10 DEF RunPlugin, StateFollowsLooks, PluginsKnown
    <3>2. Len(loaded) \in Nat
      <4>1. loaded = view["pluginsRead"].entries
          BY <3>1 DEF StateFollowsLooks, PluginsKnown
      <4>2. view["pluginsRead"] \in AllVersions["plugins"]
          BY DEF TypeOK, Files
      <4> QED
          BY <4>1, <4>2, PluginsAssumption
    <3>3. next' = next + 1 /\ next' \in 1..(Len(loaded) + 1) /\ loaded' = loaded
        BY <1>10, <3>1, <3>2 DEF RunPlugin, TypeOK
    <3>4. \A k : k \in 1..(next' - 1) <=> k \in 1..(next - 1) \/ k = next
        BY <3>1, <3>2, <3>3
    <3>5. pc' = "pluginRun" => \A k \in 1..(next' - 1) : ~Panics(loaded[k])
        BY <1>10, <3>1, <3>4 DEF RunPlugin, Go, StateFollowsLooks, PluginsKnown
    <3>6. allowed' <=> \E k \in 1..(next' - 1) : PluginAllows(loaded[k])
      <4>1. allowed <=> \E k \in 1..(next - 1) : PluginAllows(loaded[k])
          BY <3>1 DEF StateFollowsLooks, PluginsKnown
      <4>2. allowed' <=> allowed \/ PluginAllows(loaded[next])
          BY <1>10 DEF RunPlugin
      <4> QED
          BY <3>4, <4>1, <4>2
    <3> QED
        BY <1>10, <3>1, <3>3, <3>5, <3>6
           DEF RunPlugin, Go, StateFollowsLooks, PluginsKnown
  <2>2. VerdictJustified'
      BY <1>10 DEF StateFollowsLooks, RunPlugin, Go,
         VerdictJustified, TypeOK, local, PluginsKnown, Authorized,
         StoppedByPlugin, PluginsConsulted, SomePlugin
  <2>3. ProvidersKnown' /\ DenyListKnown' /\ TokenKnown' /\ PolicyKnown' /\
        SourceKnown'
      BY <1>10 DEF StateFollowsLooks, RunPlugin, Go, TypeOK, local,
         ProvidersKnown, DenyListKnown, TokenKnown, PolicyKnown, SourceKnown,
         DenyListOf, GrantedByPlugin, StoppedByPlugin, PluginsConsulted,
         SomePlugin, SystemRows, HomeRows
  <2> QED
      BY <2>1, <2>2, <2>3 DEF StateFollowsLooks
<1>11. CASE PluginsDone
  <2>1. PluginsKnown'
      BY <1>11, PluginsAssumption DEF StateFollowsLooks, PluginsDone, Go,
         PluginsKnown, TypeOK, local, GrantedByPlugin, StoppedByPlugin,
         PluginsConsulted, SomePlugin
  <2>2. SourceKnown'
      BY <1>11, PluginsAssumption DEF StateFollowsLooks, PluginsDone, Go,
         SourceKnown, TypeOK, local, PluginsKnown, GrantedByPlugin,
         StoppedByPlugin, PluginsConsulted, SomePlugin
  <2>3. ProvidersKnown' /\ DenyListKnown' /\ TokenKnown' /\ PolicyKnown' /\
        VerdictJustified'
      BY <1>11 DEF StateFollowsLooks, PluginsDone, Go, TypeOK, local,
         ProvidersKnown, DenyListKnown, TokenKnown, PolicyKnown,
         VerdictJustified, DenyListOf, SystemRows, HomeRows
  <2> QED
      BY <2>1, <2>2, <2>3 DEF StateFollowsLooks
<1>12. CASE SystemStat
  <2>1. PolicyKnown'
      BY <1>12 DEF StateFollowsLooks, SystemStat, See, PolicyKnown, TypeOK,
         local, SystemRows
  <2>2. ProvidersKnown' /\ DenyListKnown' /\ TokenKnown' /\ PluginsKnown' /\
        SourceKnown' /\ VerdictJustified'
      BY <1>12 DEF StateFollowsLooks, SystemStat, See, TypeOK, local,
         ProvidersKnown, DenyListKnown, TokenKnown, PluginsKnown, SourceKnown,
         VerdictJustified, DenyListOf, GrantedByPlugin, StoppedByPlugin,
         PluginsConsulted, SomePlugin
  <2> QED
      BY <2>1, <2>2 DEF StateFollowsLooks
<1>13. CASE SystemRead
  <2>1. PolicyKnown'
      BY <1>13 DEF StateFollowsLooks, SystemRead, See, PolicyKnown, TypeOK,
         local, SystemRows
  <2>2. ProvidersKnown' /\ DenyListKnown' /\ TokenKnown' /\ PluginsKnown' /\
        SourceKnown' /\ VerdictJustified'
      BY <1>13 DEF StateFollowsLooks, SystemRead, See, TypeOK, local,
         ProvidersKnown, DenyListKnown, TokenKnown, PluginsKnown, SourceKnown,
         VerdictJustified, DenyListOf, GrantedByPlugin, StoppedByPlugin,
         PluginsConsulted, SomePlugin
  <2> QED
      BY <2>1, <2>2 DEF StateFollowsLooks
<1>14. CASE HomeStat
  <2>1. PolicyKnown'
      BY <1>14 DEF StateFollowsLooks, HomeStat, See, Go, PolicyKnown, TypeOK,
         local, SystemRows, HomeRows
  <2>2. ProvidersKnown' /\ DenyListKnown' /\ TokenKnown' /\ PluginsKnown' /\
        SourceKnown' /\ VerdictJustified'
      BY <1>14 DEF StateFollowsLooks, HomeStat, See, Go, TypeOK, local,
         ProvidersKnown, DenyListKnown, TokenKnown, PluginsKnown, SourceKnown,
         VerdictJustified, DenyListOf, GrantedByPlugin, StoppedByPlugin,
         PluginsConsulted, SomePlugin
  <2> QED
      BY <2>1, <2>2 DEF StateFollowsLooks
<1>15. CASE HomeRead
  <2>1. PolicyKnown'
      BY <1>15 DEF StateFollowsLooks, HomeRead, See, PolicyKnown, TypeOK,
         local, SystemRows, HomeRows, HomePolicy
  <2>2. ProvidersKnown' /\ DenyListKnown' /\ TokenKnown' /\ PluginsKnown' /\
        SourceKnown' /\ VerdictJustified'
      BY <1>15 DEF StateFollowsLooks, HomeRead, See, TypeOK, local,
         ProvidersKnown, DenyListKnown, TokenKnown, PluginsKnown, SourceKnown,
         VerdictJustified, DenyListOf, GrantedByPlugin, StoppedByPlugin,
         PluginsConsulted, SomePlugin
  <2> QED
      BY <2>1, <2>2 DEF StateFollowsLooks
<1>16. CASE HomeSudo
  <2>1. PolicyKnown'
      BY <1>16 DEF StateFollowsLooks, HomeSudo, See, PolicyKnown, TypeOK,
         local, SystemRows, HomeRows, HomePolicy
  <2>2. ProvidersKnown' /\ DenyListKnown' /\ TokenKnown' /\ PluginsKnown' /\
        SourceKnown' /\ VerdictJustified'
      BY <1>16 DEF StateFollowsLooks, HomeSudo, See, TypeOK, local,
         ProvidersKnown, DenyListKnown, TokenKnown, PluginsKnown, SourceKnown,
         VerdictJustified, DenyListOf, GrantedByPlugin, StoppedByPlugin,
         PluginsConsulted, SomePlugin
  <2> QED
      BY <2>1, <2>2 DEF StateFollowsLooks
<1>17. CASE CheckRows
  <2>1. SourceKnown'
      BY <1>17 DEF StateFollowsLooks, CheckRows, Go, SourceKnown, TypeOK,
         local, TokenKnown, PolicyKnown, GrantedByPolicy, UserInfoUsable
  <2>2. VerdictJustified'
      BY <1>17 DEF StateFollowsLooks, CheckRows, Go, VerdictJustified, TypeOK,
         local, TokenKnown, PluginsKnown, PolicyKnown, Authorized,
         GrantedByPolicy, UserInfoUsable
  <2>3. ProvidersKnown' /\ DenyListKnown' /\ TokenKnown' /\ PluginsKnown' /\
        PolicyKnown'
      BY <1>17 DEF StateFollowsLooks, CheckRows, Go, TypeOK, local,
         ProvidersKnown, DenyListKnown, TokenKnown, PluginsKnown, PolicyKnown,
         DenyListOf, GrantedByPlugin, StoppedByPlugin, PluginsConsulted,
         SomePlugin, SystemRows, HomeRows
  <2> QED
      BY <2>1, <2>2, <2>3 DEF StateFollowsLooks
<1>18. CASE CheckPrincipals
  <2>1. VerdictJustified'
      BY <1>18 DEF StateFollowsLooks, CheckPrincipals, Go, VerdictJustified,
         TypeOK, local, ProvidersKnown, DenyListKnown, TokenKnown,
         PluginsKnown, SourceKnown, Authorized, Authentic, OnDenyList
  <2>2. ProvidersKnown' /\ DenyListKnown' /\ TokenKnown' /\ PluginsKnown' /\
        PolicyKnown' /\ SourceKnown'
      BY <1>18 DEF StateFollowsLooks, CheckPrincipals, Go, TypeOK, local,
         ProvidersKnown, DenyListKnown, TokenKnown, PluginsKnown, PolicyKnown,
         SourceKnown, DenyListOf, GrantedByPlugin, StoppedByPlugin,
         PluginsConsulted, SomePlugin, SystemRows, HomeRows
  <2> QED
      BY <2>1, <2>2 DEF StateFollowsLooks
<1> QED
    BY <1>1, <1>2, <1>3, <1>4, <1>5, <1>6, <1>7, <1>8, <1>9, <1>10, <1>11,
       <1>12, <1>13, <1>14, <1>15, <1>16, <1>17, <1>18 DEF Step

\* The administrator's edits do not disturb what the process has seen.
LEMMA EditKeepsAgreement ==
    ASSUME StateFollowsLooks, UNCHANGED <<req, pc, local, view>>
    PROVE  StateFollowsLooks'
<1> USE DEF Final, PolicyPhase, PluginPhase, AfterDeny, AfterInfo, AfterCert,
            AfterConfig, AfterProviders
<1>1. ProvidersKnown' /\ DenyListKnown' /\ TokenKnown'
    BY DEF StateFollowsLooks, local, ProvidersKnown, DenyListKnown, TokenKnown
<1>2. PluginsKnown'
    BY DEF StateFollowsLooks, local, PluginsKnown
<1>3. PolicyKnown'
    BY DEF StateFollowsLooks, local, PolicyKnown
<1>4. SourceKnown' /\ VerdictJustified'
    BY DEF StateFollowsLooks, local, SourceKnown, VerdictJustified
<1> QED
    BY <1>1, <1>2, <1>3, <1>4 DEF StateFollowsLooks

\* The inductive invariant: at every label, what verify.go and enforcer.go
\* hold in their variables is what the rule says about the looks made so far.
THEOREM AgreementInvariant == Spec => []StateFollowsLooks
<1>1. Init => StateFollowsLooks
    BY DEF Init, StateFollowsLooks, ProvidersKnown, DenyListKnown, TokenKnown,
       PluginsKnown, PolicyKnown, SourceKnown, VerdictJustified, Final,
       PolicyPhase, PluginPhase, AfterDeny, AfterInfo, AfterCert, AfterConfig,
       AfterProviders
<1>2. TypeOK /\ StateFollowsLooks /\ [Next]_vars => StateFollowsLooks'
  <2> SUFFICES ASSUME TypeOK, StateFollowsLooks, [Next]_vars
               PROVE  StateFollowsLooks'
      OBVIOUS
  <2>1. CASE Edit
      BY <2>1, EditKeepsAgreement DEF Edit
  <2>2. CASE Start
      BY <2>2 DEF Start, Go, local, StateFollowsLooks, ProvidersKnown,
         DenyListKnown, TokenKnown, PluginsKnown, PolicyKnown, SourceKnown,
         VerdictJustified, Final, PolicyPhase, PluginPhase, AfterDeny,
         AfterInfo, AfterCert, AfterConfig, AfterProviders
  <2>3. CASE Step
      BY <2>3, StepKeepsAgreement
  <2>4. CASE UNCHANGED vars
      BY <2>4, EditKeepsAgreement DEF vars
  <2> QED
      BY <2>1, <2>2, <2>3, <2>4 DEF Next, Over
<1> QED
    BY <1>1, <1>2, TypeCorrect, PTL DEF Spec

\* Whatever the files hold and however they are edited meanwhile, a finished
\* AuthorizedKeysCommand printed a key exactly when the access rule, applied
\* to what it saw, authorizes the request.
THEOREM VerdictIsJustified == Spec => []VerdictJustified
BY AgreementInvariant, PTL DEF StateFollowsLooks

\* Deny lists beat every other policy, also while the administrator edits the
\* files: a request denied by config.yml throughout is never let in.
THEOREM DenyListIsEnforced == Spec => []DenyListEnforced
<1>1. TypeOK /\ StateFollowsLooks => DenyListEnforced
  <2> SUFFICES ASSUME TypeOK, StateFollowsLooks, pc = "granted",
                      \A c \in seen["config"] : Denies(c)
               PROVE  FALSE
      BY DEF DenyListEnforced
  <2>1. view["configRead"] \in seen["config"] /\ view["configStat"] \in seen["config"]
      BY DEF TypeOK, Looks, FileOf
  <2>2. Denied(DenyListOf(view["configRead"], view["configStat"]),
               req.cert.claims, req.user.name)
      BY <2>1 DEF Denies, DenyListOf
  <2>3. ~OnDenyList(view, req)
      BY DEF StateFollowsLooks, VerdictJustified, Final, Authorized
  <2> QED
      BY <2>2, <2>3 DEF OnDenyList
<1> QED
    BY <1>1, TypeCorrect, AgreementInvariant, PTL

\* Every grant has a source that was in place while the process ran.
THEOREM GrantsHaveSources == Spec => []GrantHasSource
<1>1. TypeOK /\ StateFollowsLooks => GrantHasSource
  <2> SUFFICES ASSUME TypeOK, StateFollowsLooks, pc = "granted"
               PROVE  \/ \E dir \in seen["plugins"] :
                            PluginsLoad(dir) /\ \E i \in 1..Len(dir.entries) :
                                                    PluginAllows(dir.entries[i])
                      \/ \E file \in seen["system"] \cup seen["home"] : NamesUser(file)
      BY DEF GrantHasSource
  <2>1. GrantedByPlugin(view, req) \/ GrantedByPolicy(view, req, Sudo)
      BY DEF StateFollowsLooks, VerdictJustified, Final, Authorized
  <2>2. CASE GrantedByPlugin(view, req)
    <3>1. view["pluginsRead"] \in seen["plugins"]
        BY DEF TypeOK, Looks, FileOf
    <3> QED
        BY <2>2, <3>1 DEF GrantedByPlugin, PluginsConsulted, SomePlugin
  <2>3. CASE GrantedByPolicy(view, req, Sudo)
    <3>1. /\ view["systemRead"] \in seen["system"]
          /\ view["homeRead"] \in seen["home"] /\ view["homeSudo"] \in seen["home"]
        BY DEF TypeOK, Looks, FileOf
    <3>2. PICK row \in SystemRows(view) \cup HomeRows(view, req, Sudo) :
              RowGrants(row, req.cert, UserInfoOf(req.cert), req.user.name)
        BY <2>3 DEF GrantedByPolicy
    <3>3. \/ row \in PolicyFromTable(view["systemRead"].lines)
          \/ row \in PolicyFromTable(view["homeRead"].lines)
          \/ row \in PolicyFromTable(view["homeSudo"].lines)
        BY <3>2 DEF SystemRows, HomeRows, ForUser
    <3> QED
        BY <3>1, <3>2, <3>3 DEF NamesUser
  <2> QED
      BY <2>1, <2>2, <2>3
<1> QED
    BY <1>1, TypeCorrect, AgreementInvariant, PTL

\* A standing grant is honoured: edits that keep accepting the token, deny
\* nobody involved and keep the granting line cannot make a request fail.
THEOREM StandingGrantsAreHonoured == Spec => []StandingGrantHonoured
<1>1. TypeOK /\ StateFollowsLooks => StandingGrantHonoured
  <2> SUFFICES ASSUME TypeOK, StateFollowsLooks, pc \in {"refused", "crashed"},
                      StandingGrant
               PROVE  FALSE
      BY DEF StandingGrantHonoured
  <2>1. \A look \in Looks : view[look] \in seen[FileOf(look)]
      BY DEF TypeOK
  <2>2. Authentic(view, req)
      BY <2>1 DEF StandingGrant, Authentic, Looks, FileOf
  <2>3. ~OnDenyList(view, req)
    <3>1. view["configRead"] \in seen["config"]
        BY <2>1 DEF Looks, FileOf
    <3>2. ~Denied(view["configRead"].denyList, req.cert.claims, req.user.name)
        BY <3>1 DEF StandingGrant
    <3>3. ~Denied(NoDenyList, req.cert.claims, req.user.name)
        BY DEF Denied, NoDenyList
    <3> QED
        BY <3>2, <3>3 DEF OnDenyList, DenyListOf
  <2>4. ~StoppedByPlugin(view, req)
    <3>1. view["pluginsRead"] \in seen["plugins"]
        BY <2>1 DEF Looks, FileOf
    <3> QED
        BY <3>1 DEF StandingGrant, StoppedByPlugin, SomePlugin
  <2>5. GrantedByPolicy(view, req, Sudo)
    <3>1. view["systemStat"] \in seen["system"] /\ view["systemRead"] \in seen["system"]
        BY <2>1 DEF Looks, FileOf
    <3>2. SystemRows(view) = PolicyFromTable(view["systemRead"].lines)
        BY <3>1 DEF StandingGrant, SystemRows
    <3>3. NamesUser(view["systemRead"])
        BY <3>1 DEF StandingGrant
    <3> QED
        BY <3>2, <3>3 DEF StandingGrant, NamesUser, GrantedByPolicy
  <2>6. Authorized(view, req, Sudo)
      BY <2>2, <2>3, <2>4, <2>5 DEF Authorized, StandingGrant
  <2> QED
      BY <2>6 DEF StateFollowsLooks, VerdictJustified, Final
<1> QED
    BY <1>1, TypeCorrect, AgreementInvariant, PTL

-----------------------------------------------------------------------------
(***************************************************************************)
(* Verify implements PolicyDecision.                                       *)
(***************************************************************************)

\* Until sshd starts the process nothing has been looked at.
Unstarted == pc = "start" => view = ViewOf(world)

\* Before the process starts it has looked at nothing.
LEMMA UnstartedInvariant == Spec => []Unstarted
<1>1. Init => Unstarted
    BY DEF Init, Unstarted
<1>2. Unstarted /\ [Next]_vars => Unstarted'
  <2> SUFFICES ASSUME Unstarted, [Next]_vars PROVE Unstarted'
      OBVIOUS
  <2>1. CASE Edit
      BY <2>1 DEF Edit, Unstarted
  <2>2. CASE Start \/ Step
    <3>1. pc' # "start"
        BY <2>2 DEF Start, Step, See, Go, ProvidersStat, ProvidersRead, ConfigRead,
           ConfigStat, VerifyCert, UserInfoLookup, EnforceDenyList, PluginsStat,
           PluginsRead, RunPlugin, PluginsDone, SystemStat, SystemRead, HomeStat,
           HomeRead, HomeSudo, CheckRows, CheckPrincipals
    <3> QED
        BY <3>1 DEF Unstarted
  <2>3. CASE UNCHANGED vars
      BY <2>3 DEF vars, Unstarted
  <2> QED
      BY <2>1, <2>2, <2>3 DEF Next, Over
<1> QED
    BY <1>1, <1>2, PTL DEF Spec

\* Every step of the process after the start is a look at one file, or none,
\* by a process that has not decided yet.
LEMMA StepIsALook ==
    ASSUME TypeOK, Step
    PROVE  /\ Verdict = "pending"
           /\ pc' \in Labels \ {"start"}
           /\ \/ UNCHANGED view
              \/ \E look \in Looks : view' = [view EXCEPT ![look] = world[FileOf(look)]]
           /\ UNCHANGED <<world, req>>
<1> USE DEF Verdict, Labels, Final, See, Go, Looks
<1>1. CASE ProvidersStat \/ ProvidersRead \/ ConfigRead \/ ConfigStat
    BY <1>1 DEF ProvidersStat, ProvidersRead, ConfigRead, ConfigStat
<1>2. CASE VerifyCert \/ UserInfoLookup \/ EnforceDenyList
    BY <1>2 DEF VerifyCert, UserInfoLookup, EnforceDenyList
<1>3. CASE PluginsStat \/ PluginsRead \/ RunPlugin \/ PluginsDone
    BY <1>3 DEF PluginsStat, PluginsRead, RunPlugin, PluginsDone
<1>4. CASE SystemStat \/ SystemRead \/ HomeStat \/ HomeRead \/ HomeSudo
    BY <1>4 DEF SystemStat, SystemRead, HomeStat, HomeRead, HomeSudo
<1>5. CASE CheckRows \/ CheckPrincipals
    BY <1>5 DEF CheckRows, CheckPrincipals
<1> QED
    BY <1>1, <1>2, <1>3, <1>4, <1>5 DEF Step

\* opkssh verify implements the abstract specification: each of its steps is
\* a look, the decision or a stutter of PolicyDecision.
THEOREM Implements == Spec => DecidesByTheRule
<1>1. Init => PD!Init
    BY DEF Init, PD!Init, Starts, ViewOf, PD!ViewOf, Verdict
<1>2. TypeOK /\ Unstarted /\ StateFollowsLooks' /\ [Next]_vars => [PD!Next]_(PD!vars)
  <2> SUFFICES ASSUME TypeOK, Unstarted, StateFollowsLooks', [Next]_vars
               PROVE  PD!Next \/ UNCHANGED PD!vars
      OBVIOUS
  <2>1. CASE Edit
    <3>1. PD!Edit
        BY <2>1 DEF Edit, PD!Edit, Verdict
    <3> QED
        BY <3>1 DEF PD!Next
  <2>2. CASE Start
    <3>1. PD!Begin
        BY <2>2 DEF Start, Go, Unstarted, PD!Begin, ViewOf, PD!ViewOf, Verdict
    <3> QED
        BY <3>1 DEF PD!Next
  <2>3. CASE Step
    <3>1. CASE pc' \in Final
      <4>1. Verdict' = IF Authorized(view', req, Sudo) THEN "granted" ELSE "refused"
          BY <2>3, <3>1, StepIsALook DEF StateFollowsLooks, VerdictJustified, Final, Verdict
      <4>2. PD!Decide
          BY <2>3, <4>1, StepIsALook DEF PD!Decide, PD!MayLook
      <4> QED
          BY <4>2 DEF PD!Next
    <3>2. CASE pc' \notin Final
      <4>1. Verdict' = "pending"
          BY <2>3, <3>2, StepIsALook DEF Final, Verdict
      <4>2. PD!Look
          BY <2>3, <4>1, StepIsALook DEF PD!Look, PD!MayLook
      <4> QED
          BY <4>2 DEF PD!Next
    <3> QED
        BY <3>1, <3>2
  <2>4. CASE UNCHANGED vars
      BY <2>4 DEF vars, PD!vars, Verdict
  <2> QED
      BY <2>1, <2>2, <2>3, <2>4 DEF Next, Over
<1> QED
    BY <1>1, <1>2, TypeCorrect, UnstartedInvariant, AgreementInvariant, PTL
       DEF Spec, DecidesByTheRule, PD!Spec
=============================================================================
