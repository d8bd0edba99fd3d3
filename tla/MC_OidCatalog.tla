--------------------------- MODULE MC_OidCatalog ----------------------------
(***************************************************************************)
(* Instances of OidCatalog for TLC.  The counter is bounded to a few OIDs  *)
(* above the first.  A scene narrows what DDL may create and who may scan: *)
(* in one of them two scans compete over the objects of one catalog, in    *)
(* the other one scanner meets two catalogs.                               *)
(***************************************************************************)
EXTENDS OidCatalog

CONSTANT OneScanner  \* the scanner of the second scene

VARIABLE scene

Room2 == FirstOid + 2
Room4 == FirstOid + 4

Scenes ==
  {[catalogs |-> {MainCatalog}, tables |-> Tables, scanners |-> Scanners],
   [catalogs |-> Catalogs, tables |-> {}, scanners |-> {OneScanner}]}

\* The next step stays within the scene.
InScene ==
  /\ catalogs' \subseteq scene.catalogs
  /\ \A c \in Catalogs, s \in Schemas, t \in Tables : <<c, s, t>> \in tables' => t \in scene.tables
  /\ \A b \in Scanners :
       want[b] = "none" /\ want'[b] # "none" => b \in scene.scanners

SceneInit == Init /\ scene \in Scenes
SceneNext == Next /\ InScene /\ UNCHANGED scene

\* InScene only keeps DDL and requests out, so what is fair is as in FairSpec.
SceneSpec ==
  /\ SceneInit /\ [][SceneNext]_<<vars, scene>>
  /\ WF_vars(Walk \/ Finish)
  /\ \A b \in Scanners : SF_vars(Acquire(b))
=============================================================================
