------------------------------ MODULE Services ------------------------------
(***************************************************************************)
(* What PiNOC's process runs beside the modules with runs of their own,    *)
(* each with its thread and its operators: the registries of the           *)
(* environment model, the collection and the checks of a device, the       *)
(* network matrix, the baselines, the connections to the database, the     *)
(* backups, the notifier, the reports, the samples of attainment and the   *)
(* alerts about PiNOC itself.                                              *)
(* They share the database and nothing of what is modelled here, so a      *)
(* behaviour is about one of them, and the others rest where they began.   *)
(***************************************************************************)
EXTENDS Applications, Inventories, Registry, Collection, Bundles, Notifier, ReportRuns,
        Attainment, Overseers, Pool, Baselines, Links, DeviceChecks

VARIABLE subject  (* the service the behaviour is about                      *)

vars == <<subject, applicationVars, inventoryVars, registryVars, collectionVars, bundleVars,
          notifierVars, reportVars, attainmentVars, overseerVars, poolVars, baselineVars,
          linkVars, checkVars>>

Services == {"applications", "inventories", "registry", "collection", "bundles", "notifier",
             "reports", "attainment", "overseers", "pool", "baselines", "links", "checks"}

(* Where a service that the behaviour is not about rests.                  *)
OthersRest ==
    /\ subject # "inventories" => kind = "venv" /\ truth = CHOOSE f \in Facts : TRUE
    /\ subject # "registry" => registry = "project"
    /\ subject # "collection" => listed = "configured"
    /\ subject # "pool" => schema[1].version = 0
    /\ subject # "baselines" => /\ level = CHOOSE l \in Levels : TRUE
                                /\ mode = [hourly |-> TRUE, alerting |-> TRUE]
    /\ subject # "links" => topology = Parsed(CHOOSE l \in Layouts : TRUE)
    /\ subject # "checks" => expects = CHOOSE c \in Contents : TRUE

Init == /\ subject \in Services
        /\ ApplicationsInit /\ InventoriesInit /\ RegistryInit /\ CollectionInit /\ BundlesInit
        /\ NotifierInit /\ ReportsInit /\ AttainmentInit /\ OverseersInit /\ PoolInit
        /\ BaselinesInit /\ LinksInit /\ ChecksInit
        /\ OthersRest

Step == \/ subject = "applications" /\ ApplicationsNext
        \/ subject = "inventories" /\ InventoriesNext
        \/ subject = "registry" /\ RegistryNext
        \/ subject = "collection" /\ CollectionNext
        \/ subject = "bundles" /\ BundlesNext
        \/ subject = "notifier" /\ NotifierNext
        \/ subject = "reports" /\ ReportsNext
        \/ subject = "attainment" /\ AttainmentNext
        \/ subject = "overseers" /\ OverseersNext
        \/ subject = "pool" /\ PoolNext
        \/ subject = "baselines" /\ BaselinesNext
        \/ subject = "links" /\ LinksNext
        \/ subject = "checks" /\ ChecksNext

Next == /\ UNCHANGED subject
        /\ Step
        /\ subject # "applications" => UNCHANGED applicationVars
        /\ subject # "inventories" => UNCHANGED inventoryVars
        /\ subject # "registry" => UNCHANGED registryVars
        /\ subject # "collection" => UNCHANGED collectionVars
        /\ subject # "bundles" => UNCHANGED bundleVars
        /\ subject # "notifier" => UNCHANGED notifierVars
        /\ subject # "reports" => UNCHANGED reportVars
        /\ subject # "attainment" => UNCHANGED attainmentVars
        /\ subject # "overseers" => UNCHANGED overseerVars
        /\ subject # "pool" => UNCHANGED poolVars
        /\ subject # "baselines" => UNCHANGED baselineVars
        /\ subject # "links" => UNCHANGED linkVars
        /\ subject # "checks" => UNCHANGED checkVars

(* The threads of the services run on; a service's fairness is its own.    *)
Fairness == /\ WF_inventoryVars(subject = "inventories" /\ RefreshStep)
            /\ WF_collectionVars(subject = "collection" /\ FleetStep)
            /\ WF_collectionVars(subject = "collection" /\ Wakes)
            /\ \A o \in Overseers : WF_overseerVars(subject = "overseers" /\ TickStep(o))
            /\ WF_baselineVars(subject = "baselines" /\ ObservesSample)
            /\ WF_linkVars(subject = "links" /\ CollectorStep)
            /\ WF_checkVars(subject = "checks" /\ LooksAt)
            /\ SF_checkVars(subject = "checks" /\ Reports)
            /\ WF_checkVars(subject = "checks" /\ CheckFallsDue)
            /\ WF_checkVars(subject = "checks" /\ ChangeLasts)
            /\ WF_checkVars(subject = "checks" /\ Captures)

Spec == Init /\ [][Next]_vars /\ Fairness

TypeOK == /\ ApplicationsTypeOK /\ InventoriesTypeOK /\ RegistryTypeOK /\ CollectionTypeOK
          /\ BundlesTypeOK /\ NotifierTypeOK /\ ReportsTypeOK /\ AttainmentTypeOK
          /\ OverseersTypeOK /\ PoolTypeOK /\ BaselinesTypeOK /\ LinksTypeOK /\ ChecksTypeOK
=============================================================================
