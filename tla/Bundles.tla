------------------------------ MODULE Bundles -------------------------------
(***************************************************************************)
(* pinoc/backup.py and the saving of the configuration in config_store.py. *)
(* The backup thread reads the files of the instance one by one, delivers  *)
(* a bundle, whose file grows in place, and rotates old ones out; request  *)
(* threads save the configuration meanwhile, and the restore command, a    *)
(* process of its own, writes a bundle back file by file.  A process ends  *)
(* at any point, a command or a write fails at any point.  A bundle is     *)
(* named by the second it is made in; two of one name are left out.        *)
(***************************************************************************)
EXTENDS Naturals, FiniteSets

CONSTANTS Keep,        (* bundles that rotation leaves                       *)
          MaxBundles,  (* bound: runs of the backup                          *)
          MaxSaves     (* bound: saves of the configuration                  *)

ASSUME BundlesAssumption == Keep \in Nat \ {0} /\ MaxBundles \in Nat /\ MaxSaves \in Nat

VARIABLES file,      (* version of each file of the instance, 0 is torn      *)
          older,     (* config.json.bak.1 and on, newest first               *)
          saver,     (* the thread in _atomic_write()                        *)
          saves,
          store,     (* bundles at the destination                           *)
          backup,    (* the backup thread                                    *)
          made,      (* runs of the backup so far                            *)
          kept,      (* ghost: a delivery has succeeded                      *)
          restore,   (* the restore command                                  *)
          wal,       (* pinoc.db-wal: whose frames it holds                  *)
          mixed      (* ghost: a database was opened beside another's log    *)

bundleVars == <<file, older, saver, saves, store, backup, made, kept, restore, wal, mixed>>

Torn      == 0
Members   == {"config", "devices", "database"}
Backups   == 3
Unread    == [m \in Members |-> Torn]
NoBackup  == [at |-> "idle", read |-> Unread, todo |-> {}]
NoRestore == [at |-> "idle", from |-> Unread, todo |-> {}]

BundlesInit ==
    /\ file = [m \in Members |-> 1] /\ older = [n \in 1..Backups |-> Torn]
    /\ saver = "idle" /\ saves = 0
    /\ store = {} /\ backup = NoBackup /\ made = 0 /\ kept = FALSE /\ restore = NoRestore
    /\ wal = "none" /\ mixed = FALSE

saving    == <<older, saver, saves>>
backingUp == <<store, backup, made, kept>>
restoring == <<restore, wal, mixed>>

-----------------------------------------------------------------------------
(* _atomic_write(): the old versions move up, the current one is copied,   *)
(* then the new file takes its place; a save that fails or ends between    *)
(* has moved them nonetheless.                                             *)
SaveBegins == /\ saver = "idle" /\ saves < MaxSaves /\ saves' = saves + 1
              /\ older' = [n \in 1..Backups |-> IF n = 1 THEN Torn ELSE older[n - 1]]
              /\ saver' = "moved"
              /\ UNCHANGED <<file, backingUp, restoring>>

SaveCopies == /\ saver = "moved" /\ saver' = "copied"
              /\ older' = [older EXCEPT ![1] = file["config"]]
              /\ UNCHANGED <<file, saves, backingUp, restoring>>

(* A file beside the configuration is written and synced.                  *)
SaveWrites == /\ saver = "copied" /\ saver' = "written"
              /\ UNCHANGED <<file, older, saves, backingUp, restoring>>

SaveReplaces == /\ saver = "written" /\ saver' = "idle"
                /\ file' = [file EXCEPT !["config"] = saves + 1]
                /\ UNCHANGED <<older, saves, backingUp, restoring>>

SaveFails == /\ saver # "idle" /\ saver' = "idle"
             /\ UNCHANGED <<file, older, saves, backingUp, restoring>>

-----------------------------------------------------------------------------
(* run_backup(): build_bundle() reads each file; the database is copied    *)
(* while it is in use, page by page, whatever they hold; a configuration   *)
(* that does not parse ends the run.                                       *)
BackupBegins == /\ backup.at = "idle" /\ made < MaxBundles
                /\ made' = made + 1
                /\ backup' = [at |-> "reading", read |-> Unread, todo |-> Members]
                /\ UNCHANGED <<file, saving, store, kept, restoring>>

Reads(m) == /\ backup.at = "reading" /\ m \in backup.todo
            /\ m = "config" => file[m] # Torn
            /\ backup' = [backup EXCEPT !.todo = @ \ {m}, !.read[m] = file[m]]
            /\ UNCHANGED <<file, saving, store, made, kept, restoring>>

This == [n |-> made, whole |-> TRUE, parts |-> backup.read]
Part == [n |-> made, whole |-> FALSE, parts |-> Unread]

(* _deliver(): copy2() or scp fills a file that is there from the start.   *)
DeliveryBegins == /\ backup.at = "reading" /\ backup.todo = {}
                  /\ store' = store \cup {Part}
                  /\ backup' = [backup EXCEPT !.at = "delivering"]
                  /\ UNCHANGED <<file, saving, made, kept, restoring>>

DeliveryEnds == /\ backup.at = "delivering"
                /\ store' = (store \ {Part}) \cup {This}
                /\ backup' = [backup EXCEPT !.at = "delivered"]
                /\ kept' = TRUE
                /\ UNCHANGED <<file, saving, made, restoring>>

(* Mutation of Survivors: the newest by the clock, whatever was delivered. *)
SurvivorsByTime == {s \in SUBSET store : Cardinality(s) = Keep}
(* _rotate(): the bundle just delivered, then the newest others by the     *)
(* times of the files.  The clock of a Pi may step, so these tell nothing. *)
Survivors == {s \in SUBSET store : This \in s /\ Cardinality(s) = Keep}

(* A bundle that cannot be removed, or listed, stays and is logged.        *)
Rotates == /\ backup.at = "delivered"
           /\ store' \in IF Cardinality(store) > Keep
                         THEN {s \in SUBSET store : \E left \in Survivors : left \subseteq s}
                         ELSE {store}
           /\ backup' = NoBackup
           /\ UNCHANGED <<file, saving, made, kept, restoring>>

(* An exception, which run_backup() reports, or the end of the process.    *)
BackupFails == /\ backup.at \in {"reading", "delivering"} /\ backup' = NoBackup
               /\ UNCHANGED <<file, saving, store, made, kept, restoring>>

ProcessEnds == /\ backup' = NoBackup /\ saver' = "idle"
               /\ UNCHANGED <<file, older, saves, store, made, kept, restoring>>

-----------------------------------------------------------------------------
(* restore_bundle(): verify_bundle() turns a torn bundle down; the files   *)
(* are then replaced one after another, each at once.  Before and after it *)
(* the restore is recorded in the database; that opens it, as others do.   *)
Verified(b) == b.whole

RestoreBegins(b) == /\ restore.at = "idle" /\ Verified(b)
                    /\ restore' = [at |-> "writing", from |-> b.parts, todo |-> Members]
                    /\ UNCHANGED <<file, saving, backingUp, wal, mixed>>

(* The log of the database that was is left beside the new one.            *)
RestoreWrites(m) == /\ restore.at = "writing" /\ m \in restore.todo
                    /\ m = "database" => restore.todo = {m}
                    /\ m = "devices" => "config" \notin restore.todo
                    /\ file' = [file EXCEPT ![m] = restore.from[m]]
                    /\ restore' = [restore EXCEPT !.todo = @ \ {m},
                                      !.at = IF m = "database" THEN "replaced" ELSE @]
                    /\ wal' = IF m = "database" /\ wal # "none" THEN "former" ELSE wal
                    /\ UNCHANGED <<saving, backingUp, mixed>>

Mixes == file' = [file EXCEPT !["database"] = Torn] /\ mixed' = TRUE

(* The log is removed, if it can be; one that a program has opened by then *)
(* is taken from under it, which is counted with the mixing of the two.    *)
RestoreUnlinks == /\ restore.at = "replaced" /\ restore' = NoRestore
                  /\ \/ wal' = "none" /\ IF wal = "own" THEN Mixes ELSE UNCHANGED <<file, mixed>>
                     \/ UNCHANGED <<file, wal, mixed>>
                  /\ UNCHANGED <<saving, backingUp>>

(* The command fails, or is cut off.                                       *)
RestoreEnds == /\ restore.at # "idle" /\ restore' = NoRestore
               /\ UNCHANGED <<file, saving, backingUp, wal, mixed>>

(* A program opens the database, among them the service when it meets the  *)
(* new inode: the frames of the log that it finds become part of it.       *)
DatabaseOpens == /\ wal # "own" /\ wal' = "own"
                 /\ IF wal = "former" THEN Mixes ELSE UNCHANGED <<file, mixed>>
                 /\ UNCHANGED <<saving, backingUp, restore>>

(* The last connection is closed: what the log holds is in the database.   *)
DatabaseCloses == /\ wal = "own" /\ wal' = "none"
                  /\ UNCHANGED <<file, saving, backingUp, restore, mixed>>

BundlesNext == \/ SaveBegins \/ SaveCopies \/ SaveWrites \/ SaveReplaces \/ SaveFails
               \/ BackupBegins \/ DeliveryBegins \/ DeliveryEnds \/ Rotates
               \/ BackupFails \/ ProcessEnds
               \/ \E m \in Members : Reads(m) \/ RestoreWrites(m)
               \/ \E b \in store : RestoreBegins(b)
               \/ RestoreUnlinks \/ RestoreEnds \/ DatabaseOpens \/ DatabaseCloses

BundlesTypeOK ==
    /\ \A m \in Members : file[m] \in 0..MaxSaves + 1
    /\ \A n \in 1..Backups : older[n] \in 0..MaxSaves + 1
    /\ saver \in {"idle", "moved", "copied", "written"}
    /\ backup.at \in {"idle", "reading", "delivering", "delivered"}
    /\ restore.at \in {"idle", "writing", "replaced"}
    /\ \A b \in store : b.n \in 1..made
    /\ wal \in {"none", "own", "former"} /\ mixed \in BOOLEAN

(* Once a bundle was delivered the destination always holds one that can   *)
(* be restored, however many later runs fail or are cut off in the middle  *)
(* of the copy and whatever the clock says of their age; and nothing torn  *)
(* comes out of a bundle: what the instance would be started from is whole *)
(* at every moment of a save or of a restore.  Both but for a database     *)
(* that was opened after the restore had replaced it and before the log of *)
(* the former one was removed: the next bundles hold it as it is, and      *)
(* still count as whole.                                                   *)
RestorableBundle ==
    /\ kept => \E b \in store : /\ Verified(b)
                               /\ \A m \in Members : b.parts[m] = Torn => mixed /\ m = "database"
    /\ \A m \in Members : file[m] = Torn => mixed /\ m = "database"
=============================================================================
