--------------------------- MODULE ServicesProofs ---------------------------
(***************************************************************************)
(* Proofs about Services, for all values of the constants: whatever the    *)
(* behaviour is about, each service does its own steps or none, so what is *)
(* invariant of one of them is invariant of the composition.  A section    *)
(* per service: the database, the backups, the notifier, the applications, *)
(* the registries, the inventories, the reports, the samples, and then the *)
(* types of what every one of them holds.                                  *)
(***************************************************************************)
EXTENDS Services, SequenceTheorems, FiniteSetTheorems, TLAPS

(* Each of the services acts by itself or rests.                           *)
LEMMA Apart ==
  ASSUME [Next]_vars
  PROVE  /\ [ApplicationsNext]_applicationVars /\ [InventoriesNext]_inventoryVars
         /\ [RegistryNext]_registryVars /\ [CollectionNext]_collectionVars
         /\ [BundlesNext]_bundleVars /\ [NotifierNext]_notifierVars
         /\ [ReportsNext]_reportVars /\ [AttainmentNext]_attainmentVars
         /\ [OverseersNext]_overseerVars /\ [PoolNext]_poolVars
         /\ [BaselinesNext]_baselineVars /\ [LinksNext]_linkVars
         /\ [ChecksNext]_checkVars
<1>1. CASE Next
  <2>1. [ApplicationsNext]_applicationVars
    BY <1>1 DEF Next, Step
  <2>2. [InventoriesNext]_inventoryVars
    BY <1>1 DEF Next, Step
  <2>3. [RegistryNext]_registryVars
    BY <1>1 DEF Next, Step
  <2>4. [CollectionNext]_collectionVars
    BY <1>1 DEF Next, Step
  <2>5. [BundlesNext]_bundleVars
    BY <1>1 DEF Next, Step
  <2>6. [NotifierNext]_notifierVars
    BY <1>1 DEF Next, Step
  <2>7. [ReportsNext]_reportVars
    BY <1>1 DEF Next, Step
  <2>8. [AttainmentNext]_attainmentVars
    BY <1>1 DEF Next, Step
  <2>9. [OverseersNext]_overseerVars
    BY <1>1 DEF Next, Step
  <2>10. [PoolNext]_poolVars
    BY <1>1 DEF Next, Step
  <2>11. [BaselinesNext]_baselineVars
    BY <1>1 DEF Next, Step
  <2>12. [LinksNext]_linkVars
    BY <1>1 DEF Next, Step
  <2>13. [ChecksNext]_checkVars
    BY <1>1 DEF Next, Step
  <2>14. QED BY <2>1, <2>2, <2>3, <2>4, <2>5, <2>6, <2>7, <2>8,
                <2>9, <2>10, <2>11, <2>12, <2>13
<1>2. CASE UNCHANGED vars
  BY <1>2 DEF vars
<1>3. QED BY <1>1, <1>2

(* A set of natural numbers has a least element.                           *)
LEMMA LeastOf == ASSUME NEW S, S \subseteq Nat, S # {} PROVE \E x \in S : \A y \in S : x <= y
<1>1. \E x \in S : \A y \in S : ~(<<y, x>> \in OpToRel(<, Nat))
  BY NatLessThanWellFounded, WFMin, Zenon
<1>2. \A x, y : x \in Nat /\ y \in Nat /\ x < y => <<x, y>> \in OpToRel(<, Nat)
  <2> SUFFICES ASSUME NEW x \in Nat, NEW y \in Nat, x < y PROVE <<x, y>> \in OpToRel(<, Nat)
    OBVIOUS
  <2>1. <<x, y>> \in Nat \X Nat /\ <<x, y>>[1] = x /\ <<x, y>>[2] = y
    OBVIOUS
  <2>2. QED BY <2>1, Zenon DEF OpToRel
<1> DEFINE R == OpToRel(<, Nat)
<1> HIDE DEF R
<1>3. PICK x \in S : \A y \in S : ~(<<y, x>> \in R)
  BY <1>1 DEF R
<1>4. \A y \in S : ~(y < x)
  BY <1>2, <1>3 DEF R
<1>5. QED BY <1>4

-----------------------------------------------------------------------------
(* The connections and the migrations of the database.                     *)
(* A file holds the tables of the version it claims; the version may lag   *)
(* behind the tables, when a second program counts from an older one.      *)
VersionBacked == \A f \in Files : 1..schema[f].version \subseteq schema[f].ran

(* Whoever runs a statement does so on a file; a migration has the tables  *)
(* up to the version it counts.                                            *)
HasFile == \A p \in Programs :
    /\ cached[p].ino # NoFile => cached[p].file # NoFile
    /\ thread[p].at \in {"connected", "running", "migrating"} => cached[p].file # NoFile
CountsTables == \A p \in Programs :
    thread[p].at = "migrating" => 1..thread[p].version \subseteq schema[cached[p].file].ran

(* The inductive invariant behind the theorems.                            *)
PoolInv == PoolTypeOK /\ VersionBacked /\ HasFile /\ CountsTables /\ SchemaComplete

-----------------------------------------------------------------------------
USE PoolAssumption DEF Files, NoFile, NoConnection, NotCalling

LEMMA PoolInitInv == PoolInit => PoolInv
<1> SUFFICES ASSUME PoolInit PROVE PoolInv
  OBVIOUS
<1>1. schema \in [Files -> [version : Nat, ran : SUBSET Nat]] /\ VersionBacked
  <2>1. \A e \in EarlierDatabases :
           e \in [version : Nat, ran : SUBSET Nat] /\ 1..e.version \subseteq e.ran
    BY DEF EarlierDatabases
  <2>2. schema \in [Files -> EarlierDatabases]
    BY DEF PoolInit
  <2>3. \A f \in Files : schema[f] \in EarlierDatabases
    BY <2>2
  <2>4. schema \in [Files -> [version : Nat, ran : SUBSET Nat]]
    BY <2>1, <2>2, <2>3
  <2>5. QED BY <2>1, <2>3, <2>4 DEF VersionBacked
<1>2. PoolTypeOK
  BY <1>1 DEF PoolInit, PoolTypeOK
<1>3. HasFile /\ CountsTables /\ SchemaComplete
  BY DEF PoolInit, HasFile, CountsTables, SchemaComplete
<1>4. QED BY <1>1, <1>2, <1>3 DEF PoolInv

(* A step that changes a program's own connection and call, completes no  *)
(* migration and leaves every file as it is.                               *)
CallsAt == {"idle", "connecting", "connected", "running"}

LEMMA CallInv ==
  ASSUME PoolInv, NEW p \in Programs,
         NEW t \in [at : CallsAt, call : {"none", "execute", "initialize"}, version : Nat],
         NEW c \in [file : Files \cup {NoFile}, ino : Files \cup {NoFile}],
         NEW m \in {migrated[p], NoFile},
         UNCHANGED <<inode, schema>>,
         thread' = [thread EXCEPT ![p] = t], cached' = [cached EXCEPT ![p] = c],
         migrated' = [migrated EXCEPT ![p] = m],
         c.ino # NoFile => c.file # NoFile,
         t.at \in {"connected", "running"} => c.file # NoFile
  PROVE  PoolInv'
<1> USE DEF PoolInv, CallsAt
<1>1. PoolTypeOK'
  BY DEF PoolTypeOK
<1>2. HasFile'
  BY DEF PoolTypeOK, HasFile
<1>3. VersionBacked'
  BY DEF VersionBacked
<1>4. CountsTables'
  BY DEF PoolTypeOK, CountsTables
<1>5. SchemaComplete'
  BY DEF PoolTypeOK, SchemaComplete
<1>6. QED BY <1>1, <1>2, <1>3, <1>4, <1>5

(* What a program has before it takes a step.                              *)
LEMMA PoolTyped ==
  ASSUME PoolInv, NEW p \in Programs
  PROVE  /\ thread[p] \in [at : CallsAt \cup {"migrating"}, call : {"none", "execute", "initialize"},
                           version : Nat]
         /\ cached[p] \in [file : Files \cup {NoFile}, ino : Files \cup {NoFile}]
         /\ inode \in Files /\ inode # NoFile
         /\ migrated = [migrated EXCEPT ![p] = migrated[p]]
         /\ cached = [cached EXCEPT ![p] = cached[p]]
BY DEF PoolInv, PoolTypeOK, CallsAt

LEMMA ConnectionInv ==
  ASSUME PoolInv, NEW p \in Programs,
         \/ Calls(p, "execute") \/ Calls(p, "initialize") \/ Connects(p) \/ StatsAgain(p)
         \/ Executes(p) \/ Raised(p) \/ ProgramEnds(p)
  PROVE  PoolInv'
<1>0. /\ thread[p] \in [at : CallsAt \cup {"migrating"}, call : {"none", "execute", "initialize"},
                        version : Nat]
      /\ cached[p] \in [file : Files \cup {NoFile}, ino : Files \cup {NoFile}]
      /\ inode \in Files /\ inode # NoFile
      /\ migrated = [migrated EXCEPT ![p] = migrated[p]]
      /\ cached = [cached EXCEPT ![p] = cached[p]]
  BY PoolTyped
<1>h. /\ cached[p].ino # NoFile => cached[p].file # NoFile
      /\ thread[p].at \in {"connected", "running"} => cached[p].file # NoFile
  BY DEF PoolInv, HasFile
<1>1. ASSUME NEW call \in {"execute", "initialize"}, Calls(p, call) PROVE PoolInv'
  <2> DEFINE hit == cached[p].ino = inode
             t == [NotCalling EXCEPT !.at = IF hit THEN "running" ELSE "connecting", !.call = call]
             c == IF hit THEN cached[p] ELSE NoConnection
  <2>1. t \in [at : CallsAt, call : {"none", "execute", "initialize"}, version : Nat]
    BY DEF CallsAt
  <2>2. c \in [file : Files \cup {NoFile}, ino : Files \cup {NoFile}]
    BY <1>0
  <2>3. c.ino # NoFile => c.file # NoFile
    BY <1>0, <1>h
  <2>4. t.at \in {"connected", "running"} => c.file # NoFile
    BY <1>0, <1>h
  <2>5. /\ thread' = [thread EXCEPT ![p] = t] /\ cached' = [cached EXCEPT ![p] = c]
        /\ migrated' = [migrated EXCEPT ![p] = migrated[p]] /\ UNCHANGED <<inode, schema>>
    BY <1>0, <1>1 DEF Calls
  <2> HIDE DEF t, c
  <2>6. QED BY <2>1, <2>2, <2>3, <2>4, <2>5, CallInv
<1>2. CASE Connects(p)
  <2> DEFINE t == [thread[p] EXCEPT !.at = "connected"]
             c == [cached[p] EXCEPT !.file = inode]
  <2>1. /\ t \in [at : CallsAt, call : {"none", "execute", "initialize"}, version : Nat]
        /\ c \in [file : Files \cup {NoFile}, ino : Files \cup {NoFile}] /\ c.file # NoFile
    BY <1>0 DEF CallsAt
  <2>2. /\ thread' = [thread EXCEPT ![p] = t] /\ cached' = [cached EXCEPT ![p] = c]
        /\ migrated' = [migrated EXCEPT ![p] = migrated[p]] /\ UNCHANGED <<inode, schema>>
    BY <1>0, <1>2 DEF Connects
  <2> HIDE DEF t, c
  <2>3. QED BY <2>1, <2>2, CallInv
<1>3. CASE StatsAgain(p)
  <2> DEFINE t == [thread[p] EXCEPT !.at = "running"]
             c == [cached[p] EXCEPT !.ino = inode]
  <2>1. /\ t \in [at : CallsAt, call : {"none", "execute", "initialize"}, version : Nat]
        /\ c \in [file : Files \cup {NoFile}, ino : Files \cup {NoFile}] /\ c.file # NoFile
    BY <1>0, <1>h, <1>3 DEF CallsAt, StatsAgain
  <2>2. /\ thread' = [thread EXCEPT ![p] = t] /\ cached' = [cached EXCEPT ![p] = c]
        /\ migrated' = [migrated EXCEPT ![p] = migrated[p]] /\ UNCHANGED <<inode, schema>>
    BY <1>0, <1>3 DEF StatsAgain
  <2> HIDE DEF t, c
  <2>3. QED BY <2>1, <2>2, CallInv
<1>4. CASE Executes(p)
  <2>1. NotCalling \in [at : CallsAt, call : {"none", "execute", "initialize"}, version : Nat]
    BY DEF CallsAt
  <2>2. /\ thread' = [thread EXCEPT ![p] = NotCalling] /\ cached' = [cached EXCEPT ![p] = cached[p]]
        /\ migrated' = [migrated EXCEPT ![p] = migrated[p]] /\ UNCHANGED <<inode, schema>>
    BY <1>0, <1>4 DEF Executes
  <2>3. NotCalling.at = "idle"
    OBVIOUS
  <2> HIDE DEF NotCalling
  <2>4. QED BY <1>0, <1>h, <2>1, <2>2, <2>3, CallInv
<1>5. CASE Raised(p) \/ ProgramEnds(p)
  <2>1. /\ NotCalling \in [at : CallsAt, call : {"none", "execute", "initialize"}, version : Nat]
        /\ NoConnection \in [file : Files \cup {NoFile}, ino : Files \cup {NoFile}]
        /\ NotCalling.at = "idle" /\ NoConnection.ino = NoFile
    BY DEF CallsAt
  <2>2. /\ thread' = [thread EXCEPT ![p] = NotCalling]
        /\ cached' = [cached EXCEPT ![p] = NoConnection]
        /\ UNCHANGED <<inode, schema>>
        /\ \E m \in {migrated[p], NoFile} : migrated' = [migrated EXCEPT ![p] = m]
    BY <1>0, <1>5 DEF Raised, ProgramEnds
  <2> HIDE DEF NotCalling, NoConnection
  <2>3. QED BY <2>1, <2>2, CallInv
<1>6. QED BY <1>1, <1>2, <1>3, <1>4, <1>5

(* Reading the version: it is backed by tables, so is what is counted.     *)
LEMMA ReadsVersionInv ==
  ASSUME PoolInv, NEW p \in Programs, ReadsVersion(p)
  PROVE  PoolInv'
<1> USE DEF PoolInv, ReadsVersion, On
<1>1. cached[p].file \in Files
  BY DEF PoolTypeOK, HasFile
<1>2. PoolTypeOK' /\ HasFile'
  BY <1>1 DEF PoolTypeOK, HasFile
<1>3. CountsTables'
  BY <1>1 DEF PoolTypeOK, CountsTables, VersionBacked
<1>4. VersionBacked' /\ SchemaComplete'
  BY DEF VersionBacked, SchemaComplete
<1>5. QED BY <1>2, <1>3, <1>4

(* A migration only adds tables, and the version it writes is the one it   *)
(* has counted to.                                                         *)
LEMMA MigratesInv ==
  ASSUME PoolInv, NEW p \in Programs, Migrates(p)
  PROVE  PoolInv'
<1> DEFINE k == thread[p].version + 1
           f == cached[p].file
<1> USE DEF PoolInv
<1>1. /\ f \in Files /\ thread[p].version \in Nat /\ thread[p].at = "migrating"
      /\ 1..thread[p].version \subseteq schema[f].ran
  BY DEF PoolTypeOK, HasFile, CountsTables, Migrates
<1>2. CASE Raised(p)
  BY <1>2, ConnectionInv
<1>3. CASE /\ schema' = [schema EXCEPT ![f] = Committed(p, k)]
           /\ thread' = [thread EXCEPT ![p].version = k]
           /\ UNCHANGED <<inode, cached, migrated>>
  <2>1. /\ schema'[f] = [version |-> k, ran |-> schema[f].ran \cup {k}]
        /\ \A g \in Files \ {f} : schema'[g] = schema[g]
    BY <1>1, <1>3 DEF PoolTypeOK, Committed, On
  <2>2. 1..k \subseteq schema'[f].ran
    BY <1>1, <2>1
  <2>3. \A g \in Files : schema[g].ran \subseteq schema'[g].ran
    BY <2>1
  <2>4. schema' \in [Files -> [version : Nat, ran : SUBSET Nat]]
    BY <1>1, <1>3, <2>1 DEF PoolTypeOK
  <2>5. PoolTypeOK' /\ HasFile'
    <3>1. thread' \in [Programs -> [at : {"idle", "connecting", "connected", "running", "migrating"},
                                    call : {"none", "execute", "initialize"}, version : Nat]]
      <4>1. [thread[p] EXCEPT !.version = k]
              \in [at : {"idle", "connecting", "connected", "running", "migrating"},
                  call : {"none", "execute", "initialize"}, version : Nat]
        <5>1. thread[p] \in [at : {"idle", "connecting", "connected", "running", "migrating"},
                             call : {"none", "execute", "initialize"}, version : Nat]
          BY DEF PoolTypeOK
        <5>2. k \in Nat
          BY <1>1
        <5> HIDE DEF k
        <5>3. QED BY <5>1, <5>2
      <4> DEFINE r == [thread[p] EXCEPT !.version = k]
      <4>2. thread' = [thread EXCEPT ![p] = r]
        BY <1>3
      <4> HIDE DEF r
      <4>3. QED BY <4>1, <4>2 DEF PoolTypeOK, r
    <3>2. PoolTypeOK'
      BY <1>3, <2>4, <3>1 DEF PoolTypeOK
    <3>3. HasFile'
      BY <1>1, <1>3 DEF PoolTypeOK, HasFile
    <3>4. QED BY <3>2, <3>3
  <2>6. VersionBacked'
    BY <2>1, <2>2 DEF VersionBacked
  <2>7. CountsTables'
    <3> SUFFICES ASSUME NEW q \in Programs, thread'[q].at = "migrating"
                 PROVE  1..thread'[q].version \subseteq schema'[cached'[q].file].ran
      BY DEF CountsTables
    <3>1. CASE q = p
      BY <1>1, <1>3, <2>2, <3>1 DEF PoolTypeOK
    <3>2. CASE q # p
      BY <1>3, <2>3, <3>2 DEF PoolTypeOK, CountsTables, HasFile
    <3>3. QED BY <3>1, <3>2
  <2>8. SchemaComplete'
    BY <1>3, <2>3 DEF PoolTypeOK, SchemaComplete
  <2>9. QED BY <2>5, <2>6, <2>7, <2>8
<1>4. QED BY <1>2, <1>3 DEF Migrates

(* initialize() ends where the counted version has reached the release's.  *)
LEMMA IsReadyInv ==
  ASSUME PoolInv, NEW p \in Programs, IsReady(p)
  PROVE  PoolInv'
<1> USE DEF PoolInv, IsReady
<1>1. cached[p].file \in Files /\ thread[p].version \in Nat /\ Knows[p] \in Nat
  BY DEF PoolTypeOK, HasFile
<1>2. PoolTypeOK' /\ HasFile' /\ VersionBacked' /\ CountsTables'
  BY <1>1 DEF PoolTypeOK, HasFile, VersionBacked, CountsTables
<1>3. 1..Knows[p] \subseteq schema[cached[p].file].ran
  <2>1. 1..Knows[p] \subseteq 1..thread[p].version
    BY <1>1
  <2>2. QED BY <2>1 DEF CountsTables
<1>4. SchemaComplete'
  BY <1>1, <1>3 DEF PoolTypeOK, SchemaComplete
<1>5. QED BY <1>2, <1>4

LEMMA RestoreInv == ASSUME PoolInv, ReplacesDatabase PROVE PoolInv'
<1>1. PoolTypeOK'
  BY DEF PoolInv, PoolTypeOK, ReplacesDatabase
<1>2. HasFile' /\ VersionBacked' /\ CountsTables' /\ SchemaComplete'
  BY DEF PoolInv, ReplacesDatabase, HasFile, VersionBacked, CountsTables, SchemaComplete
<1>3. QED BY <1>1, <1>2 DEF PoolInv

LEMMA PoolNextInv == PoolInv /\ [PoolNext]_poolVars => PoolInv'
<1> SUFFICES ASSUME PoolInv, [PoolNext]_poolVars PROVE PoolInv'
  OBVIOUS
<1>1. CASE PoolNext
  BY <1>1, ConnectionInv, ReadsVersionInv, MigratesInv, IsReadyInv, RestoreInv
     DEF PoolNext, StatementFails
<1>2. CASE UNCHANGED poolVars
  BY <1>2 DEF PoolInv, PoolTypeOK, VersionBacked, HasFile, CountsTables, SchemaComplete, poolVars
<1>3. QED BY <1>1, <1>2

-----------------------------------------------------------------------------
(* Database.initialize(): a database that was reported as ready holds all  *)
(* tables of the release, whichever programs migrate it at once, fail, end *)
(* or restore an older file meanwhile.                                     *)
THEOREM ReadyIsComplete == Spec => []SchemaComplete
<1>1. Init => PoolInv
  BY PoolInitInv DEF Init
<1>2. PoolInv /\ [Next]_vars => PoolInv'
  BY Apart, PoolNextInv
<1>3. PoolInv => SchemaComplete
  BY DEF PoolInv
<1>4. QED BY <1>1, <1>2, <1>3, PTL DEF Spec

-----------------------------------------------------------------------------
(* The backups and the restore.                                            *)
Parts       == [Members -> Nat]
BackupSteps == {"idle", "reading", "delivering", "delivered"}

(* Nothing of it is torn, but for a database if x, that databases were     *)
(* mixed up with the logs of others.                                       *)
SoundOf(p, m, x) == p[m] = Torn => x /\ m = "database"
Sound(p, x) == p \in Parts /\ \A m \in Members : SoundOf(p, m, x)

(* What a run has read so far is sound, and all of it when it delivers.    *)
ReadsWhole ==
    /\ backup \in [at : BackupSteps, read : Parts, todo : SUBSET Members]
    /\ backup.at = "reading" => \A m \in Members \ backup.todo : SoundOf(backup.read, m, mixed)
    /\ backup.at \in {"delivering", "delivered"} => Sound(backup.read, mixed)

(* A bundle that is whole was made of sound files; one of them stays, and  *)
(* a restore writes nothing else.                                          *)
StoresWhole   == \A b \in store : b.whole => Sound(b.parts, mixed)
KeepsOne      == kept => \E b \in store : b.whole
RestoresWhole == restore.at = "writing" => Sound(restore.from, mixed)

(* The inductive invariant behind the theorem.                             *)
BundlesInv == /\ Sound(file, mixed) /\ saves \in Nat /\ mixed \in BOOLEAN
              /\ ReadsWhole /\ StoresWhole /\ KeepsOne /\ RestoresWhole

LEMMA BundlesInitInv == BundlesInit => BundlesInv
<1> SUFFICES ASSUME BundlesInit PROVE BundlesInv
  OBVIOUS
<1>1. Sound(file, mixed)
  BY DEF BundlesInit, Sound, SoundOf, Parts, Torn
<1>2. QED BY <1>1 DEF BundlesInit, BundlesInv, ReadsWhole, StoresWhole, KeepsOne, RestoresWhole,
                    NoBackup, NoRestore, Unread, Parts, BackupSteps, Torn

(* What is sound stays so when databases are mixed up.                     *)
LEMMA SoundStays ==
  ASSUME NEW p, NEW x \in BOOLEAN, NEW y \in BOOLEAN, x => y
  PROVE  /\ Sound(p, x) => Sound(p, y)
         /\ \A m : SoundOf(p, m, x) => SoundOf(p, m, y)
BY DEF Sound, SoundOf

(* Saves write whole files, and concern neither bundles nor the restore.   *)
LEMMA SavesInv ==
  ASSUME BundlesInv, SaveBegins \/ SaveCopies \/ SaveWrites \/ SaveReplaces \/ SaveFails
  PROVE  BundlesInv'
<1>1. UNCHANGED <<store, backup, kept, restore, mixed>>
  BY DEF SaveBegins, SaveCopies, SaveWrites, SaveReplaces, SaveFails, backingUp, restoring
<1>2. saves' \in Nat
  BY DEF BundlesInv, SaveBegins, SaveCopies, SaveWrites, SaveReplaces, SaveFails
<1>3. Sound(file', mixed)
  <2>1. saves + 1 \in Nat /\ saves + 1 # Torn
    BY DEF BundlesInv, Torn
  <2>2. file' \in {file, [file EXCEPT !["config"] = saves + 1]}
    BY DEF SaveBegins, SaveCopies, SaveWrites, SaveReplaces, SaveFails
  <2>3. QED BY <2>1, <2>2 DEF BundlesInv, Sound, SoundOf, Parts
<1>4. QED BY <1>1, <1>2, <1>3 DEF BundlesInv, ReadsWhole, StoresWhole, KeepsOne, RestoresWhole

(* Steps of a backup before it delivers, or that end it.                   *)
LEMMA ReadsInv == ASSUME BundlesInv, NEW m \in Members, Reads(m) PROVE BundlesInv'
<1> DEFINE r == [backup.read EXCEPT ![m] = file[m]]
           t == backup.todo \ {m}
<1>1. r \in Parts /\ r[m] = file[m] /\ \A n \in Members \ {m} : r[n] = backup.read[n]
  BY DEF BundlesInv, ReadsWhole, Parts, Sound
<1>2. t \in SUBSET Members /\ Members \ t \subseteq (Members \ backup.todo) \cup {m}
  BY DEF BundlesInv, ReadsWhole
<1>3. backup' = [backup EXCEPT !.todo = t, !.read = r]
  BY DEF Reads
<1>4. \A n \in Members \ t : SoundOf(r, n, mixed)
  <2>1. SoundOf(r, m, mixed)
    BY <1>1 DEF BundlesInv, Sound, SoundOf
  <2>2. \A n \in Members \ backup.todo : SoundOf(backup.read, n, mixed)
    BY DEF Reads, BundlesInv, ReadsWhole
  <2>3. ASSUME NEW n \in Members \ t, n # m PROVE SoundOf(r, n, mixed)
    BY <1>1, <1>2, <2>2, <2>3 DEF SoundOf
  <2>4. QED BY <2>1, <2>3
<1>5. UNCHANGED <<file, saves, store, kept, restore, mixed>>
  BY DEF Reads, saving, restoring
<1> HIDE DEF r, t
<1>6. ReadsWhole'
  BY <1>1, <1>2, <1>3, <1>4, <1>5 DEF Reads, BundlesInv, ReadsWhole, BackupSteps
<1>7. QED BY <1>5, <1>6 DEF BundlesInv, StoresWhole, KeepsOne, RestoresWhole

LEMMA BackupEndsInv ==
  ASSUME BundlesInv, BackupBegins \/ BackupFails \/ ProcessEnds PROVE BundlesInv'
<1>1. UNCHANGED <<file, saves, store, kept, restore, mixed>>
  BY DEF BackupBegins, BackupFails, ProcessEnds, saving, restoring
<1>2. backup' \in {NoBackup, [at |-> "reading", read |-> Unread, todo |-> Members]}
  BY DEF BackupBegins, BackupFails, ProcessEnds
<1>3. Unread \in Parts
  BY DEF Unread, Parts, Torn
<1>4. \/ backup' = [at |-> "idle", read |-> Unread, todo |-> {}]
      \/ backup' = [at |-> "reading", read |-> Unread, todo |-> Members]
  BY <1>2 DEF NoBackup
<1>5. ReadsWhole'
  BY <1>3, <1>4 DEF ReadsWhole, BackupSteps
<1>6. QED BY <1>1, <1>5 DEF BundlesInv, StoresWhole, KeepsOne, RestoresWhole

(* What is delivered was read before; it is complete only at the end.      *)
LEMMA DeliversInv ==
  ASSUME BundlesInv, DeliveryBegins \/ DeliveryEnds PROVE BundlesInv'
<1>1. UNCHANGED <<file, saves, restore, mixed>>
  BY DEF DeliveryBegins, DeliveryEnds, saving, restoring
<1>2. Sound(backup.read, mixed)
  BY DEF BundlesInv, ReadsWhole, DeliveryBegins, DeliveryEnds, Sound
<1>3. This.whole /\ Sound(This.parts, mixed) /\ ~Part.whole
  BY <1>2 DEF This, Part
<1>4. ReadsWhole'
  BY <1>1, <1>2 DEF DeliveryBegins, DeliveryEnds, BundlesInv, ReadsWhole, BackupSteps
<1>5. CASE DeliveryBegins
  <2>1. store' = store \cup {Part} /\ kept' = kept
    BY <1>5 DEF DeliveryBegins
  <2>2. QED BY <1>1, <1>3, <1>4, <2>1 DEF BundlesInv, StoresWhole, KeepsOne, RestoresWhole
<1>6. CASE DeliveryEnds
  <2>1. store' = (store \ {Part}) \cup {This}
    BY <1>6 DEF DeliveryEnds
  <2>2. QED BY <1>1, <1>3, <1>4, <2>1 DEF BundlesInv, StoresWhole, KeepsOne, RestoresWhole
<1>7. QED BY <1>5, <1>6

(* Rotation leaves the bundle just delivered, or everything.               *)
LEMMA RotatesInv == ASSUME BundlesInv, Rotates PROVE BundlesInv'
<1>1. This.whole
  BY DEF This
<1>2. store' = store \/ (store' \subseteq store /\ This \in store')
  BY DEF Rotates, Survivors
<1>3. UNCHANGED <<file, saves, kept, restore, mixed>>
  BY DEF Rotates, saving, restoring
<1>4. StoresWhole' /\ KeepsOne'
  BY <1>1, <1>2, <1>3 DEF BundlesInv, StoresWhole, KeepsOne
<1>5. ReadsWhole'
  BY DEF Rotates, ReadsWhole, NoBackup, Unread, Parts, BackupSteps, Torn
<1>6. QED BY <1>3, <1>4, <1>5 DEF BundlesInv, RestoresWhole

(* The restore writes what is sound, of a bundle that is whole.            *)
LEMMA RestoringInv ==
  ASSUME BundlesInv,
         (\E b \in store : RestoreBegins(b)) \/ (\E m \in Members : RestoreWrites(m)) \/ RestoreEnds
  PROVE  BundlesInv'
<1>1. UNCHANGED <<saves, store, backup, kept, mixed>>
  BY DEF RestoreBegins, RestoreWrites, RestoreEnds, saving, backingUp
<1>2. RestoresWhole'
  <2>1. CASE \E b \in store : RestoreBegins(b)
    BY <1>1, <2>1 DEF BundlesInv, StoresWhole, RestoresWhole, RestoreBegins, Verified
  <2>2. CASE \E m \in Members : RestoreWrites(m)
    <3>1. PICK m \in Members : RestoreWrites(m)
      BY <2>2
    <3> DEFINE t == restore.todo \ {m}
               a == IF m = "database" THEN "replaced" ELSE restore.at
    <3>2. restore' = [restore EXCEPT !.todo = t, !.at = a]
      BY <3>1 DEF RestoreWrites
    <3> HIDE DEF t, a
    <3>3. restore'.from = restore.from
      BY <3>2
    <3>4. Sound(restore.from, mixed)
      BY <3>1 DEF BundlesInv, RestoresWhole, RestoreWrites
    <3>5. QED BY <1>1, <3>3, <3>4 DEF RestoresWhole
  <2>3. CASE RestoreEnds
    BY <2>3 DEF RestoreEnds, RestoresWhole, NoRestore
  <2>4. QED BY <2>1, <2>2, <2>3
<1>3. Sound(file', mixed)
  BY DEF BundlesInv, RestoresWhole, Sound, SoundOf, Parts, RestoreBegins, RestoreWrites, RestoreEnds
<1>4. QED BY <1>1, <1>2, <1>3 DEF BundlesInv, ReadsWhole, StoresWhole, KeepsOne

(* The log of the database may be mixed up with it, and nothing else.      *)
LEMMA LogsInv ==
  ASSUME BundlesInv, RestoreUnlinks \/ DatabaseOpens \/ DatabaseCloses
  PROVE  BundlesInv'
<1>1. UNCHANGED <<saves, store, backup, kept>> /\ restore' \in {restore, NoRestore}
  BY DEF RestoreUnlinks, DatabaseOpens, DatabaseCloses, saving, backingUp
<1>2. UNCHANGED <<file, mixed>> \/ Mixes
  BY DEF RestoreUnlinks, DatabaseOpens, DatabaseCloses
<1>3. mixed' \in BOOLEAN /\ mixed \in BOOLEAN /\ (mixed => mixed')
  BY <1>2 DEF Mixes, BundlesInv
<1>4. Sound(file', mixed')
  <2>1. CASE UNCHANGED <<file, mixed>>
    BY <2>1 DEF BundlesInv
  <2>2. CASE Mixes
    BY <2>2 DEF BundlesInv, Mixes, Sound, SoundOf, Parts, Torn
  <2>3. QED BY <1>2, <2>1, <2>2
<1>5. ReadsWhole' /\ StoresWhole' /\ KeepsOne'
  BY <1>1, <1>3, SoundStays DEF BundlesInv, ReadsWhole, StoresWhole, KeepsOne
<1>6. RestoresWhole'
  BY <1>1, <1>3, SoundStays DEF BundlesInv, RestoresWhole, NoRestore
<1>7. QED BY <1>1, <1>3, <1>4, <1>5, <1>6 DEF BundlesInv

LEMMA BundlesNextInv == BundlesInv /\ [BundlesNext]_bundleVars => BundlesInv'
<1> SUFFICES ASSUME BundlesInv, [BundlesNext]_bundleVars PROVE BundlesInv'
  OBVIOUS
<1>1. CASE BundlesNext
  BY <1>1, SavesInv, ReadsInv, BackupEndsInv, DeliversInv, RotatesInv, RestoringInv, LogsInv
     DEF BundlesNext
<1>2. CASE UNCHANGED bundleVars
  BY <1>2 DEF BundlesInv, ReadsWhole, StoresWhole, KeepsOne, RestoresWhole, bundleVars
<1>3. QED BY <1>1, <1>2

(* run_backup() and restore_bundle(): a bundle that can be restored stays  *)
(* at the destination, and what it holds and the instance starts from is   *)
(* not torn, however saves, runs, rotations, restores and their failures   *)
(* interleave; unless a database was opened beside the log of another.     *)
THEOREM AlwaysRestorable == Spec => []RestorableBundle
<1>1. Init => BundlesInv
  BY BundlesInitInv DEF Init
<1>2. BundlesInv /\ [Next]_vars => BundlesInv'
  BY Apart, BundlesNextInv
<1>3. BundlesInv => RestorableBundle
  BY DEF BundlesInv, StoresWhole, KeepsOne, RestorableBundle, Verified, Sound, SoundOf
<1>4. QED BY <1>1, <1>2, <1>3, PTL DEF Spec

-----------------------------------------------------------------------------
(* The notifier, of which the worker has taken the first n messages.       *)
WorkerAt       == {"waiting", "sending", "ended", "killed"}
Numbered(q, n) == \A i \in 1..Len(q) : q[i] = n + i

(* What waits is what was accepted last, in order.                         *)
Queued(n) == /\ queue \in Seq(Nat) /\ accepted \in Nat /\ n \in Nat /\ accepted - Len(queue) = n
             /\ Numbered(queue, n)
             /\ promised \in Nat /\ promised <= accepted
             /\ worker.at = "ended" => stopping /\ promised <= n

(* Every channel has been tried with the messages before the one in hand,  *)
(* and with that one unless the pool has not got to it.                    *)
TriedUpTo(n) ==
    \A c \in Channels :
        /\ tried[c] \in Seq(Nat) /\ Numbered(tried[c], 0)
        /\ worker.at # "killed" => Len(tried[c]) = IF <<c, n>> \in unsent THEN n - 1 ELSE n

(* The worker waits for all results before it takes another message.       *)
InHand(n) ==
    /\ worker \in [at : WorkerAt, message : Nat]
    /\ tried \in [Channels -> Seq(Nat)]
    /\ unheard \subseteq Channels
    /\ worker.at # "killed" => \A s \in unsent : s[1] \in unheard /\ s = <<s[1], n>>
    /\ worker.at = "sending" => worker.message = n
    /\ worker.at \in {"waiting", "ended"} => unheard = {}

(* The inductive invariant behind the theorem.                             *)
NotifierInv == \E n \in Nat : Queued(n) /\ TriedUpTo(n) /\ InHand(n)

LEMMA NotifierInitInv == NotifierInit => NotifierInv
<1> SUFFICES ASSUME NotifierInit PROVE Queued(0) /\ TriedUpTo(0) /\ InHand(0)
  BY DEF NotifierInv
<1>1. Queued(0)
  <2>1. queue = <<>> /\ accepted = 0 /\ promised = 0 /\ worker.at = "waiting"
    BY DEF NotifierInit, Waiting
  <2>2. queue \in Seq(Nat) /\ Len(queue) = 0
    BY <2>1
  <2>3. Numbered(queue, 0)
    BY <2>2 DEF Numbered
  <2>4. 0 \in Nat /\ accepted \in Nat /\ accepted - Len(queue) = 0
    <3>1. accepted = 0 /\ Len(queue) = 0
      BY <2>1, <2>2
    <3>2. QED BY ONLY <3>1
  <2>5. promised \in Nat /\ promised <= accepted
    BY <2>1
  <2>6. worker.at # "ended"
    BY <2>1
  <2>7. QED
    <3> HIDE DEF Numbered
    <3>1. QED BY <2>2, <2>3, <2>4, <2>5, <2>6 DEF Queued
<1>2. TriedUpTo(0)
  BY DEF NotifierInit, TriedUpTo, Numbered
<1>3. InHand(0)
  BY DEF NotifierInit, InHand, WorkerAt, Waiting
<1>4. QED BY <1>1, <1>2, <1>3

(* Producers only add to the end of the queue.                             *)
LEMMA ProducersInv ==
  ASSUME NotifierInv, NEW p \in Producers, Raises(p) \/ Puts(p) \/ Drops(p) PROVE NotifierInv'
<1>1. PICK n \in Nat : Queued(n) /\ TriedUpTo(n) /\ InHand(n)
  BY DEF NotifierInv
<1>2. UNCHANGED <<worker, unsent, unheard, tried, stopping, promised>>
  BY DEF Raises, Puts, Drops, delivering, halting
<1>3. TriedUpTo(n)' /\ InHand(n)'
  BY <1>1, <1>2 DEF TriedUpTo, InHand
<1>4. CASE Puts(p)
  <2>1. queue' = Append(queue, accepted + 1) /\ accepted' = accepted + 1
    BY <1>4 DEF Puts
  <2>2. queue \in Seq(Nat) /\ accepted \in Nat /\ accepted - Len(queue) = n
    BY <1>1 DEF Queued
  <2>3. queue' \in Seq(Nat) /\ Len(queue') = Len(queue) + 1 /\ Len(queue) \in Nat
    BY <2>1, <2>2
  <2>4. Numbered(queue, n)'
    <3> SUFFICES ASSUME NEW i \in 1..Len(queue') PROVE queue'[i] = n + i
      BY DEF Numbered
    <3>1. CASE i = Len(queue) + 1
      BY <2>1, <2>2, <2>3, <3>1
    <3>2. CASE i \in 1..Len(queue)
      BY <1>1, <2>1, <2>2, <3>2 DEF Queued, Numbered
    <3>3. QED BY <2>3, <3>1, <3>2
  <2>5. accepted' \in Nat /\ accepted' - Len(queue') = n
    BY <2>1, <2>2, <2>3
  <2>6. promised' \in Nat /\ promised' <= accepted'
    BY <1>1, <1>2, <2>1, <2>2 DEF Queued
  <2>7. Queued(n)'
    BY <1>1, <1>2, <2>3, <2>4, <2>5, <2>6 DEF Queued
  <2>8. QED BY <1>3, <2>7 DEF NotifierInv
<1>5. CASE Raises(p) \/ Drops(p)
  <2>1. UNCHANGED <<queue, accepted>>
    BY <1>5 DEF Raises, Drops
  <2>2. Queued(n)'
    BY <1>1, <1>2, <2>1 DEF Queued
  <2>3. QED BY <1>3, <2>2 DEF NotifierInv
<1>6. QED BY <1>4, <1>5

(* The next message is the one after the last that was taken.              *)
LEMMA FansInv == ASSUME NotifierInv, Fans PROVE NotifierInv'
<1>1. PICK n \in Nat : Queued(n) /\ TriedUpTo(n) /\ InHand(n)
  BY DEF NotifierInv
<1>2. unheard = {} /\ unsent = {}
  BY <1>1 DEF Fans, Heard, InHand
<1>3. queue \in Seq(Nat) /\ queue # <<>> /\ accepted \in Nat /\ accepted - Len(queue) = n
  BY <1>1 DEF Queued, Fans
<1>4. Head(queue) = n + 1
  <2>1. 1 \in 1..Len(queue)
    BY <1>3
  <2>2. QED BY <1>1, <1>3, <2>1 DEF Queued, Numbered
<1>5. /\ queue' = Tail(queue) /\ worker' = [at |-> "sending", message |-> n + 1]
      /\ unsent' = {<<c, n + 1>> : c \in Channels} /\ unheard' = Channels
      /\ UNCHANGED <<accepted, tried, stopping, promised>>
  BY <1>2, <1>4 DEF Fans, halting
<1>6. Queued(n + 1)'
  <2>1. queue' \in Seq(Nat) /\ Len(queue') = Len(queue) - 1 /\ Len(queue) \in Nat
    BY <1>3, <1>5
  <2>2. Numbered(queue', n + 1)
    <3> SUFFICES ASSUME NEW i \in 1..Len(queue') PROVE queue'[i] = n + 1 + i
      BY DEF Numbered
    <3>1. queue'[i] = queue[i + 1] /\ i + 1 \in 1..Len(queue)
      BY <1>3, <1>5, <2>1
    <3>2. QED BY <1>1, <3>1 DEF Queued, Numbered
  <2>3. accepted' - Len(queue') = n + 1
    BY <1>3, <1>5, <2>1
  <2>4. QED BY <1>1, <1>5, <2>1, <2>2, <2>3 DEF Queued
<1>7. TriedUpTo(n + 1)'
  BY <1>1, <1>2, <1>5 DEF TriedUpTo, Fans
<1>8. InHand(n + 1)'
  BY <1>1, <1>5 DEF InHand, WorkerAt
<1>9. QED BY <1>6, <1>7, <1>8 DEF NotifierInv

(* The pool sends a message after all before it.                           *)
LEMMA SendsInv ==
  ASSUME NotifierInv, NEW s \in unsent, Sends(s[1], s[2]) PROVE NotifierInv'
<1>1. PICK n \in Nat : Queued(n) /\ TriedUpTo(n) /\ InHand(n)
  BY DEF NotifierInv
<1> DEFINE c == s[1]
<1>2. c \in Channels /\ s = <<c, n>> /\ s[2] = n /\ c \in unheard
  <2>1. worker.at # "killed"
    BY DEF Sends
  <2>2. s[1] \in unheard /\ s = <<s[1], n>>
    BY <1>1, <2>1 DEF InHand
  <2>3. QED BY <1>1, <2>2 DEF InHand
<1>3. /\ unsent' = unsent \ {<<c, n>>} /\ tried' = [tried EXCEPT ![c] = Append(@, n)]
      /\ UNCHANGED <<queue, accepted, worker, unheard, stopping, promised>>
  BY <1>2 DEF Sends, halting
<1>4. Queued(n)'
  BY <1>1, <1>3 DEF Queued
<1>5. /\ tried[c] \in Seq(Nat) /\ Len(tried[c]) = n - 1 /\ Numbered(tried[c], 0)
  BY <1>1, <1>2 DEF TriedUpTo, Sends
<1> DEFINE q == Append(tried[c], n)
<1>6. q \in Seq(Nat) /\ Len(q) = n /\ Numbered(q, 0)
  <2>1. Len(q) = n /\ q \in Seq(Nat)
    BY <1>5
  <2>2. \A i \in 1..n : q[i] = 0 + i
    BY <1>5 DEF Numbered
  <2>3. QED BY <2>1, <2>2 DEF Numbered
<1>7. tried \in [Channels -> Seq(Nat)]
  BY <1>1 DEF InHand
<1>8. tried'[c] = q /\ \A d \in Channels \ {c} : tried'[d] = tried[d]
  BY <1>2, <1>3, <1>7
<1>9. TriedUpTo(n)'
  <2> SUFFICES ASSUME NEW d \in Channels
               PROVE  /\ tried'[d] \in Seq(Nat) /\ Numbered(tried'[d], 0)
                      /\ worker.at # "killed" =>
                            Len(tried'[d]) = IF <<d, n>> \in unsent' THEN n - 1 ELSE n
    BY <1>3 DEF TriedUpTo
  <2>1. CASE d = c
    BY <1>3, <1>6, <1>8, <2>1
  <2>2. CASE d # c
    <3>1. <<d, n>> \in unsent' <=> <<d, n>> \in unsent
      BY <1>3, <2>2
    <3>2. QED BY <1>1, <1>8, <2>2, <3>1 DEF TriedUpTo
  <2>3. QED BY <2>1, <2>2
<1>10. tried' \in [Channels -> Seq(Nat)]
  BY <1>2, <1>3, <1>6, <1>7
<1>11. InHand(n)'
  BY <1>1, <1>3, <1>10 DEF InHand
<1>12. QED BY <1>4, <1>9, <1>11 DEF NotifierInv

(* Steps of the worker between messages, and the stop.                     *)
LEMMA WorkerInv ==
  ASSUME NotifierInv,
         \/ \E c \in Channels : Records(c) \/ SendsDirectly(c)
         \/ Rests \/ Stops \/ WorkerEnds \/ JoinTimesOut
  PROVE  NotifierInv'
<1>1. PICK n \in Nat : Queued(n) /\ TriedUpTo(n) /\ InHand(n)
  BY DEF NotifierInv
<1>2. UNCHANGED <<queue, accepted, unsent, tried>>
  BY DEF Records, SendsDirectly, Rests, Stops, WorkerEnds, JoinTimesOut, delivering
<1>3. worker'.at # "killed" => worker.at # "killed"
  BY DEF Records, SendsDirectly, Rests, Stops, WorkerEnds, JoinTimesOut, delivering
<1>4. TriedUpTo(n)'
  BY <1>1, <1>2, <1>3 DEF TriedUpTo
<1>5. Queued(n)'
  <2>1. CASE Stops
    BY <1>1, <1>2, <2>1 DEF Queued, Stops, delivering
  <2>2. CASE WorkerEnds
    <3>1. stopping /\ queue = <<>> /\ UNCHANGED <<stopping, promised>>
      BY <2>2 DEF WorkerEnds, Drained, halting
    <3>2. n = accepted /\ promised <= n
      BY <1>1, <3>1 DEF Queued
    <3>3. QED BY <1>1, <1>2, <3>1, <3>2 DEF Queued
  <2>3. CASE \/ \E c \in Channels : Records(c) \/ SendsDirectly(c)
             \/ Rests \/ JoinTimesOut
    <3>1. UNCHANGED <<stopping, promised>>
      BY <2>3 DEF Records, SendsDirectly, Rests, JoinTimesOut, halting
    <3>2. worker'.at = "ended" => worker.at = "ended"
      <4>1. worker' \in {worker, Waiting} \/ worker'.at = "killed"
        BY <1>1, <2>3 DEF Records, SendsDirectly, Rests, JoinTimesOut, delivering, InHand
      <4>2. QED BY <4>1 DEF Waiting
    <3>3. QED BY <1>1, <1>2, <3>1, <3>2 DEF Queued
  <2>4. QED BY <2>1, <2>2, <2>3
<1>6. InHand(n)'
  <2>1. CASE Stops \/ \E c \in Channels : SendsDirectly(c)
    BY <1>1, <1>2, <2>1 DEF InHand, Stops, SendsDirectly, delivering
  <2>2. CASE \E c \in Channels : Records(c)
    <3>1. PICK c \in Channels : Records(c)
      BY <2>2
    <3>2. worker' = worker /\ worker.at = "sending" /\ unheard' = unheard \ {c}
          /\ <<c, n>> \notin unsent
      BY <1>1, <3>1 DEF Records, InHand
    <3>3. QED BY <1>1, <1>2, <3>2 DEF InHand
  <2>3. CASE Rests
    BY <1>1, <1>2, <2>3 DEF InHand, Rests, Heard, Waiting, WorkerAt
  <2>4. CASE WorkerEnds
    <3>1. worker' \in [at : WorkerAt, message : Nat] /\ worker'.at = "ended"
          /\ unheard' = unheard /\ worker.at = "waiting"
      BY <1>1, <2>4 DEF InHand, WorkerEnds, WorkerAt
    <3>2. QED BY <1>1, <1>2, <3>1 DEF InHand
  <2>5. CASE JoinTimesOut
    <3>1. worker' \in [at : WorkerAt, message : Nat] /\ worker'.at = "killed"
          /\ unheard' = unheard
      BY <1>1, <2>5 DEF InHand, JoinTimesOut, WorkerAt
    <3>2. QED BY <1>1, <1>2, <3>1 DEF InHand
  <2>6. QED BY <2>1, <2>2, <2>3, <2>4, <2>5
<1>7. QED BY <1>4, <1>5, <1>6 DEF NotifierInv

LEMMA NotifierNextInv == NotifierInv /\ [NotifierNext]_notifierVars => NotifierInv'
<1> SUFFICES ASSUME NotifierInv, [NotifierNext]_notifierVars PROVE NotifierInv'
  OBVIOUS
<1>1. CASE NotifierNext
  BY <1>1, ProducersInv, FansInv, SendsInv, WorkerInv DEF NotifierNext
<1>2. CASE UNCHANGED notifierVars
  <2>1. UNCHANGED <<queue, accepted, worker, unsent, unheard, tried, stopping, promised>>
    BY <1>2 DEF notifierVars
  <2>2. PICK n \in Nat : Queued(n) /\ TriedUpTo(n) /\ InHand(n)
    BY DEF NotifierInv
  <2>3. Queued(n)' /\ TriedUpTo(n)' /\ InHand(n)'
    BY <2>1, <2>2 DEF Queued, TriedUpTo, InHand
  <2>4. QED BY <2>3 DEF NotifierInv
<1>3. QED BY <1>1, <1>2

LEMMA NotifierInvOrders == NotifierInv => DeliveredInOrder
<1> SUFFICES ASSUME NotifierInv, NEW c \in Channels
             PROVE  /\ \A i \in 1..Len(tried[c]) : tried[c][i] = i
                    /\ worker.at = "ended" => Len(tried[c]) >= promised
  BY DEF DeliveredInOrder
<1>1. PICK n \in Nat : Queued(n) /\ TriedUpTo(n) /\ InHand(n)
  BY DEF NotifierInv
<1>2. \A i \in 1..Len(tried[c]) : tried[c][i] = i
  <2>1. tried[c] \in Seq(Nat) /\ \A i \in 1..Len(tried[c]) : tried[c][i] = 0 + i
    BY <1>1 DEF TriedUpTo, Numbered
  <2> DEFINE q == tried[c]
  <2>2. \A i \in 1..Len(q) : q[i] = 0 + i /\ i \in Nat
    BY <2>1
  <2> HIDE DEF q
  <2>3. \A i \in 1..Len(q) : q[i] = i
    BY <2>2
  <2>4. QED BY <2>3 DEF q
<1>3. ASSUME worker.at = "ended" PROVE Len(tried[c]) >= promised
  <2>1. unheard = {} /\ unsent = {}
    BY <1>1, <1>3 DEF InHand
  <2>2. Len(tried[c]) = n /\ promised <= n /\ promised \in Nat
    BY <1>1, <1>3, <2>1 DEF TriedUpTo, Queued
  <2>3. QED BY <2>2
<1>4. QED BY <1>2, <1>3

(* NotificationService: each channel is tried with the accepted messages   *)
(* in their order, each once, and with all that were accepted before the   *)
(* stop when the worker ends, for any number of producers, channels and    *)
(* messages.                                                               *)
THEOREM ToldInOrder == Spec => []DeliveredInOrder
<1>1. Init => NotifierInv
  BY NotifierInitInv DEF Init
<1>2. NotifierInv /\ [Next]_vars => NotifierInv'
  BY Apart, NotifierNextInv
<1>3. QED BY <1>1, <1>2, NotifierInvOrders, PTL DEF Spec

-----------------------------------------------------------------------------
(* The applications.  What matters of a row is its shape and that a success *)
(* is no younger than the last check to find the instance healthy.         *)
Shaped(r) == r = [there |-> r.there, enabled |-> r.enabled, critical |-> r.critical,
                  strategy |-> r.strategy, health |-> r.health, success |-> r.success]
Earned(rows_) == /\ rows_ = [i \in Instances |-> rows_[i]]
                 /\ \A i \in Instances : Shaped(rows_[i]) /\ rows_[i].success \in Ages
                 /\ \A i \in Instances \ unearned : confirmed[i] <= rows_[i].success

(* The inductive invariant behind the theorem: it holds of the rows and of *)
(* those the poll has read, which it will write the success of; a poll     *)
(* that rests has read none.                                               *)
HealthyInv == /\ confirmed \in [Instances -> Ages]
              /\ Earned(instance) /\ Earned(poll.read)
              /\ poll.age \in Ages
              /\ poll.at = "idle" => poll = Idle
              /\ poll = [at |-> poll.at, age |-> poll.age, up |-> poll.up, row |-> poll.row,
                         todo |-> poll.todo, asof |-> poll.asof, read |-> poll.read,
                         states |-> poll.states]

USE ApplicationsAssumption

(* A row that has had no success is earned.                                *)
LEMMA NeverIsEarned == /\ Shaped(NewInstance) /\ Shaped(NoInstance)
                       /\ NewInstance.success = Never /\ NoInstance.success = Never
                       /\ Never \in Ages /\ \A a \in Ages : a \in Nat /\ a <= Never
<1>1. Never \in Ages /\ \A a \in Ages : a \in Nat /\ a <= Never
  BY DEF Never, Ages
<1>2. Shaped(NewInstance) /\ NewInstance.success = Never
  BY DEF Shaped, NewInstance
<1>3. NoInstance = [there |-> FALSE, enabled |-> TRUE, critical |-> FALSE,
                    strategy |-> "inherited", health |-> "unknown", success |-> Never]
  <2>1. NewInstance = [there |-> TRUE, enabled |-> TRUE, critical |-> FALSE,
                       strategy |-> "inherited", health |-> "unknown", success |-> Never]
    BY DEF NewInstance
  <2>2. NoInstance = [NewInstance EXCEPT !.there = FALSE]
    BY DEF NoInstance
  <2>3. QED BY <2>1, <2>2
<1>4. Shaped(NoInstance) /\ NoInstance.success = Never
  BY <1>3 DEF Shaped
<1>5. QED BY <1>1, <1>2, <1>4

(* So is a poll that has read nothing.                                     *)
LEMMA IdleIsEarned ==
  ASSUME confirmed \in [Instances -> Ages]
  PROVE  Earned(Idle.read) /\ Idle.age \in Ages
<1>1. Idle.read = [i \in Instances |-> NoInstance] /\ Idle.age = 0
  BY DEF Idle
<1>2. 0 \in Ages
  BY DEF Ages, Never
<1>3. QED BY <1>1, <1>2, NeverIsEarned DEF Earned

LEMMA HealthyInitInv == ApplicationsInit => HealthyInv
<1> SUFFICES ASSUME ApplicationsInit PROVE HealthyInv
  OBVIOUS
<1>1. confirmed \in [Instances -> Ages]
  BY NeverIsEarned DEF ApplicationsInit
<1>2. Earned(instance)
  BY <1>1, NeverIsEarned DEF ApplicationsInit, Earned
<1>3. poll = [at |-> poll.at, age |-> poll.age, up |-> poll.up, row |-> poll.row,
              todo |-> poll.todo, asof |-> poll.asof, read |-> poll.read, states |-> poll.states]
  BY DEF ApplicationsInit, Idle
<1>4. poll = Idle
  BY DEF ApplicationsInit
<1>5. QED BY <1>1, <1>2, <1>3, <1>4, IdleIsEarned DEF HealthyInv

(* What a check stores is the time of the poll when it finds health, and   *)
(* otherwise the success it has read.                                      *)
LEMMA FinalizedSuccess ==
  ASSUME NEW r, Shaped(r), NEW result, NEW since
  PROVE  Finalized(r, result, since).success =
           IF result.conclusive /\ result.state = "healthy" THEN since ELSE r.success
BY DEF Finalized, Shaped

(* One sight is health only if the device is up and the sight is "up".     *)
LEMMA ObservedHealthy ==
  ASSUME NEW sight \in Sights, NEW up, NEW critical,
         Observed(sight, up, critical).state = "healthy"
  PROVE  up /\ sight = "up"
BY DEF Observed, Sights

LEMMA CheckInv ==
  ASSUME HealthyInv, NEW i \in Instances,
         NEW first \in Sights, NEW second \in Sights, Check(i, first, second)
  PROVE  HealthyInv'
<1> DEFINE r == poll.read[i]
           one == Observed(first, poll.up, r.critical)
           result == IF Composite(i)
                     THEN Composed(one, Observed(second, poll.up, r.critical), r.health,
                                   poll.row.criticality)
                     ELSE one
           final == Finalized(r, result, poll.age)
           found == poll.up /\ "up" = first /\ (Composite(i) => second = "up")
<1>1. /\ instance' = IF instance[i].there
                     THEN [instance EXCEPT ![i].health = final.health,
                                           ![i].success = final.success]
                     ELSE instance
      /\ confirmed' = IF found THEN [confirmed EXCEPT ![i] = 0] ELSE confirmed
      /\ unearned' = IF found THEN unearned \ {i}
                     ELSE IF Composite(i) /\ result.state = "healthy" THEN unearned \cup {i}
                     ELSE unearned
      /\ poll' = [poll EXCEPT !.todo = @ \ {i}, !.read[i] = NoInstance,
                              !.states = @ \cup {final.health}]
  BY DEF Check
<1>2. Shaped(r) /\ r.success \in Ages /\ poll.age \in Ages
  BY DEF HealthyInv, Earned
<1>3. final.success = IF result.conclusive /\ result.state = "healthy" THEN poll.age
                      ELSE r.success
  BY <1>2, FinalizedSuccess
<1>4. final.success \in Ages
  BY <1>2, <1>3
<1>5. ASSUME i \notin unearned', ~found PROVE final.success = r.success /\ i \notin unearned
  <2>1. i \notin unearned /\ ~(Composite(i) /\ result.state = "healthy")
    <3> HIDE DEF result, found
    <3>1. QED BY <1>1, <1>5
  <2>2. CASE Composite(i)
    BY <1>3, <2>1, <2>2
  <2>3. CASE ~Composite(i)
    <3>1. result = one
      BY <2>3
    <3>2. one.state # "healthy"
      BY <1>5, <2>3, ObservedHealthy
    <3>3. QED BY <1>3, <2>1, <3>1, <3>2
  <2>4. QED BY <2>2, <2>3
<1>6. poll'.read = [poll.read EXCEPT ![i] = NoInstance] /\ poll'.age = poll.age
      /\ poll'.at = "checking"
      /\ poll' = [at |-> poll'.at, age |-> poll'.age, up |-> poll'.up, row |-> poll'.row,
                  todo |-> poll'.todo, asof |-> poll'.asof, read |-> poll'.read, states |-> poll'.states]
  <2> HIDE DEF final
  <2> DEFINE h == final.health
  <2>1. poll' = [poll EXCEPT !.todo = @ \ {i}, !.read[i] = NoInstance, !.states = @ \cup {h}]
    BY <1>1
  <2> HIDE DEF h
  <2>2. poll' = [at |-> poll.at, age |-> poll.age, up |-> poll.up, row |-> poll.row,
                 todo |-> poll.todo \ {i}, asof |-> poll.asof, read |-> [poll.read EXCEPT ![i] = NoInstance],
                 states |-> poll.states \cup {h}]
    BY <2>1 DEF HealthyInv
  <2>3. poll.at = "checking"
    BY DEF Check
  <2>4. QED BY <2>2, <2>3
<1>7. /\ confirmed' \in [Instances -> Ages]
      /\ \A j \in Instances : confirmed'[j] <= confirmed[j]
      /\ found => confirmed'[i] = 0
      /\ ~found => confirmed' = confirmed
      /\ \A j \in Instances : confirmed'[j] \in Nat /\ confirmed[j] \in Nat
  <2>1. 0 \in Ages /\ \A a \in Ages : a \in Nat
    BY DEF Ages, Never
  <2> HIDE DEF found
  <2>2. QED BY <1>1, <2>1 DEF HealthyInv
<1>7a. \A j \in Instances : j # i => (j \in unearned' <=> j \in unearned)
  <2> HIDE DEF result, found
  <2>1. QED BY <1>1
<1> HIDE DEF r, one, result, final, found
<1>8. Earned(poll.read)'
  <2>1. \A j \in Instances : poll'.read[j] = IF j = i THEN NoInstance ELSE poll.read[j]
    BY <1>6 DEF HealthyInv, Earned
  <2>2. poll'.read = [j \in Instances |-> poll'.read[j]]
    BY <1>6 DEF HealthyInv, Earned
  <2>3. \A j \in Instances : Shaped(poll'.read[j]) /\ poll'.read[j].success \in Ages
    BY <2>1, NeverIsEarned DEF HealthyInv, Earned
  <2>4. ASSUME NEW j \in Instances \ unearned' PROVE confirmed'[j] <= poll'.read[j].success
    <3>1. CASE j = i
      BY <3>1, <2>1, <1>7, NeverIsEarned
    <3>2. CASE j # i
      <4>1. confirmed[j] <= poll.read[j].success /\ poll.read[j].success \in Ages
        BY <3>2, <1>7a DEF HealthyInv, Earned
      <4>2. QED BY <3>2, <4>1, <2>1, <1>7, NeverIsEarned
    <3>3. QED BY <3>1, <3>2
  <2>5. (poll.read)' = poll'.read
    OBVIOUS
  <2>6. QED BY <2>2, <2>3, <2>4, <2>5 DEF Earned
<1>9. Earned(instance)'
  <2>1. \A j \in Instances : instance[j].success \in Ages /\ Shaped(instance[j])
    BY DEF HealthyInv, Earned
  <2>2. instance' = [j \in Instances |-> instance'[j]]
    BY <1>1 DEF HealthyInv, Earned
  <2>3. \A j \in Instances : j # i => instance'[j] = instance[j]
    BY <1>1 DEF HealthyInv, Earned
  <2>4. CASE instance[i].there
    <3> DEFINE h == final.health
               s == final.success
    <3>1. instance'[i] = [instance[i] EXCEPT !.health = h, !.success = s]
      BY <1>1, <2>4 DEF HealthyInv, Earned
    <3> HIDE DEF h, s
    <3>2. Shaped(instance'[i]) /\ instance'[i].success = s
      BY <3>1, <2>1 DEF Shaped
    <3>3. s \in Ages
      BY <1>4 DEF s
    <3>4. ASSUME i \notin unearned' PROVE confirmed'[i] <= s
      <4>1. CASE found
        BY <4>1, <3>3, <1>7, NeverIsEarned
      <4>2. CASE ~found
        <5>1. s = r.success
          BY <1>5, <3>4, <4>2 DEF s
        <5>2. confirmed[i] <= r.success
          BY <1>5, <3>4, <4>2 DEF r, HealthyInv, Earned
        <5>3. QED BY <5>1, <5>2, <4>2, <1>7
      <4>3. QED BY <4>1, <4>2
    <3>5. \A j \in Instances : Shaped(instance'[j]) /\ instance'[j].success \in Ages
      BY <2>1, <2>3, <3>2, <3>3
    <3>6. \A j \in Instances \ unearned' : confirmed'[j] <= instance'[j].success
      <4>1. \A j \in Instances \ unearned : confirmed[j] <= instance[j].success
        BY DEF HealthyInv, Earned
      <4>2. QED BY <4>1, <3>2, <3>4, <2>1, <2>3, <1>7, <1>7a, NeverIsEarned
    <3>7. QED BY <2>2, <3>5, <3>6 DEF Earned
  <2>5. CASE ~instance[i].there
    <3>1. instance' = instance
      BY <1>1, <2>5
    <3>2. \A j \in Instances \ unearned : confirmed[j] <= instance[j].success
      BY DEF HealthyInv, Earned
    <3>3. ASSUME NEW j \in Instances \ unearned' PROVE confirmed'[j] <= instance[j].success
      <4>1. j \in unearned => j = i /\ found
        BY <1>1, <1>7a, <3>3 DEF found
      <4>2. QED BY <3>2, <4>1, <2>1, <1>7, NeverIsEarned
    <3>4. QED BY <3>1, <3>3, <2>1, <2>2 DEF Earned
  <2>6. QED BY <2>4, <2>5
<1>10. QED BY <1>2, <1>6, <1>7, <1>8, <1>9 DEF HealthyInv

(* The poll reads rows and rolls up; operators write rows that had no      *)
(* success, or leave it as it is.                                          *)
LEMMA OthersInv ==
  ASSUME HealthyInv, unearned' = unearned, UNCHANGED confirmed,
         poll' = poll \/ poll' = Idle \/ PollBegins \/ PollReads,
         Earned(instance)'
  PROVE  HealthyInv'
<1>1. confirmed' \in [Instances -> Ages] /\ confirmed' = confirmed
  BY DEF HealthyInv
<1>2. CASE poll' = poll
  BY <1>1, <1>2 DEF HealthyInv, Earned
<1>3. CASE poll' = Idle
  <2>1. Earned(Idle.read) /\ Idle.age \in Ages
    BY IdleIsEarned DEF HealthyInv
  <2>2. Earned(poll.read)' /\ poll'.age \in Ages
    BY <1>1, <1>3, <2>1 DEF Earned
  <2>3. poll' = [at |-> poll'.at, age |-> poll'.age, up |-> poll'.up, row |-> poll'.row,
                 todo |-> poll'.todo, asof |-> poll'.asof, read |-> poll'.read, states |-> poll'.states]
    BY <1>3 DEF Idle
  <2>4. QED BY <1>1, <1>3, <2>2, <2>3 DEF HealthyInv
<1>4. CASE PollBegins
  <2>1. Earned(Idle.read) /\ Idle.age \in Ages
    BY IdleIsEarned DEF HealthyInv
  <2>2. PICK up \in BOOLEAN :
           poll' = [Idle EXCEPT !.at = "begun", !.up = up,
                                !.row = [application EXCEPT !.health = "unknown"],
                                !.asof = [i \in Instances |-> instance[i].success]]
    BY <1>4 DEF PollBegins
  <2> DEFINE asRead == [application EXCEPT !.health = "unknown"]
             ages == [i \in Instances |-> instance[i].success]
  <2> HIDE DEF asRead, ages
  <2>3. poll' = [at |-> "begun", age |-> Idle.age, up |-> up, row |-> asRead,
                 todo |-> Idle.todo, asof |-> ages, read |-> Idle.read, states |-> Idle.states]
    BY <2>2 DEF Idle, asRead, ages
  <2>4. poll'.read = Idle.read /\ poll'.age = Idle.age /\ poll'.at # "idle"
        /\ poll' = [at |-> poll'.at, age |-> poll'.age, up |-> poll'.up, row |-> poll'.row,
                    todo |-> poll'.todo, asof |-> poll'.asof, read |-> poll'.read, states |-> poll'.states]
    BY <2>3
  <2>5. Earned(poll.read)' /\ poll'.age \in Ages
    BY <1>1, <2>1, <2>4 DEF Earned
  <2>6. QED BY <1>1, <2>4, <2>5 DEF HealthyInv
<1>5. CASE PollReads
  <2> DEFINE enabled == {i \in Instances : instance[i].there /\ instance[i].enabled}
             rd == [i \in Instances |-> IF i \in enabled
                                        THEN [instance[i] EXCEPT !.health = Floored(i)]
                                        ELSE NoInstance]
             ages == Idle.asof
  <2>1. poll' = [poll EXCEPT !.at = "checking", !.todo = enabled, !.asof = ages, !.read = rd]
    BY <1>5 DEF PollReads
  <2>2. Earned(rd)
    <3>1. ASSUME NEW i \in Instances
          PROVE  Shaped(rd[i]) /\ rd[i].success \in {instance[i].success, Never}
      <4> DEFINE old == instance[i]
                 h == Floored(i)
      <4>1. Shaped(old)
        BY DEF HealthyInv, Earned
      <4>2. rd[i] = [old EXCEPT !.health = h] \/ rd[i] = NoInstance
        OBVIOUS
      <4>3. rd[i] = [old EXCEPT !.health = h]
            => Shaped(rd[i]) /\ rd[i].success = instance[i].success
        <5> DEFINE rowRead == rd[i]
        <5> HIDE DEF h, rd, enabled
        <5>1. QED BY <4>1 DEF Shaped
      <4>4. QED BY <4>2, <4>3, NeverIsEarned
    <3>2. \A i \in Instances \ unearned : confirmed[i] <= rd[i].success /\ rd[i].success \in Ages
      <4> HIDE DEF rd, enabled
      <4>1. QED BY <3>1, NeverIsEarned DEF HealthyInv, Earned
    <3>2a. \A i \in Instances : rd[i].success \in Ages
      <4> HIDE DEF rd, enabled
      <4>1. QED BY <3>1, NeverIsEarned DEF HealthyInv, Earned
    <3> HIDE DEF enabled
    <3>3. rd = [i \in Instances |-> rd[i]]
      OBVIOUS
    <3> HIDE DEF rd
    <3>4. QED BY <3>1, <3>2, <3>2a, <3>3 DEF Earned
  <2> HIDE DEF enabled, rd, ages
  <2>3. poll' = [at |-> "checking", age |-> poll.age, up |-> poll.up, row |-> poll.row,
                 todo |-> enabled, asof |-> ages, read |-> rd, states |-> poll.states]
    BY <2>1 DEF HealthyInv
  <2>4. poll'.read = rd /\ poll'.age = poll.age /\ poll'.at # "idle"
        /\ poll' = [at |-> poll'.at, age |-> poll'.age, up |-> poll'.up, row |-> poll'.row,
                    todo |-> poll'.todo, asof |-> poll'.asof, read |-> poll'.read, states |-> poll'.states]
    BY <2>3
  <2>5. Earned(poll.read)'
    BY <1>1, <2>2, <2>4 DEF Earned
  <2>6. QED BY <1>1, <2>4, <2>5 DEF HealthyInv
<1>6. QED BY <1>2, <1>3, <1>4, <1>5

(* One row that is written anew or keeps its success leaves all earned.    *)
LEMMA RowsInv ==
  ASSUME HealthyInv, unearned' = unearned, UNCHANGED confirmed, NEW i \in Instances,
         NEW row_, instance' = [instance EXCEPT ![i] = row_], Shaped(row_),
         row_.success \in {instance[i].success, Never}
  PROVE  Earned(instance)'
<1>1. \A j \in Instances : instance'[j] = IF j = i THEN row_ ELSE instance[j]
  BY DEF HealthyInv, Earned
<1>2. instance' = [j \in Instances |-> instance'[j]]
  BY DEF HealthyInv, Earned
<1>3. \A j \in Instances : Shaped(instance'[j]) /\ instance'[j].success \in Ages
  BY <1>1, NeverIsEarned DEF HealthyInv, Earned
<1>4. \A j \in Instances \ unearned : confirmed[j] <= instance'[j].success
  BY <1>1, NeverIsEarned DEF HealthyInv, Earned
<1>5. QED BY <1>2, <1>3, <1>4 DEF Earned

(* Time takes the successes along with the checks that found health.       *)
LEMMA OlderKeeps ==
  ASSUME NEW a \in Ages, NEW b \in Ages
  PROVE  Older(a) \in Ages /\ (a <= b => Older(a) <= Older(b))
BY DEF Older, Ages, Never

LEMMA PassesEarned ==
  ASSUME NEW rows_, NEW aged, Earned(rows_), confirmed \in [Instances -> Ages],
         unearned' = unearned, confirmed' = [i \in Instances |-> Older(confirmed[i])],
         aged = [i \in Instances |-> [rows_[i] EXCEPT !.success = Older(@)]]
  PROVE  /\ aged = [i \in Instances |-> aged[i]]
         /\ \A i \in Instances : Shaped(aged[i]) /\ aged[i].success \in Ages
         /\ \A i \in Instances \ unearned : confirmed'[i] <= aged[i].success
<1>1. ASSUME NEW i \in Instances
      PROVE  Shaped(aged[i]) /\ aged[i].success = Older(rows_[i].success)
  <2>1. Shaped(rows_[i]) /\ aged[i] = [rows_[i] EXCEPT !.success = Older(rows_[i].success)]
    BY DEF Earned
  <2>2. QED BY <2>1 DEF Shaped
<1>2. \A i \in Instances : rows_[i].success \in Ages /\ confirmed[i] \in Ages
  BY DEF Earned
<1>3. \A i \in Instances : aged[i].success \in Ages
  BY <1>1, <1>2, OlderKeeps
<1>4. ASSUME NEW i \in Instances \ unearned PROVE confirmed'[i] <= aged[i].success
  <2>1. confirmed[i] <= rows_[i].success
    BY DEF Earned
  <2>2. confirmed'[i] = Older(confirmed[i])
    OBVIOUS
  <2>3. QED BY <1>1, <1>2, <2>1, <2>2, OlderKeeps
<1>5. aged = [i \in Instances |-> aged[i]]
  OBVIOUS
<1>6. QED BY <1>1, <1>3, <1>4, <1>5

LEMMA PassesInv == ASSUME HealthyInv, FreshnessPasses PROVE HealthyInv'
<1>1. /\ unearned' = unearned
      /\ instance' = [i \in Instances |-> [instance[i] EXCEPT !.success = Older(@)]]
      /\ confirmed' = [i \in Instances |-> Older(confirmed[i])]
  BY DEF FreshnessPasses
<1>2. confirmed \in [Instances -> Ages] /\ Earned(instance) /\ Earned(poll.read)
  BY DEF HealthyInv
<1>3. confirmed' \in [Instances -> Ages]
  BY <1>1, <1>2, OlderKeeps
<1>4. Earned(instance)'
  BY <1>1, <1>2, PassesEarned DEF Earned
<1>5. CASE poll.at = "idle"
  <2>1. poll' = poll
    BY <1>5 DEF FreshnessPasses
  <2>2. UNCHANGED poll
    BY <2>1
  <2>3. poll' = Idle
    BY <1>5, <2>1 DEF HealthyInv
  <2>4. /\ Idle.read = [i \in Instances |-> Idle.read[i]]
        /\ \A i \in Instances : Shaped(Idle.read[i]) /\ Idle.read[i].success = Never
    BY NeverIsEarned DEF Idle
  <2>5. Earned(poll.read)'
    BY <1>3, <2>3, <2>4, NeverIsEarned DEF Earned
  <2>6. QED BY <1>3, <1>4, <2>2, <2>3, <2>5 DEF HealthyInv
<1>6. CASE poll.at # "idle"
  <2> DEFINE since == Older(poll.age)
             taken == [i \in Instances |-> [poll.read[i] EXCEPT !.success = Older(@)]]
  <2>1. poll' = [poll EXCEPT !.age = since, !.read = taken]
    BY <1>6 DEF FreshnessPasses
  <2>2. since \in Ages
    BY OlderKeeps DEF HealthyInv
  <2>3. /\ taken = [i \in Instances |-> taken[i]]
        /\ \A i \in Instances : Shaped(taken[i]) /\ taken[i].success \in Ages
        /\ \A i \in Instances \ unearned : confirmed'[i] <= taken[i].success
    BY <1>1, <1>2, PassesEarned
  <2> HIDE DEF since, taken
  <2>4. poll' = [at |-> poll.at, age |-> since, up |-> poll.up, row |-> poll.row,
                 todo |-> poll.todo, asof |-> poll.asof, read |-> taken, states |-> poll.states]
    BY <2>1 DEF HealthyInv
  <2>5. poll'.read = taken /\ poll'.age = since /\ poll'.at # "idle"
        /\ poll' = [at |-> poll'.at, age |-> poll'.age, up |-> poll'.up, row |-> poll'.row,
                    todo |-> poll'.todo, asof |-> poll'.asof, read |-> poll'.read, states |-> poll'.states]
    BY <1>6, <2>4
  <2>6. Earned(poll.read)'
    BY <1>1, <2>3, <2>5 DEF Earned
  <2>7. QED BY <1>3, <1>4, <2>2, <2>5, <2>6 DEF HealthyInv
<1>7. QED BY <1>5, <1>6

LEMMA HealthyNextInv == HealthyInv /\ [ApplicationsNext]_applicationVars => HealthyInv'
<1> SUFFICES ASSUME HealthyInv, [ApplicationsNext]_applicationVars PROVE HealthyInv'
  OBVIOUS
<1>1. CASE UNCHANGED applicationVars
  BY <1>1 DEF applicationVars, HealthyInv, Earned
<1>2. ASSUME ApplicationsNext PROVE HealthyInv'
  <2>1. ASSUME UNCHANGED <<instance, confirmed, unearned>> PROVE Earned(instance)'
    BY <2>1 DEF HealthyInv, Earned
  <2>2. CASE PollBegins \/ PollReads
    <3>1. UNCHANGED <<instance, confirmed, unearned>>
      BY <2>2 DEF PollBegins, PollReads
    <3>2. QED BY <2>1, <2>2, <3>1, OthersInv
  <2>3. CASE RollUp \/ PollRestarts
    <3>1. UNCHANGED <<instance, confirmed, unearned>> /\ poll' = Idle
      BY <2>3 DEF RollUp, PollRestarts
    <3>2. QED BY <2>1, <3>1, OthersInv
  <2>4. ASSUME NEW i \in Instances, NEW first \in Sights, NEW second \in Sights,
               Check(i, first, second)
        PROVE  HealthyInv'
    BY <2>4, CheckInv
  <2>5. CASE \/ \E lifecycle \in {"active", "retired"}, criticality \in {"standard", "critical"},
                   strategy \in Strategies \ {"inherited"} :
                    EditApplication(lifecycle, criticality, strategy)
             \/ ArchiveApplication \/ RestoreApplication
    <3>1. UNCHANGED <<instance, confirmed, unearned, poll>>
      BY <2>5 DEF EditApplication, ArchiveApplication, RestoreApplication, Request
    <3>2. QED BY <2>1, <3>1, OthersInv
  <2>6. ASSUME NEW i \in Instances, NEW strategy \in Strategies, AddInstance(i, strategy)
        PROVE  HealthyInv'
    <3> DEFINE row_ == [NewInstance EXCEPT !.strategy = strategy]
    <3>1. UNCHANGED <<confirmed, unearned, poll>> /\ instance' = [instance EXCEPT ![i] = row_]
      BY <2>6 DEF AddInstance, Request
    <3>2. Shaped(row_) /\ row_.success = Never
      <4> DEFINE base == NewInstance
      <4>1. base = [there |-> TRUE, enabled |-> TRUE, critical |-> FALSE,
                    strategy |-> "inherited", health |-> "unknown", success |-> Never]
        BY DEF NewInstance
      <4>2. row_ = [base EXCEPT !.strategy = strategy]
        OBVIOUS
      <4> HIDE DEF base, row_
      <4>3. row_ = [there |-> TRUE, enabled |-> TRUE, critical |-> FALSE,
                    strategy |-> strategy, health |-> "unknown", success |-> Never]
        BY <4>1, <4>2
      <4>4. QED BY <4>3 DEF Shaped
    <3> HIDE DEF row_
    <3>3. Earned(instance)'
      BY <3>1, <3>2, RowsInv
    <3>4. QED BY <3>1, <3>3, OthersInv
  <2>7. ASSUME NEW i \in Instances, DeleteInstance(i) PROVE HealthyInv'
    <3>1. UNCHANGED <<confirmed, unearned, poll>> /\ instance' = [instance EXCEPT ![i] = NoInstance]
      BY <2>7 DEF DeleteInstance, Request
    <3>2. Earned(instance)'
      BY <3>1, RowsInv, NeverIsEarned
    <3>3. QED BY <3>1, <3>2, OthersInv
  <2>8. ASSUME NEW i \in Instances, NEW enabled \in BOOLEAN, NEW critical \in BOOLEAN,
               NEW strategy \in Strategies, UpdateInstance(i, enabled, critical, strategy)
        PROVE  HealthyInv'
    <3> DEFINE old == instance[i]
               written == [old EXCEPT !.enabled = enabled, !.critical = critical,
                                      !.strategy = strategy]
    <3>1. UNCHANGED <<confirmed, unearned, poll>> /\ instance' = [instance EXCEPT ![i] = written]
      BY <2>8 DEF UpdateInstance, Request
    <3>2. Shaped(old) /\ written = [old EXCEPT !.enabled = enabled, !.critical = critical,
                                              !.strategy = strategy]
      BY DEF HealthyInv, Earned
    <3> HIDE DEF written, old
    <3>3. written = [there |-> old.there, enabled |-> enabled, critical |-> critical,
                     strategy |-> strategy, health |-> old.health, success |-> old.success]
      BY <3>2 DEF Shaped
    <3>4. Shaped(written) /\ written.success = instance[i].success
      BY <3>3 DEF Shaped, old
    <3>5. Earned(instance)'
      BY <3>1, <3>4, RowsInv
    <3>6. QED BY <3>1, <3>5, OthersInv
  <2>9. CASE FreshnessPasses
    BY <2>9, PassesInv
  <2>10. QED BY <1>2, <2>2, <2>3, <2>4, <2>5, <2>6, <2>7, <2>8, <2>9 DEF ApplicationsNext
<1>3. QED BY <1>1, <1>2

(* Silence ranks after health: what is not fresh does not show healthy.    *)
LEMMA SilenceRanks == Rank("healthy") < Rank("unknown") /\ Rank("healthy") < Rank("stale")
<1>1. DOMAIN HealthStates = 1..8
  BY DEF HealthStates
<1>2. \A k \in 1..8 : /\ HealthStates[k] = "healthy" <=> k = 1
                      /\ HealthStates[k] = "unknown" <=> k = 3
                      /\ HealthStates[k] = "stale" <=> k = 4
  BY DEF HealthStates
<1>3. Rank("healthy") = 1
  BY <1>1, <1>2 DEF Rank
<1>4. Rank("unknown") = 3
  BY <1>1, <1>2 DEF Rank
<1>5. Rank("stale") = 4
  BY <1>1, <1>2 DEF Rank
<1>6. QED BY <1>3, <1>4, <1>5

LEMMA HealthyInvRecent == HealthyInv => HealthyIsRecent
<1> SUFFICES ASSUME HealthyInv, NEW i \in Instances \ unearned,
                    instance[i].there, DisplayedHealth(i) = "healthy"
             PROVE  confirmed[i] < Floor
  BY DEF HealthyIsRecent
<1>1. Implied(instance[i].success) \in {"unknown", "stale", "healthy"}
  BY DEF Implied, FreshState
<1>2. Implied(instance[i].success) = "healthy"
  BY <1>1, SilenceRanks DEF DisplayedHealth
<1>3. instance[i].success \in Nat /\ instance[i].success < Floor
  BY <1>2, NeverIsEarned DEF Implied, FreshState, HealthyInv, Earned
<1>4. confirmed[i] \in Nat /\ confirmed[i] <= instance[i].success
  BY NeverIsEarned DEF HealthyInv, Earned
<1>5. QED BY <1>3, <1>4

(* ApplicationHealthService: an instance that shows healthy was found so   *)
(* within the floor, unless a composite strategy made its last success of  *)
(* a child that could not tell; for any number of instances, edits of      *)
(* strategies and other requests of operators, restarts and polls, however *)
(* slow.                                                                   *)
THEOREM HealthIsEarned == Spec => []HealthyIsRecent
<1>1. Init => HealthyInv
  BY HealthyInitInv DEF Init
<1>2. HealthyInv /\ [Next]_vars => HealthyInv'
  BY Apart, HealthyNextInv
<1>3. QED BY <1>1, <1>2, HealthyInvRecent, PTL DEF Spec

-----------------------------------------------------------------------------
(* The registries: a name is taken once.                                   *)
USE RegistryAssumption

RegistryInv == RegistryTypeOK /\ OneIdentity

LEMMA RegistryInitInv == RegistryInit => RegistryInv
BY DEF RegistryInit, RegistryInv, RegistryTypeOK, OneIdentity, NoRequest, Operations, Lifecycles,
       Memberships

LEMMA RequestsTyped ==
  ASSUME RegistryInv, NEW t \in Threads, NEW q,
         q \in [op : Operations \cup {"none"}, found : BOOLEAN,
                lifecycle : Lifecycles \cup {"archived"}, member : Memberships],
         request' = [request EXCEPT ![t] = q]
  PROVE  request' \in [Threads -> [op : Operations \cup {"none"}, found : BOOLEAN,
                                   lifecycle : Lifecycles \cup {"archived"}, member : Memberships]]
BY DEF RegistryInv, RegistryTypeOK

LEMMA LooksInv ==
  ASSUME RegistryInv, NEW t \in Threads, NEW op \in Operations, Look(t, op) PROVE RegistryInv'
<1> DEFINE q == [op |-> op, found |-> rows > 0, lifecycle |-> record.lifecycle, member |-> membership]
<1>1. /\ request' = [request EXCEPT ![t] = q] /\ asked' = [asked EXCEPT ![t] = @ + 1]
      /\ asked[t] < MaxRequests /\ UNCHANGED <<registry, rows, record, membership>>
  BY DEF Look
<1>2. q \in [op : Operations \cup {"none"}, found : BOOLEAN,
             lifecycle : Lifecycles \cup {"archived"}, member : Memberships]
  BY DEF RegistryInv, RegistryTypeOK
<1> HIDE DEF q
<1>3. request' \in [Threads -> [op : Operations \cup {"none"}, found : BOOLEAN,
                                lifecycle : Lifecycles \cup {"archived"}, member : Memberships]]
  BY <1>1, <1>2, RequestsTyped
<1>4. asked' \in [Threads -> 0..MaxRequests]
  BY <1>1 DEF RegistryInv, RegistryTypeOK
<1>5. QED BY <1>1, <1>3, <1>4 DEF RegistryInv, RegistryTypeOK, OneIdentity

(* A request that ends leaves one row at most, and a row of the registry.  *)
LEMMA EndsInv ==
  ASSUME RegistryInv, NEW t \in Threads, UNCHANGED <<registry, asked>>,
         request' = [request EXCEPT ![t] = NoRequest],
         rows' \in {rows, 1}, membership' \in Memberships,
         record' \in [lifecycle : Lifecycles \cup {"archived"}, stamped : BOOLEAN]
  PROVE  RegistryInv'
<1>1. NoRequest \in [op : Operations \cup {"none"}, found : BOOLEAN,
                     lifecycle : Lifecycles \cup {"archived"}, member : Memberships]
  BY DEF NoRequest, Lifecycles, Memberships
<1>2. QED BY <1>1, RequestsTyped DEF RegistryInv, RegistryTypeOK, OneIdentity

LEMMA CreatesInv ==
  ASSUME RegistryInv, NEW t \in Threads, NEW of, NEW lifecycle \in Lifecycles,
         Creates(t, of, lifecycle)
  PROVE  RegistryInv'
<1>1. /\ \/ rows' = rows /\ record' = record
         \/ rows' = 1 /\ record' = [lifecycle |-> lifecycle, stamped |-> FALSE]
      /\ UNCHANGED <<registry, asked, membership>>
      /\ request' = [request EXCEPT ![t] = NoRequest]
  BY DEF Creates, Ends, Insert
<1>2. record' \in [lifecycle : Lifecycles \cup {"archived"}, stamped : BOOLEAN]
  <2>1. record \in [lifecycle : Lifecycles \cup {"archived"}, stamped : BOOLEAN]
    BY DEF RegistryInv, RegistryTypeOK
  <2>2. [lifecycle |-> lifecycle, stamped |-> FALSE]
            \in [lifecycle : Lifecycles \cup {"archived"}, stamped : BOOLEAN]
    OBVIOUS
  <2>3. QED BY <1>1, <2>1, <2>2
<1>3. rows' \in {rows, 1} /\ membership' \in Memberships
  BY <1>1 DEF RegistryInv, RegistryTypeOK
<1>4. QED BY <1>1, <1>2, <1>3, EndsInv

LEMMA WritesInv ==
  ASSUME RegistryInv, NEW t \in Threads, NEW of, NEW op, NEW allowed \in BOOLEAN,
         NEW new \in [lifecycle : Lifecycles \cup {"archived"}, stamped : BOOLEAN],
         Writes(t, of, op, allowed, new)
  PROVE  RegistryInv'
<1>1. /\ record' \in {record, new} /\ UNCHANGED <<registry, asked, rows, membership>>
      /\ request' = [request EXCEPT ![t] = NoRequest]
  BY DEF Writes, Ends
<1>2. QED BY <1>1, EndsInv DEF RegistryInv, RegistryTypeOK

LEMMA RegistryNextInv == RegistryInv /\ [RegistryNext]_registryVars => RegistryInv'
<1> SUFFICES ASSUME RegistryInv, [RegistryNext]_registryVars PROVE RegistryInv'
  OBVIOUS
<1>1. CASE UNCHANGED registryVars
  BY <1>1 DEF registryVars, RegistryInv, RegistryTypeOK, OneIdentity
<1>2. ASSUME NEW t \in Threads, NEW lifecycle \in {"planned", "active"},
             \/ CreateProject(t, lifecycle) \/ CreateRepository(t, lifecycle)
             \/ DiscoverRepository(t)
      PROVE  RegistryInv'
  BY <1>2, CreatesInv DEF CreateProject, CreateRepository, DiscoverRepository, Lifecycles
<1>3. ASSUME NEW t \in Threads, NEW lifecycle \in {"planned", "active"},
             EditProject(t, lifecycle) \/ EditRepository(t, lifecycle)
      PROVE  RegistryInv'
  <2> DEFINE new == [record EXCEPT !.lifecycle = lifecycle]
  <2>1. new \in [lifecycle : Lifecycles \cup {"archived"}, stamped : BOOLEAN]
    BY DEF RegistryInv, RegistryTypeOK, Lifecycles
  <2>2. Writable(t) \in BOOLEAN
    BY DEF Writable, RegistryInv, RegistryTypeOK
  <2>3. Writes(t, "project", "edit", Writable(t), new)
        \/ Writes(t, "repository", "edit", Writable(t), new)
    BY <1>3 DEF EditProject, EditRepository
  <2> HIDE DEF new
  <2>4. QED BY <2>1, <2>2, <2>3, WritesInv
<1>4. ASSUME NEW t \in Threads,
             ArchiveProject(t) \/ ArchiveRepository(t) \/ RestoreProject(t) \/ RestoreRepository(t)
      PROVE  RegistryInv'
  <2>1. /\ Archived \in [lifecycle : Lifecycles \cup {"archived"}, stamped : BOOLEAN]
        /\ Restored("retired") \in [lifecycle : Lifecycles \cup {"archived"}, stamped : BOOLEAN]
        /\ Restored("active") \in [lifecycle : Lifecycles \cup {"archived"}, stamped : BOOLEAN]
    BY DEF Archived, Restored, Lifecycles
  <2>2. Writable(t) \in BOOLEAN /\ Shelved(t) \in BOOLEAN
    BY DEF Writable, Shelved, RegistryInv, RegistryTypeOK
  <2>3. QED BY <1>4, <2>1, <2>2, WritesInv DEF ArchiveProject, ArchiveRepository, RestoreProject,
               RestoreRepository
<1>5. ASSUME NEW t \in Threads, AddMember(t) \/ RemoveMember(t) PROVE RegistryInv'
  <2>1. /\ membership' \in Memberships /\ UNCHANGED <<registry, asked, rows, record>>
        /\ request' = [request EXCEPT ![t] = NoRequest]
    BY <1>5 DEF AddMember, RemoveMember, Ends, RegistryInv, RegistryTypeOK, Memberships
  <2>2. QED BY <2>1, EndsInv DEF RegistryInv, RegistryTypeOK
<1>6. QED BY <1>1, <1>2, <1>3, <1>4, <1>5, LooksInv DEF RegistryNext

(* Registries: however many requests and discoveries read that a name is   *)
(* free before any of them writes, there are never two rows of it.         *)
THEOREM OneName == Spec => []OneIdentity
<1>1. Init => RegistryInv
  BY RegistryInitInv DEF Init
<1>2. RegistryInv /\ [Next]_vars => RegistryInv'
  BY Apart, RegistryNextInv
<1>3. RegistryInv => OneIdentity
  BY DEF RegistryInv
<1>4. QED BY <1>1, <1>2, <1>3, PTL DEF Spec

-----------------------------------------------------------------------------
(* The inventories: what was learnt is kept.                               *)
USE InventoriesAssumption DEF Silence, NoRow, Resting

Known == Facts \cup {"silent"}
Told  == [at : 0..MaxNow, fact : Known]
Verdict == Facts \cup {"unknown", "stale", "clean", "drifted", "current"}
Row   == [there : BOOLEAN, fact : Known, at : 0..MaxNow, seen : 0..MaxNow, verdict : Verdict,
          linked : BOOLEAN]

(* What is told is told at a time; a scan of a venv always tells.          *)
ToldOk(o) == /\ o \in Told
             /\ o.fact # "silent" => o.at > 0
             /\ kind = "venv" => o = Silence \/ o.fact \in Facts

Passes == [at : {"idle", "collected", "applied", "read"}, time : 0..MaxNow,
           seen : Told, read : Row, want : Known]

(* Nothing is known of an object without a row.                            *)
InventoryInv == /\ kind \in Kinds /\ now \in 1..MaxNow /\ truth \in Facts
                /\ reported \in [Sources -> Told] /\ \A s \in Sources : ToldOk(reported[s])
                /\ desired \in Known /\ reports \in 0..MaxReports
                /\ row \in Row /\ (~row.there => row.fact = "silent" /\ row.at = 0)
                /\ pass \in Passes /\ ToldOk(pass.seen)

LEMMA InventoryTyped == InventoryInv => InventoriesTypeOK
BY DEF InventoryInv, InventoriesTypeOK, Known, Told, Row, Verdict, Passes

LEMMA SilenceTold == ToldOk(Silence) /\ Silence \in Told /\ NoRow \in Row
BY DEF ToldOk, Told, Known, Row, Verdict

LEMMA InventoryInitInv == InventoriesInit => InventoryInv
BY SilenceTold DEF InventoriesInit, InventoryInv, Passes, Known

(* What merging keeps: the time, the type, and that what is told has one.  *)
LEMMA MergeTold ==
  ASSUME NEW m, ToldOk(m), NEW o, ToldOk(o) PROVE ToldOk(Merge(m, o))
<1>1. m \in Told /\ o \in Told
  BY DEF ToldOk
<1>2. CASE o.at = 0 \/ o.at < m.at
  BY <1>2 DEF Merge
<1>3. CASE ~(o.at = 0 \/ o.at < m.at) /\ m.at = 0
  BY <1>3 DEF Merge
<1>4. CASE ~(o.at = 0 \/ o.at < m.at) /\ m.at # 0
  <2>1. m.fact \in Known /\ o.fact \in Known /\ m.at \in 0..MaxNow /\ o.at \in 0..MaxNow
    BY <1>1 DEF Told
  <2>2. /\ o.at > 0 /\ m.at > 0
        /\ kind = "venv" => m.fact \in Facts /\ o.fact \in Facts
    BY <2>1, <1>4 DEF ToldOk
  <2>3. CASE o.at > m.at
    <3>1. CASE o.fact = "silent"
      <4>1. Merge(m, o) = [o EXCEPT !.fact = m.fact]
        BY <1>4, <2>3, <3>1 DEF Merge
      <4>2. QED BY <4>1, <1>1, <2>1, <2>2 DEF ToldOk, Told
    <3>2. CASE o.fact # "silent"
      <4>1. Merge(m, o) = [o EXCEPT !.fact = o.fact]
        BY <1>4, <2>3, <3>2 DEF Merge
      <4>2. QED BY <4>1, <1>1, <2>1, <2>2 DEF ToldOk, Told
    <3>3. QED BY <3>1, <3>2
  <2>4. CASE ~(o.at > m.at)
    <3>1. CASE m.fact = "silent"
      <4>1. Merge(m, o) = [m EXCEPT !.fact = o.fact]
        BY <1>4, <2>4, <3>1 DEF Merge
      <4>2. QED BY <4>1, <1>1, <2>1, <2>2 DEF ToldOk, Told
    <3>2. CASE m.fact # "silent"
      <4>1. Merge(m, o) = [m EXCEPT !.fact = m.fact]
        BY <1>4, <2>4, <3>2 DEF Merge
      <4>2. QED BY <4>1, <1>1, <2>1, <2>2 DEF ToldOk, Told
    <3>3. QED BY <3>1, <3>2
  <2>5. QED BY <2>3, <2>4
<1>5. QED BY <1>2, <1>3, <1>4

(* A state is derived from a row and is a state.                           *)
LEMMA DerivedTyped ==
  ASSUME kind \in Kinds, NEW r \in Row, NEW want, NEW when
  PROVE  Derived(kind, r, want, when) \in Verdict
<1>1. r.verdict \in Verdict
  BY DEF Row
<1>2. CASE kind = "deployment"
  BY <1>2 DEF Derived, DerivedDeployment, Verdict
<1>3. CASE kind = "component"
  BY <1>3 DEF Derived, DerivedComponent, Verdict
<1>4. CASE kind = "venv"
  BY <1>1, <1>4 DEF Derived, DerivedVenv, Verdict
<1>5. QED BY <1>2, <1>3, <1>4 DEF Kinds

(* What an observation does to a row: it is learnt, or at most confirmed.  *)
Holds(r, s) == /\ s \in Row /\ s.at >= r.at
               /\ s.fact = r.fact \/ (s.fact \in Facts /\ s.at > 0)
               /\ ~s.there => s.fact = "silent" /\ s.at = 0

LEMMA DeploymentKept ==
  ASSUME NEW r \in Row, ~r.there => r.fact = "silent" /\ r.at = 0, NEW o, ToldOk(o), NEW claims
  PROVE  Holds(r, UpsertedDeployment(r, o, claims))
<1>1. /\ o.at \in 0..MaxNow /\ o.fact \in Known /\ (o.fact # "silent" => o.at > 0 /\ o.fact \in Facts)
  BY DEF ToldOk, Told, Known
<1>2. /\ r.at \in 0..MaxNow /\ r.seen \in 0..MaxNow /\ r.fact \in Known /\ r.verdict \in Verdict
      /\ r.linked \in BOOLEAN /\ r.there \in BOOLEAN
  BY DEF Row
<1> DEFINE at == IF o.fact = "silent" THEN 0 ELSE o.at
           seen == IF o.at > r.seen THEN o.at ELSE r.seen
           revision == o.fact # "silent" /\ o.at >= r.at
           later == IF revision THEN o.at ELSE r.at
           fact == IF revision THEN o.fact ELSE r.fact
<1>3. CASE ~r.there
  <2>1. UpsertedDeployment(r, o, claims)
          = [there |-> TRUE, fact |-> o.fact, at |-> at, seen |-> o.at, verdict |-> r.verdict,
             linked |-> ApplicationLink(claims)]
    BY <1>3 DEF UpsertedDeployment, Row
  <2>2. at \in 0..MaxNow /\ at >= r.at
    BY <1>1, <1>2, <1>3
  <2>3. o.fact = r.fact \/ (o.fact \in Facts /\ at > 0)
    BY <1>1, <1>3
  <2>4. ApplicationLink(claims) \in BOOLEAN
    BY DEF ApplicationLink
  <2> HIDE DEF at
  <2>5. QED BY <2>1, <2>2, <2>3, <2>4, <1>1, <1>2 DEF Holds, Row
<1>4. CASE r.there
  <2>1. UpsertedDeployment(r, o, claims)
          = [there |-> r.there, fact |-> fact, at |-> later, seen |-> seen, verdict |-> r.verdict,
             linked |-> r.linked]
    BY <1>4 DEF UpsertedDeployment, Row
  <2>2. later \in 0..MaxNow /\ later >= r.at /\ seen \in 0..MaxNow
    BY <1>1, <1>2
  <2>3. fact \in Known /\ (fact = r.fact \/ (fact \in Facts /\ later > 0))
    BY <1>1, <1>2
  <2> HIDE DEF later, fact, seen
  <2>4. QED BY <2>1, <2>2, <2>3, <1>2, <1>4 DEF Holds, Row
<1>5. QED BY <1>3, <1>4, <1>2

LEMMA ComponentKept ==
  ASSUME NEW r \in Row, ~r.there => r.fact = "silent" /\ r.at = 0, NEW o, ToldOk(o)
  PROVE  Holds(r, UpsertedComponent(r, o))
<1>1. /\ o.at \in 0..MaxNow /\ o.fact \in Known /\ (o.fact # "silent" => o.at > 0 /\ o.fact \in Facts)
  BY DEF ToldOk, Told, Known
<1>2. /\ r.at \in 0..MaxNow /\ r.seen \in 0..MaxNow /\ r.fact \in Known /\ r.verdict \in Verdict
      /\ r.linked \in BOOLEAN /\ r.there \in BOOLEAN
  BY DEF Row
<1> DEFINE fact == IF o.fact = "silent" THEN r.fact ELSE o.fact
<1>3. CASE o.at < r.at
  BY <1>2, <1>3 DEF UpsertedComponent, Holds
<1>4. CASE ~(o.at < r.at)
  <2>1. UpsertedComponent(r, o)
          = [there |-> TRUE, fact |-> fact, at |-> o.at, seen |-> r.seen, verdict |-> r.verdict,
             linked |-> r.linked]
    BY <1>4 DEF UpsertedComponent, Row
  <2>2. fact \in Known /\ (fact = r.fact \/ (fact \in Facts /\ o.at > 0))
    BY <1>1, <1>2
  <2> HIDE DEF fact
  <2>3. QED BY <2>1, <2>2, <1>1, <1>2, <1>4 DEF Holds, Row
<1>5. QED BY <1>3, <1>4

LEMMA VenvKept ==
  ASSUME NEW r \in Row, ~r.there => r.fact = "silent" /\ r.at = 0,
         NEW o, ToldOk(o), o.fact \in Facts, NEW claims
  PROVE  Holds(r, UpsertedVenv(r, o, claims))
<1>1. o.at \in 0..MaxNow /\ o.at > 0 /\ o.fact \in Known /\ o.fact \in Verdict
  BY DEF ToldOk, Told, Known, Verdict
<1>2. /\ r.at \in 0..MaxNow /\ r.seen \in 0..MaxNow /\ r.fact \in Known /\ r.verdict \in Verdict
      /\ r.linked \in BOOLEAN /\ r.there \in BOOLEAN
  BY DEF Row
<1> DEFINE scanned == IF o.at < r.at THEN r
                      ELSE [r EXCEPT !.there = TRUE, !.at = o.at, !.fact = o.fact,
                                     !.verdict = o.fact]
<1>3. Holds(r, scanned)
  <2>1. CASE o.at < r.at
    BY <2>1, <1>2 DEF Holds
  <2>2. CASE ~(o.at < r.at)
    <3>1. scanned = [there |-> TRUE, fact |-> o.fact, at |-> o.at, seen |-> r.seen,
                     verdict |-> o.fact, linked |-> r.linked]
      BY <2>2 DEF Row
    <3> HIDE DEF scanned
    <3>2. QED BY <3>1, <2>2, <1>1, <1>2 DEF Holds, Row
  <2>3. QED BY <2>1, <2>2
<1>4. UpsertedVenv(r, o, claims) = [scanned EXCEPT !.linked = scanned.linked \/ claims > 0]
  BY DEF UpsertedVenv
<1> HIDE DEF scanned
<1>5. (scanned.linked \/ claims > 0) \in BOOLEAN
  BY Zenon
<1>6. QED BY <1>3, <1>4, <1>5 DEF Holds, Row

LEMMA UpsertedKept ==
  ASSUME InventoryInv, NEW o, ToldOk(o), o # Silence, NEW claims
  PROVE  Holds(row, Upserted(kind, row, o, claims))
<1>1. row \in Row /\ (~row.there => row.fact = "silent" /\ row.at = 0) /\ kind \in Kinds
  BY DEF InventoryInv
<1>2. CASE kind = "deployment"
  BY <1>1, <1>2, DeploymentKept DEF Upserted
<1>3. CASE kind = "component"
  BY <1>1, <1>3, ComponentKept DEF Upserted
<1>4. CASE kind = "venv"
  <2>1. o.fact \in Facts
    BY <1>4 DEF ToldOk
  <2>2. QED BY <2>1, <1>1, <1>4, VenvKept DEF Upserted
<1>5. QED BY <1>1, <1>2, <1>3, <1>4 DEF Kinds

(* What the states are derived from is not what they are written into.     *)
LEMMA JudgedKept ==
  ASSUME NEW r \in Row, NEW s, Holds(r, s), NEW v \in Verdict
  PROVE  Holds(r, [s EXCEPT !.verdict = v])
BY DEF Holds, Row

LEMMA AppliesKept ==
  ASSUME InventoryInv, RefreshApplies PROVE Holds(row, row')
<1>1. row \in Row /\ Holds(row, row) /\ kind \in Kinds /\ ToldOk(pass.seen)
  BY DEF InventoryInv, Holds, Row
<1>2. PICK claims \in 0..2, known \in BOOLEAN, derives \in BOOLEAN :
          row' = IF pass.seen = Silence \/ known THEN row
                 ELSE IF derives
                 THEN [Upserted(kind, row, pass.seen, claims) EXCEPT !.verdict =
                          Derived(kind, Upserted(kind, row, pass.seen, claims), desired, pass.time)]
                 ELSE Upserted(kind, row, pass.seen, claims)
  <2> DEFINE known == /\ kind = "deployment" /\ row.there /\ pass.seen.at < row.seen
                      /\ pass.seen.fact = "silent" \/ pass.seen.at < row.at
             derives == kind = "deployment" \/ (kind = "component" /\ ~row.there)
  <2>1. known \in BOOLEAN /\ derives \in BOOLEAN
    BY Zenon
  <2>2. PICK claims \in 0..2 :
          row' = IF pass.seen = Silence \/ known THEN row
                 ELSE IF derives
                 THEN [Upserted(kind, row, pass.seen, claims) EXCEPT !.verdict =
                          Derived(kind, Upserted(kind, row, pass.seen, claims), desired, pass.time)]
                 ELSE Upserted(kind, row, pass.seen, claims)
    BY DEF RefreshApplies
  <2> HIDE DEF known, derives
  <2>3. QED BY <2>1, <2>2
<1> DEFINE new == Upserted(kind, row, pass.seen, claims)
<1>3. CASE pass.seen = Silence \/ known
  BY <1>1, <1>2, <1>3
<1>4. CASE pass.seen # Silence /\ ~known
  <2>1. Holds(row, new) /\ new \in Row
    BY <1>1, <1>4, UpsertedKept DEF Holds
  <2> HIDE DEF new
  <2>2. Derived(kind, new, desired, pass.time) \in Verdict
    BY <1>1, <2>1, DerivedTyped
  <2>3. Holds(row, [new EXCEPT !.verdict = Derived(kind, new, desired, pass.time)])
    BY <1>1, <2>1, <2>2, JudgedKept
  <2>4. row' = new \/ row' = [new EXCEPT !.verdict = Derived(kind, new, desired, pass.time)]
    BY <1>2, <1>4 DEF new
  <2>5. QED BY <2>1, <2>3, <2>4
<1>5. QED BY <1>3, <1>4

LEMMA WritesKept ==
  ASSUME InventoryInv, RefreshWrites PROVE Holds(row, row')
<1>1. row \in Row /\ Holds(row, row) /\ kind \in Kinds
  BY DEF InventoryInv, Holds, Row
<1>2. pass.read \in Row
  BY DEF InventoryInv, Passes
<1>3. Derived(kind, pass.read, pass.want, pass.time) \in Verdict
  BY <1>1, <1>2, DerivedTyped
<1>4. row' = row \/ row' = [row EXCEPT !.verdict = Derived(kind, pass.read, pass.want, pass.time)]
  BY DEF RefreshWrites
<1>5. QED BY <1>1, <1>3, <1>4, JudgedKept

LEMMA SourceTells ==
  ASSUME InventoryInv, NEW s \in Sources, Report(s) PROVE InventoryInv'
<1>1. PICK fact \in ToldOf(s) : reported' = [reported EXCEPT ![s] = [at |-> now, fact |-> fact]]
  BY DEF Report
<1>2. kind \in Kinds /\ now \in 1..MaxNow /\ truth \in Facts /\ s \in SourcesOf(kind)
  BY DEF InventoryInv, Report
<1>3. fact \in Known /\ (kind = "venv" => fact \in Facts)
  BY <1>1, <1>2 DEF ToldOf, ToldOfDeployment, ToldOfComponent, ToldOfVenv, Known, Kinds, Sources
<1> DEFINE o == [at |-> now, fact |-> fact]
<1>4. ToldOk(o)
  BY <1>2, <1>3 DEF ToldOk, Told
<1> HIDE DEF o
<1>5. UNCHANGED <<kind, now, truth, desired, row, pass>> /\ reports' \in 0..MaxReports
  BY DEF InventoryInv, Report
<1>6. reported' \in [Sources -> Told] /\ (\A x \in Sources : ToldOk(reported'[x]))
  <2>1. reported' = [reported EXCEPT ![s] = o]
    BY <1>1 DEF o
  <2>2. o \in Told
    BY <1>4 DEF ToldOk
  <2>3. reported' \in [Sources -> Told]
    BY <2>1, <2>2 DEF InventoryInv
  <2>4. ASSUME NEW x \in Sources PROVE ToldOk(reported'[x])
    <3>1. reported'[x] = IF x = s THEN o ELSE reported[x]
      BY <2>1 DEF InventoryInv
    <3>2. QED BY <3>1, <1>4 DEF InventoryInv
  <2>5. QED BY <2>3, <2>4
<1>7. (\A x \in Sources : ToldOk(reported[x]))'
  BY <1>5, <1>6 DEF ToldOk
<1>8. ToldOk(pass.seen)'
  BY <1>5 DEF InventoryInv, ToldOk
<1>9. QED BY <1>5, <1>6, <1>7, <1>8 DEF InventoryInv

LEMMA SilenceFalls ==
  ASSUME InventoryInv, NEW s \in Sources, FallSilent(s) PROVE InventoryInv'
<1>1. /\ reported' = [reported EXCEPT ![s] = Silence]
      /\ UNCHANGED <<kind, now, truth, desired, row, pass, reports>>
  BY DEF FallSilent
<1>2. reported' \in [Sources -> Told] /\ \A x \in Sources : ToldOk(reported'[x])
  BY <1>1, SilenceTold DEF InventoryInv
<1>3. (\A x \in Sources : ToldOk(reported[x]))' /\ ToldOk(pass.seen)'
  BY <1>1, <1>2 DEF InventoryInv, ToldOk
<1>4. QED BY <1>1, <1>2, <1>3 DEF InventoryInv

LEMMA WorldChanges ==
  ASSUME InventoryInv, DeviceChanges \/ DesiredChanges \/ TimePasses PROVE InventoryInv'
<1>1. /\ UNCHANGED <<kind, reported, row, pass>>
      /\ truth' \in Facts /\ desired' \in Known /\ reports' \in 0..MaxReports
      /\ now' \in 1..MaxNow
  BY DEF DeviceChanges, DesiredChanges, TimePasses, InventoryInv, Known
<1>2. (\A s \in Sources : ToldOk(reported[s]))' /\ ToldOk(pass.seen)'
  BY <1>1 DEF InventoryInv, ToldOk
<1>3. QED BY <1>1, <1>2 DEF InventoryInv

(* The refresh thread moves on; what it writes holds what was known.       *)
LEMMA ThreadMoves ==
  ASSUME InventoryInv, UNCHANGED <<kind, now, truth, reported, desired>>,
         reports' \in 0..MaxReports, pass' \in Passes, ToldOk(pass'.seen), Holds(row, row')
  PROVE  InventoryInv'
<1>1. (\A s \in Sources : ToldOk(reported[s]))' /\ ToldOk(pass.seen)'
  BY DEF InventoryInv, ToldOk
<1>2. row' \in Row /\ (~row'.there => row'.fact = "silent" /\ row'.at = 0)
  BY DEF Holds
<1>3. QED BY <1>1, <1>2 DEF InventoryInv

LEMMA RestingFits == InventoryInv => Resting \in Passes /\ Holds(row, row)
<1> SUFFICES ASSUME InventoryInv PROVE Resting \in Passes /\ Holds(row, row)
  OBVIOUS
<1>1. Resting \in Passes
  BY SilenceTold DEF InventoryInv, Passes, Known
<1>2. Holds(row, row)
  BY DEF InventoryInv, Holds, Row
<1>3. QED BY <1>1, <1>2

LEMMA RefreshInv ==
  ASSUME InventoryInv, RefreshStep \/ RefreshRestarts PROVE InventoryInv'
<1>1. CASE RefreshCollects
  <2> DEFINE o == Merge(Merge(reported["live"], reported["job"]), reported["agent"])
  <2>1. ToldOk(o)
    BY MergeTold DEF InventoryInv, Sources
  <2>2. pass' = [at |-> "collected", time |-> now, seen |-> o, read |-> NoRow, want |-> "silent"]
    BY <1>1 DEF RefreshCollects
  <2> HIDE DEF o
  <2>3. pass' \in Passes /\ pass'.seen = o
    <3>1. o \in Told /\ NoRow \in Row /\ now \in 0..MaxNow /\ "silent" \in Known
      BY <2>1, SilenceTold DEF ToldOk, InventoryInv, Known
    <3> HIDE DEF NoRow
    <3>2. QED BY <2>2, <3>1 DEF Passes
  <2>4. QED BY <1>1, <2>1, <2>3, RestingFits, ThreadMoves DEF RefreshCollects, InventoryInv
<1>2. CASE RefreshApplies
  <2>1. pass' \in Passes /\ pass'.seen = pass.seen
    BY <1>2 DEF RefreshApplies, InventoryInv, Passes
  <2>2. QED BY <1>2, <2>1, AppliesKept, ThreadMoves DEF RefreshApplies, InventoryInv
<1>3. CASE RefreshReads
  <2>1. pass' \in Passes /\ pass'.seen = pass.seen
    BY <1>3 DEF RefreshReads, InventoryInv, Passes
  <2>2. QED BY <1>3, <2>1, RestingFits, ThreadMoves DEF RefreshReads, InventoryInv
<1>4. CASE RefreshWrites
  BY <1>4, RestingFits, SilenceTold, WritesKept, ThreadMoves DEF RefreshWrites, InventoryInv
<1>5. CASE RefreshRestarts
  BY <1>5, RestingFits, SilenceTold, ThreadMoves DEF RefreshRestarts, InventoryInv
<1>6. QED BY <1>1, <1>2, <1>3, <1>4, <1>5 DEF RefreshStep

LEMMA InventoryNextInv == InventoryInv /\ [InventoriesNext]_inventoryVars => InventoryInv'
<1>1. ASSUME InventoryInv, UNCHANGED inventoryVars PROVE InventoryInv'
  <2>1. (\A s \in Sources : ToldOk(reported[s]))' /\ ToldOk(pass.seen)'
    BY <1>1 DEF InventoryInv, ToldOk, inventoryVars
  <2>2. QED BY <1>1, <2>1 DEF InventoryInv, inventoryVars
<1>2. QED BY <1>1, SourceTells, SilenceFalls, WorldChanges, RefreshInv
        DEF InventoriesNext, RefreshStep

(* Every step learns, confirms, or leaves what is known alone.             *)
LEMMA NothingLost ==
  InventoryInv /\ [InventoriesNext]_inventoryVars => [Good!Next]_<<row.fact, row.at>>
<1> SUFFICES ASSUME InventoryInv, [InventoriesNext]_inventoryVars,
                    UNCHANGED row \/ Holds(row, row')
             PROVE  [Good!Next]_<<row.fact, row.at>>
  BY AppliesKept, WritesKept DEF InventoriesNext, inventoryVars, Report, FallSilent, DeviceChanges,
     DesiredChanges, TimePasses, RefreshCollects, RefreshReads, RefreshRestarts
<1>1. CASE UNCHANGED row
  BY <1>1
<1>2. CASE Holds(row, row')
  BY <1>2 DEF Holds, Row, Good!Next, Good!Learn, Good!Glance
<1>3. QED BY <1>1, <1>2

(* Inventories: whatever the sources say, in whatever order the thread     *)
(* reads, applies and derives, and wherever it is cut off, what was learnt *)
(* of an object is replaced by what is no older, or stays.                 *)
THEOREM InventoriesRemember == Spec => NothingForgotten
<1>1. Init => InventoryInv /\ Good!Init
  BY InventoryInitInv DEF Init, InventoriesInit, Good!Init
<1>2. InventoryInv /\ [Next]_vars => InventoryInv'
  BY Apart, InventoryNextInv
<1>3. InventoryInv /\ [Next]_vars => [Good!Next]_<<row.fact, row.at>>
  BY Apart, NothingLost
<1>4. QED BY <1>1, <1>2, <1>3, PTL DEF Spec, NothingForgotten, Good!Spec

-----------------------------------------------------------------------------
(* The reports: the newest editions are kept.                              *)
USE ReportRunsAssumption DEF Everyone, AtRest

(* The runs, one edition each; what is deleted was archived.               *)
Stations == {"rest", "building", "delivering", "delivered", "pruning", "ending"}
RunsTyped == /\ clock \in 0..MaxClock /\ nextRun \in {"unknown", "due", "later"} /\ clean \in BOOLEAN
             /\ archived \subseteq 1..clock
             /\ run \in [Everyone -> [at : Stations, now : 0..clock, stale : SUBSET archived]]
             /\ \A r \in Everyone : run[r].at \notin {"pruning", "ending"} => run[r].stale = {}

(* The rows are finitely many, each of another time.                       *)
RowsTyped == /\ editions \subseteq [now : archived, delivered : BOOLEAN] /\ IsFiniteSet(editions)
             /\ \A x, y \in editions : x.now = y.now => x = y

(* The edition a run is building was never archived, by itself or another. *)
OnesOwn == \A r \in Everyone : run[r].at = "building" =>
              /\ run[r].now > 0 /\ run[r].now \notin archived
              /\ \A s \in Everyone : run[s].at = "building" /\ run[s].now = run[r].now => s = r

Newer(n) == {m \in archived : m > n}

(* What is about to be deleted is old enough, and what is not is there.    *)
OldEnough == \A r \in Everyone : \A n \in run[r].stale : Cardinality(Newer(n)) >= Retention
NewestKept == \A n \in archived : Cardinality(Newer(n)) < Retention => \E e \in editions : e.now = n

(* An edition too many is on somebody's list, or will be: a run that has   *)
(* delivered is yet to list the rows.                                      *)
Listing == \E r \in Everyone : run[r].at \in {"delivering", "delivered"}
Listed(n) == \E r \in Everyone : run[r].at = "pruning" /\ n \in run[r].stale
SurplusSeen == clean => Listing \/ \A n \in Surplus(editions) : Listed(n)

EditionsInv == RunsTyped /\ RowsTyped /\ OnesOwn /\ OldEnough /\ NewestKept /\ SurplusSeen

Runs == [at : Stations, now : 0..clock, stale : SUBSET archived]
Empty(w) == w.at \notin {"pruning", "ending"} => w.stale = {}

LEMMA ArchivedFinite ==
  ASSUME RunsTyped
  PROVE  /\ archived \subseteq Nat /\ IsFiniteSet(archived)
         /\ \A n : IsFiniteSet(Newer(n)) /\ Cardinality(Newer(n)) \in Nat
<1>1. clock \in Nat /\ archived \subseteq 1..clock
  BY DEF RunsTyped
<1>2. IsFiniteSet(1..clock)
  BY <1>1, FS_Interval
<1>3. IsFiniteSet(archived)
  BY <1>1, <1>2, FS_Subset
<1>4. \A n : Newer(n) \subseteq archived
  BY DEF Newer
<1>5. \A n : IsFiniteSet(Newer(n))
  BY <1>3, <1>4, FS_Subset
<1>6. QED BY <1>1, <1>3, <1>5, FS_CardinalityType

(* A row that is surplus has an edition after it for each to be kept.      *)
LEMMA SurplusIsOld ==
  ASSUME RunsTyped, RowsTyped, NEW n \in Surplus(editions)
  PROVE  n \in archived /\ Cardinality(Newer(n)) >= Retention
<1>1. PICK x \in editions : n = x.now /\ Cardinality({y \in editions : y.now > x.now}) >= Retention
  BY DEF Surplus
<1> DEFINE S == {y \in editions : y.now > x.now}
           f == [y \in S |-> y.now]
<1>2. n \in archived /\ IsFiniteSet(Newer(n)) /\ Cardinality(Newer(n)) \in Nat
  BY <1>1, ArchivedFinite DEF RowsTyped
<1>3. f \in [S -> Newer(n)]
  BY <1>1 DEF RowsTyped, Newer
<1>4. \A y, z \in S : f[y] = f[z] => y = z
  BY DEF RowsTyped
<1>5. f \in Injection(S, Newer(n))
  BY <1>3, <1>4 DEF Injection, IsInjective
<1>6. Cardinality(S) <= Cardinality(Newer(n)) /\ IsFiniteSet(S)
  BY <1>2, <1>5, FS_Injection
<1>7. Cardinality(S) \in Nat
  BY <1>6, FS_CardinalityType
<1>8. Cardinality(S) >= Retention
  BY <1>1
<1> HIDE DEF S
<1>9. QED BY <1>2, <1>6, <1>7, <1>8

(* Deleting rows, and writing into them, makes no other row surplus.       *)
LEMMA SurplusShrinks ==
  ASSUME RowsTyped, NEW es, NEW g \in [es -> editions],
         \A y \in es : g[y].now = y.now, \A y, z \in es : g[y] = g[z] => y = z
  PROVE  Surplus(es) \subseteq Surplus(editions)
<1> SUFFICES ASSUME NEW x \in es, Cardinality({y \in es : y.now > x.now}) >= Retention
             PROVE  x.now \in Surplus(editions)
  BY DEF Surplus
<1> DEFINE S == {y \in es : y.now > x.now}
           T == {y \in editions : y.now > x.now}
           f == [y \in S |-> g[y]]
<1>1. f \in [S -> T] /\ \A y, z \in S : f[y] = f[z] => y = z
  OBVIOUS
<1>2. f \in Injection(S, T)
  BY <1>1 DEF Injection, IsInjective
<1>3. T \subseteq editions /\ IsFiniteSet(editions)
  BY DEF RowsTyped
<1>4. IsFiniteSet(T)
  BY <1>3, FS_Subset
<1>5. Cardinality(S) <= Cardinality(T) /\ IsFiniteSet(S)
  BY <1>2, <1>4, FS_Injection
<1>6. Cardinality(S) \in Nat /\ Cardinality(T) \in Nat
  BY <1>4, <1>5, FS_CardinalityType
<1>7. Cardinality(S) >= Retention
  OBVIOUS
<1>8. T = {y \in editions : y.now > g[x].now} /\ g[x] \in editions /\ g[x].now = x.now
  OBVIOUS
<1> HIDE DEF S, T, f
<1>9. Cardinality(T) >= Retention
  BY <1>5, <1>6, <1>7
<1>10. QED BY <1>8, <1>9 DEF Surplus

LEMMA ReportsInitInv == ReportsInit => EditionsInv
<1> SUFFICES ASSUME ReportsInit PROVE EditionsInv
  OBVIOUS
<1>1. RunsTyped
  BY DEF ReportsInit, RunsTyped, Stations
<1>2. RowsTyped
  BY FS_EmptySet DEF ReportsInit, RowsTyped
<1>3. OnesOwn /\ OldEnough /\ NewestKept
  BY DEF ReportsInit, OnesOwn, OldEnough, NewestKept
<1>4. SurplusSeen
  BY DEF ReportsInit, SurplusSeen, Surplus
<1>5. QED BY <1>1, <1>2, <1>3, <1>4 DEF EditionsInv

(* What a step of one runner that leaves the rows alone keeps.             *)
LEMMA Walks ==
  ASSUME EditionsInv, NEW r \in Everyone, NEW w \in Runs, run' = [run EXCEPT ![r] = w],
         UNCHANGED <<clock, editions, archived>>, nextRun' \in {"unknown", "due", "later"},
         clean' \in BOOLEAN, clean' => clean, w.at # "building", Empty(w),
         \A n \in w.stale : Cardinality(Newer(n)) >= Retention,
         clean' => \/ w.at = "pruning" /\ w.stale = Surplus(editions)
                   \/ /\ run[r].at \notin {"delivering", "delivered"}
                      /\ run[r].at = "pruning" => run[r].stale = {}
  PROVE  EditionsInv'
<1>1. /\ run \in [Everyone -> Runs] /\ run' \in [Everyone -> Runs] /\ run'[r] = w
      /\ \A s \in Everyone : s # r => run'[s] = run[s]
  BY DEF EditionsInv, RunsTyped, Runs
<1>2. RunsTyped'
  <2>1. run' \in [Everyone -> [at : Stations, now : 0..clock', stale : SUBSET archived']]
    BY <1>1 DEF Runs
  <2>2. \A s \in Everyone : run'[s].at \notin {"pruning", "ending"} => run'[s].stale = {}
    BY <1>1 DEF Empty, EditionsInv, RunsTyped
  <2>3. QED BY <2>1, <2>2 DEF EditionsInv, RunsTyped
<1>3. RowsTyped'
  BY DEF EditionsInv, RowsTyped
<1>4. OnesOwn'
  BY <1>1 DEF EditionsInv, OnesOwn
<1>5. OldEnough' /\ NewestKept'
  <2>1. \A n : Newer(n)' = Newer(n)
    BY DEF Newer
  <2>2. \A s \in Everyone : \A n \in run'[s].stale : Cardinality(Newer(n)) >= Retention
    BY <1>1 DEF EditionsInv, OldEnough
  <2>3. QED BY <2>1, <2>2 DEF EditionsInv, OldEnough, NewestKept
<1>6. SurplusSeen'
  <2> SUFFICES ASSUME clean', ~Listing' PROVE \A n \in Surplus(editions) : Listed(n)'
    BY DEF SurplusSeen
  <2>1. \A s \in Everyone : run'[s].at \notin {"delivering", "delivered"}
    BY DEF Listing
  <2>2. CASE w.at = "pruning" /\ w.stale = Surplus(editions)
    BY <1>1, <2>2 DEF Listed
  <2>3. CASE ~(w.at = "pruning" /\ w.stale = Surplus(editions))
    <3>1. ~Listing
      BY <1>1, <2>1, <2>3 DEF Listing
    <3>2. \A n \in Surplus(editions) : Listed(n)
      BY <3>1 DEF EditionsInv, SurplusSeen
    <3>3. QED BY <1>1, <2>3, <3>2 DEF Listed
  <2>4. QED BY <2>2, <2>3
<1>7. QED BY <1>2, <1>3, <1>4, <1>5, <1>6 DEF EditionsInv

(* The steps of a runner: it begins, archives, delivers, lists and deletes.*)
LEMMA BeginsInv ==
  ASSUME EditionsInv, NEW r \in Everyone, Begins(r) PROVE EditionsInv'
<1> DEFINE w == [at |-> "building", now |-> clock + 1, stale |-> {}]
<1>1. /\ run[r].at = "rest" /\ clock' = clock + 1 /\ run' = [run EXCEPT ![r] = w]
      /\ UNCHANGED <<nextRun, editions, archived, clean>> /\ clock < MaxClock
  <2> DEFINE u == [AtRest EXCEPT !.at = "building"]
  <2>1. u = [at |-> "building", now |-> 0, stale |-> {}]
    OBVIOUS
  <2>2. run' = [run EXCEPT ![r] = [u EXCEPT !.now = clock + 1]]
    BY DEF Begins
  <2> HIDE DEF u
  <2>3. [u EXCEPT !.now = clock + 1] = w
    BY <2>1
  <2>4. QED BY <2>2, <2>3 DEF Begins
<1>2. clock \in Nat /\ clock \in 0..MaxClock /\ run \in [Everyone -> Runs]
  BY DEF EditionsInv, RunsTyped, Runs
<1>3. run' \in [Everyone -> [at : Stations, now : 0..clock', stale : SUBSET archived']]
  BY <1>1, <1>2 DEF Runs, Stations
<1>4. \A s \in Everyone : run'[s] = IF s = r THEN w ELSE run[s]
  BY <1>1, <1>2
<1>5. RunsTyped'
  BY <1>1, <1>2, <1>3, <1>4, ReportRunsAssumption DEF EditionsInv, RunsTyped
<1>6. RowsTyped'
  BY <1>1 DEF EditionsInv, RowsTyped
<1>7. OnesOwn'
  <2>1. clock + 1 \notin archived /\ \A s \in Everyone : run[s].now \in 0..clock
    BY <1>2 DEF EditionsInv, RunsTyped, Runs
  <2>2. QED BY <1>1, <1>2, <1>4, <2>1 DEF EditionsInv, OnesOwn
<1>8. OldEnough' /\ NewestKept'
  <2>1. \A n : Newer(n)' = Newer(n)
    BY <1>1 DEF Newer
  <2>2. QED BY <1>1, <1>4, <2>1 DEF EditionsInv, OldEnough, NewestKept
<1>9. SurplusSeen'
  <2>1. Listing => Listing'
    BY <1>1, <1>4 DEF Listing
  <2>2. \A n : Listed(n) => Listed(n)'
    BY <1>1, <1>4 DEF Listed
  <2>3. QED BY <1>1, <2>1, <2>2 DEF EditionsInv, SurplusSeen
<1>10. QED BY <1>5, <1>6, <1>7, <1>8, <1>9 DEF EditionsInv

LEMMA ArchivesInv ==
  ASSUME EditionsInv, NEW r \in Everyone, Archives(r) PROVE EditionsInv'
<1> DEFINE n == run[r].now
           e == [now |-> n, delivered |-> FALSE]
           w == [run[r] EXCEPT !.at = "delivering"]
<1>1. /\ run[r].at = "building" /\ run' = [run EXCEPT ![r] = w]
      /\ editions' = editions \cup {e} /\ archived' = archived \cup {n}
      /\ UNCHANGED <<clock, nextRun, clean>>
  BY DEF Archives, Goes
<1>2. run \in [Everyone -> Runs] /\ clock \in Nat /\ archived \subseteq 1..clock
  BY DEF EditionsInv, RunsTyped, Runs
<1>3. n \in 1..clock /\ n \notin archived /\ run[r].stale = {}
  BY <1>1, <1>2 DEF EditionsInv, OnesOwn, RunsTyped, Runs
<1>4. w = [at |-> "delivering", now |-> n, stale |-> {}]
  <2>1. run[r] = [at |-> run[r].at, now |-> n, stale |-> {}]
    BY <1>2, <1>3 DEF Runs
  <2>2. QED BY <2>1
<1> HIDE DEF w
<1>5. \A s \in Everyone : run'[s] = IF s = r THEN w ELSE run[s]
  BY <1>1, <1>2
<1>6. run' \in [Everyone -> [at : Stations, now : 0..clock', stale : SUBSET archived']]
  <2>1. w \in [at : Stations, now : 0..clock', stale : SUBSET archived']
    BY <1>1, <1>2, <1>3, <1>4 DEF Stations
  <2>2. \A s \in Everyone : run[s] \in [at : Stations, now : 0..clock', stale : SUBSET archived']
    BY <1>1, <1>2 DEF Runs
  <2>3. QED BY <1>1, <1>2, <2>1, <2>2
<1>7. RunsTyped'
  BY <1>1, <1>2, <1>3, <1>4, <1>5, <1>6 DEF EditionsInv, RunsTyped
<1>8. RowsTyped'
  <2>1. IsFiniteSet(editions')
    BY <1>1, FS_AddElement DEF EditionsInv, RowsTyped
  <2>2. editions' \subseteq [now : archived', delivered : BOOLEAN]
    <3>1. e \in [now : archived', delivered : BOOLEAN]
      BY <1>1
    <3>2. editions \subseteq [now : archived', delivered : BOOLEAN]
      BY <1>1 DEF EditionsInv, RowsTyped
    <3> HIDE DEF e
    <3>3. QED BY <1>1, <3>1, <3>2
  <2>3. \A x \in editions : x.now # n
    BY <1>3 DEF EditionsInv, RowsTyped
  <2>4. QED BY <1>1, <2>1, <2>2, <2>3 DEF EditionsInv, RowsTyped
<1>9. OnesOwn'
  BY <1>1, <1>4, <1>5 DEF EditionsInv, OnesOwn
<1>10. \A m : /\ Newer(m) \subseteq Newer(m)' /\ Cardinality(Newer(m)) <= Cardinality(Newer(m)')
              /\ Cardinality(Newer(m)) \in Nat /\ Cardinality(Newer(m)') \in Nat
  <2> TAKE m
  <2>1. Newer(m) \subseteq Newer(m)' /\ Newer(m)' \subseteq Newer(m) \cup {n}
    BY <1>1 DEF Newer
  <2>2. IsFiniteSet(Newer(m))
    BY ArchivedFinite DEF EditionsInv
  <2>3. IsFiniteSet(Newer(m) \cup {n})
    BY <2>2, FS_AddElement
  <2>4. IsFiniteSet(Newer(m)')
    BY <2>1, <2>3, FS_Subset
  <2>5. QED BY <2>1, <2>2, <2>4, FS_Subset, FS_CardinalityType
<1>11. OldEnough'
  <2> SUFFICES ASSUME NEW s \in Everyone, NEW m \in run'[s].stale
               PROVE  Cardinality(Newer(m)') >= Retention
    BY DEF OldEnough
  <2>1. m \in run[s].stale
    BY <1>4, <1>5
  <2>2. Cardinality(Newer(m)) >= Retention
    BY <2>1 DEF EditionsInv, OldEnough
  <2>3. QED BY <1>10, <2>2
<1>12. NewestKept'
  <2> SUFFICES ASSUME NEW m \in archived', Cardinality(Newer(m)') < Retention
               PROVE  \E x \in editions' : x.now = m
    BY DEF NewestKept
  <2>1. CASE m = n
    <3>1. e \in editions' /\ e.now = m
      BY <1>1, <2>1
    <3> HIDE DEF e
    <3>2. QED BY <3>1
  <2>2. CASE m # n
    <3>1. m \in archived /\ Cardinality(Newer(m)) < Retention
      BY <1>1, <1>10, <2>2
    <3>2. QED BY <1>1, <3>1 DEF EditionsInv, NewestKept
  <2>3. QED BY <2>1, <2>2
<1>13. SurplusSeen'
  <2>1. Listing'
    BY <1>4, <1>5 DEF Listing
  <2>2. QED BY <2>1 DEF SurplusSeen
<1>14. QED BY <1>7, <1>8, <1>9, <1>11, <1>12, <1>13 DEF EditionsInv

LEMMA ListsInv ==
  ASSUME EditionsInv, NEW r \in Everyone, Lists(r) PROVE EditionsInv'
<1> DEFINE w == [at |-> "pruning", now |-> run[r].now, stale |-> Surplus(editions)]
<1>1. run \in [Everyone -> Runs]
  BY DEF EditionsInv, RunsTyped, Runs
<1>2. \A n \in Surplus(editions) : n \in archived /\ Cardinality(Newer(n)) >= Retention
  BY SurplusIsOld DEF EditionsInv
<1> HIDE DEF w
<1>3. w \in Runs /\ w.at = "pruning" /\ w.stale = Surplus(editions)
  BY <1>1, <1>2 DEF w, Runs, Stations
<1>4. run' = [run EXCEPT ![r] = w]
  <2>1. run[r] = [at |-> run[r].at, now |-> run[r].now, stale |-> run[r].stale]
    BY <1>1 DEF Runs
  <2> DEFINE u == [run[r] EXCEPT !.at = "pruning"]
  <2>2. u = [at |-> "pruning", now |-> run[r].now, stale |-> run[r].stale]
    BY <2>1
  <2>3. run' = [run EXCEPT ![r] = [u EXCEPT !.stale = Surplus(editions)]]
    BY <1>1 DEF Lists
  <2> HIDE DEF u
  <2>4. [u EXCEPT !.stale = Surplus(editions)] = w
    BY <2>2 DEF w
  <2>5. QED BY <2>3, <2>4
<1>5. UNCHANGED <<clock, nextRun, editions, archived, clean>>
  BY DEF Lists
<1>6. Empty(w) /\ nextRun' \in {"unknown", "due", "later"} /\ clean' \in BOOLEAN
  BY <1>3, <1>5 DEF Empty, EditionsInv, RunsTyped
<1>7. QED BY <1>2, <1>3, <1>4, <1>5, <1>6, Walks

LEMMA RunDeliversInv ==
  ASSUME EditionsInv, NEW r \in Everyone, NEW ok \in BOOLEAN, Delivers(r, ok) PROVE EditionsInv'
<1> DEFINE n == run[r].now
           w == [run[r] EXCEPT !.at = "delivered"]
           After(e) == IF e.now = n THEN [e EXCEPT !.delivered = ok] ELSE e
           h == [e \in editions |-> After(e)]
           g == [y \in editions' |-> CHOOSE e \in editions : e.now = y.now]
<1>1. /\ run[r].at = "delivering" /\ run' = [run EXCEPT ![r] = w]
      /\ editions' = {After(e) : e \in editions} /\ UNCHANGED <<clock, nextRun, archived, clean>>
  BY DEF Delivers, Goes
<1>2. run \in [Everyone -> Runs] /\ run[r].stale = {}
  BY <1>1 DEF EditionsInv, RunsTyped, Runs
<1>3. w = [at |-> "delivered", now |-> n, stale |-> {}]
  <2>1. run[r] = [at |-> run[r].at, now |-> n, stale |-> {}]
    BY <1>2 DEF Runs
  <2>2. QED BY <2>1
<1>4. \A e \in editions : After(e) \in [now : archived, delivered : BOOLEAN] /\ After(e).now = e.now
  BY DEF EditionsInv, RowsTyped
<1> HIDE DEF w, After
<1>5. \A s \in Everyone : run'[s] = IF s = r THEN w ELSE run[s]
  BY <1>1, <1>2
<1>6. /\ \A x \in editions' : \E e \in editions : x = After(e) /\ x.now = e.now
      /\ \A e \in editions : \E x \in editions' : x.now = e.now
  BY <1>1, <1>4
<1>7. RunsTyped'
  <2>1. w \in [at : Stations, now : 0..clock, stale : SUBSET archived]
    BY <1>2, <1>3 DEF Runs, Stations
  <2>2. run' \in [Everyone -> [at : Stations, now : 0..clock, stale : SUBSET archived]]
    BY <1>1, <1>2, <2>1 DEF Runs
  <2>3. QED BY <1>1, <1>3, <1>5, <2>2 DEF EditionsInv, RunsTyped
<1>8. RowsTyped'
  <2>1. h \in Surjection(editions, editions')
    BY <1>1 DEF Surjection
  <2>2. IsFiniteSet(editions')
    BY <2>1, FS_Surjection DEF EditionsInv, RowsTyped
  <2>3. editions' \subseteq [now : archived', delivered : BOOLEAN]
    BY <1>1, <1>4
  <2>4. ASSUME NEW x \in editions', NEW y \in editions', x.now = y.now PROVE x = y
    <3>1. PICK d \in editions : x = After(d) /\ x.now = d.now
      BY <1>6
    <3>2. PICK e \in editions : y = After(e) /\ y.now = e.now
      BY <1>6
    <3>3. d = e
      BY <2>4, <3>1, <3>2 DEF EditionsInv, RowsTyped
    <3>4. QED BY <3>1, <3>2, <3>3
  <2>5. QED BY <2>2, <2>3, <2>4 DEF RowsTyped
<1>9. OnesOwn'
  BY <1>1, <1>3, <1>5 DEF EditionsInv, OnesOwn
<1>10. OldEnough' /\ NewestKept'
  <2>1. \A m : Newer(m)' = Newer(m)
    BY <1>1 DEF Newer
  <2>2. OldEnough'
    BY <1>3, <1>5, <2>1 DEF EditionsInv, OldEnough
  <2>3. NewestKept'
    <3> SUFFICES ASSUME NEW m \in archived, Cardinality(Newer(m)) < Retention
                 PROVE  \E x \in editions' : x.now = m
      BY <1>1, <2>1 DEF NewestKept
    <3>1. PICK e \in editions : e.now = m
      BY DEF EditionsInv, NewestKept
    <3>2. QED BY <1>6, <3>1
  <2>4. QED BY <2>2, <2>3
<1>11. SurplusSeen'
  <2>1. Listing'
    BY <1>3, <1>5 DEF Listing
  <2>2. QED BY <2>1 DEF SurplusSeen
<1>12. QED BY <1>7, <1>8, <1>9, <1>10, <1>11 DEF EditionsInv

LEMMA DeletesInv ==
  ASSUME EditionsInv, NEW r \in Everyone, Deletes(r) PROVE EditionsInv'
<1>1. PICK n \in run[r].stale :
          editions' = {e \in editions : e.now # n} /\ run' = [run EXCEPT ![r].stale = @ \ {n}]
  BY DEF Deletes
<1>2. run[r].at = "pruning" /\ UNCHANGED <<clock, nextRun, archived, clean>>
  BY DEF Deletes
<1> DEFINE w == [run[r] EXCEPT !.stale = run[r].stale \ {n}]
           g == [y \in editions' |-> y]
<1>3. run \in [Everyone -> Runs] /\ run' = [run EXCEPT ![r] = w]
  BY <1>1 DEF EditionsInv, RunsTyped, Runs
<1>4. w = [at |-> "pruning", now |-> run[r].now, stale |-> run[r].stale \ {n}]
  <2>1. run[r] = [at |-> "pruning", now |-> run[r].now, stale |-> run[r].stale]
    BY <1>2, <1>3 DEF Runs
  <2>2. QED BY <2>1
<1> HIDE DEF w
<1>5. \A s \in Everyone : run'[s] = IF s = r THEN w ELSE run[s]
  BY <1>3
<1>6. RunsTyped'
  <2>1. w \in [at : Stations, now : 0..clock, stale : SUBSET archived]
    BY <1>3, <1>4 DEF Runs, Stations
  <2>2. run' \in [Everyone -> [at : Stations, now : 0..clock, stale : SUBSET archived]]
    BY <1>3, <2>1 DEF Runs
  <2>3. QED BY <1>2, <1>4, <1>5, <2>2 DEF EditionsInv, RunsTyped
<1>7. RowsTyped'
  <2>1. editions' \subseteq editions
    BY <1>1
  <2>2. IsFiniteSet(editions')
    BY <2>1, FS_Subset DEF EditionsInv, RowsTyped
  <2>3. QED BY <1>2, <2>1, <2>2 DEF EditionsInv, RowsTyped
<1>8. OnesOwn'
  BY <1>2, <1>4, <1>5 DEF EditionsInv, OnesOwn
<1>9. OldEnough' /\ NewestKept'
  <2>1. \A m : Newer(m)' = Newer(m)
    BY <1>2 DEF Newer
  <2>2. OldEnough'
    BY <1>4, <1>5, <2>1 DEF EditionsInv, OldEnough
  <2>3. NewestKept'
    <3> SUFFICES ASSUME NEW m \in archived, Cardinality(Newer(m)) < Retention
                 PROVE  \E x \in editions' : x.now = m
      BY <1>2, <2>1 DEF NewestKept
    <3>1. PICK e \in editions : e.now = m
      BY DEF EditionsInv, NewestKept
    <3>2. Cardinality(Newer(n)) >= Retention /\ Cardinality(Newer(n)) \in Nat
      BY ArchivedFinite DEF EditionsInv, OldEnough
    <3>3. m # n
      BY <3>2, ReportRunsAssumption
    <3>4. QED BY <1>1, <3>1, <3>3
  <2>4. QED BY <2>2, <2>3
<1>10. SurplusSeen'
  <2> SUFFICES ASSUME clean', ~Listing' PROVE \A m \in Surplus(editions') : Listed(m)'
    BY DEF SurplusSeen
  <2>1. clean /\ ~Listing
    BY <1>2, <1>4, <1>5 DEF Listing
  <2>2. g \in [editions' -> editions] /\ \A y \in editions' : g[y] = y
    BY <1>1
  <2> HIDE DEF g
  <2>3. Surplus(editions') \subseteq Surplus(editions)
    BY <2>2, SurplusShrinks DEF EditionsInv
  <2>4. \A m \in Surplus(editions') : m # n
    BY <1>1 DEF Surplus
  <2>5. QED BY <1>2, <1>4, <1>5, <2>1, <2>3, <2>4 DEF EditionsInv, SurplusSeen, Listed
<1>11. QED BY <1>6, <1>7, <1>8, <1>9, <1>10 DEF EditionsInv

LEMMA EndsRunInv ==
  ASSUME EditionsInv, NEW r \in Everyone, Pruned(r) \/ Fails(r) \/ (r = "tick" /\ Reschedules)
  PROVE  EditionsInv'
<1>1. run \in [Everyone -> Runs] /\ run[r] = [at |-> run[r].at, now |-> run[r].now, stale |-> run[r].stale]
  BY DEF EditionsInv, RunsTyped, Runs
<1>2. /\ UNCHANGED <<clock, editions, archived>> /\ nextRun' \in {"unknown", "due", "later"}
      /\ clean' \in BOOLEAN /\ (clean' => clean)
  <2>1. clean \in BOOLEAN /\ nextRun \in {"unknown", "due", "later"}
    BY DEF EditionsInv, RunsTyped
  <2>2. /\ UNCHANGED <<clock, editions, archived>>
        /\ nextRun' = nextRun \/ nextRun' = "later"
        /\ clean' = clean \/ clean' = FALSE
    BY DEF Pruned, Fails, Reschedules
  <2>3. clean' \in BOOLEAN /\ (clean' => clean)
    <3>1. CASE clean' = clean
      BY <2>1, <3>1, Zenon
    <3>2. CASE clean' = FALSE
      BY <3>2
    <3>3. QED BY <2>2, <3>1, <3>2, Zenon
  <2>4. QED BY <2>1, <2>2, <2>3
<1>3. clean' => /\ run[r].at \notin {"delivering", "delivered"}
                /\ run[r].at = "pruning" => run[r].stale = {}
  BY DEF Pruned, Fails, Reschedules
<1>4. CASE run' = [run EXCEPT ![r] = AtRest]
  <2>1. AtRest \in Runs /\ Empty(AtRest) /\ AtRest.at # "building" /\ AtRest.stale = {}
    BY DEF Runs, Stations, Empty, EditionsInv, RunsTyped
  <2> HIDE DEF AtRest
  <2>2. QED BY <1>2, <1>3, <1>4, <2>1, Walks
<1>5. CASE Goes(r, "ending")
  <2> DEFINE w == [run[r] EXCEPT !.at = "ending"]
  <2>1. w = [at |-> "ending", now |-> run[r].now, stale |-> run[r].stale]
    BY <1>1
  <2>2. run' = [run EXCEPT ![r] = w]
    BY <1>5 DEF Goes
  <2> HIDE DEF w
  <2>3. w \in Runs /\ Empty(w) /\ w.at = "ending" /\ w.stale = run[r].stale
    BY <1>1, <2>1 DEF Runs, Stations, Empty
  <2>4. \A n \in w.stale : Cardinality(Newer(n)) >= Retention
    BY <2>3 DEF EditionsInv, OldEnough
  <2>5. QED BY <1>2, <1>3, <2>2, <2>3, <2>4, Walks
<1>6. QED BY <1>4, <1>5 DEF Pruned, Fails, Reschedules

LEMMA ReportsEndInv == ASSUME EditionsInv, ReportsEnd PROVE EditionsInv'
<1>1. /\ run' = [r \in Everyone |-> AtRest] /\ clean' = FALSE
      /\ UNCHANGED <<clock, nextRun, editions, archived>>
  BY DEF ReportsEnd
<1>2. RunsTyped'
  <2>1. AtRest \in Runs
    BY DEF EditionsInv, RunsTyped, Runs, Stations
  <2>2. run' \in [Everyone -> Runs] /\ Runs' = Runs
    BY <1>1, <2>1 DEF Runs
  <2>3. \A r \in Everyone : run'[r].stale = {}
    BY <1>1
  <2>4. QED BY <1>1, <2>2, <2>3 DEF EditionsInv, RunsTyped, Runs
<1>3. RowsTyped' /\ OnesOwn' /\ SurplusSeen'
  BY <1>1 DEF EditionsInv, RowsTyped, OnesOwn, SurplusSeen
<1>4. OldEnough' /\ NewestKept'
  BY <1>1 DEF EditionsInv, OldEnough, NewestKept, Newer
<1>5. QED BY <1>2, <1>3, <1>4 DEF EditionsInv

LEMMA EditionsNextInv == EditionsInv /\ [ReportsNext]_reportVars => EditionsInv'
<1> SUFFICES ASSUME EditionsInv, [ReportsNext]_reportVars PROVE EditionsInv'
  OBVIOUS
<1>1. CASE UNCHANGED run /\ UNCHANGED <<clock, editions, archived, clean>>
           /\ nextRun' \in {"unknown", "due", "later"}
  <2>1. RunsTyped' /\ RowsTyped' /\ OnesOwn'
    BY <1>1 DEF EditionsInv, RunsTyped, RowsTyped, OnesOwn
  <2>2. OldEnough' /\ NewestKept'
    BY <1>1 DEF EditionsInv, OldEnough, NewestKept, Newer
  <2>3. SurplusSeen'
    BY <1>1 DEF EditionsInv, SurplusSeen, Listing, Listed, Surplus
  <2>4. QED BY <2>1, <2>2, <2>3 DEF EditionsInv
<1>2. CASE UNCHANGED reportVars \/ Plans \/ FallsDue
  <2>1. UNCHANGED run /\ UNCHANGED <<clock, editions, archived, clean>>
        /\ nextRun' \in {"unknown", "due", "later"}
    BY <1>2 DEF reportVars, Plans, FallsDue, EditionsInv, RunsTyped
  <2>2. QED BY <1>1, <2>1
<1>3. CASE Reschedules
  BY <1>3, EndsRunInv
<1>4. QED BY <1>2, <1>3, BeginsInv, ArchivesInv, RunDeliversInv, ListsInv, DeletesInv, EndsRunInv,
             ReportsEndInv DEF ReportsNext

(* Of rows that are more than are to be kept, the oldest is surplus.       *)
LEMMA NoSurplusFits ==
  ASSUME RunsTyped, RowsTyped, Surplus(editions) = {}
  PROVE  Cardinality(editions) <= Retention
<1>1. IsFiniteSet(editions) /\ Cardinality(editions) \in Nat
  BY FS_CardinalityType DEF RowsTyped
<1>2. CASE editions = {}
  BY <1>2, FS_EmptySet, ReportRunsAssumption
<1>3. CASE editions # {}
  <2> DEFINE S == {x.now : x \in editions}
  <2>1. S \subseteq Nat /\ S # {}
    BY <1>3, ArchivedFinite DEF RowsTyped
  <2>2. PICK n \in S : \A m \in S : n <= m
    BY <2>1, LeastOf
  <2>3. PICK x \in editions : x.now = n
    BY <2>2
  <2> DEFINE T == {y \in editions : y.now > x.now}
  <2>4. \A y \in editions : y.now \in Nat /\ x.now <= y.now /\ (y.now = x.now => y = x)
    BY <2>1, <2>2, <2>3 DEF RowsTyped
  <2>5. T = editions \ {x}
    BY <2>4
  <2>6. Cardinality(T) = Cardinality(editions) - 1
    BY <1>1, <2>5, FS_RemoveElement
  <2>7. ~(Cardinality(T) >= Retention)
    <3>1. Cardinality(T) >= Retention => x.now \in Surplus(editions)
      BY <2>3 DEF Surplus
    <3>2. QED BY <3>1
  <2> HIDE DEF T
  <2>8. QED BY <1>1, <2>6, <2>7, ReportRunsAssumption
<1>4. QED BY <1>2, <1>3

(* Reports: however the runs of a report race, fail or are cut off, the    *)
(* newest editions are there, and while nothing has failed no run leaves   *)
(* an older one behind.                                                    *)
THEOREM EditionsStay == Spec => []EditionsKept
<1>1. Init => EditionsInv
  BY ReportsInitInv DEF Init
<1>2. EditionsInv /\ [Next]_vars => EditionsInv'
  BY Apart, EditionsNextInv
<1>3. EditionsInv => EditionsKept
  <2> SUFFICES ASSUME EditionsInv PROVE EditionsKept
    OBVIOUS
  <2>1. ASSUME clean, \A r \in Everyone : run[r].at \in {"rest", "building", "ending"}
        PROVE  Cardinality(editions) <= Retention
    <3>1. ~Listing /\ \A n : ~Listed(n)
      BY <2>1 DEF Listing, Listed
    <3>2. Surplus(editions) = {}
      BY <2>1, <3>1 DEF EditionsInv, SurplusSeen
    <3>3. QED BY <3>2, NoSurplusFits DEF EditionsInv
  <2>2. QED BY <2>1 DEF EditionsInv, NewestKept, Newer, EditionsKept
<1>4. QED BY <1>1, <1>2, <1>3, PTL DEF Spec

-----------------------------------------------------------------------------
(* The samples: what is counted is what there was.                         *)
USE AttainmentAssumption

LEMMA MinOf ==
  ASSUME NEW S, S \subseteq Nat, S # {} PROVE Min(S) \in S /\ \A y \in S : Min(S) <= y
<1>1. \E x \in S : \A y \in S : x <= y
  BY LeastOf
<1>2. QED BY <1>1 DEF Min

LEMMA LesserOf ==
  ASSUME NEW a \in Int, NEW b \in Int
  PROVE  Min({a, b}) \in {a, b} /\ Min({a, b}) <= a /\ Min({a, b}) <= b
<1>1. \E x \in {a, b} : \A y \in {a, b} : x <= y
  OBVIOUS
<1>2. QED BY <1>1 DEF Min

(* Where a row ends: at the next one, or now.                              *)
RowEnds(t, start) == Min({n \in Sampled(start) : n > t} \cup {time})

LEMMA EndsAt ==
  ASSUME time \in Nat, NEW start \in 0..time, NEW t \in Nat
  PROVE  /\ Sampled(start) \subseteq 0..time /\ Begun(t, start) \in Nat
         /\ RowEnds(t, start) \in Nat /\ RowEnds(t, start) <= time
         /\ \A n \in Sampled(start) : n > t => RowEnds(t, start) <= n
         /\ RowEnds(t, start) = time \/ (RowEnds(t, start) \in Sampled(start) /\ RowEnds(t, start) > t)
<1>1. Sampled(start) \subseteq 0..time
  BY DEF Sampled, Taken
<1> DEFINE S == {n \in Sampled(start) : n > t} \cup {time}
<1>2. S \subseteq Nat /\ S # {}
  BY <1>1
<1>3. Min(S) \in S /\ \A y \in S : Min(S) <= y
  BY <1>2, MinOf
<1>4. QED BY <1>1, <1>2, <1>3 DEF RowEnds, Begun

LEMMA HeldBounds ==
  ASSUME time \in Nat, NEW start \in 0..time, NEW t \in Nat
  PROVE  /\ Held(t, start) \in Nat /\ Held(t, start) <= Cap
         /\ \A k \in Nat \ {0} : k <= Held(t, start) <=>
                k <= RowEnds(t, start) - Begun(t, start) /\ k <= Cap
<1> DEFINE left == RowEnds(t, start) - Begun(t, start)
<1>1. left \in Int /\ Cap \in Nat
  BY EndsAt
<1>2. Held(t, start) = IF left <= 0 THEN 0 ELSE Min({left, Cap})
  BY DEF Held, RowEnds
<1> HIDE DEF left
<1>3. CASE left <= 0
  BY <1>1, <1>2, <1>3 DEF left
<1>4. CASE ~(left <= 0)
  <2>1. Held(t, start) = Min({left, Cap})
    BY <1>2, <1>4
  <2>2. /\ Min({left, Cap}) \in {left, Cap}
        /\ Min({left, Cap}) <= left /\ Min({left, Cap}) <= Cap
    <3>1. left \in Int /\ Cap \in Int
      BY <1>1
    <3>2. QED BY <3>1, LesserOf, Zenon
  <2>3. Held(t, start) \in {left, Cap} /\ Held(t, start) <= left /\ Held(t, start) <= Cap
    BY <2>1, <2>2
  <2>4. QED BY <1>1, <1>4, <2>3 DEF left
<1>5. QED BY <1>3, <1>4

LEMMA OneLast ==
  ASSUME NEW s \in Nat, NEW t \in LastUpTo(s), NEW u \in LastUpTo(s) PROVE t = u
BY DEF LastUpTo, Taken

(* A second that is counted for a row is a second of that row ...          *)
LEMMA CountedIsTrue ==
  ASSUME time \in Nat, NEW start \in 0..time, NEW t \in Sampled(start),
         NEW k \in Nat \ {0}, k <= Held(t, start)
  PROVE  /\ Begun(t, start) + k - 1 \in start..(time - 1)
         /\ t \in LastUpTo(Begun(t, start) + k - 1)
<1> DEFINE s == Begun(t, start) + k - 1
<1>1. t \in Nat /\ samples[t] # "none"
  BY DEF Sampled, Taken
<1>2. k <= RowEnds(t, start) - Begun(t, start)
  BY <1>1, HeldBounds
<1>3. /\ Begun(t, start) \in Nat /\ Begun(t, start) >= start /\ Begun(t, start) >= t
      /\ RowEnds(t, start) \in Nat /\ RowEnds(t, start) <= time
      /\ \A n \in Sampled(start) : n > t => RowEnds(t, start) <= n
  <2>1. Begun(t, start) >= start /\ Begun(t, start) >= t
    BY <1>1 DEF Begun
  <2>2. QED BY <1>1, <2>1, EndsAt
<1>4. s \in Nat /\ s >= start /\ s >= t /\ s < RowEnds(t, start) /\ s < time
  BY <1>1, <1>2, <1>3
<1>5. Taken(t + 1, s) = {}
  <2> SUFFICES ASSUME NEW u \in t + 1..s, samples[u] # "none" PROVE FALSE
    BY DEF Taken
  <2>1. CASE u >= start
    <3>1. u \in Sampled(start) /\ u > t
      BY <1>1, <1>4, <2>1 DEF Sampled, Taken
    <3>2. QED BY <1>3, <1>4, <3>1
  <2>2. CASE u < start
    <3>1. t < start /\ Taken(t + 1, start - 1) = {}
      BY <1>1, <2>2 DEF Sampled, Taken
    <3>2. QED BY <1>1, <2>2, <3>1 DEF Taken
  <2>3. QED BY <1>1, <1>4, <2>1, <2>2
<1>6. QED BY <1>1, <1>4, <1>5 DEF LastUpTo, Taken

(* ... and a second of a row is counted for it, unless a gap is too long.  *)
LEMMA TrueIsCounted ==
  ASSUME time \in Nat, NEW start \in 0..time, NEW s \in start..(time - 1), NEW t \in LastUpTo(s),
         s - t < Cap
  PROVE  /\ t \in Sampled(start) /\ s - Begun(t, start) + 1 \in 1..Cap
         /\ s - Begun(t, start) + 1 <= Held(t, start)
<1>1. t \in Nat /\ t <= s /\ samples[t] # "none" /\ Taken(t + 1, s) = {} /\ s \in Nat
  BY DEF LastUpTo, Taken
<1>2. t \in Sampled(start)
  BY <1>1 DEF Sampled, Taken
<1>3. Begun(t, start) \in Nat /\ Begun(t, start) <= s /\ Begun(t, start) >= t
  BY <1>1 DEF Begun
<1>4. s < RowEnds(t, start)
  <2>1. RowEnds(t, start) = time \/ (RowEnds(t, start) \in Sampled(start) /\ RowEnds(t, start) > t)
    BY <1>1, EndsAt
  <2>2. \A n \in Sampled(start) : samples[n] # "none" /\ n \in Nat
    BY DEF Sampled, Taken
  <2>3. \A n \in Sampled(start) : n > t => n > s
    BY <1>1, <2>2 DEF Taken
  <2>4. QED BY <1>1, <2>1, <2>3
<1>5. s - Begun(t, start) + 1 \in Nat \ {0} /\ s - Begun(t, start) + 1 <= Cap
  BY <1>1, <1>3
<1>6. s - Begun(t, start) + 1 <= RowEnds(t, start) - Begun(t, start)
  <2>1. RowEnds(t, start) \in Nat
    BY <1>1, EndsAt
  <2>2. QED BY <1>1, <1>3, <1>4, <2>1
<1> DEFINE k == s - Begun(t, start) + 1
<1>7. k \in Nat \ {0} /\ k <= RowEnds(t, start) - Begun(t, start) /\ k <= Cap
  BY <1>5, <1>6
<1> HIDE DEF k
<1>8. k <= Held(t, start) /\ k \in 1..Cap
  BY <1>1, <1>7, HeldBounds
<1>9. QED BY <1>2, <1>8 DEF k

LEMMA SecondsExact ==
  ASSUME time \in Nat, NoGap, NEW start \in 0..time, NEW h
  PROVE  Seconds(h, start) = TrueSeconds(h, start)
<1> DEFINE P == {p \in Sampled(start) \X (1..Cap) :
                     samples[p[1]] \in h /\ p[2] <= Held(p[1], start)}
           Q == {s \in start..(time - 1) : \E t \in LastUpTo(s) : samples[t] \in h}
           f == [p \in P |-> Begun(p[1], start) + p[2] - 1]
<1>1. Q \subseteq start..(time - 1) /\ IsFiniteSet(start..(time - 1))
  <2>1. start \in Int /\ time - 1 \in Int
    OBVIOUS
  <2>2. IsFiniteSet(start..(time - 1))
    BY <2>1, FS_Interval
  <2>3. QED BY <2>2
<1>2. IsFiniteSet(Q)
  BY <1>1, FS_Subset
<1>3. ASSUME NEW p \in P
      PROVE  f[p] \in Q /\ p[1] \in LastUpTo(f[p]) /\ f[p] \in Nat
  <2>1. p[1] \in Sampled(start) /\ p[2] \in Nat \ {0} /\ p[2] <= Held(p[1], start) /\ samples[p[1]] \in h
    OBVIOUS
  <2>2. Begun(p[1], start) + p[2] - 1 \in start..(time - 1)
        /\ p[1] \in LastUpTo(Begun(p[1], start) + p[2] - 1)
    BY <2>1, CountedIsTrue
  <2>3. QED BY <2>1, <2>2
<1>4. ASSUME NEW p \in P, NEW q \in P, f[p] = f[q] PROVE p = q
  <2> DEFINE c == f[p]
  <2>a. f[p] \in Nat /\ p[1] \in LastUpTo(f[p]) /\ q[1] \in LastUpTo(f[q])
    BY <1>3
  <2>b. c \in Nat /\ p[1] \in LastUpTo(c) /\ q[1] \in LastUpTo(c)
    BY <2>a, <1>4
  <2>1. p[1] = q[1]
    <3> HIDE DEF c, f, P
    <3>1. QED BY <2>b, OneLast
  <2>2. p[2] \in Nat /\ q[2] \in Nat /\ Begun(p[1], start) \in Nat
    BY DEF Begun, Sampled, Taken
  <2>3. p[2] = q[2]
    BY <1>4, <2>1, <2>2
  <2>4. p = <<p[1], p[2]>> /\ q = <<q[1], q[2]>>
    OBVIOUS
  <2>5. QED BY <2>1, <2>3, <2>4
<1>5. ASSUME NEW s \in Q PROVE \E p \in P : f[p] = s
  <2>1. PICK t \in LastUpTo(s) : samples[t] \in h
    OBVIOUS
  <2>2. s - t < Cap /\ s \in 0..(time - 1)
    BY <2>1 DEF NoGap
  <2> DEFINE k == s - Begun(t, start) + 1
  <2>3. t \in Sampled(start) /\ k \in 1..Cap /\ k <= Held(t, start)
    BY <2>1, <2>2, TrueIsCounted
  <2>4. Begun(t, start) \in Nat /\ s \in Nat
    BY <2>2, <2>3 DEF Begun, Sampled, Taken
  <2> HIDE DEF k
  <2>5. <<t, k>> \in P
    BY <2>1, <2>3
  <2>6. Begun(t, start) + k - 1 = s
    BY <2>4 DEF k
  <2>7. f[<<t, k>>] = s
    BY <2>5, <2>6
  <2>8. QED BY <2>5, <2>7
<1> HIDE DEF P, Q, f
<1>6. f \in [P -> Q]
  BY <1>3 DEF f
<1>7. f \in Injection(P, Q) /\ f \in Surjection(P, Q)
  BY <1>4, <1>5, <1>6 DEF Injection, Surjection, IsInjective
<1>8. Cardinality(P) = Cardinality(Q)
  BY <1>2, <1>7, FS_Injection
<1>9. QED BY <1>8 DEF Seconds, TrueSeconds, P, Q

LEMMA ExactAt == ASSUME time \in Nat PROVE AttainmentExact
<1>1. ASSUME NoGap
      PROVE  /\ \A start \in 0..time : \A h \in {Bad, {"healthy"}} :
                    Seconds(h, start) = TrueSeconds(h, start)
             /\ Firing <=> \A w \in {Fast, Slow} :
                    Burns(w, TrueSeconds(Bad, Started(w)), TrueSeconds({"healthy"}, Started(w)))
  <2>1. \A start \in 0..time : \A h : Seconds(h, start) = TrueSeconds(h, start)
    BY <1>1, SecondsExact
  <2>2. \A w \in {Fast, Slow} : Started(w) \in 0..time
    BY DEF Started
  <2>3. QED BY <2>1, <2>2 DEF Firing
<1>2. \A start \in 0..time : \A t \in Sampled(start) : Held(t, start) <= Cap
  <2>1. \A start \in 0..time : Sampled(start) \subseteq Nat
    BY DEF Sampled, Taken
  <2>2. QED BY <2>1, HeldBounds
<1>3. QED BY <1>1, <1>2 DEF AttainmentExact

LEMMA AttainmentInitInv == AttainmentInit => AttainmentTypeOK
BY DEF AttainmentInit, AttainmentTypeOK

LEMMA AttainmentNextInv == AttainmentTypeOK /\ [AttainmentNext]_attainmentVars => AttainmentTypeOK'
<1> SUFFICES ASSUME AttainmentTypeOK, [AttainmentNext]_attainmentVars PROVE AttainmentTypeOK'
  OBVIOUS
<1>1. ASSUME NEW h \in Verdicts, Samples(h) PROVE AttainmentTypeOK'
  BY <1>1 DEF Samples, AttainmentTypeOK
<1>2. CASE TimeGoesOn
  BY <1>2 DEF TimeGoesOn, AttainmentTypeOK
<1>3. CASE AgesOut
  BY <1>3 DEF AgesOut, AttainmentTypeOK
<1>4. CASE HistoryRestarts
  BY <1>4 DEF HistoryRestarts, AttainmentTypeOK
<1>5. CASE UNCHANGED attainmentVars
  BY <1>5 DEF attainmentVars, AttainmentTypeOK
<1>6. QED BY <1>1, <1>2, <1>3, <1>4, <1>5 DEF AttainmentNext

(* SLOs: with samples in time, whatever was aged out and wherever a window *)
(* begins, the seconds that are counted are the seconds there were.        *)
THEOREM AttainmentIsExact == Spec => []AttainmentExact
<1>1. Init => AttainmentTypeOK
  BY AttainmentInitInv DEF Init
<1>2. AttainmentTypeOK /\ [Next]_vars => AttainmentTypeOK'
  BY Apart, AttainmentNextInv
<1>3. AttainmentTypeOK => AttainmentExact
  BY ExactAt DEF AttainmentTypeOK
<1>4. QED BY <1>1, <1>2, <1>3, PTL DEF Spec

-----------------------------------------------------------------------------
(* The overseers: each writes the alerts of its own signals.               *)
USE OverseersAssumption DEF Between, outside

TickStates == [at : {"between", "observed", "writing", "showing"}, active : SUBSET Signals,
           existing : SUBSET Signals, todo : SUBSET Signals, stale : SUBSET Signals,
           read : SUBSET Signals]
Own(o, w) == w.active \cup w.existing \subseteq Owns[o]

OverseersInv == /\ raised \cup opened \cup shown \subseteq Signals
                /\ broken \in BOOLEAN /\ available \in BOOLEAN /\ restarts \in 0..MaxRestarts
                /\ tick \in [Overseers -> TickStates]
                /\ \A o \in Overseers : Own(o, tick[o])

LEMMA BetweenOwns == Between \in TickStates /\ \A o \in Overseers : Own(o, Between)
BY DEF TickStates, Own

LEMMA OwnSignals == \A o \in Overseers : Owns[o] \subseteq Signals
BY DEF Signals

LEMMA OverseersInitInv == OverseersInit => OverseersInv
<1> SUFFICES ASSUME OverseersInit PROVE OverseersInv
  OBVIOUS
<1>1. tick = [o \in Overseers |-> Between]
  BY DEF OverseersInit
<1>2. /\ raised \cup opened \cup shown \subseteq Signals
      /\ broken \in BOOLEAN /\ available \in BOOLEAN /\ restarts \in 0..MaxRestarts
  <2>1. broken \in BOOLEAN /\ available \in BOOLEAN
    BY Zenon DEF OverseersInit
  <2>2. QED BY <2>1 DEF OverseersInit
<1> HIDE DEF Between
<1>3. tick \in [Overseers -> TickStates] /\ \A o \in Overseers : Own(o, tick[o])
  BY <1>1, BetweenOwns
<1>4. QED BY <1>2, <1>3 DEF OverseersInv

(* A step of the tick of one of them.                                      *)
LEMMA TickInv ==
  ASSUME OverseersInv, NEW o \in Overseers, NEW w \in TickStates, Own(o, w),
         tick' = [tick EXCEPT ![o] = w], opened' \cup shown' \subseteq Signals,
         available' \in BOOLEAN, UNCHANGED <<raised, broken, restarts>>
  PROVE  OverseersInv'
<1>1. tick' \in [Overseers -> TickStates] /\ \A p \in Overseers : Own(p, tick'[p])
  BY DEF OverseersInv
<1>2. QED BY <1>1 DEF OverseersInv

LEMMA OverseersNextInv == OverseersInv /\ [OverseersNext]_overseerVars => OverseersInv'
<1> SUFFICES ASSUME OverseersInv, [OverseersNext]_overseerVars PROVE OverseersInv'
  OBVIOUS
<1>0. /\ raised \cup opened \cup shown \subseteq Signals /\ available \in BOOLEAN
      /\ tick \in [Overseers -> TickStates] /\ \A o \in Overseers : Own(o, tick[o])
  BY DEF OverseersInv
<1>1. CASE UNCHANGED overseerVars
  BY <1>1 DEF overseerVars, OverseersInv
<1>2. ASSUME NEW s \in Signals, SignalMoves(s) PROVE OverseersInv'
  BY <1>2 DEF SignalMoves, OverseersInv
<1>3. CASE DatabaseTurns \/ HistoryWrites
  <2>1. broken' \in BOOLEAN /\ available' \in BOOLEAN
    BY <1>3 DEF DatabaseTurns, HistoryWrites, OverseersInv
  <2>2. QED BY <1>3, <2>1 DEF DatabaseTurns, HistoryWrites, OverseersInv
<1>4. CASE PiNOCRestarts
  <2>1. tick' = [o \in Overseers |-> Between]
    BY <1>4 DEF PiNOCRestarts
  <2>2. /\ UNCHANGED <<raised, broken, opened>> /\ shown' = {} /\ available' \in BOOLEAN
        /\ restarts' \in 0..MaxRestarts
    BY <1>4 DEF PiNOCRestarts, OverseersInv
  <2> HIDE DEF Between
  <2>3. tick' \in [Overseers -> TickStates] /\ \A o \in Overseers : Own(o, tick'[o])
    BY <2>1, BetweenOwns
  <2>4. QED BY <2>2, <2>3 DEF OverseersInv
<1>5. ASSUME NEW o \in Overseers, TickStep(o) PROVE OverseersInv'
  <2> DEFINE v == tick[o]
  <2>1. /\ v \in TickStates /\ Own(o, v) /\ Owns[o] \subseteq Signals
        /\ v = [at |-> v.at, active |-> v.active, existing |-> v.existing, todo |-> v.todo,
                stale |-> v.stale, read |-> v.read]
    BY <1>0, OwnSignals DEF TickStates
  <2>2. CASE Observes(o)
    <3> DEFINE active == (raised \cap (Owns[o] \ FromTables))
                         \cup Reading(raised \cap Owns[o] \cap FromTables)
               w == [Between EXCEPT !.at = "observed", !.active = active]
               u == [Between EXCEPT !.at = "observed"]
    <3>1. active \subseteq Owns[o]
      BY DEF Reading
    <3>2. u = [at |-> "observed", active |-> {}, existing |-> {}, todo |-> {}, stale |-> {},
               read |-> {}]
      OBVIOUS
    <3>3. w = [u EXCEPT !.active = active]
      OBVIOUS
    <3>4. tick' = [tick EXCEPT ![o] = w]
      BY <2>2 DEF Observes
    <3> HIDE DEF active, u, w
    <3>5. w = [at |-> "observed", active |-> active, existing |-> {}, todo |-> {}, stale |-> {},
               read |-> {}]
      BY <3>2, <3>3
    <3>6. w \in TickStates /\ Own(o, w)
      BY <2>1, <3>1, <3>5 DEF TickStates, Own
    <3>7. QED BY <1>0, <2>2, <3>4, <3>6, TickInv DEF Observes
  <2>3. CASE Compares(o)
    <3> DEFINE existing == Reading(opened \cap Owns[o])
               left == StaleAlerts(existing, v.active)
               u == [v EXCEPT !.at = "writing"]
               x == [u EXCEPT !.existing = existing]
               y == [x EXCEPT !.todo = v.active]
               w == [y EXCEPT !.stale = left]
    <3>1. existing \subseteq Owns[o] /\ left \subseteq Owns[o] /\ v.active \subseteq Owns[o]
      BY <2>1 DEF Reading, StaleAlerts, Own
    <3>2. tick' = [tick EXCEPT ![o] = w] \/ tick' = [tick EXCEPT ![o] = Between]
      BY <2>3 DEF Compares
    <3>3. u = [at |-> "writing", active |-> v.active, existing |-> v.existing, todo |-> v.todo,
               stale |-> v.stale, read |-> v.read]
      BY <2>1
    <3> HIDE DEF existing, left, u, x, y, w
    <3>4. x = [at |-> "writing", active |-> v.active, existing |-> existing, todo |-> v.todo,
               stale |-> v.stale, read |-> v.read]
      BY <3>3 DEF x
    <3>5. y = [at |-> "writing", active |-> v.active, existing |-> existing, todo |-> v.active,
               stale |-> v.stale, read |-> v.read]
      BY <3>4 DEF y
    <3>6. w = [at |-> "writing", active |-> v.active, existing |-> existing, todo |-> v.active,
               stale |-> left, read |-> v.read]
      BY <3>5 DEF w
    <3>7. w \in TickStates /\ Own(o, w)
      BY <2>1, <3>1, <3>6 DEF TickStates, Own
    <3>8. UNCHANGED <<raised, broken, restarts, available, opened, shown>>
      BY <2>3 DEF Compares
    <3>9. QED BY <1>0, <3>2, <3>7, <3>8, BetweenOwns, TickInv
  <2>4. ASSUME NEW s \in Owns[o], WritesAlert(o, s) \/ Settles(o, s) PROVE OverseersInv'
    <3>1. \/ tick' = [tick EXCEPT ![o] = [v EXCEPT !.todo = @ \ {s}]]
          \/ tick' = [tick EXCEPT ![o] = [v EXCEPT !.stale = @ \ {s}]]
      BY <1>0, <2>4 DEF WritesAlert, Settles
    <3>2. /\ [v EXCEPT !.todo = @ \ {s}] \in TickStates /\ Own(o, [v EXCEPT !.todo = @ \ {s}])
          /\ [v EXCEPT !.stale = @ \ {s}] \in TickStates /\ Own(o, [v EXCEPT !.stale = @ \ {s}])
      BY <2>1 DEF TickStates, Own
    <3>3. opened' \cup shown' \subseteq Signals /\ available' \in BOOLEAN
          /\ UNCHANGED <<raised, broken, restarts>>
      BY <1>0, <2>1, <2>4 DEF WritesAlert, Settles
    <3>4. QED BY <3>1, <3>2, <3>3, TickInv
  <2>5. CASE Lookup(o)
    <3> DEFINE w == [at |-> "showing", active |-> {}, existing |-> {}, todo |-> {}, stale |-> {},
                     read |-> Reading(opened)]
               u == [Between EXCEPT !.at = "showing"]
    <3>1. u = [at |-> "showing", active |-> {}, existing |-> {}, todo |-> {}, stale |-> {},
               read |-> {}]
      OBVIOUS
    <3>2. tick' = [tick EXCEPT ![o] = [u EXCEPT !.read = Reading(opened)]]
      BY <2>5 DEF Lookup
    <3> HIDE DEF u
    <3>3. [u EXCEPT !.read = Reading(opened)] = w
      BY <3>1
    <3>4. Reading(opened) \subseteq Signals
      BY <1>0 DEF Reading
    <3>5. w \in TickStates /\ Own(o, w)
      BY <3>4 DEF TickStates, Own
    <3> HIDE DEF w
    <3>6. QED BY <1>0, <2>5, <3>2, <3>3, <3>5, TickInv DEF Lookup
  <2>6. CASE Breaks(o) \/ SetsAlerts(o)
    <3>1. tick[o].read \subseteq Signals
      BY <2>1 DEF TickStates
    <3>2. /\ tick' = [tick EXCEPT ![o] = Between] /\ opened' \cup shown' \subseteq Signals
          /\ available' \in BOOLEAN /\ UNCHANGED <<raised, broken, restarts>>
      BY <1>0, <2>6, <3>1 DEF Breaks, SetsAlerts
    <3> HIDE DEF Between
    <3>3. QED BY <3>2, BetweenOwns, TickInv
  <2>7. QED BY <1>5, <2>2, <2>3, <2>4, <2>5, <2>6 DEF TickStep
<1>6. QED BY <1>1, <1>2, <1>3, <1>4, <1>5 DEF OverseersNext

LEMMA OverseersTyped == OverseersInv => OverseersTypeOK
BY DEF OverseersInv, OverseersTypeOK, TickStates, Own

-----------------------------------------------------------------------------
(* The baselines.                                                          *)
USE BaselinesAssumption DEF Always, NoBaseline

Slots == {Always} \cup 0..Hours - 1
Learned == [mean : Nat, var : Int, samples : 0..MinSamples, age : 0..MaxAge + 1]

BaselinesInv == /\ level \in Levels /\ hour \in 0..Hours - 1
                /\ baseline \in [Slots -> Learned]

LEMMA BaselinesInitInv == BaselinesInit => BaselinesInv
BY DEF BaselinesInit, BaselinesInv, Slots, Learned

LEMMA LearntTyped == ASSUME level \in Levels, NEW b \in Learned PROVE Learnt(b) \in Learned
<1> DEFINE step == level - b.mean
           spread == IF b.samples = 0 THEN 0 ELSE step * step
           n == IF b.samples < MinSamples THEN b.samples + 1 ELSE MinSamples
<1>1. level \in Nat /\ b.mean \in Nat /\ b.samples \in 0..MinSamples
  BY DEF Learned
<1>2. step \in Int
  BY <1>1
<1>3. Learnt(b) = [mean |-> level, age |-> 0, var |-> spread, samples |-> n]
  BY DEF Learnt
<1>4. n \in 0..MinSamples
  BY <1>1
<1> HIDE DEF step, n
<1>5. spread \in Int
  BY <1>2
<1> HIDE DEF spread
<1>6. QED BY <1>1, <1>3, <1>4, <1>5 DEF Learned

LEMMA BaselinesNextInv == BaselinesInv /\ [BaselinesNext]_baselineVars => BaselinesInv'
<1> SUFFICES ASSUME BaselinesInv, [BaselinesNext]_baselineVars PROVE BaselinesInv'
  OBVIOUS
<1>0. /\ level \in Levels /\ hour \in 0..Hours - 1 /\ baseline \in [Slots -> Learned]
      /\ DOMAIN baseline = Slots
  BY DEF BaselinesInv
<1>1. CASE ObservesSample
  <2>1. \A h \in Slots : Learnt(baseline[h]) \in Learned
    BY <1>0, LearntTyped
  <2>2. \A h \in Slots : [baseline[h] EXCEPT !.age = 0] \in Learned
    BY <1>0 DEF Learned
  <2>3. \A h \in Slots : Updated[h] \in {baseline[h], [baseline[h] EXCEPT !.age = 0],
                                         Learnt(baseline[h])}
    BY <1>0 DEF Updated
  <2>4. baseline' = Updated /\ UNCHANGED <<level, hour>> /\ DOMAIN Updated = Slots
        /\ Updated = [h \in Slots |-> Updated[h]]
    BY <1>0, <1>1 DEF ObservesSample, Updated
  <2>5. \A h \in Slots : Updated[h] \in Learned
    BY <1>0, <2>1, <2>2, <2>3
  <2>6. QED BY <1>0, <2>4, <2>5 DEF BaselinesInv
<1>2. CASE LevelShifts \/ ObservesNothing \/ UNCHANGED baselineVars
  BY <1>2 DEF LevelShifts, ObservesNothing, baselineVars, BaselinesInv
<1>3. CASE HourTurns
  <2> DEFINE New(h) == [baseline[h] EXCEPT !.age = IF @ > MaxAge \/ baseline[h].samples = 0
                                                   THEN @ ELSE @ + 1]
  <2>1. baseline' = [h \in Slots |-> New(h)] /\ hour' = (hour + 1) % Hours /\ UNCHANGED level
    BY <1>0, <1>3 DEF HourTurns
  <2>2. ASSUME NEW h \in Slots PROVE New(h) \in Learned
    <3>1. baseline[h] \in Learned
      BY <1>0
    <3>2. (IF baseline[h].age > MaxAge \/ baseline[h].samples = 0 THEN baseline[h].age
           ELSE baseline[h].age + 1) \in 0..MaxAge + 1
      BY <3>1 DEF Learned
    <3>3. QED BY <3>1, <3>2 DEF Learned
  <2> HIDE DEF New
  <2>3. hour' \in 0..Hours - 1
    BY <1>0, <2>1
  <2>4. QED BY <1>0, <2>1, <2>2, <2>3 DEF BaselinesInv
<1>4. QED BY <1>1, <1>2, <1>3 DEF BaselinesNext

LEMMA BaselinesTyped == BaselinesInv => BaselinesTypeOK
BY DEF BaselinesInv, BaselinesTypeOK, Slots, Learned

-----------------------------------------------------------------------------
(* The network matrix: of a pair one sample more is kept than is looked at.*)
USE LinksAssumption

LinksInv == /\ bad \subseteq Pairs /\ due \subseteq Pairs
            /\ pings \in [Pairs -> Seq({"good", "bad"})]
            /\ \A p \in Pairs : Len(pings[p]) <= Persistence + 1

LEMMA RecordTyped ==
  ASSUME LinksInv, NEW p \in Pairs, NEW s \in {"good", "bad"}
  PROVE  Record(p, s) \in Seq({"good", "bad"}) /\ Len(Record(p, s)) <= Persistence + 1
<1> DEFINE q == <<s>> \o pings[p]
           n == IF Len(q) > Persistence + 1 THEN Persistence + 1 ELSE Len(q)
<1>1. pings[p] \in Seq({"good", "bad"}) /\ <<s>> \in Seq({"good", "bad"})
  BY DEF LinksInv
<1>2. q \in Seq({"good", "bad"})
  BY <1>1
<1>3. Record(p, s) = SubSeq(q, 1, n)
  BY DEF Record, Latest
<1> HIDE DEF q
<1>4. n \in Nat /\ n <= Len(q) /\ n <= Persistence + 1
  BY <1>2
<1> HIDE DEF n
<1>5. SubSeq(q, 1, n) \in Seq({"good", "bad"}) /\ Len(SubSeq(q, 1, n)) = n
  BY <1>2, <1>4
<1>6. QED BY <1>3, <1>4, <1>5

LEMMA LinksInitInv == LinksInit => LinksInv
BY DEF LinksInit, LinksInv, Pairs

LEMMA SampledInv ==
  ASSUME LinksInv, NEW p \in Pairs, NEW s \in {"good", "bad"},
         pings' \in {pings, [pings EXCEPT ![p] = Record(p, s)]},
         UNCHANGED <<topology, bad>>, due' = due \ {p}
  PROVE  LinksInv'
<1>1. Record(p, s) \in Seq({"good", "bad"}) /\ Len(Record(p, s)) <= Persistence + 1
  BY RecordTyped
<1>2. Pairs' = Pairs
  BY DEF Pairs
<1>3. pings' \in [Pairs -> Seq({"good", "bad"})] /\ \A x \in Pairs : Len(pings'[x]) <= Persistence + 1
  BY <1>1 DEF LinksInv
<1>4. QED BY <1>2, <1>3 DEF LinksInv

LEMMA LinksNextInv == LinksInv /\ [LinksNext]_linkVars => LinksInv'
<1> SUFFICES ASSUME LinksInv, [LinksNext]_linkVars PROVE LinksInv'
  OBVIOUS
<1>1. ASSUME NEW p \in Pairs, SamplesPair(p) \/ SampleMisleads(p) PROVE LinksInv'
  <2>1. PICK s \in {"good", "bad"} : pings' \in {pings, [pings EXCEPT ![p] = Record(p, s)]}
    BY <1>1 DEF SamplesPair, SampleMisleads
  <2>2. UNCHANGED <<topology, bad>> /\ due' = due \ {p}
    BY <1>1 DEF SamplesPair, SampleMisleads
  <2>3. QED BY <2>1, <2>2, SampledInv
<1>2. CASE IntervalPasses \/ CollectorRestarts \/ UNCHANGED linkVars
  BY <1>2 DEF IntervalPasses, CollectorRestarts, linkVars, LinksInv, Pairs
<1>3. ASSUME NEW p \in Pairs, LinkTurns(p) PROVE LinksInv'
  BY <1>3 DEF LinkTurns, LinksInv, Pairs
<1>4. QED BY <1>1, <1>2, <1>3 DEF LinksNext, CollectorStep

LEMMA LinksTyped == LinksInv => LinksTypeOK
BY DEF LinksInv, LinksTypeOK

-----------------------------------------------------------------------------
(* The checks of a device.                                                 *)
USE DeviceChecksAssumption DEF NoContent, Partial, NoLook, NoReport, NoRepair

Found == [file : Contents \cup {NoContent, Partial}, unit : BOOLEAN, listener : BOOLEAN]

ChecksInv == /\ device \in Found /\ expects \in Contents
             /\ look.at \in {"idle", "read"} /\ look.saw \in Found
             /\ offSince \in {"never", "lately", "long"}
             /\ captures \in Seq(Contents) /\ goodCopy \in Contents \cup {NoContent}
             /\ repair.at \in {"idle", "writing"} /\ repair.content \in Contents \cup {NoContent}

LEMMA ChecksInitInv == ChecksInit => ChecksInv
BY DEF ChecksInit, ChecksInv, Found, Expected

LEMMA ChecksNextInv == ChecksInv /\ [ChecksNext]_checkVars => ChecksInv'
<1> SUFFICES ASSUME ChecksInv, [ChecksNext]_checkVars PROVE ChecksInv'
  OBVIOUS
<1> USE DEF ChecksInv
<1>1. CASE DeviceDrifts
  <2>1. device' \in Found
    <3>1. ASSUME NEW c \in Contents \cup {NoContent}, device' = [device EXCEPT !.file = c]
          PROVE  device' \in Found
      BY <3>1 DEF Found
    <3>2. ASSUME \/ device' = [device EXCEPT !.unit = ~device.unit]
                 \/ device' = [device EXCEPT !.listener = ~device.listener]
          PROVE  device' \in Found
      <4>1. (~device.unit) \in BOOLEAN /\ (~device.listener) \in BOOLEAN
        BY Zenon
      <4>2. QED BY <3>2, <4>1 DEF Found
    <3>3. QED BY <1>1, <3>1, <3>2 DEF DeviceDrifts
  <2>2. QED BY <1>1, <2>1 DEF DeviceDrifts
<1>2. CASE LooksAt
  BY <1>2 DEF LooksAt
<1>3. CASE Reports
  <2>1. look' = NoLook /\ offSince' = Since /\ UNCHANGED <<device, expects, goodCopy, repair>>
        /\ captures' = IF look.due /\ look.saw.file = expects
                       THEN Append(captures, look.saw.file) ELSE captures
    BY <1>3 DEF Reports
  <2>2. offSince' \in {"never", "lately", "long"} /\ look'.at = "idle" /\ look'.saw \in Found
    BY <2>1 DEF Since, Found
  <2>3. captures' \in Seq(Contents)
    BY <2>1
  <2>4. QED BY <2>1, <2>2, <2>3
<1>4. CASE LookFails
  BY <1>4 DEF LookFails, Found
<1>12. CASE CheckFallsDue
  BY <1>12 DEF CheckFallsDue
<1>13. CASE ChangeLasts
  BY <1>13 DEF ChangeLasts
<1>5. CASE Captures
  BY <1>5 DEF Captures
<1>6. CASE RestoreChecks
  BY <1>6 DEF RestoreChecks, Restorable, Counted, Found
<1>7. CASE RestoreFills
  BY <1>7 DEF RestoreFills, Found
<1>14. CASE RestoreCutOff
  BY <1>14 DEF RestoreCutOff
<1>8. CASE Reenables
  BY <1>8 DEF Reenables, Counted, Found
<1>9. CASE Reloads
  BY <1>9 DEF Reloads, Counted, Found
<1>10. CASE UNCHANGED checkVars
  BY <1>10 DEF checkVars
<1>11. QED BY <1>1, <1>2, <1>3, <1>4, <1>5, <1>6, <1>7, <1>8, <1>9, <1>10, <1>12, <1>13,
            <1>14 DEF ChecksNext

LEMMA ChecksTyped == ChecksInv => ChecksTypeOK
BY DEF ChecksInv, ChecksTypeOK, Found

-----------------------------------------------------------------------------
(* The versions of the backups: none is later than the last save.          *)
Version == 0..MaxSaves + 1
Copies  == [Members -> Version]
RestoreSteps == {"idle", "writing", "replaced"}

VersionsInv == /\ file \in Copies /\ older \in [1..Backups -> Version]
               /\ saver \in {"idle", "moved", "copied", "written"} /\ saves \in 0..MaxSaves
               /\ made \in Nat /\ (backup.at # "idle" => made >= 1)
               /\ backup \in [at : BackupSteps, read : Copies, todo : SUBSET Members]
               /\ \A b \in store : b.n \in 1..made /\ b.parts \in Copies
               /\ restore \in [at : RestoreSteps, from : Copies, todo : SUBSET Members]
               /\ wal \in {"none", "own", "former"} /\ mixed \in BOOLEAN

USE BundlesAssumption

LEMMA NothingRead == /\ Unread \in Copies /\ 1 \in Version /\ Torn \in Version
                     /\ NoBackup \in [at : BackupSteps, read : Copies, todo : SUBSET Members]
                     /\ NoBackup.at = "idle"
                     /\ NoRestore \in [at : RestoreSteps, from : Copies, todo : SUBSET Members]
<1>1. Torn \in Version /\ 1 \in Version
  BY DEF Torn, Version
<1>2. Unread \in Copies
  BY <1>1 DEF Unread, Copies
<1>3. QED BY <1>1, <1>2 DEF NoBackup, NoRestore, BackupSteps, RestoreSteps

LEMMA VersionsInitInv == BundlesInit => VersionsInv
<1> SUFFICES ASSUME BundlesInit PROVE VersionsInv
  OBVIOUS
<1>1. file \in Copies /\ older \in [1..Backups -> Version]
  BY NothingRead DEF BundlesInit, Copies
<1>2. wal \in {"none", "own", "former"} /\ mixed \in BOOLEAN
  BY DEF BundlesInit
<1>3. backup \in [at : BackupSteps, read : Copies, todo : SUBSET Members] /\ backup.at = "idle"
  BY NothingRead DEF BundlesInit
<1>4. restore \in [at : RestoreSteps, from : Copies, todo : SUBSET Members]
  BY NothingRead DEF BundlesInit
<1>5. QED BY <1>1, <1>2, <1>3, <1>4 DEF BundlesInit, VersionsInv

LEMMA SavesVersions ==
  ASSUME VersionsInv, SaveBegins \/ SaveCopies \/ SaveWrites \/ SaveReplaces \/ SaveFails
  PROVE  VersionsInv'
<1> USE DEF VersionsInv
<1>1. CASE SaveBegins
  <2>1. older' \in [1..Backups -> Version]
    <3>1. \A n \in 1..Backups : n # 1 => n - 1 \in 1..Backups
      BY DEF Backups
    <3>2. QED BY <1>1, <3>1, NothingRead DEF SaveBegins
  <2>2. saves' \in 0..MaxSaves /\ saver' = "moved"
    BY <1>1 DEF SaveBegins
  <2>3. QED BY <1>1, <2>1, <2>2 DEF SaveBegins, backingUp, restoring
<1>2. CASE SaveCopies
  <2>1. file["config"] \in Version
    BY DEF Copies, Members
  <2>2. QED BY <1>2, <2>1 DEF SaveCopies, backingUp, restoring
<1>3. CASE SaveWrites
  BY <1>3 DEF SaveWrites, backingUp, restoring
<1>4. CASE SaveReplaces
  <2>1. saves + 1 \in Version
    BY DEF Version
  <2>2. file' \in Copies
    BY <1>4, <2>1 DEF SaveReplaces, Copies
  <2>3. QED BY <1>4, <2>2 DEF SaveReplaces, backingUp, restoring
<1>5. CASE SaveFails
  BY <1>5 DEF SaveFails, backingUp, restoring
<1>6. QED BY <1>1, <1>2, <1>3, <1>4, <1>5

LEMMA RunVersions ==
  ASSUME VersionsInv,
         BackupBegins \/ (\E m \in Members : Reads(m)) \/ Rotates \/ BackupFails \/ ProcessEnds
  PROVE  VersionsInv'
<1> USE DEF VersionsInv
<1>1. CASE BackupBegins
  <2>1. made' \in Nat /\ made' >= 1 /\ \A n \in 1..made : n \in 1..made'
    <3>1. made \in Nat /\ made' = made + 1
      BY <1>1 DEF BackupBegins
    <3>2. QED BY ONLY <3>1
  <2>2. backup' \in [at : BackupSteps, read : Copies, todo : SUBSET Members]
    BY <1>1, NothingRead DEF BackupBegins, BackupSteps
  <2>3. \A b \in store' : b.n \in 1..made' /\ b.parts \in Copies
    BY <1>1, <2>1 DEF BackupBegins
  <2>4. QED BY <1>1, <2>1, <2>2, <2>3 DEF BackupBegins, saving, restoring
<1>2. ASSUME NEW m \in Members, Reads(m) PROVE VersionsInv'
  <2> DEFINE u == [backup EXCEPT !.todo = @ \ {m}]
  <2>1. u = [at |-> backup.at, read |-> backup.read, todo |-> backup.todo \ {m}]
    <3>1. backup \in [at : BackupSteps, read : Copies, todo : SUBSET Members]
      OBVIOUS
    <3>2. QED BY ONLY <3>1
  <2> HIDE DEF u
  <2>2. backup' = [u EXCEPT !.read[m] = file[m]]
    BY <1>2 DEF Reads, u
  <2>3. backup' = [at |-> backup.at, read |-> [backup.read EXCEPT ![m] = file[m]],
                   todo |-> backup.todo \ {m}]
    BY <2>1, <2>2
  <2>4. [backup.read EXCEPT ![m] = file[m]] \in Copies
    BY DEF Copies
  <2>5. backup' \in [at : BackupSteps, read : Copies, todo : SUBSET Members]
        /\ backup'.at = backup.at
    BY <2>3, <2>4
  <2>6. QED BY <1>2, <2>5 DEF Reads, saving, restoring
<1>3. CASE Rotates
  <2>1. store' \subseteq store
    BY <1>3 DEF Rotates
  <2>2. backup' = NoBackup
    BY <1>3 DEF Rotates
  <2>3. QED BY <1>3, <2>1, <2>2, NothingRead DEF Rotates, saving, restoring
<1>4. CASE BackupFails
  BY <1>4, NothingRead DEF BackupFails, saving, restoring
<1>5. CASE ProcessEnds
  BY <1>5, NothingRead DEF ProcessEnds, restoring
<1>6. QED BY <1>1, <1>2, <1>3, <1>4, <1>5

LEMMA DeliveryVersions ==
  ASSUME VersionsInv, DeliveryBegins \/ DeliveryEnds
  PROVE  VersionsInv'
<1> USE DEF VersionsInv
<1>1. backup.at # "idle"
  BY DEF DeliveryBegins, DeliveryEnds
<1>2. made \in 1..made
  BY <1>1
<1>3. This.n = made /\ This.parts = backup.read /\ Part.n = made /\ Part.parts \in Copies
  BY NothingRead DEF This, Part
<1>4. store' \subseteq store \cup {This, Part}
  BY DEF DeliveryBegins, DeliveryEnds
<1>5. made' = made /\ UNCHANGED <<file, older, saver, saves, restore, wal, mixed>>
  BY DEF DeliveryBegins, DeliveryEnds, saving, restoring
<1>6. \A b \in store' : b.n \in 1..made' /\ b.parts \in Copies
  BY <1>2, <1>3, <1>4, <1>5
<1>7. backup' \in [at : BackupSteps, read : Copies, todo : SUBSET Members]
  BY DEF DeliveryBegins, DeliveryEnds, BackupSteps
<1>8. QED BY <1>1, <1>2, <1>5, <1>6, <1>7

LEMMA RestoreVersions ==
  ASSUME VersionsInv,
         \/ \E b \in store : RestoreBegins(b)
         \/ \E m \in Members : RestoreWrites(m)
         \/ RestoreUnlinks \/ RestoreEnds \/ DatabaseOpens \/ DatabaseCloses
  PROVE  VersionsInv'
<1> USE DEF VersionsInv
<1>1. ASSUME NEW b \in store, RestoreBegins(b) PROVE VersionsInv'
  BY <1>1 DEF RestoreBegins, saving, backingUp, RestoreSteps
<1>2. ASSUME NEW m \in Members, RestoreWrites(m) PROVE VersionsInv'
  <2>1. restore.from[m] \in Version
    BY DEF Copies
  <2>2. file' \in Copies
    BY <1>2, <2>1 DEF RestoreWrites, Copies
  <2> DEFINE t == restore.todo \ {m}
             a == IF m = "database" THEN "replaced" ELSE restore.at
  <2>3. restore' = [restore EXCEPT !.todo = t, !.at = a]
    BY <1>2 DEF RestoreWrites
  <2>4. t \in SUBSET Members /\ a \in RestoreSteps
    BY DEF RestoreSteps
  <2> HIDE DEF t, a
  <2>5. restore' \in [at : RestoreSteps, from : Copies, todo : SUBSET Members]
    BY <2>3, <2>4
  <2>6. wal' \in {"none", "own", "former"}
    BY <1>2 DEF RestoreWrites
  <2>7. QED BY <1>2, <2>2, <2>5, <2>6 DEF RestoreWrites, saving, backingUp
<1>3. CASE RestoreUnlinks \/ RestoreEnds \/ DatabaseOpens \/ DatabaseCloses
  <2>1. UNCHANGED <<file, mixed>> \/ Mixes
    BY <1>3 DEF RestoreUnlinks, RestoreEnds, DatabaseOpens, DatabaseCloses
  <2>2. file' \in Copies /\ mixed' \in BOOLEAN
    <3>1. file \in Copies /\ mixed \in BOOLEAN
      OBVIOUS
    <3>2. CASE Mixes
      BY <3>1, <3>2, NothingRead DEF Mixes, Copies
    <3>3. QED BY <2>1, <3>1, <3>2
  <2>3. restore' \in {restore, NoRestore} /\ wal' \in {"none", "own", wal}
    BY <1>3 DEF RestoreUnlinks, RestoreEnds, DatabaseOpens, DatabaseCloses
  <2>4. QED BY <1>3, <2>2, <2>3, NothingRead
            DEF RestoreUnlinks, RestoreEnds, DatabaseOpens, DatabaseCloses, saving, backingUp
<1>4. QED BY <1>1, <1>2, <1>3

LEMMA VersionsNextInv == VersionsInv /\ [BundlesNext]_bundleVars => VersionsInv'
<1> SUFFICES ASSUME VersionsInv, [BundlesNext]_bundleVars PROVE VersionsInv'
  OBVIOUS
<1>1. CASE UNCHANGED bundleVars
  BY <1>1 DEF bundleVars, VersionsInv
<1>2. QED BY <1>1, SavesVersions, RunVersions, DeliveryVersions, RestoreVersions DEF BundlesNext

LEMMA BundlesTyped == VersionsInv => BundlesTypeOK
BY DEF VersionsInv, BundlesTypeOK, Copies, Version, BackupSteps, RestoreSteps

-----------------------------------------------------------------------------
(* The collection: what is known of a device is not ahead of the device.   *)
Sight == [Sections -> 0..world]
Polls == [at : {"idle", "submitted", "polling", "polled", "collected"}, due : SUBSET Gated,
          took : SUBSET Environments, there : BOOLEAN]

SightsInv == /\ world \in Nat /\ listed \in {"configured", "discovered", "gone"}
             /\ age \in [Gated -> 0..Period] /\ wait \in 0..Interval
             /\ fleet \in Polls /\ forced \subseteq Environments
             /\ snapshot \in Sight
             /\ results \in [there : BOOLEAN, facts : Sight]
             /\ cache.facts \in Sight /\ (cache.there \/ cache = Uncached)

USE CollectionAssumption

LEMMA SightsInitInv == CollectionInit => SightsInv
<1> SUFFICES ASSUME CollectionInit PROVE SightsInv
  OBVIOUS
<1>1. Nothing \in Sight
  BY DEF CollectionInit, Nothing, Sight
<1>2. Period \in 0..Period
  OBVIOUS
<1>3. QED BY <1>1, <1>2 DEF CollectionInit, SightsInv, Absent, Uncached, NoPoll, Interval, Polls

LEMMA AsideSights ==
  ASSUME SightsInv,
         \/ Ticks \/ Hears \/ ProbeRuns \/ ProbeMerges
         \/ (\E e \in Environments : Asks(e)) \/ Wakes
  PROVE  SightsInv'
<1> USE DEF SightsInv, polling, showing, asking
<1>1. CASE Ticks
  <2>1. wait' \in 0..Interval
    BY <1>1 DEF Ticks, Interval
  <2>2. age' \in [Gated -> 0..Period]
    BY <1>1 DEF Ticks
  <2>3. QED BY <1>1, <2>1, <2>2 DEF Ticks, Sight
<1>2. CASE Hears
  BY <1>2 DEF Hears, Sight
<1>3. CASE ProbeRuns
  BY <1>3 DEF ProbeRuns, Sight
<1>4. CASE ProbeMerges
  <2>1. cache'.facts = cache.facts /\ (cache'.there \/ cache' = Uncached)
    <3>1. CASE cache.there
      <4>1. cache' = [cache EXCEPT !.probe = probe]
        BY <1>4, <3>1 DEF ProbeMerges
      <4>2. QED BY <3>1, <4>1
    <3>2. CASE ~cache.there
      BY <1>4, <3>2 DEF ProbeMerges
    <3>3. QED BY <3>1, <3>2
  <2>2. QED BY <1>4, <2>1 DEF ProbeMerges, Sight
<1>5. ASSUME NEW e \in Environments, Asks(e) PROVE SightsInv'
  BY <1>5 DEF Asks, Sight
<1>6. CASE Wakes
  BY <1>6 DEF Wakes, Sight, Interval
<1>7. QED BY <1>1, <1>2, <1>3, <1>4, <1>5, <1>6

(* What was seen is not ahead of a device that has moved on.               *)
LEMMA MovesSights == ASSUME SightsInv, DeviceMoves PROVE SightsInv'
<1> USE DEF SightsInv
<1>1. world' \in Nat /\ 0..world \subseteq 0..world'
  BY DEF DeviceMoves
<1>2. ASSUME NEW f \in Sight PROVE f \in Sight'
  BY <1>1, <1>2 DEF Sight
<1>3. UNCHANGED <<listed, age, wait, fleet, forced, snapshot, results, cache>>
  BY DEF DeviceMoves, polling, showing, asking
<1>4. results.facts \in Sight' /\ cache.facts \in Sight' /\ snapshot \in Sight'
  BY <1>2
<1>5. results \in [there : BOOLEAN, facts : Sight']
  BY <1>4
<1>6. QED BY <1>1, <1>3, <1>4, <1>5 DEF Sight

LEMMA PollSights ==
  ASSUME SightsInv, Submits \/ FleetBegins \/ (\E o \in Outcomes : PollEnds(o)) \/ HandsOver
  PROVE  SightsInv'
<1> USE DEF SightsInv, showing, asking
<1>1. CASE Submits
  <2>1. fleet' \in Polls
    BY <1>1 DEF Submits, NoPoll, Polls
  <2>2. QED BY <1>1, <2>1 DEF Submits, Interval, Sight
<1>2. CASE FleetBegins
  <2>1. forced' \subseteq Environments
    BY <1>2 DEF FleetBegins
  <2>2. fleet' \in Polls
    BY <1>2 DEF FleetBegins, Polls, Gated
  <2>3. QED BY <1>2, <2>1, <2>2 DEF FleetBegins, Sight
<1>3. ASSUME NEW o \in Outcomes, PollEnds(o) PROVE SightsInv'
  <2>1. Seen \in Sight
    BY DEF Seen, Kept, Sight
  <2>2. snapshot' \in Sight
    BY <1>3, <2>1 DEF PollEnds
  <2>3. age' \in [Gated -> 0..Period]
    BY <1>3 DEF PollEnds
  <2>4. fleet' \in Polls
    BY <1>3 DEF PollEnds, Polls
  <2>5. forced' \subseteq Environments
    BY <1>3 DEF PollEnds
  <2>6. UNCHANGED <<world, listed, wait, results, cache>>
    BY <1>3 DEF PollEnds
  <2>7. QED BY <2>2, <2>3, <2>4, <2>5, <2>6 DEF Sight
<1>4. CASE HandsOver
  <2>1. Nothing \in Sight
    BY DEF Nothing, Sight
  <2>2. Collected \in [there : BOOLEAN, facts : Sight]
    BY <2>1 DEF Collected, Polls
  <2>3. fleet' \in Polls
    BY <1>4 DEF HandsOver, NoPoll, Polls
  <2>4. UNCHANGED <<world, listed, age, wait, snapshot, cache, forced>>
    BY <1>4 DEF HandsOver
  <2>5. results' \in [there : BOOLEAN, facts : Sight]
    BY <1>4, <2>2 DEF HandsOver
  <2>6. QED BY <2>3, <2>4, <2>5 DEF Sight
<1>5. QED BY <1>1, <1>2, <1>3, <1>4

LEMMA PublishSights == ASSUME SightsInv, FleetPublishes \/ OtherPublishes PROVE SightsInv'
<1> USE DEF SightsInv, polling, asking
<1>1. Shown.facts \in Sight /\ (Shown.there \/ Shown = Uncached)
  <2>1. Uncached.facts \in Sight
    BY DEF Uncached, Nothing, Sight
  <2>2. CASE results.there
    <3>1. Shown = [there |-> TRUE, facts |-> results.facts, probe |-> "pending"]
      BY <2>2 DEF Shown
    <3>2. QED BY <3>1
  <2>3. CASE ~results.there
    BY <2>1, <2>3 DEF Shown
  <2>4. QED BY <2>2, <2>3
<1>2. cache' = Shown /\ UNCHANGED <<world, listed, age, snapshot, results, forced>>
  BY DEF FleetPublishes, OtherPublishes, Published
<1>3. fleet' \in Polls /\ wait' = wait
  <2>1. NoPoll \in Polls
    BY DEF NoPoll, Polls
  <2>2. QED BY <2>1 DEF FleetPublishes, OtherPublishes, Ended
<1>4. QED BY <1>1, <1>2, <1>3 DEF Sight

LEMMA SightsNextInv == SightsInv /\ [CollectionNext]_collectionVars => SightsInv'
<1> SUFFICES ASSUME SightsInv, [CollectionNext]_collectionVars PROVE SightsInv'
  OBVIOUS
<1>1. CASE UNCHANGED collectionVars
  BY <1>1 DEF collectionVars, SightsInv, Sight
<1>2. QED BY <1>1, AsideSights, MovesSights, PollSights, PublishSights DEF CollectionNext

LEMMA CollectionTyped == SightsInv => CollectionTypeOK
BY DEF SightsInv, CollectionTypeOK, Sight, Polls

-----------------------------------------------------------------------------
(* The notifier's queue never holds more than it may, and no channel has   *)
(* more rows in the log than results.                                      *)
LoggedLess == /\ counted \in [Channels -> Nat] /\ logged \in [Channels -> Nat]
              /\ \A c \in Channels : logged[c] <= counted[c]

QueueInv == /\ queue \in Seq(1..MaxMessages) /\ Len(queue) <= QueueSize
            /\ raising \subseteq Producers /\ accepted \in 0..MaxMessages
            /\ worker \in [at : WorkerAt, message : Nat]
            /\ unsent \subseteq Channels \X (1..MaxMessages) /\ unheard \subseteq Channels
            /\ LoggedLess /\ direct \in 0..MaxDirect

USE NotifierAssumption

LEMMA QueueInitInv == NotifierInit => QueueInv
<1> SUFFICES ASSUME NotifierInit PROVE QueueInv
  OBVIOUS
<1>1. LoggedLess
  BY DEF NotifierInit, LoggedLess, Zero
<1>2. queue \in Seq(1..MaxMessages) /\ Len(queue) = 0
  BY DEF NotifierInit
<1>3. worker \in [at : WorkerAt, message : Nat]
  BY DEF NotifierInit, Waiting, WorkerAt
<1>4. QED BY <1>1, <1>2, <1>3 DEF NotifierInit, QueueInv

LEMMA ProducersQueue ==
  ASSUME QueueInv, NEW p \in Producers, Raises(p) \/ Puts(p) \/ Drops(p) PROVE QueueInv'
<1> USE DEF QueueInv, delivering, recording
<1>1. CASE Puts(p)
  <2>1. accepted + 1 \in 1..MaxMessages /\ accepted' = accepted + 1
    <3>1. accepted < MaxMessages /\ accepted' = accepted + 1
      BY <1>1 DEF Puts
    <3>2. accepted \in 0..MaxMessages
      OBVIOUS
    <3>3. QED BY ONLY <3>1, <3>2, NotifierAssumption
  <2>2. queue' \in Seq(1..MaxMessages) /\ Len(queue') = Len(queue) + 1 /\ Len(queue) \in Nat
    BY <1>1, <2>1 DEF Puts
  <2>3. Len(queue') <= QueueSize
    BY <1>1, <2>2 DEF Puts
  <2>4. accepted' \in 0..MaxMessages
    BY <1>1, <2>1 DEF Puts
  <2>5. raising' \subseteq Producers /\ UNCHANGED <<worker, unsent, unheard, counted, logged, direct>>
    BY <1>1 DEF Puts
  <2>6. LoggedLess'
    BY <2>5 DEF LoggedLess
  <2>7. QED BY <2>2, <2>3, <2>4, <2>5, <2>6
<1>2. CASE Raises(p)
  BY <1>2 DEF Raises, LoggedLess
<1>3. CASE Drops(p)
  BY <1>3 DEF Drops, LoggedLess
<1>4. QED BY <1>1, <1>2, <1>3

LEMMA FansQueue == ASSUME QueueInv, Fans PROVE QueueInv'
<1> USE DEF QueueInv, recording
<1>1. Head(queue) \in 1..MaxMessages
  <2>1. queue \in Seq(1..MaxMessages) /\ queue # <<>>
    BY DEF Fans
  <2>2. QED BY ONLY <2>1, HeadTailProperties
<1>2. queue' \in Seq(1..MaxMessages) /\ Len(queue') <= QueueSize
  BY DEF Fans
<1>3. unsent' \subseteq Channels \X (1..MaxMessages)
  <2>1. unsent' = unsent \cup {<<c, Head(queue)>> : c \in Channels}
    BY DEF Fans
  <2>2. unsent \subseteq Channels \X (1..MaxMessages)
    OBVIOUS
  <2>3. QED BY ONLY <1>1, <2>1, <2>2
<1>4. worker' \in [at : WorkerAt, message : Nat]
  <2>1. worker' = [at |-> "sending", message |-> Head(queue)]
    BY DEF Fans
  <2>2. Head(queue) \in Nat
    BY ONLY <1>1, NotifierAssumption
  <2>3. QED BY <2>1, <2>2 DEF WorkerAt
<1>5. QED BY <1>2, <1>3, <1>4 DEF Fans, LoggedLess

(* A result is counted before it is logged, and the log may miss it.       *)
LEMMA LogsCounted ==
  ASSUME LoggedLess, NEW c \in Channels, counted' = [counted EXCEPT ![c] = @ + 1],
         logged' \in {logged, [logged EXCEPT ![c] = @ + 1]}
  PROVE  LoggedLess'
<1>1. counted' \in [Channels -> Nat] /\ logged' \in [Channels -> Nat]
  BY DEF LoggedLess
<1>2. ASSUME NEW d \in Channels PROVE logged'[d] <= counted'[d]
  BY DEF LoggedLess
<1>3. QED BY <1>1, <1>2 DEF LoggedLess

LEMMA WorkerQueue ==
  ASSUME QueueInv,
         \/ \E c \in Channels : Records(c) \/ SendsDirectly(c)
         \/ \E s \in unsent : Sends(s[1], s[2])
         \/ Rests \/ Stops \/ WorkerEnds \/ JoinTimesOut
  PROVE  QueueInv'
<1> USE DEF QueueInv, delivering, recording
<1>1. ASSUME NEW c \in Channels, Records(c) PROVE QueueInv'
  <2>1. LoggedLess'
    BY <1>1, LogsCounted DEF Records
  <2>2. QED BY <1>1, <2>1 DEF Records
<1>2. ASSUME NEW c \in Channels, SendsDirectly(c) PROVE QueueInv'
  <2>1. LoggedLess'
    BY <1>2, LogsCounted DEF SendsDirectly
  <2>2. direct' \in 0..MaxDirect
    BY <1>2 DEF SendsDirectly
  <2>3. QED BY <1>2, <2>1, <2>2 DEF SendsDirectly
<1>3. ASSUME NEW s \in unsent, Sends(s[1], s[2]) PROVE QueueInv'
  <2>1. unsent' \subseteq unsent
    BY <1>3 DEF Sends
  <2>2. QED BY <1>3, <2>1 DEF Sends, LoggedLess
<1>4. CASE Rests
  BY <1>4 DEF Rests, Waiting, WorkerAt, LoggedLess
<1>5. CASE Stops
  BY <1>5 DEF Stops, LoggedLess
<1>6. CASE WorkerEnds
  <2>1. worker' \in [at : WorkerAt, message : Nat]
    BY <1>6 DEF WorkerEnds, WorkerAt
  <2>2. QED BY <1>6, <2>1 DEF WorkerEnds, LoggedLess
<1>7. CASE JoinTimesOut
  <2>1. worker' \in [at : WorkerAt, message : Nat]
    BY <1>7 DEF JoinTimesOut, WorkerAt
  <2>2. QED BY <1>7, <2>1 DEF JoinTimesOut, LoggedLess
<1>8. QED BY <1>1, <1>2, <1>3, <1>4, <1>5, <1>6, <1>7

LEMMA QueueNextInv == QueueInv /\ [NotifierNext]_notifierVars => QueueInv'
<1> SUFFICES ASSUME QueueInv, [NotifierNext]_notifierVars PROVE QueueInv'
  OBVIOUS
<1>1. CASE UNCHANGED notifierVars
  BY <1>1 DEF notifierVars, delivering, recording, QueueInv, LoggedLess
<1>2. QED BY <1>1, ProducersQueue, FansQueue, WorkerQueue DEF NotifierNext

LEMMA NotifierTyped == QueueInv => NotifierTypeOK
BY DEF QueueInv, NotifierTypeOK, WorkerAt, LoggedLess

-----------------------------------------------------------------------------
(* The states of the applications are states of health.                    *)
Named == {"healthy", "maintenance", "unknown", "stale", "warning", "degraded", "offline", "critical"}

LEMMA HealthsAre == Healths = Named /\ \A h \in Healths : Rank(h) \in 1..8
<1>1. DOMAIN HealthStates = 1..8
  BY DEF HealthStates
<1>2. /\ HealthStates[1] = "healthy" /\ HealthStates[2] = "maintenance"
      /\ HealthStates[3] = "unknown" /\ HealthStates[4] = "stale"
      /\ HealthStates[5] = "warning" /\ HealthStates[6] = "degraded"
      /\ HealthStates[7] = "offline" /\ HealthStates[8] = "critical"
  BY DEF HealthStates
<1>3. Healths = {HealthStates[k] : k \in 1..8}
  BY <1>1 DEF Healths, Range
<1>4. 1..8 = {1, 2, 3, 4, 5, 6, 7, 8}
  OBVIOUS
<1>5. Healths = Named
  BY <1>2, <1>3, <1>4 DEF Named
<1>6. ASSUME NEW h \in Healths PROVE Rank(h) \in 1..8
  <2>1. \E k \in DOMAIN HealthStates : HealthStates[k] = h
    BY <1>1, <1>3
  <2>2. Rank(h) \in DOMAIN HealthStates
    BY <2>1 DEF Rank
  <2>3. QED BY <1>1, <2>2
<1>7. QED BY <1>5, <1>6

LEMMA WorstIsOne == ASSUME NEW S \in SUBSET Healths PROVE Worst(S) \in Healths /\ (S # {} => Worst(S) \in S)
<1>1. CASE S = {}
  BY <1>1, HealthsAre DEF Worst, Named
<1>2. CASE S # {}
  <2> DEFINE below == {8 - Rank(h) : h \in S}
  <2>1. \A h \in S : Rank(h) \in 1..8
    BY HealthsAre
  <2>2. below \subseteq Nat /\ below # {}
    BY <1>2, <2>1
  <2>3. PICK x \in below : \A y \in below : x <= y
    <3> HIDE DEF below
    <3>1. QED BY <2>2, LeastOf
  <2>4. PICK h \in S : x = 8 - Rank(h)
    BY <2>3
  <2>5. ASSUME NEW g \in S PROVE Rank(g) <= Rank(h)
    <3>1. 8 - Rank(h) <= 8 - Rank(g)
      BY <2>3, <2>4
    <3>2. Rank(g) \in Int /\ Rank(h) \in Int
      BY <2>1
    <3>3. QED BY ONLY <3>1, <3>2
  <2>6. (CHOOSE g \in S : \A f \in S : Rank(f) <= Rank(g)) \in S
    BY <2>4, <2>5
  <2>7. QED BY <1>2, <2>6 DEF Worst
<1>3. QED BY <1>1, <1>2

LEMMA EscalatedIsOne == ASSUME NEW h \in Healths, NEW c PROVE Escalate(h, c) \in Healths
BY HealthsAre DEF Escalate, Named

LEMMA RolledIsOne == ASSUME NEW S \in SUBSET Healths, NEW c PROVE Rollup(S, c) \in Healths
<1> DEFINE taken == {Escalate(h, c) : h \in S \ {"maintenance"}}
<1>1. taken \subseteq Healths
  BY EscalatedIsOne
<1>2. Worst(taken) \in Healths
  <2> HIDE DEF taken
  <2>1. QED BY <1>1, WorstIsOne
<1>3. "healthy" \in Healths
  BY HealthsAre DEF Named
<1>4. QED BY <1>2, <1>3 DEF Rollup

(* A check finds a state of health, whatever it sees.                      *)
LEMMA ObservedIsOne ==
  ASSUME NEW sight \in Sights, NEW up \in BOOLEAN, NEW hard \in BOOLEAN
  PROVE  /\ Observed(sight, up, hard).state \in Healths
         /\ Observed(sight, up, hard).conclusive \in BOOLEAN
BY HealthsAre DEF Observed, Sights, Named

LEMMA ImpliedIsOne == ASSUME NEW since PROVE Implied(since) \in Healths
BY HealthsAre DEF Implied, FreshState, Named

LEMMA ComposedIsOne ==
  ASSUME NEW one, NEW two, one.state \in Healths, two.state \in Healths,
         NEW f \in Healths, NEW c
  PROVE  Composed(one, two, f, c).state \in Healths /\ Composed(one, two, f, c).conclusive = TRUE
<1> DEFINE Child(o) == IF o.conclusive THEN o.state ELSE f
           both == {Child(one), Escalate(Child(two), c)}
<1>1. Child(one) \in Healths /\ Child(two) \in Healths
  OBVIOUS
<1>2. both \subseteq Healths
  BY <1>1, EscalatedIsOne
<1>3. Worst(both) \in Healths
  <2> HIDE DEF both
  <2>1. QED BY <1>2, WorstIsOne
<1>4. Composed(one, two, f, c) = [conclusive |-> TRUE, state |-> Worst(both)]
  BY DEF Composed
<1> HIDE DEF both
<1>5. QED BY <1>3, <1>4

(* The rows of the application and of its instances, and what the poll     *)
(* holds of them.                                                          *)
ApplicationRow == [lifecycle : {"active", "retired", "archived"}, criticality : Criticalities,
                   strategy : Strategies \ {"inherited"}, health : Healths]
InstanceRow   == [there : BOOLEAN, enabled : BOOLEAN, critical : BOOLEAN, strategy : Strategies,
                  health : Healths, success : Ages]
InstanceRows  == [Instances -> InstanceRow]
HealthPolls   == [at : {"idle", "begun", "checking"}, age : Ages, up : BOOLEAN, row : ApplicationRow,
                  todo : SUBSET Instances, asof : [Instances -> Ages], read : InstanceRows, states : SUBSET Healths]

StatesInv == /\ application \in ApplicationRow /\ instance \in InstanceRows
             /\ confirmed \in [Instances -> Ages] /\ unearned \subseteq Instances
             /\ changes \in 0..MaxChanges /\ poll \in HealthPolls

LEMMA NewRows ==
  /\ NewInstance \in InstanceRow /\ NoInstance \in InstanceRow
  /\ Idle \in HealthPolls /\ Idle.row \in ApplicationRow
<1>1. "unknown" \in Healths
  BY HealthsAre DEF Named
<1>2. NewInstance \in InstanceRow
  BY <1>1, NeverIsEarned DEF NewInstance, InstanceRow, Strategies
<1>3. NoInstance \in InstanceRow
  <2>1. NoInstance = [there |-> FALSE, enabled |-> TRUE, critical |-> FALSE,
                      strategy |-> "inherited", health |-> "unknown", success |-> Never]
    <3>1. NewInstance = [there |-> TRUE, enabled |-> TRUE, critical |-> FALSE,
                         strategy |-> "inherited", health |-> "unknown", success |-> Never]
      BY DEF NewInstance
    <3>2. NoInstance = [NewInstance EXCEPT !.there = FALSE]
      BY DEF NoInstance
    <3>3. QED BY <3>1, <3>2
  <2>2. QED BY <1>1, <2>1, NeverIsEarned DEF InstanceRow, Strategies
<1>4. 0 \in Ages
  BY DEF Ages, Never
<1>5. Idle \in HealthPolls /\ Idle.row \in ApplicationRow
  BY <1>1, <1>3, <1>4, NeverIsEarned
     DEF Idle, HealthPolls, ApplicationRow, InstanceRows, Criticalities, Strategies
<1>6. QED BY <1>2, <1>3, <1>5

LEMMA StatesInitInv == ApplicationsInit => StatesInv
<1> SUFFICES ASSUME ApplicationsInit PROVE StatesInv
  OBVIOUS
<1>1. application \in ApplicationRow /\ poll \in HealthPolls
  BY NewRows DEF ApplicationsInit
<1>2. instance \in InstanceRows /\ confirmed \in [Instances -> Ages]
  BY NewRows, NeverIsEarned DEF ApplicationsInit, InstanceRows
<1>3. QED BY <1>1, <1>2 DEF ApplicationsInit, StatesInv

LEMMA PollStates ==
  ASSUME StatesInv, PollBegins \/ PollReads \/ RollUp \/ PollRestarts
  PROVE  StatesInv'
<1> USE DEF StatesInv
<1>1. CASE PollBegins
  <2> DEFINE asRead == [application EXCEPT !.health = "unknown"]
             ages == [i \in Instances |-> instance[i].success]
  <2>1. PICK up \in BOOLEAN :
           poll' = [Idle EXCEPT !.at = "begun", !.up = up, !.row = asRead, !.asof = ages]
    BY <1>1 DEF PollBegins
  <2>2. asRead \in ApplicationRow
    BY HealthsAre DEF ApplicationRow, Named
  <2>2a. ages \in [Instances -> Ages]
    BY DEF InstanceRows, InstanceRow
  <2> HIDE DEF asRead, ages
  <2>3. poll' \in HealthPolls
    BY <2>1, <2>2, <2>2a, NewRows DEF HealthPolls
  <2>4. QED BY <1>1, <2>3 DEF PollBegins
<1>2. CASE PollReads
  <2> DEFINE enabled == {i \in Instances : instance[i].there /\ instance[i].enabled}
             rd == [i \in Instances |-> IF i \in enabled
                                        THEN [instance[i] EXCEPT !.health = Floored(i)]
                                        ELSE NoInstance]
             ages == Idle.asof
  <2>1. poll' = [poll EXCEPT !.at = "checking", !.todo = enabled, !.asof = ages, !.read = rd]
    BY <1>2 DEF PollReads
  <2>2. rd \in InstanceRows /\ enabled \subseteq Instances
    <3>1. ASSUME NEW i \in Instances PROVE [instance[i] EXCEPT !.health = Floored(i)] \in InstanceRow
      <4> DEFINE old == instance[i]
                 h == Floored(i)
      <4>1. old \in InstanceRow
        BY DEF InstanceRows
      <4>2. h \in Healths
        BY ImpliedIsOne DEF Floored
      <4> HIDE DEF old, h
      <4>3. [old EXCEPT !.health = h] \in InstanceRow
        BY <4>1, <4>2 DEF InstanceRow
      <4>4. QED BY <4>3 DEF old, h
    <3>2. QED BY <3>1, NewRows DEF InstanceRows
  <2>2a. ages \in [Instances -> Ages]
    BY NewRows DEF HealthPolls
  <2> HIDE DEF enabled, rd, ages
  <2>3. poll' \in HealthPolls
    BY <2>1, <2>2, <2>2a DEF HealthPolls
  <2>4. QED BY <1>2, <2>3 DEF PollReads
<1>3. CASE RollUp
  <2> DEFINE rolled == Rollup(poll.states, poll.row.criticality)
             state == IF poll.states = {} THEN "unknown"
                      ELSE IF poll.row.lifecycle = "retired" THEN Worst({rolled, "maintenance"})
                      ELSE rolled
  <2>1. application' = [application EXCEPT !.health = state] /\ poll' = Idle
    BY <1>3 DEF RollUp
  <2>2. rolled \in Healths
    BY RolledIsOne DEF HealthPolls
  <2>3. "unknown" \in Healths /\ "maintenance" \in Healths
    BY HealthsAre DEF Named
  <2>4. Worst({rolled, "maintenance"}) \in Healths
    <3> HIDE DEF rolled
    <3>1. {rolled, "maintenance"} \in SUBSET Healths
      BY <2>2, <2>3
    <3>2. QED BY <3>1, WorstIsOne
  <2>5. state \in Healths
    BY <2>2, <2>3, <2>4
  <2> HIDE DEF state
  <2>6. application' \in ApplicationRow
    BY <2>1, <2>5 DEF ApplicationRow
  <2>7. QED BY <1>3, <2>1, <2>6, NewRows DEF RollUp
<1>4. CASE PollRestarts
  BY <1>4, NewRows DEF PollRestarts
<1>5. QED BY <1>1, <1>2, <1>3, <1>4

(* A check stores a state of health, and the age of the poll or of the     *)
(* last success.                                                           *)
LEMMA FinalizedIsOne ==
  ASSUME NEW r \in InstanceRow, NEW result, result.state \in Healths, NEW since \in Ages
  PROVE  Finalized(r, result, since) \in InstanceRow
<1> DEFINE h == IF result.conclusive THEN result.state ELSE r.health
           s == IF result.conclusive /\ result.state = "healthy" THEN since ELSE r.success
<1>1. h \in Healths /\ s \in Ages
  BY DEF InstanceRow
<1>2. Finalized(r, result, since) = [r EXCEPT !.health = h, !.success = s]
  BY DEF Finalized
<1> HIDE DEF h, s
<1>3. QED BY <1>1, <1>2 DEF InstanceRow

LEMMA CheckStates ==
  ASSUME StatesInv, NEW i \in Instances,
         NEW first \in Sights, NEW second \in Sights, Check(i, first, second)
  PROVE  StatesInv'
<1> DEFINE r == poll.read[i]
           one == Observed(first, poll.up, r.critical)
           two == Observed(second, poll.up, r.critical)
           result == IF Composite(i) THEN Composed(one, two, r.health, poll.row.criticality) ELSE one
           final == Finalized(r, result, poll.age)
           found == poll.up /\ "up" = first /\ (Composite(i) => second = "up")
<1>1. /\ instance' = IF instance[i].there
                     THEN [instance EXCEPT ![i].health = final.health,
                                           ![i].success = final.success]
                     ELSE instance
      /\ confirmed' = IF found THEN [confirmed EXCEPT ![i] = 0] ELSE confirmed
      /\ unearned' \in {unearned, unearned \ {i}, unearned \cup {i}}
      /\ poll' = [poll EXCEPT !.todo = @ \ {i}, !.read[i] = NoInstance,
                              !.states = @ \cup {final.health}]
      /\ UNCHANGED <<application, changes>>
  BY DEF Check
<1>2. r \in InstanceRow /\ poll.age \in Ages /\ poll.up \in BOOLEAN
  BY DEF StatesInv, HealthPolls, InstanceRows
<1>3. r.critical \in BOOLEAN /\ r.health \in Healths
  BY <1>2 DEF InstanceRow
<1>4. one.state \in Healths /\ two.state \in Healths
  BY <1>2, <1>3, ObservedIsOne
<1>5. result.state \in Healths
  <2> HIDE DEF one, two, r
  <2>1. QED BY <1>3, <1>4, ComposedIsOne
<1>6. final \in InstanceRow
  <2> HIDE DEF r, result
  <2>1. QED BY <1>2, <1>5, FinalizedIsOne
<1> DEFINE h == final.health
           s == final.success
<1>7. h \in Healths /\ s \in Ages
  <2> HIDE DEF final
  <2>1. QED BY <1>6 DEF InstanceRow
<1> HIDE DEF final, found, h, s
<1>8. instance' \in InstanceRows
  <2> DEFINE written == [instance[i] EXCEPT !.health = h, !.success = s]
  <2>1. instance' = IF instance[i].there THEN [instance EXCEPT ![i] = written] ELSE instance
    BY <1>1 DEF h, s
  <2>2. instance[i] \in InstanceRow
    BY DEF StatesInv, InstanceRows
  <2>3. written \in InstanceRow
    BY <1>7, <2>2 DEF InstanceRow
  <2> HIDE DEF written
  <2>4. QED BY <2>1, <2>3 DEF StatesInv, InstanceRows
<1>9. confirmed' \in [Instances -> Ages]
  <2>1. 0 \in Ages
    BY DEF Ages, Never
  <2>2. QED BY <1>1, <2>1 DEF StatesInv
<1>10. poll' \in HealthPolls
  <2>1. poll \in HealthPolls
    BY DEF StatesInv
  <2>2. poll' = [poll EXCEPT !.todo = @ \ {i}, !.read[i] = NoInstance, !.states = @ \cup {h}]
    BY <1>1 DEF h
  <2>3. poll' = [at |-> poll.at, age |-> poll.age, up |-> poll.up, row |-> poll.row,
                 todo |-> poll.todo \ {i}, asof |-> poll.asof, read |-> [poll.read EXCEPT ![i] = NoInstance],
                 states |-> poll.states \cup {h}]
    BY <2>1, <2>2 DEF HealthPolls
  <2>4. [poll.read EXCEPT ![i] = NoInstance] \in InstanceRows
    BY <2>1, NewRows DEF HealthPolls, InstanceRows
  <2>5. QED BY <1>7, <2>1, <2>3, <2>4 DEF HealthPolls
<1>11. QED BY <1>1, <1>8, <1>9, <1>10 DEF StatesInv

(* Operators write rows of the same shape.                                 *)
LEMMA EditedIsSome ==
  ASSUME NEW old, NEW new, NEW a, NEW b, NEW c PROVE Edited(old, new, {a, b, c}) \in Nat
<1>1. IsFiniteSet({a, b, c})
  <2>1. IsFiniteSet({a})
    BY FS_Singleton
  <2>2. IsFiniteSet({a} \cup {b})
    BY <2>1, FS_AddElement
  <2>3. IsFiniteSet(({a} \cup {b}) \cup {c})
    BY <2>2, FS_AddElement
  <2>4. ({a} \cup {b}) \cup {c} = {a, b, c}
    OBVIOUS
  <2>5. QED BY <2>3, <2>4
<1>2. IsFiniteSet({f \in {a, b, c} : old[f] # new[f]})
  BY <1>1, FS_Subset
<1>3. QED BY <1>2, FS_CardinalityType DEF Edited

LEMMA RequestStates ==
  ASSUME StatesInv,
         \/ \E lifecycle \in {"active", "retired"}, criticality \in {"standard", "critical"},
               strategy \in Strategies \ {"inherited"} :
                EditApplication(lifecycle, criticality, strategy)
         \/ ArchiveApplication \/ RestoreApplication
         \/ \E i \in Instances, strategy \in Strategies : AddInstance(i, strategy)
         \/ \E i \in Instances : DeleteInstance(i)
         \/ \E i \in Instances, enabled, critical \in BOOLEAN, strategy \in Strategies :
                UpdateInstance(i, enabled, critical, strategy)
  PROVE  StatesInv'
<1>1. changes' \in 0..MaxChanges /\ UNCHANGED <<confirmed, unearned, poll>>
  <2>1. ASSUME NEW lifecycles, NEW n \in Nat, Request(lifecycles, n)
        PROVE  changes' \in 0..MaxChanges /\ UNCHANGED <<confirmed, unearned, poll>>
    BY <2>1 DEF StatesInv, Request
  <2>2. ASSUME NEW lifecycle, NEW criticality, NEW strategy,
               EditApplication(lifecycle, criticality, strategy)
        PROVE  changes' \in 0..MaxChanges /\ UNCHANGED <<confirmed, unearned, poll>>
    BY <2>1, <2>2, EditedIsSome DEF EditApplication
  <2>3. ASSUME NEW i, NEW enabled, NEW critical, NEW strategy,
               UpdateInstance(i, enabled, critical, strategy)
        PROVE  changes' \in 0..MaxChanges /\ UNCHANGED <<confirmed, unearned, poll>>
    BY <2>1, <2>3, EditedIsSome DEF UpdateInstance
  <2>4. QED BY <2>1, <2>2, <2>3 DEF ArchiveApplication, RestoreApplication, AddInstance, DeleteInstance
<1>2. application' \in ApplicationRow
  <2>1. ASSUME NEW lifecycle \in {"active", "retired"}, NEW criticality \in {"standard", "critical"},
               NEW strategy \in Strategies \ {"inherited"},
               EditApplication(lifecycle, criticality, strategy)
        PROVE  application' \in ApplicationRow
    <3>1. application' = [application EXCEPT !.lifecycle = lifecycle, !.criticality = criticality,
                                             !.strategy = strategy]
      BY <2>1 DEF EditApplication
    <3>2. QED BY <3>1 DEF StatesInv, ApplicationRow, Criticalities
  <2>2. CASE ArchiveApplication \/ RestoreApplication
    BY <2>2 DEF ArchiveApplication, RestoreApplication, StatesInv, ApplicationRow
  <2>3. CASE application' = application
    BY <2>3 DEF StatesInv
  <2>4. QED BY <2>1, <2>2, <2>3 DEF AddInstance, DeleteInstance, UpdateInstance
<1>3. instance' \in InstanceRows
  <2>1. ASSUME NEW i \in Instances, NEW strategy \in Strategies, AddInstance(i, strategy)
        PROVE  instance' \in InstanceRows
    <3> DEFINE row_ == [NewInstance EXCEPT !.strategy = strategy]
    <3>1. instance' = [instance EXCEPT ![i] = row_]
      BY <2>1 DEF AddInstance
    <3>2. row_ \in InstanceRow
      BY NewRows DEF InstanceRow
    <3> HIDE DEF row_
    <3>3. QED BY <3>1, <3>2 DEF StatesInv, InstanceRows
  <2>2. ASSUME NEW i \in Instances, DeleteInstance(i) PROVE instance' \in InstanceRows
    BY <2>2, NewRows DEF DeleteInstance, StatesInv, InstanceRows
  <2>3. ASSUME NEW i \in Instances, NEW enabled \in BOOLEAN, NEW critical \in BOOLEAN,
               NEW strategy \in Strategies, UpdateInstance(i, enabled, critical, strategy)
        PROVE  instance' \in InstanceRows
    <3> DEFINE written == [instance[i] EXCEPT !.enabled = enabled, !.critical = critical,
                                              !.strategy = strategy]
    <3>1. instance' = [instance EXCEPT ![i] = written]
      BY <2>3 DEF UpdateInstance
    <3>2. instance[i] \in InstanceRow
      BY DEF StatesInv, InstanceRows
    <3>3. written \in InstanceRow
      BY <3>2 DEF InstanceRow
    <3> HIDE DEF written
    <3>4. QED BY <3>1, <3>3 DEF StatesInv, InstanceRows
  <2>4. CASE instance' = instance
    BY <2>4 DEF StatesInv
  <2>5. QED BY <2>1, <2>2, <2>3, <2>4 DEF EditApplication, ArchiveApplication, RestoreApplication
<1>4. QED BY <1>1, <1>2, <1>3 DEF StatesInv

LEMMA PassesStates == ASSUME StatesInv, FreshnessPasses PROVE StatesInv'
<1>1. ASSUME NEW rows_ \in InstanceRows
      PROVE  [i \in Instances |-> [rows_[i] EXCEPT !.success = Older(@)]] \in InstanceRows
  <2>1. ASSUME NEW i \in Instances PROVE [rows_[i] EXCEPT !.success = Older(@)] \in InstanceRow
    <3>1. rows_[i] \in InstanceRow /\ rows_[i].success \in Ages
      BY DEF InstanceRows, InstanceRow
    <3>2. Older(rows_[i].success) \in Ages
      BY <3>1, OlderKeeps
    <3> DEFINE old == rows_[i]
               s == Older(rows_[i].success)
    <3>3. [rows_[i] EXCEPT !.success = Older(@)] = [old EXCEPT !.success = s]
      OBVIOUS
    <3> HIDE DEF old, s
    <3>4. old \in InstanceRow /\ s \in Ages
      BY <3>1, <3>2 DEF old, s
    <3>5. QED BY <3>3, <3>4 DEF InstanceRow
  <2>2. QED BY <2>1 DEF InstanceRows
<1>2. instance' \in InstanceRows
  BY <1>1 DEF FreshnessPasses, StatesInv
<1>3. confirmed' \in [Instances -> Ages]
  BY OlderKeeps DEF FreshnessPasses, StatesInv
<1>4. poll' \in HealthPolls
  <2> DEFINE since == Older(poll.age)
             taken == [i \in Instances |-> [poll.read[i] EXCEPT !.success = Older(@)]]
  <2>1. since \in Ages /\ taken \in InstanceRows
    BY <1>1, OlderKeeps DEF StatesInv, HealthPolls
  <2>2. poll' = poll \/ poll' = [poll EXCEPT !.age = since, !.read = taken]
    BY DEF FreshnessPasses
  <2> HIDE DEF since, taken
  <2>3. QED BY <2>1, <2>2 DEF StatesInv, HealthPolls
<1>5. QED BY <1>2, <1>3, <1>4 DEF FreshnessPasses, StatesInv

LEMMA StatesNextInv == StatesInv /\ [ApplicationsNext]_applicationVars => StatesInv'
<1> SUFFICES ASSUME StatesInv, [ApplicationsNext]_applicationVars PROVE StatesInv'
  OBVIOUS
<1>1. CASE UNCHANGED applicationVars
  BY <1>1 DEF applicationVars, StatesInv
<1>2. CASE ApplicationsNext
  BY <1>2, PollStates, CheckStates, RequestStates, PassesStates DEF ApplicationsNext
<1>3. QED BY <1>1, <1>2

LEMMA ApplicationsTyped == StatesInv => ApplicationsTypeOK
BY DEF StatesInv, ApplicationsTypeOK, ApplicationRow, InstanceRow, InstanceRows, HealthPolls

-----------------------------------------------------------------------------
(* What every service has in its variables.                                *)
LEMMA RunsAreTyped == EditionsInv => ReportsTypeOK
BY DEF EditionsInv, RunsTyped, RowsTyped, ReportsTypeOK, Stations, Runs

(* The services hold what they are meant to hold, the bounds of their      *)
(* queues, samples and logs included, for any number of everything.        *)
THEOREM ServicesTyped == Spec => []TypeOK
<1> DEFINE IInv == /\ StatesInv /\ InventoryInv /\ RegistryInv /\ SightsInv /\ VersionsInv
                   /\ QueueInv /\ EditionsInv /\ AttainmentTypeOK /\ OverseersInv /\ PoolInv
                   /\ BaselinesInv /\ LinksInv /\ ChecksInv
<1>1. Init => IInv
  BY StatesInitInv, InventoryInitInv, RegistryInitInv, SightsInitInv, VersionsInitInv, QueueInitInv,
     ReportsInitInv, AttainmentInitInv, OverseersInitInv, PoolInitInv, BaselinesInitInv,
     LinksInitInv, ChecksInitInv DEF Init
<1>2. IInv /\ [Next]_vars => IInv'
  <2> SUFFICES ASSUME IInv, [Next]_vars PROVE IInv'
    OBVIOUS
  <2>1. StatesInv' /\ InventoryInv' /\ RegistryInv' /\ SightsInv'
    BY Apart, StatesNextInv, InventoryNextInv, RegistryNextInv, SightsNextInv
  <2>2. VersionsInv' /\ QueueInv' /\ EditionsInv' /\ AttainmentTypeOK' /\ OverseersInv'
    BY Apart, VersionsNextInv, QueueNextInv, EditionsNextInv, AttainmentNextInv, OverseersNextInv
  <2>3. PoolInv' /\ BaselinesInv' /\ LinksInv' /\ ChecksInv'
    BY Apart, PoolNextInv, BaselinesNextInv, LinksNextInv, ChecksNextInv
  <2>4. QED BY <2>1, <2>2, <2>3
<1>3. IInv => TypeOK
  BY ApplicationsTyped, InventoryTyped, CollectionTyped, BundlesTyped, NotifierTyped, RunsAreTyped,
     OverseersTyped, BaselinesTyped, LinksTyped, ChecksTyped DEF TypeOK, RegistryInv, PoolInv
<1> HIDE DEF IInv
<1>4. QED BY <1>1, <1>2, <1>3, PTL DEF Spec
=============================================================================
