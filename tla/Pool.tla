-------------------------------- MODULE Pool --------------------------------
(***************************************************************************)
(* pinoc/database.py: the connection each thread keeps to the file of the  *)
(* database, and the migrations that a program runs when it starts.  The   *)
(* service, the commands and a restore, which puts another file in the     *)
(* place of the database, are programs of their own; each is given one     *)
(* thread here and one of its two connections.  Releases differ in the     *)
(* migrations they know.                                                   *)
(***************************************************************************)
EXTENDS Naturals

CONSTANTS Programs,     (* programs that open the database                   *)
          Knows,        (* migrations a program's release knows              *)
          Rerunnable,   (* migrations that succeed when they run again       *)
          MaxRestores   (* bound: files put in the place of the database     *)

ASSUME PoolAssumption == /\ Knows \in [Programs -> Nat \ {0}] /\ Rerunnable \subseteq Nat
                         /\ MaxRestores \in Nat

VARIABLES inode,    (* the file at the path of the database                  *)
          schema,   (* schema_version and what ran, of every file there was  *)
          cached,   (* _local: a thread's connection and the inode beside it *)
          thread,   (* the thread: where it is, and in which call            *)
          migrated  (* ghost: file that initialize() reported as ready, or 0 *)

poolVars == <<inode, schema, cached, thread, migrated>>

Files   == 1..MaxRestores + 1
NoFile  == 0
NoConnection == [file |-> NoFile, ino |-> NoFile]
NotCalling   == [at |-> "idle", call |-> "none", version |-> 0]

(* A first database, or one that an earlier release left.                  *)
EarlierDatabases == {[version |-> v, ran |-> 1..v] : v \in 0..2}

PoolInit == /\ inode = 1 /\ schema \in [Files -> EarlierDatabases]
            /\ \A f \in Files \ {1} : schema[f] = [version |-> 1, ran |-> 1..1]
            /\ cached = [p \in Programs |-> NoConnection]
            /\ thread = [p \in Programs |-> NotCalling]
            /\ migrated = [p \in Programs |-> NoFile]

-----------------------------------------------------------------------------
(* _pooled(): stat(), the connection that is kept if the inode is still    *)
(* its own, else connect(), another stat(), and the pair is kept.  A       *)
(* restore between the last two leaves the old file beside the new inode.  *)
Calls(p, call) ==
    /\ thread[p].at = "idle"
    /\ (call = "initialize") <=> (migrated[p] = NoFile)
    /\ LET hit == cached[p].ino = inode IN
       /\ thread' = [thread EXCEPT ![p] =
              [NotCalling EXCEPT !.at = IF hit THEN "running" ELSE "connecting",
                                 !.call = call]]
       /\ cached' = IF hit THEN cached ELSE [cached EXCEPT ![p] = NoConnection]
    /\ UNCHANGED <<inode, schema, migrated>>

Connects(p) == /\ thread[p].at = "connecting"
               /\ thread' = [thread EXCEPT ![p].at = "connected"]
               /\ cached' = [cached EXCEPT ![p].file = inode]
               /\ UNCHANGED <<inode, schema, migrated>>

StatsAgain(p) == /\ thread[p].at = "connected"
                 /\ thread' = [thread EXCEPT ![p].at = "running"]
                 /\ cached' = [cached EXCEPT ![p].ino = inode]
                 /\ UNCHANGED <<inode, schema, migrated>>

(* A statement that succeeds; its connection is kept.                      *)
Executes(p) == /\ thread[p].at = "running" /\ thread[p].call = "execute"
               /\ thread' = [thread EXCEPT ![p] = NotCalling]
               /\ UNCHANGED <<inode, schema, cached, migrated>>

(* _open(): a connection that raised is closed and forgotten.              *)
Raised(p) == /\ thread' = [thread EXCEPT ![p] = NotCalling]
             /\ cached' = [cached EXCEPT ![p] = NoConnection]
             /\ UNCHANGED <<inode, schema, migrated>>

StatementFails(p) == thread[p].at \in {"connecting", "running", "migrating"} /\ Raised(p)

-----------------------------------------------------------------------------
(* initialize(): the version is read, and each migration after it commits  *)
(* together with its number; a database of a later release is turned down. *)
On(p) == schema[cached[p].file]

ReadsVersion(p) ==
    /\ thread[p].at = "running" /\ thread[p].call = "initialize"
    /\ On(p).version <= Knows[p]
    /\ thread' = [thread EXCEPT ![p].at = "migrating", ![p].version = On(p).version]
    /\ UNCHANGED <<inode, schema, cached, migrated>>

(* Mutation of Committed: the number of the last migration goes first.     *)
CommittedAhead(p, k) == [version |-> Knows[p], ran |-> On(p).ran \cup {k}]
Committed(p, k) == [version |-> k, ran |-> On(p).ran \cup {k}]

Migrates(p) ==
    LET k == thread[p].version + 1 IN
    /\ thread[p].at = "migrating" /\ k <= Knows[p]
    /\ IF k \in On(p).ran \ Rerunnable
       THEN Raised(p)
       ELSE /\ schema' = [schema EXCEPT ![cached[p].file] = Committed(p, k)]
            /\ thread' = [thread EXCEPT ![p].version = k]
            /\ UNCHANGED <<inode, cached, migrated>>

IsReady(p) == /\ thread[p].at = "migrating" /\ thread[p].version >= Knows[p]
              /\ thread' = [thread EXCEPT ![p] = NotCalling]
              /\ migrated' = [migrated EXCEPT ![p] = cached[p].file]
              /\ UNCHANGED <<inode, schema, cached>>

(* A command ends, or the service is restarted.                            *)
ProgramEnds(p) == /\ thread[p].at # "idle" \/ cached[p] # NoConnection
                  /\ thread' = [thread EXCEPT ![p] = NotCalling]
                  /\ cached' = [cached EXCEPT ![p] = NoConnection]
                  /\ migrated' = [migrated EXCEPT ![p] = NoFile]
                  /\ UNCHANGED <<inode, schema>>

(* restore_bundle(): _write_atomic() renames the new file over the old.    *)
ReplacesDatabase == /\ inode \in 1..MaxRestores /\ inode' = inode + 1
                    /\ UNCHANGED <<schema, cached, thread, migrated>>

PoolNext == \/ \E p \in Programs : \/ Calls(p, "execute") \/ Calls(p, "initialize")
                                   \/ Connects(p) \/ StatsAgain(p) \/ Executes(p)
                                   \/ StatementFails(p) \/ ReadsVersion(p) \/ Migrates(p)
                                   \/ IsReady(p) \/ ProgramEnds(p)
            \/ ReplacesDatabase

PoolSpec == PoolInit /\ [][PoolNext]_poolVars

PoolTypeOK ==
    /\ inode \in Files
    /\ schema \in [Files -> [version : Nat, ran : SUBSET Nat]]
    /\ cached \in [Programs -> [file : Files \cup {NoFile}, ino : Files \cup {NoFile}]]
    /\ thread \in [Programs -> [at : {"idle", "connecting", "connected", "running", "migrating"},
                                call : {"none", "execute", "initialize"}, version : Nat]]
    /\ migrated \in [Programs -> Files \cup {NoFile}]

(* A database that initialize() reported as ready holds every table of the *)
(* release, though programs of two releases migrate it at once, end in the *)
(* middle, or fail, and a restore puts an older database in its place.     *)
SchemaComplete == \A p \in Programs :
    migrated[p] # NoFile => 1..Knows[p] \subseteq schema[migrated[p]].ran
=============================================================================
