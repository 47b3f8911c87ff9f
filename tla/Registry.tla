------------------------------ MODULE Registry ------------------------------
(***************************************************************************)
(* pinoc/projects.py and repositories.py: the operators' side of the       *)
(* registries.  A request reads the row, refuses by what it read and then  *)
(* writes; requests run in threads of their own, and the refresh thread    *)
(* registers the remotes it discovers.  There is one slug or remote, and   *)
(* one object that may be a member of the project.                         *)
(***************************************************************************)
EXTENDS EnvStates

CONSTANTS Threads,     (* request threads and the refresh thread            *)
          MaxRequests  (* bound: requests of each thread                    *)

ASSUME RegistryAssumption == MaxRequests \in Nat

VARIABLES registry,    (* "project" or "repository"                         *)
          rows,        (* how many rows have that slug or remote            *)
          record,      (* the row: its lifecycle and archived_at            *)
          membership,  (* the row of project_members                        *)
          request,     (* what each thread does and what it has read        *)
          asked

registryVars == <<registry, rows, record, membership, request, asked>>

Lifecycles == {"planned", "active", "maintenance", "retired"}
Memberships == {"never", "member", "removed"}
Operations == {"create", "edit", "archive", "restore", "add", "remove"}
NoRequest == [op |-> "none", found |-> FALSE, lifecycle |-> "active", member |-> "never"]

RegistryInit ==
    /\ registry \in {"project", "repository"}
    /\ rows = 0 /\ record = [lifecycle |-> "active", stamped |-> FALSE]
    /\ membership = "never"
    /\ request = [t \in Threads |-> NoRequest]
    /\ asked = [t \in Threads |-> 0]

-----------------------------------------------------------------------------
(* _fetch() and _require(), the look at the member row included.           *)
Look(t, op) ==
    /\ request[t].op = "none" /\ asked[t] < MaxRequests
    /\ op \in {"add", "remove"} => registry = "project"
    /\ asked' = [asked EXCEPT ![t] = @ + 1]
    /\ request' = [request EXCEPT ![t] =
           [op |-> op, found |-> rows > 0, lifecycle |-> record.lifecycle, member |-> membership]]
    /\ UNCHANGED <<registry, rows, record, membership>>

(* The request ends by what it does, or by its refusal.                    *)
Ends(t, op) == /\ request[t].op = op
               /\ request' = [request EXCEPT ![t] = NoRequest]
               /\ UNCHANGED <<registry, asked>>

(* Mutation of Insert: no constraint.                                      *)
InsertUnchecked(lifecycle) == /\ rows' = rows + 1
                              /\ record' = [lifecycle |-> lifecycle, stamped |-> FALSE]

(* create() refuses a name that it has found taken; the constraint of the  *)
(* table refuses what was taken since, and the INSERT raises.              *)
Insert(lifecycle) == IF rows > 0 THEN UNCHANGED <<rows, record>>
                     ELSE /\ rows' = 1
                          /\ record' = [lifecycle |-> lifecycle, stamped |-> FALSE]

Creates(t, of, lifecycle) ==
    /\ registry = of /\ Ends(t, "create") /\ UNCHANGED membership
    /\ IF request[t].found THEN UNCHANGED <<rows, record>> ELSE Insert(lifecycle)

CreateProject(t, lifecycle) == Creates(t, "project", lifecycle)
CreateRepository(t, lifecycle) == Creates(t, "repository", lifecycle)

(* _find_or_create_repository(): what the fleet reports and no row claims. *)
DiscoverRepository(t) == Creates(t, "repository", "active")

Writable(t) == request[t].found /\ request[t].lifecycle # "archived"

(* update(): the lifecycle is written to the row as it is by now, archived *)
(* or not; archived_at is not touched.  archive() and restore() write both. *)
Writes(t, of, op, allowed, new) ==
    /\ registry = of /\ Ends(t, op) /\ UNCHANGED <<rows, membership>>
    /\ record' = IF allowed THEN new ELSE record

EditProject(t, lifecycle) ==
    Writes(t, "project", "edit", Writable(t), [record EXCEPT !.lifecycle = lifecycle])
EditRepository(t, lifecycle) ==
    Writes(t, "repository", "edit", Writable(t), [record EXCEPT !.lifecycle = lifecycle])

Archived == [lifecycle |-> "archived", stamped |-> TRUE]
Restored(lifecycle) == [lifecycle |-> lifecycle, stamped |-> FALSE]

ArchiveProject(t) == Writes(t, "project", "archive", Writable(t), Archived)
ArchiveRepository(t) == Writes(t, "repository", "archive", Writable(t), Archived)

(* A project comes back retired, a repository active.                      *)
Shelved(t) == request[t].found /\ request[t].lifecycle = "archived"

RestoreProject(t) == Writes(t, "project", "restore", Shelved(t), Restored("retired"))
RestoreRepository(t) == Writes(t, "repository", "restore", Shelved(t), Restored("active"))

(* add_members() revives the row of a former member; the INSERT of a row   *)
(* another thread has inserted meanwhile raises.                           *)
AddMember(t) ==
    /\ Ends(t, "add") /\ UNCHANGED <<rows, record>>
    /\ membership' = IF /\ Writable(t)
                         /\ \/ request[t].member = "removed"
                            \/ request[t].member = "never" /\ membership = "never"
                      THEN "member" ELSE membership

(* remove_members() only marks the row.                                    *)
RemoveMember(t) ==
    /\ Ends(t, "remove") /\ UNCHANGED <<rows, record>>
    /\ membership' = IF Writable(t) /\ request[t].member = "member" /\ membership = "member"
                     THEN "removed" ELSE membership

RegistryNext ==
    \E t \in Threads :
        \/ \E op \in Operations : Look(t, op)
        \/ \E lifecycle \in {"planned", "active"} :
               \/ CreateProject(t, lifecycle) \/ CreateRepository(t, lifecycle)
               \/ EditProject(t, lifecycle) \/ EditRepository(t, lifecycle)
        \/ DiscoverRepository(t)
        \/ ArchiveProject(t) \/ ArchiveRepository(t)
        \/ RestoreProject(t) \/ RestoreRepository(t)
        \/ AddMember(t) \/ RemoveMember(t)

-----------------------------------------------------------------------------
(* health(): the roll-up of the members; an archived project is quiet.     *)
ProjectHealth(members, criticality) ==
    LET rolled == Rollup(members, criticality)
    IN CASE record.lifecycle = "archived" -> "maintenance"
         [] record.lifecycle = "retired"  -> Worst({rolled, "maintenance"})
         [] OTHER                         -> rolled

RegistryTypeOK ==
    /\ registry \in {"project", "repository"}
    /\ rows \in Nat /\ membership \in Memberships
    /\ record \in [lifecycle : Lifecycles \cup {"archived"}, stamped : BOOLEAN]
    /\ request \in [Threads -> [op : Operations \cup {"none"}, found : BOOLEAN,
                                lifecycle : Lifecycles \cup {"archived"}, member : Memberships]]
    /\ asked \in [Threads -> 0..MaxRequests]

(* Two requests that both read that the name is free, or a request and the *)
(* discovery of the same remote, leave one row: there is one identity.     *)
OneIdentity == rows <= 1
=============================================================================
