---------------------------- MODULE IndexSchema ----------------------------
(***************************************************************************)
(* src/metadata/schema.rs and MetadataRepository::connection: every        *)
(* operation on the index opens store.db, migrates it and verifies it.     *)
(* SQLite runs one write transaction at a time and rolls a failed one      *)
(* back, but the version is read outside of the transaction that the       *)
(* decision leads to.                                                      *)
(***************************************************************************)
EXTENDS Naturals

CONSTANTS Connections, Databases   \* Databases: <<user_version, objects>> found at first

VARIABLES version, objects, mpc
schemaVars == <<version, objects, mpc>>

SchemaVersion == 2
V1 == {"tables", "indexes", "foreign keys"}
V2 == {"complete column", "complete index"}

SchemaInit ==
    /\ \E d \in Databases : version = d[1] /\ objects = d[2]
    /\ mpc = [c \in Connections |-> "start"]

Step(c, l) == mpc' = [mpc EXCEPT ![c] = l]

ReadVersion(c) ==
    /\ mpc[c] = "start"
    /\ Step(c, IF version > SchemaVersion THEN "failed" ELSE IF version < 1 THEN "v1" ELSE "again")
    /\ UNCHANGED <<version, objects>>

(* CREATE ... IF NOT EXISTS, whatever another process did meanwhile.       *)
MigrateV1(c) ==
    /\ mpc[c] = "v1"
    /\ version' = 1
    /\ objects' = objects \cup V1
    /\ Step(c, "again")

ReadAgain(c) ==
    /\ mpc[c] = "again"
    /\ Step(c, IF version < 2 THEN "v2" ELSE "verify")
    /\ UNCHANGED <<version, objects>>

(* ALTER TABLE ADD COLUMN fails where the column exists.                   *)
MigrateV2(c) ==
    /\ mpc[c] = "v2"
    /\ IF "complete column" \in objects \/ "tables" \notin objects
       THEN Step(c, "failed") /\ UNCHANGED <<version, objects>>
       ELSE version' = 2 /\ objects' = objects \cup V2 /\ Step(c, "verify")

(* Mutant: only the tables are looked for. *)
VerifyTables(c) ==
    /\ mpc[c] = "verify"
    /\ Step(c, IF version = SchemaVersion /\ "tables" \in objects THEN "open" ELSE "failed")
    /\ UNCHANGED <<version, objects>>

(* verify_inventory and verify_foreign_keys. *)
Verify(c) ==
    /\ mpc[c] = "verify"
    /\ Step(c, IF version = SchemaVersion /\ V1 \cup V2 \subseteq objects THEN "open" ELSE "failed")
    /\ UNCHANGED <<version, objects>>

(* The transaction waits longer than BUSY_TIMEOUT, or the process dies.    *)
GiveUp(c) ==
    /\ mpc[c] \in {"v1", "v2"}
    /\ Step(c, "gone")
    /\ UNCHANGED <<version, objects>>

SchemaNext ==
    \E c \in Connections : ReadVersion(c) \/ MigrateV1(c) \/ ReadAgain(c) \/ MigrateV2(c) \/ Verify(c) \/ GiveUp(c)
-----------------------------------------------------------------------------
(* migrate: a connection that opened works on the whole schema, whoever    *)
(* else is migrating and whatever was dropped from the database.           *)
OpenedSchemaWhole == \A c \in Connections : mpc[c] = "open" => V1 \cup V2 \subseteq objects

(* The comment on migrate: a failed migration leaves "both the DDL and     *)
(* `user_version` at the prior version", so the two agree.                 *)
FailureLeavesOneVersion ==
    (\E c \in Connections : mpc[c] = "failed") => (version >= 2 <=> "complete column" \in objects)
=============================================================================
