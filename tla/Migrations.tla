----------------------------- MODULE Migrations -----------------------------
(***************************************************************************)
(* db/migrations/000001_database_foundation.{up,down}.sql: psql runs of    *)
(* the two scripts against one PostgreSQL database, concurrently, each     *)
(* with a checksum argument, with lock timeouts, failing statements, lost  *)
(* connections and commits whose acknowledgement is lost.                  *)
(*                                                                         *)
(* PostgreSQL is external: DDL is transactional, a transaction that does   *)
(* not commit changes nothing, the advisory lock is held to the end of the *)
(* transaction, and at READ COMMITTED a statement sees what had been       *)
(* committed when it began.  A grant is a triple of a scope, a class of    *)
(* objects and a grantee.                                                  *)
(***************************************************************************)
EXTENDS Naturals

CONSTANTS
    Runs,       \* the executions of the scripts
    Checksums   \* the values of migration_checksum and expected_up_checksum

VARIABLES
    db,      \* the committed database
    tx,      \* what each open transaction would commit
    pc,      \* where each run is in its script
    job,     \* "up", "down", or "later" (a migration with a higher version)
    sum,     \* the checksum each run was given
    lock     \* the holders of the advisory lock

vars == <<db, tx, pc, job, sum, lock>>

-----------------------------------------------------------------------------
(* The database *)

AppRoles == {"app", "worker"}
AllRoles == AppRoles \cup {"readonly"}

\* Default privileges for objects of hedefora_migration before the first
\* migration: PostgreSQL's own, for PUBLIC.
BuiltinDefaults == {<<"global", c, "PUBLIC">> : c \in {"functions", "types"}}

Base == [schemas |-> {}, ledger |-> {}, objects |-> {}, usage |-> {},
         defaults |-> BuiltinDefaults]

\* The default privileges the up script grants in schema hedefora.
SchemaDefaults ==
    ({"hedefora"} \X {"tables", "types"} \X AllRoles)
        \cup ({"hedefora"} \X {"sequences", "functions"} \X AppRoles)

\* The database after the up script with checksum s.
Foundation(s) ==
    [schemas |-> {"hedefora", "hedefora_meta"},
     ledger |-> {[version |-> 1, checksum |-> s]},
     objects |-> {}, usage |-> AllRoles, defaults |-> SchemaDefaults]

Row1(d) == {row \in d.ledger : row.version = 1}
Later(d) == {row \in d.ledger : row.version # 1}

TypeOK ==
    /\ \A d \in {db} \cup {tx[r] : r \in Runs} :
          /\ d.schemas \subseteq {"hedefora", "hedefora_meta"}
          /\ d.ledger \subseteq [version : {1, 2}, checksum : Checksums]
          /\ d.objects \subseteq {"table"}
          /\ d.usage \subseteq AllRoles
          /\ d.defaults \subseteq BuiltinDefaults \cup SchemaDefaults
    /\ pc \in [Runs -> {"new", "lock", "check", "revoke", "drop", "grant",
                        "record", "commit", "ok", "failed", "unknown"}]
    /\ job \in [Runs -> {"up", "down", "later"}]
    /\ sum \in [Runs -> Checksums]
    /\ lock \subseteq Runs

Init ==
    /\ db = Base
    /\ tx = [r \in Runs |-> Base]
    /\ pc = [r \in Runs |-> "new"]
    /\ job \in [Runs -> {"up", "down", "later"}]
    /\ sum \in [Runs -> Checksums]
    /\ lock = {}

-----------------------------------------------------------------------------
(* One run *)

Goto(r, label) == pc' = [pc EXCEPT ![r] = label]
Apply(r, d, label) ==
    /\ tx' = [tx EXCEPT ![r] = d]
    /\ Goto(r, label)
    /\ UNCHANGED <<db, job, sum, lock>>

\* The checksum argument is present, BEGIN, and the SET LOCAL lines.
Begin(r) ==
    /\ pc[r] = "new"
    /\ Goto(r, "lock")
    /\ UNCHANGED <<db, tx, job, sum, lock>>

\* Mutant of TakeLock: the advisory lock is shared.
TakeLockShared(r) ==
    /\ pc[r] = "lock"
    /\ lock' = lock \cup {r}
    /\ tx' = [tx EXCEPT ![r] = db]
    /\ Goto(r, "check")
    /\ UNCHANGED <<db, job, sum>>

\* pg_advisory_xact_lock.  The statements that follow see what is committed
\* by then, and only holders of the lock change it.
TakeLock(r) ==
    /\ pc[r] = "lock"
    /\ lock = {}
    /\ lock' = {r}
    /\ tx' = [tx EXCEPT ![r] = db]
    /\ Goto(r, "check")
    /\ UNCHANGED <<db, job, sum>>

\* Up: the server version, and CREATE SCHEMA, which fails if one exists.
UpCreate(r) ==
    /\ pc[r] = "check" /\ job[r] = "up"
    /\ tx[r].schemas = {}
    /\ Apply(r, [tx[r] EXCEPT !.schemas = {"hedefora", "hedefora_meta"},
                              !.usage = AllRoles], "grant")

\* Up: ALTER DEFAULT PRIVILEGES, globally and in schema hedefora.
UpGrant(r) ==
    /\ pc[r] = "grant"
    /\ Apply(r, [tx[r] EXCEPT !.defaults =
                    (@ \ ({"global"} \X {"tables", "sequences", "functions", "types"}
                            \X {"PUBLIC"})) \cup SchemaDefaults], "record")

\* Up: the ledger row.
UpRecord(r) ==
    /\ pc[r] = "record"
    /\ Apply(r, [tx[r] EXCEPT !.ledger = @ \cup {[version |-> 1, checksum |-> sum[r]]}],
             "commit")

\* Down: the ledger exists, has no later version, and has version 1 with the
\* expected checksum.
DownCheck(r) ==
    /\ pc[r] = "check" /\ job[r] = "down"
    /\ "hedefora_meta" \in tx[r].schemas
    /\ Later(tx[r]) = {}
    /\ [version |-> 1, checksum |-> sum[r]] \in tx[r].ledger
    /\ Apply(r, tx[r], "revoke")

\* Mutant of DownRevoke: PUBLIC does not get its defaults back.
DownRevokeOnly(r) ==
    /\ pc[r] = "revoke"
    /\ Apply(r, [tx[r] EXCEPT !.defaults = @ \ SchemaDefaults, !.usage = {}], "drop")

\* Down: the default privileges and USAGE are revoked, and PUBLIC gets back
\* EXECUTE on functions and USAGE on types.
DownRevoke(r) ==
    /\ pc[r] = "revoke"
    /\ Apply(r, [tx[r] EXCEPT !.defaults = (@ \ SchemaDefaults) \cup BuiltinDefaults,
                              !.usage = {}], "drop")

\* Down: DROP SCHEMA without CASCADE fails if the schema has objects; the
\* ledger goes with its schema.
DownDrop(r) ==
    /\ pc[r] = "drop"
    /\ tx[r].objects = {}
    /\ Apply(r, [tx[r] EXCEPT !.schemas = {}, !.ledger = {}], "commit")

\* A migration with a higher version, under the same lock: it leaves a row in
\* the ledger, and perhaps an object in the schema.
LaterMigration(r) ==
    /\ pc[r] = "check" /\ job[r] = "later"
    /\ Row1(tx[r]) # {} /\ Later(tx[r]) = {}
    /\ \E objects \in SUBSET {"table"} :
          Apply(r, [tx[r] EXCEPT !.ledger = @ \cup {[version |-> 2, checksum |-> sum[r]]},
                                 !.objects = objects], "commit")

\* COMMIT; the acknowledgement may be lost.
Commit(r) ==
    /\ pc[r] = "commit"
    /\ db' = tx[r]
    /\ lock' = lock \ {r}
    /\ \E result \in {"ok", "unknown"} : Goto(r, result)
    /\ UNCHANGED <<tx, job, sum>>

\* A statement fails, one of the timeouts expires, or the connection or the
\* server is lost: ON_ERROR_STOP ends psql, and the transaction is rolled back.
Abort(r) ==
    /\ pc[r] \in {"lock", "check", "revoke", "drop", "grant", "record", "commit"}
    /\ lock' = lock \ {r}
    /\ \E result \in {"failed", "unknown"} : Goto(r, result)
    /\ UNCHANGED <<db, tx, job, sum>>

\* The operator runs a script again after a failure, or after not knowing.
Retry(r) ==
    /\ pc[r] \in {"failed", "unknown"}
    /\ Goto(r, "new")
    /\ UNCHANGED <<db, tx, job, sum, lock>>

Step(r) ==
    \/ Begin(r) \/ TakeLock(r) \/ UpCreate(r) \/ UpGrant(r) \/ UpRecord(r)
    \/ DownCheck(r) \/ DownRevoke(r) \/ DownDrop(r) \/ LaterMigration(r)
    \/ Commit(r) \/ Abort(r) \/ Retry(r)
Next == \E r \in Runs : Step(r)

Spec == Init /\ [][Next]_vars

-----------------------------------------------------------------------------
(* Properties *)

\* The committed database is never between two versions: it is the base, or
\* the foundation of one checksum, possibly with later versions on top.  A
\* down script undoes exactly what the up script did, default privileges
\* included.
AllOrNothing ==
    \/ db = Base
    \/ \E s \in Checksums :
          [db EXCEPT !.ledger = Row1(db), !.objects = {}] = Foundation(s)

\* In every committed state the ledger and the objects agree.
LedgerInv == TypeOK /\ AllOrNothing
=============================================================================
