----------------------------- MODULE Bootstrap -----------------------------
(***************************************************************************)
(* infra/postgres/image/entrypoint.sh with infra/postgres/initdb/          *)
(* 010_roles.sql: the first start of the disposable PostgreSQL image       *)
(* builds a cluster with a temporary server, and writes a marker last;     *)
(* every later start accepts only a data directory with that marker.       *)
(*                                                                         *)
(* The data directory is a volume and survives; /run/postgresql, with the  *)
(* temporary directory, is a tmpfs and the temporary server is a child, so *)
(* both end with the container.  The container may be killed between any   *)
(* two steps, and inside initdb, and is started again any number of times. *)
(***************************************************************************)
EXTENDS Naturals

VARIABLES
    pc,        \* program counter of the script
    \* the data directory
    cluster,   \* empty, partial (initdb did not finish), complete, foreign
    database,  \* hedefora_dev exists
    roles,     \* the roles and grants of 010_roles.sql are committed
    hba,       \* pg_hba.conf: none, initdb's, or strict (remote access by TLS only)
    marker,    \* none, draft (under its temporary name), valid, or other
               \* (another profile or system identifier)
    \* the container
    files,     \* what is left of the temporary directory
    server,    \* the temporary server runs
    mayRun,    \* server_may_be_running
    trapped,   \* the cleanup trap is set
    unclean    \* cleanup could not stop the server or remove a file

diskVars == <<cluster, database, roles, hba, marker>>
boxVars == <<files, server, mayRun, trapped, unclean>>
vars == <<pc, cluster, database, roles, hba, marker, files, server, mayRun, trapped, unclean>>

Steps == {"start", "credentials", "snapshot", "password", "initdb", "forget",
          "startServer", "createDatabase", "createRoles", "stopServer", "access",
          "tidy", "untrap", "mark", "rename"}
Pcs == Steps \cup {"cleanup", "remove", "failed", "serve", "down"}

TypeOK ==
    /\ pc \in Pcs
    /\ cluster \in {"empty", "partial", "complete", "foreign"}
    /\ database \in BOOLEAN /\ roles \in BOOLEAN
    /\ hba \in {"none", "initdb", "strict"}
    /\ marker \in {"none", "draft", "valid", "other"}
    /\ files \subseteq {"directory", "password", "roles", "log"}
    /\ server \in BOOLEAN /\ mayRun \in BOOLEAN /\ trapped \in BOOLEAN
    /\ unclean \in BOOLEAN

\* A new volume, one with somebody else's files, or with a marker that does
\* not belong to its cluster.
Init ==
    /\ pc = "start"
    /\ \/ cluster = "empty" /\ marker = "none"
       \/ cluster = "foreign" /\ marker \in {"none", "other"}
    /\ database = FALSE /\ roles = FALSE /\ hba = "none"
    /\ files = {} /\ server = FALSE /\ mayRun = FALSE /\ trapped = FALSE
    /\ unclean = FALSE

-----------------------------------------------------------------------------
(* The script *)

\* `fail`, set -e and the trapped signals: exit 1, through cleanup if the trap
\* is set.
Fail == pc' = IF trapped THEN "cleanup" ELSE "failed"

\* Any command of the script may fail, and HUP, INT or TERM may arrive.
StepFails ==
    /\ pc \in Steps
    /\ Fail
    /\ UNCHANGED <<diskVars, boxVars>>

\* Mutant of AcceptCluster: a complete cluster is accepted without a marker.
AcceptClusterUnmarked ==
    /\ pc = "start"
    /\ cluster = "complete"
    /\ pc' = "serve"
    /\ UNCHANGED <<diskVars, boxVars>>

\* The directory is not empty: version, control data, and a marker with this
\* profile and this system identifier.  Anything else is StepFails.
AcceptCluster ==
    /\ pc = "start"
    /\ cluster = "complete" /\ marker = "valid"
    /\ pc' = "serve"
    /\ UNCHANGED <<diskVars, boxVars>>

\* Mutant of EmptyDirectory: an unfinished initdb is repeated.
EmptyDirectoryResumes ==
    /\ pc = "start"
    /\ cluster \in {"empty", "partial"}
    /\ pc' = "credentials"
    /\ UNCHANGED <<diskVars, boxVars>>

\* The directory is empty.
EmptyDirectory ==
    /\ pc = "start"
    /\ cluster = "empty"
    /\ pc' = "credentials"
    /\ UNCHANGED <<diskVars, boxVars>>

\* The four passwords are bounded, mktemp -d, and the traps are set.
Credentials ==
    /\ pc = "credentials"
    /\ files' = {"directory"}
    /\ trapped' = TRUE
    /\ pc' = "snapshot"
    /\ UNCHANGED <<diskVars, server, mayRun, unclean>>

\* cp of 010_roles.sql, and its checksum; a failure leaves the copy.
Snapshot ==
    /\ pc = "snapshot"
    /\ files' = files \cup {"roles"}
    /\ pc' \in {"password", "cleanup"}
    /\ UNCHANGED <<diskVars, server, mayRun, trapped, unclean>>

\* The password file for initdb.
WritePassword ==
    /\ pc = "password"
    /\ files' = files \cup {"password"}
    /\ pc' = "initdb"
    /\ UNCHANGED <<diskVars, server, mayRun, trapped, unclean>>

\* initdb writes into the directory, and does not remove what it wrote when
\* it fails (--no-clean).
RunInitdb ==
    /\ pc = "initdb"
    /\ \/ cluster' = "complete" /\ hba' = "initdb" /\ pc' = "forget"
       \/ cluster' = "partial" /\ pc' = "cleanup" /\ UNCHANGED hba
    /\ UNCHANGED <<database, roles, marker, boxVars>>

\* rm -f of the password file, then server_may_be_running=true.
ForgetPassword ==
    /\ pc = "forget"
    /\ files' = files \ {"password"}
    /\ mayRun' = TRUE
    /\ pc' = "startServer"
    /\ UNCHANGED <<diskVars, server, trapped, unclean>>

\* pg_ctl start; it may give up waiting for a server that does start.
StartServer ==
    /\ pc = "startServer"
    /\ files' = files \cup {"log"}
    /\ server' = TRUE
    /\ pc' \in {"createDatabase", "cleanup"}
    /\ UNCHANGED <<diskVars, mayRun, trapped, unclean>>

\* psql CREATE DATABASE; a failed client may have created it.
CreateDatabase ==
    /\ pc = "createDatabase"
    /\ server
    /\ database' = TRUE
    /\ pc' \in {"createRoles", "cleanup"}
    /\ UNCHANGED <<cluster, roles, hba, marker, boxVars>>

\* psql 010_roles.sql: one transaction, all of it or nothing.
CreateRoles ==
    /\ pc = "createRoles"
    /\ server
    /\ roles' = TRUE
    /\ pc' \in {"stopServer", "cleanup"}
    /\ UNCHANGED <<cluster, database, hba, marker, boxVars>>

\* pg_ctl stop, then server_may_be_running=false; or it times out.
StopServer ==
    /\ pc = "stopServer"
    /\ \/ server' = FALSE /\ mayRun' = FALSE /\ pc' = "access"
       \/ server' \in {server, FALSE} /\ pc' = "cleanup" /\ UNCHANGED mayRun
    /\ UNCHANGED <<diskVars, files, trapped, unclean>>

\* pg_hba.conf is truncated and rewritten in place; the write may fail.
WriteAccess ==
    /\ pc = "access"
    /\ hba' \in {"strict", "none"}
    /\ pc' = IF hba' = "strict" THEN "tidy" ELSE "cleanup"
    /\ UNCHANGED <<cluster, database, roles, marker, boxVars>>

\* rm and rmdir of the temporary directory.
Tidy ==
    /\ pc = "tidy"
    /\ files' = {}
    /\ pc' = "untrap"
    /\ UNCHANGED <<diskVars, server, mayRun, trapped, unclean>>

\* The traps are removed, and the system identifier is read.
Untrap ==
    /\ pc = "untrap"
    /\ trapped' = FALSE
    /\ pc' = "mark"
    /\ UNCHANGED <<diskVars, files, server, mayRun, unclean>>

\* The marker is written under a temporary name in the data directory.
Mark ==
    /\ pc = "mark"
    /\ marker' = "draft"
    /\ pc' \in {"rename", "failed"}
    /\ UNCHANGED <<cluster, database, roles, hba, boxVars>>

\* mv to its name, then exec.
Rename ==
    /\ pc = "rename"
    /\ marker' = "valid"
    /\ pc' = "serve"
    /\ UNCHANGED <<cluster, database, roles, hba, boxVars>>

\* The EXIT trap: an immediate stop if the server may be running; it may fail.
Cleanup ==
    /\ pc = "cleanup"
    /\ trapped' = FALSE
    /\ \/ server' = (server /\ ~mayRun) /\ UNCHANGED unclean
       \/ mayRun /\ server' \in {server, FALSE} /\ unclean' = TRUE
    /\ pc' = "remove"
    /\ UNCHANGED <<diskVars, files, mayRun>>

\* rm -f of the three files and rmdir: rm may fail, and then rmdir does.
\* The exit status is 1 in any case.
RemoveFiles ==
    /\ pc = "remove"
    /\ \/ files' = {} /\ UNCHANGED unclean
       \/ files' \in {f \in SUBSET files : "directory" \in f} /\ unclean' = TRUE
    /\ pc' = "failed"
    /\ UNCHANGED <<diskVars, server, mayRun, trapped>>

-----------------------------------------------------------------------------
(* The surroundings *)

\* The container is killed, or a signal hits the script before its traps or
\* after them; the script, the temporary server and the tmpfs end.  A kill
\* inside initdb leaves part of a cluster, one inside the rewriting of
\* pg_hba.conf leaves an incomplete file.
Crash ==
    /\ pc # "down"
    /\ pc' = "down"
    /\ files' = {} /\ server' = FALSE /\ mayRun' = FALSE /\ trapped' = FALSE
    /\ unclean' = FALSE
    /\ cluster' \in IF pc = "initdb" THEN {cluster, "partial"} ELSE {cluster}
    /\ hba' \in IF pc = "access" THEN {hba, "none"} ELSE {hba}
    /\ UNCHANGED <<database, roles, marker>>

\* The container is started again on the same volume.
Restart ==
    /\ pc = "down"
    /\ pc' = "start"
    /\ UNCHANGED <<diskVars, boxVars>>

Script ==
    \/ StepFails \/ AcceptCluster \/ EmptyDirectory \/ Credentials \/ Snapshot
    \/ WritePassword \/ RunInitdb \/ ForgetPassword \/ StartServer
    \/ CreateDatabase \/ CreateRoles \/ StopServer \/ WriteAccess \/ Tidy \/ Untrap
    \/ Mark \/ Rename \/ Cleanup \/ RemoveFiles
Next == Script \/ Crash \/ Restart

Spec == Init /\ [][Next]_vars

-----------------------------------------------------------------------------
(* Properties *)

\* The server that clients reach has the database, the roles and the strict
\* access rules, and the temporary server is gone: after a first start and
\* after any number of killed starts on the same volume.
ServesOnlyComplete ==
    pc = "serve" => /\ cluster = "complete" /\ database /\ roles
                    /\ hba = "strict" /\ marker = "valid"
                    /\ ~server

\* The marker is the commit point: where it is valid, everything is there.
MarkerIsLast ==
    marker = "valid" => cluster = "complete" /\ database /\ roles /\ hba = "strict"

\* A valid marker, and a server that runs, both mean a complete cluster.
ClusterInv == TypeOK /\ MarkerIsLast /\ ServesOnlyComplete

\* exec hands over no password and no temporary file, and a failed start
\* leaves none and no server, unless the cleanup itself failed.
NothingTemporaryRemains ==
    pc \in {"serve", "failed"} /\ ~unclean => files = {} /\ ~server

\* A bootstrap that did not come to its end: the directory is not empty, has no valid
\* marker, and no script is at work on it.
Interrupted == cluster # "empty" /\ marker # "valid" /\ pc \in {"start", "failed", "down"}
=============================================================================
