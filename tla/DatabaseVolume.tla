--------------------------- MODULE DatabaseVolume ---------------------------
(***************************************************************************)
(* The life of one database volume: Bootstrap, the entrypoint that builds  *)
(* and serves the cluster, with Migrations, the scripts that operators run *)
(* against it.  They meet in two places.  A script reaches the database    *)
(* only while the entrypoint has handed over to the real server, because   *)
(* the temporary one has no TCP listener (entrypoint.sh 105); and a killed  *)
(* container ends every open transaction at once, and no committed one.    *)
(***************************************************************************)
EXTENDS Naturals

CONSTANTS Runs, Checksums

VARIABLES
    \* Bootstrap
    script, cluster, database, roles, hba, marker,
    files, server, mayRun, trapped, unclean,
    \* Migrations
    db, tx, pc, job, sum, lock

Boot == INSTANCE Bootstrap WITH pc <- script
Scripts == INSTANCE Migrations

bootVars == <<script, cluster, database, roles, hba, marker,
              files, server, mayRun, trapped, unclean>>
scriptVars == <<db, tx, pc, job, sum, lock>>
vars == <<bootVars, scriptVars>>

Init == Boot!Init /\ Scripts!Init

-----------------------------------------------------------------------------

\* PostgreSQL answers under its public address.
Serving == script = "serve"

\* The runs that have a transaction open.
InTransaction == {r \in Runs : pc[r] \notin {"new", "ok", "failed", "unknown"}}

\* The entrypoint goes on, or the container starts again.
BootStep == (Boot!Script \/ Boot!Restart) /\ UNCHANGED scriptVars

\* The container is killed, and with it every transaction.  A client whose COMMIT was
\* under way does not know.
Crash ==
    /\ Boot!Crash
    /\ \E results \in [InTransaction -> {"failed", "unknown"}] :
          pc' = [r \in Runs |-> IF r \in InTransaction THEN results[r] ELSE pc[r]]
    /\ lock' = {}
    /\ UNCHANGED <<db, tx, job, sum>>

\* A script runs against the server.
ScriptStep == Serving /\ Scripts!Next /\ UNCHANGED bootVars

\* psql finds no server; and the operator tries again whether there is one or not.
Refused(r) ==
    /\ pc[r] = "new" /\ ~Serving
    /\ pc' = [pc EXCEPT ![r] = "failed"]
    /\ UNCHANGED <<db, tx, job, sum, lock, bootVars>>
RetryLater(r) == ~Serving /\ Scripts!Retry(r) /\ UNCHANGED bootVars

Next ==
    \/ BootStep \/ Crash \/ ScriptStep
    \/ \E r \in Runs : Refused(r) \/ RetryLater(r)

Spec == Init /\ [][Next]_vars

-----------------------------------------------------------------------------
(* Properties *)

\* A cluster that is served, or marked as built, has its database, roles and access
\* rules, a start that has ended left nothing temporary behind (entrypoint.sh), and
\* nothing was ever committed into any other cluster.
ClusterInv ==
    /\ Boot!ClusterInv /\ Boot!NothingTemporaryRemains
    /\ db # Scripts!Base => marker = "valid"

\* A cluster whose bootstrap was interrupted stays closed: no later start of
\* entrypoint.sh completes it or serves it.
InterruptedStaysClosed == [][Boot!Interrupted => Boot!Interrupted']_vars

\* In every committed state, and after any number of kills and restarts, the ledger
\* and the objects of the two migration scripts agree.
LedgerInv == Scripts!LedgerInv

\* From one committed state to the next: the down script of version 1 does not commit
\* over a ledger that has gained a later version since its check; and a recorded
\* checksum changes only through a down script, not through an up script that is
\* retried after an unacknowledged commit or that waited for another one.
LedgerHistory ==
    [][/\ Scripts!Later(db) \subseteq Scripts!Later(db')
       /\ Scripts!Row1(db) # {} /\ Scripts!Row1(db') # {}
            => Scripts!Row1(db') = Scripts!Row1(db)]_vars
=============================================================================
