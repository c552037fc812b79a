----------------------------- MODULE Migrations -----------------------------
(***************************************************************************)
(* internal/db/migrate.go and the start-up of cmd/server/main.go around    *)
(* it: replicas that start at once, each with the migrations of its        *)
(* release, against one PostgreSQL.                                        *)
(*                                                                         *)
(* A replica's connection is a session of the database, which outlives the *)
(* client: when the replica crashes, or its context ends, the statement in *)
(* flight may still take effect, and locks last until the server closes    *)
(* the session.  A migration is a number; files are applied in order.      *)
(***************************************************************************)
EXTENDS Integers, Sequences, FiniteSets, FiniteSetsExt, Functions

CONSTANTS Replica,   \* processes
          Session,   \* database sessions
          NoSession, \* no session
          Releases   \* the sets of migration files that may be deployed

ASSUME NoSessionAssumption == NoSession \notin Session
ASSUME ReleasesAssumption == Releases \subseteq SUBSET Nat

VARIABLES
    pc,        \* where each replica is in Migrate
    files,     \* the migrations embedded in its release
    todo,      \* those its loop has not reached
    conn,      \* its session
    open,      \* the sessions the server has not closed
    lock,      \* who holds the advisory lock
    inFlight,  \* what an abandoned session was executing
    tx,        \* each session's transaction: the migrations it has run ...
    txVersions,\* ... and the rows it has inserted into schema_migrations
    schema,    \* the migrations committed, in order of commit
    versions   \* the rows of schema_migrations

client == <<pc, files, todo, conn>>
server == <<open, lock, inFlight, tx, txVersions, schema, versions>>
vars == <<client, server>>

Init == /\ pc = [r \in Replica |-> "down"]
        /\ files = [r \in Replica |-> {}]
        /\ todo = [r \in Replica |-> {}]
        /\ conn = [r \in Replica |-> NoSession]
        /\ open = {}
        /\ lock = NoSession
        /\ inFlight = [s \in Session |-> "none"]
        /\ tx = [s \in Session |-> <<>>]
        /\ txVersions = [s \in Session |-> {}]
        /\ schema = <<>>
        /\ versions = {}

Goto(r, from, to) == pc[r] = from /\ pc' = [pc EXCEPT ![r] = to]

EmptyTx(s) == /\ tx' = [tx EXCEPT ![s] = <<>>]
              /\ txVersions' = [txVersions EXCEPT ![s] = {}]

-----------------------------------------------------------------------------
(* Migrate *)

\* The process starts, connects and lists its files.
Start(r) ==
    /\ Goto(r, "down", "lock")
    /\ \E release \in Releases :
          /\ files' = [files EXCEPT ![r] = release]
          /\ todo' = [todo EXCEPT ![r] = release]
    /\ \E s \in Session \ open :
          /\ conn' = [conn EXCEPT ![r] = s]
          /\ open' = open \cup {s}
    /\ UNCHANGED <<lock, inFlight, tx, txVersions, schema, versions>>

\* Mutant: the advisory lock is not taken.
LockMutantNone(r) ==
    /\ Goto(r, "lock", "next")
    /\ UNCHANGED <<files, todo, conn, server>>

\* pg_advisory_lock waits for the lock.
Lock(r) ==
    /\ Goto(r, "lock", "next")
    /\ lock = NoSession
    /\ lock' = conn[r]
    /\ UNCHANGED <<files, todo, conn, open, inFlight, tx, txVersions, schema, versions>>

\* The next file, if schema_migrations has no row for it; after the last one
\* the lock is released.
NextFile(r) ==
    /\ pc[r] = "next"
    /\ IF todo[r] = {}
       THEN pc' = [pc EXCEPT ![r] = "unlock"] /\ UNCHANGED todo
       ELSE IF Min(todo[r]) \in versions
       THEN todo' = [todo EXCEPT ![r] = @ \ {Min(@)}] /\ UNCHANGED pc
       ELSE pc' = [pc EXCEPT ![r] = "apply"] /\ UNCHANGED todo
    /\ UNCHANGED <<files, conn, server>>

Apply(r) ==
    /\ Goto(r, "apply", "record")
    /\ tx' = [tx EXCEPT ![conn[r]] = Append(@, Min(todo[r]))]
    /\ UNCHANGED <<files, todo, conn, open, lock, inFlight, txVersions, schema, versions>>

\* Mutant: the row is inserted outside the transaction.
RecordMutantOutside(r) ==
    /\ Goto(r, "record", "commit")
    /\ versions' = versions \cup {Min(todo[r])}
    /\ UNCHANGED <<files, todo, conn, open, lock, inFlight, tx, txVersions, schema>>

\* The primary key of schema_migrations refuses a version that is there.
Record(r) ==
    /\ Goto(r, "record", "commit")
    /\ Min(todo[r]) \notin versions
    /\ txVersions' = [txVersions EXCEPT ![conn[r]] = @ \cup {Min(todo[r])}]
    /\ UNCHANGED <<files, todo, conn, open, lock, inFlight, tx, schema, versions>>

\* The server's commit of session s.
CommitTx(s) == /\ schema' = schema \o tx[s]
               /\ versions' = versions \cup txVersions[s]
               /\ EmptyTx(s)

Commit(r) ==
    /\ Goto(r, "commit", "next")
    /\ CommitTx(conn[r])
    /\ todo' = [todo EXCEPT ![r] = @ \ {Min(@)}]
    /\ UNCHANGED <<files, conn, open, lock, inFlight>>

\* Mutant: a failed statement leaves the loop for the next file.
StatementFailsMutantSkips(r) ==
    /\ pc[r] \in {"next", "apply", "record", "commit"}
    /\ todo[r] # {}
    /\ pc' = [pc EXCEPT ![r] = "next"]
    /\ todo' = [todo EXCEPT ![r] = @ \ {Min(@)}]
    /\ EmptyTx(conn[r])
    /\ UNCHANGED <<files, conn, open, lock, inFlight, schema, versions>>

\* An SQL error rolls back and ends Migrate, which releases the lock.
StatementFails(r) ==
    /\ pc[r] \in {"next", "apply", "record", "commit"}
    /\ todo[r] # {}
    /\ pc' = [pc EXCEPT ![r] = "unlockFailed"]
    /\ EmptyTx(conn[r])
    /\ UNCHANGED <<files, todo, conn, open, lock, inFlight, schema, versions>>

\* Mutant: the deferred unlock is forgotten.
UnlockMutantNone(r) ==
    /\ Goto(r, "unlock", "serving")
    /\ UNCHANGED <<files, todo, conn, server>>

\* The deferred unlock and release: the connection goes back to the pool, which
\* a process that failed closes.
Unlock(r) ==
    /\ \/ /\ Goto(r, "unlock", "serving")
          /\ UNCHANGED <<conn, open>>
       \/ /\ Goto(r, "unlockFailed", "down")
          /\ conn' = [conn EXCEPT ![r] = NoSession]
          /\ open' = open \ {conn[r]}
    /\ lock' = IF lock = conn[r] THEN NoSession ELSE lock
    /\ UNCHANGED <<files, todo, inFlight, tx, txVersions, schema, versions>>

\* The connection is abandoned, perhaps with a statement in flight.
Abandon(r) ==
    /\ inFlight' = [inFlight EXCEPT ![conn[r]] = pc[r]]
    /\ pc' = [pc EXCEPT ![r] = "down"]
    /\ conn' = [conn EXCEPT ![r] = NoSession]
    /\ UNCHANGED <<files, todo, open, lock, tx, txVersions, schema, versions>>

\* The context ends (30 s, or a signal).  The unlock has no deadline.
TimesOut(r) == /\ pc[r] \in {"lock", "next", "apply", "record", "commit"}
               /\ Abandon(r)

Crashes(r) == pc[r] # "down" /\ Abandon(r)

-----------------------------------------------------------------------------
(* The database, for sessions whose client has gone *)

\* The abandoned session was waiting for the lock, and gets it.
LateLock(s) ==
    /\ inFlight[s] = "lock"
    /\ lock = NoSession
    /\ lock' = s
    /\ inFlight' = [inFlight EXCEPT ![s] = "locked"]
    /\ UNCHANGED <<client, open, tx, txVersions, schema, versions>>

\* It was committing, and does.
LateCommit(s) ==
    /\ inFlight[s] = "commit"
    /\ CommitTx(s)
    /\ inFlight' = [inFlight EXCEPT ![s] = "committed"]
    /\ UNCHANGED <<client, open, lock>>

\* The server notices: rolls back what is open and releases the lock.
CloseSession(s) ==
    /\ inFlight[s] # "none"
    /\ open' = open \ {s}
    /\ lock' = IF lock = s THEN NoSession ELSE lock
    /\ inFlight' = [inFlight EXCEPT ![s] = "none"]
    /\ EmptyTx(s)
    /\ UNCHANGED <<client, schema, versions>>

-----------------------------------------------------------------------------
Migrate(r) == \/ Lock(r) \/ NextFile(r) \/ Apply(r) \/ Record(r) \/ Commit(r)
              \/ StatementFails(r) \/ Unlock(r)

Next == \/ \E r \in Replica : Start(r) \/ Migrate(r) \/ TimesOut(r) \/ Crashes(r)
        \/ \E s \in Session : LateLock(s) \/ LateCommit(s) \/ CloseSession(s)

\* The context of the migration has a deadline, the unlock is answered, and the
\* server notices that a client has gone.  Nobody has to finish in time.
Fairness == /\ \A r \in Replica : WF_vars(TimesOut(r)) /\ WF_vars(Unlock(r))
            /\ \A s \in Session : WF_vars(CloseSession(s))

Spec == Init /\ [][Next]_vars

FairSpec == Spec /\ Fairness

-----------------------------------------------------------------------------
(* Properties *)

Place == {"lock", "next", "apply", "record", "commit", "unlock", "unlockFailed",
          "serving"}

TypeOK ==
    /\ pc \in [Replica -> Place \cup {"down"}]
    /\ files \in [Replica -> SUBSET Nat]
    /\ todo \in [Replica -> SUBSET Nat]
    /\ conn \in [Replica -> Session \cup {NoSession}]
    /\ open \subseteq Session
    /\ lock \in open \cup {NoSession}
    /\ inFlight \in [Session -> Place \cup {"none", "locked", "committed"}]
    /\ tx \in [Session -> Seq(Nat)]
    /\ txVersions \in [Session -> SUBSET Nat]
    /\ schema \in Seq(Nat)
    /\ versions \subseteq Nat

\* Each migration is applied once and recorded when applied, whichever replicas
\* ran, died or lost an answer: no run repeats one, none is recorded without
\* its effect.
AppliedOnce == /\ IsInjective(schema)
               /\ versions = Range(schema)

\* A server that accepts requests has every table its release expects.
ServingIsMigrated ==
    \A r \in Replica : pc[r] = "serving" => files[r] \subseteq versions

\* With releases that only append migrations, they take effect in their order,
\* also when an older and a newer release start together.
AppliedInOrder ==
    (\A f, g \in Releases : \A m \in f, n \in g : n < m => n \in f)
      => \A i, j \in 1..Len(schema) : i < j => schema[i] < schema[j]

\* Two migrations never run at the same time, not even that of a process that
\* is already dead.
OneMigrationAtATime ==
    \A s, t \in Session : tx[s] # <<>> /\ tx[t] # <<>> => s = t

\* The lock is given back or lost: neither a server that is up nor a dead
\* process whose session got it late keeps the other replicas from starting.
LockIsFreed == \A s \in Session : lock = s ~> lock # s

=============================================================================
