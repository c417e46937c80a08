------------------------------ MODULE Migrations ------------------------------
(***************************************************************************)
(* Database.__init__ and db.migrations.run_migrations: every process that  *)
(* opens spinlab.db, the dashboard or a command, first brings its schema   *)
(* up to date.  The files applied already are read before the first        *)
(* transaction begins, so two processes may both find a file missing.      *)
(*                                                                         *)
(* A file is its number.  Its SQL, its row in schema_migrations and the    *)
(* COMMIT are one script under BEGIN IMMEDIATE.  `spinlab db reset' unlinks*)
(* the file first, which Windows refuses while another process has it open.*)
(***************************************************************************)
EXTENDS Naturals, Sequences

CONSTANTS None,
          Procs,       \* the processes that may run, each once
          Files,       \* how many migration files there are
          MaxResets    \* bound: databases deleted by `db reset'

ASSUME MigrationsAssumption == /\ None \notin Procs
                               /\ Files \in Nat \ {0} /\ MaxResets \in Nat

VARIABLES
    schema,    \* the files whose SQL the database has committed, in order
    recorded,  \* the files named in schema_migrations
    writer,    \* the process inside BEGIN IMMEDIATE, or None
    opening,   \* each process: "shut", "new", "looked", "script", "open"; or
               \* "ended", whether it failed, was killed or is done
    seen,      \* the set run_migrations read, what it applied added to it
    resets     \* how often the database was deleted

dbVars == <<schema, recorded, writer, opening, seen, resets>>

All == 1..Files

MigrationsInit ==
    /\ schema = <<>> /\ recorded = {} /\ writer = None /\ resets = 0
    /\ opening = [p \in Procs |-> "shut"]
    /\ seen = [p \in Procs |-> {}]

HasFile(p) == opening[p] \in {"new", "looked", "script", "open"}

(* sqlite3.connect, the pragmas and CREATE TABLE IF NOT EXISTS. *)
Connect(p) ==
    /\ opening[p] = "shut"
    /\ opening' = [opening EXCEPT ![p] = "new"]
    /\ UNCHANGED <<schema, recorded, writer, seen, resets>>

(* `spinlab db reset': the file and its WAL go, then Database() opens anew. *)
Reset(p) ==
    /\ opening[p] = "shut" /\ resets < MaxResets
    /\ \A q \in Procs : ~ HasFile(q)
    /\ schema' = <<>> /\ recorded' = {}
    /\ opening' = [opening EXCEPT ![p] = "new"]
    /\ resets' = resets + 1
    /\ UNCHANGED <<writer, seen>>

Look(p) ==
    /\ opening[p] = "new"
    /\ seen' = [seen EXCEPT ![p] = recorded]
    /\ opening' = [opening EXCEPT ![p] = "looked"]
    /\ UNCHANGED <<schema, recorded, writer, resets>>

(* The file the loop of run_migrations is at: none when all were applied. *)
Missing(p) == All \ seen[p]
NextFile(p) == CHOOSE f \in Missing(p) : \A g \in Missing(p) : f <= g

Begin(p) ==
    /\ opening[p] = "looked" /\ Missing(p) # {} /\ writer = None
    /\ writer' = p
    /\ opening' = [opening EXCEPT ![p] = "script"]
    /\ UNCHANGED <<schema, recorded, seen, resets>>

Applies_Twice(f) == /\ schema' = Append(schema, f)
                    /\ recorded' = recorded \cup {f}

(* The SQL and its row: the row's key refuses a file that was applied since. *)
Applies(f) == /\ f \notin recorded
              /\ schema' = Append(schema, f)
              /\ recorded' = recorded \cup {f}

Commit(p) ==
    /\ opening[p] = "script"
    /\ Applies(NextFile(p))
    /\ seen' = [seen EXCEPT ![p] = @ \cup {NextFile(p)}]
    /\ writer' = None
    /\ opening' = [opening EXCEPT ![p] = "looked"]
    /\ UNCHANGED resets

Opened(p) ==
    /\ opening[p] = "looked" /\ Missing(p) = {}
    /\ opening' = [opening EXCEPT ![p] = "open"]
    /\ UNCHANGED <<schema, recorded, writer, seen, resets>>

(* A process ends: what its open transaction did is rolled back. *)
Ends(p) ==
    /\ opening' = [opening EXCEPT ![p] = "ended"]
    /\ writer' = IF writer = p THEN None ELSE writer
    /\ seen' = [seen EXCEPT ![p] = {}]
    /\ UNCHANGED <<schema, recorded, resets>>

(* run_migrations raises: the row is there already, the SQL fails, or the   *)
(* lock is not had within busy_timeout.                                     *)
CannotOpen(p) ==
    /\ opening[p] \in {"script", "looked"}
    /\ opening[p] = "looked" => Missing(p) # {} /\ writer # None
    /\ Ends(p)

CannotReset(p) ==
    /\ opening[p] = "shut" /\ \E q \in Procs : HasFile(q)
    /\ Ends(p)

Migrate(p) == Look(p) \/ Begin(p) \/ Commit(p) \/ Opened(p)

-----------------------------------------------------------------------------
(* Whatever processes race and wherever one of them dies, every migration   *)
(* has run at most once and in order (0002 drops the table of attempts, so  *)
(* a second run would lose them all), and a process that has the database   *)
(* open has the whole schema.                                               *)
SchemaIsWhole ==
    /\ schema = [i \in DOMAIN schema |-> i]
    /\ recorded = DOMAIN schema
    /\ \A p \in Procs : opening[p] = "open" => recorded = All
==============================================================================
