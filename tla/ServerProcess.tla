----------------------------- MODULE ServerProcess -----------------------------
(***************************************************************************)
(* A dashboard process from `spinlab dashboard' to its end: cli.main opens *)
(* the database, spawns the Vite dev server and waits for its port, builds *)
(* the app and hands it to uvicorn, which runs the lifespan of create_app. *)
(* It may be killed, or raise, between any two steps; its Vite may die too.*)
(*                                                                         *)
(* Windows closes the job object of a process that ends, which kills the   *)
(* Vite assigned to it.  Vite takes the next port when its own is taken    *)
(* (vite.config.ts has no strictPort); wait_for_port asks only whether     *)
(* something answers on the port.                                          *)
(***************************************************************************)
EXTENDS Migrations

CONSTANTS Servers,    \* the processes that are dashboards
          JobTakes    \* the answers _assign_pid_to_kill_on_close_job may give

ASSUME ServerAssumption == Servers \subseteq Procs /\ JobTakes \subseteq BOOLEAN

VARIABLES
    stage,     \* each dashboard: how far _run_dashboard and uvicorn have come
    vite,      \* its Vite: "none", "starts", "holds" the port, "aside", "dead"
    inJob,     \* its Vite is assigned to the kill-on-close job
    early      \* history: it was killed before its Vite was assigned

serverVars == <<stage, vite, inJob, early>>

\* The stages: "off", "database", "spawned", "waits", "ready", "app", "lifespan",
\* "serves", "stops", "gone".

ServerInit ==
    /\ stage \in [Servers -> {"off", "gone"}]   \* "gone": never started
    /\ vite = [p \in Servers |-> "none"]
    /\ inJob = [p \in Servers |-> FALSE]
    /\ early = [p \in Servers |-> FALSE]

ViteLives(p) == vite[p] \in {"starts", "holds", "aside"}
PortHeld     == \E p \in Servers : vite[p] = "holds"
Goes(p, s)   == stage[p] = s
To(p, s)     == stage' = [stage EXCEPT ![p] = s]

-----------------------------------------------------------------------------
(* The process ends; clean says whether terminate_vite was called first. *)
Exit(p, clean) ==
    /\ To(p, "gone") /\ Ends(p)
    /\ vite' = IF ViteLives(p) /\ (clean \/ inJob[p])
               THEN [vite EXCEPT ![p] = "dead"] ELSE vite
    /\ inJob' = [inJob EXCEPT ![p] = FALSE]

Raises(p, clean) == Exit(p, clean) /\ UNCHANGED early

Kill(p) ==
    /\ stage[p] \notin {"off", "gone"}
    /\ early' = [early EXCEPT ![p] = Goes(p, "spawned")]
    /\ Exit(p, FALSE)

(* _load_config_or_die, then Database(). *)
Launch(p) ==
    /\ Goes(p, "off") /\ Connect(p)
    /\ To(p, "database")
    /\ UNCHANGED <<vite, inJob, early>>

ServerMigrates(p) ==
    /\ Goes(p, "database") /\ Migrate(p)
    /\ UNCHANGED serverVars

ServerCannotOpen(p) ==
    /\ Goes(p, "database") /\ CannotOpen(p)
    /\ To(p, "gone")
    /\ UNCHANGED <<vite, inJob, early>>

(* spawn_vite: Popen; a child that has exited already raises at once. *)
Spawn(p) ==
    /\ Goes(p, "database") /\ opening[p] = "open"
    /\ To(p, "spawned")
    /\ vite' = [vite EXCEPT ![p] = "starts"]
    /\ UNCHANGED <<dbVars, inJob, early>>

ExitedAtOnce(p) ==
    /\ Goes(p, "spawned") /\ ~ ViteLives(p)
    /\ Raises(p, FALSE)

Assign_Later(p) ==
    /\ Goes(p, "spawned")
    /\ To(p, "waits")
    /\ UNCHANGED <<dbVars, vite, inJob, early>>

Assign(p) ==
    /\ Goes(p, "spawned")
    /\ \E takes \in JobTakes : inJob' = [inJob EXCEPT ![p] = takes]
    /\ To(p, "waits")
    /\ UNCHANGED <<dbVars, vite, early>>

(* wait_for_port: whoever answers will do. *)
PortAnswers(p) ==
    /\ Goes(p, "waits") /\ PortHeld
    /\ To(p, "ready")
    /\ UNCHANGED <<dbVars, vite, inJob, early>>

GivesUp_Never(p) == FALSE /\ UNCHANGED <<dbVars, serverVars>>

(* VITE_STARTUP_TIMEOUT_S: terminate_vite, ViteStartupError, sys.exit(1). *)
GivesUp(p) ==
    /\ Goes(p, "waits") /\ ~ PortHeld
    /\ Raises(p, TRUE)

(* purge_stale_model_state, the orchestrator, the session; .spinlab-ports. *)
CreateApp(p) ==
    /\ Goes(p, "ready")
    /\ To(p, "app")
    /\ UNCHANGED <<dbVars, vite, inJob, early>>

CreateAppRaises(p) == Goes(p, "ready") /\ Raises(p, FALSE)

(* uvicorn starts the lifespan, and with it event_loop, before it binds. *)
Lifespan(p) ==
    /\ Goes(p, "app")
    /\ To(p, "lifespan")
    /\ UNCHANGED <<dbVars, vite, inJob, early>>

Bind(p) ==
    /\ Goes(p, "lifespan")
    /\ To(p, IF \E q \in Servers : Goes(q, "serves") THEN "stops" ELSE "serves")
    /\ UNCHANGED <<dbVars, vite, inJob, early>>

Stop(p) ==
    /\ Goes(p, "serves")
    /\ To(p, "stops")
    /\ UNCHANGED <<dbVars, vite, inJob, early>>

(* After the yield: session.shutdown, which may raise, then terminate_vite. *)
ShutDown(p) == \E raises \in BOOLEAN : Goes(p, "stops") /\ Raises(p, ~ raises)

-----------------------------------------------------------------------------
(* npm run dev: gen-types, then Vite on its port or on the next one. *)
ViteListens(p) ==
    /\ vite[p] = "starts"
    /\ vite' = [vite EXCEPT ![p] = IF PortHeld THEN "aside" ELSE "holds"]
    /\ UNCHANGED <<dbVars, stage, inJob, early>>

ViteDies(p) ==
    /\ ViteLives(p)
    /\ vite' = [vite EXCEPT ![p] = "dead"]
    /\ UNCHANGED <<dbVars, stage, inJob, early>>

ServerRuns(p) ==
    \/ ServerMigrates(p) \/ ServerCannotOpen(p) \/ Spawn(p) \/ ExitedAtOnce(p)
    \/ Assign(p) \/ PortAnswers(p) \/ GivesUp(p) \/ CreateApp(p)
    \/ CreateAppRaises(p) \/ Lifespan(p) \/ Bind(p) \/ ShutDown(p)

ServerNext == \E p \in Servers :
    Launch(p) \/ ServerRuns(p) \/ Stop(p) \/ Kill(p) \/ ViteListens(p) \/ ViteDies(p)

-----------------------------------------------------------------------------
(* However a dashboard ends (its start-up gives up or raises, another one   *)
(* has the port, its shutdown fails half-way, it is killed), the Vite it    *)
(* spawned ends with it.  Excepted are a kill between Popen and the         *)
(* assignment to the job, and a Vite that is in no job because assigning    *)
(* failed or the system is not Windows (JobTakes).                          *)
NoViteLeft ==
    \A p \in Servers : Goes(p, "gone") /\ ViteLives(p)
                       => early[p] \/ FALSE \in JobTakes

(* A dashboard that was started comes to serve or ends, whatever its Vite,  *)
(* the other processes and the database's lock do meanwhile.                *)
StartSettles ==
    \A p \in Servers : Goes(p, "database") ~> stage[p] \in {"serves", "gone"}

(* What the message of ViteStartupError takes for granted (a stale dev      *)
(* server on the port makes the start fail): the port that answered is the  *)
(* new Vite's own.  It is not so: the stale server answers for it.          *)
ReadyIsOwn ==
    \A p \in Servers : Goes(p, "ready") /\ vite[p] # "dead" => vite[p] = "holds"
==============================================================================
