--------------------------- MODULE DeploymentProofs ---------------------------
(***************************************************************************)
(* Theorems about the processes on one database: whatever dashboards and   *)
(* commands race or die, the schema is applied once and whole, no Vite     *)
(* outlives its dashboard, and a rebuild leaves fresh fits.  For any       *)
(* number of processes, of files and of segments.                          *)
(*                                                                         *)
(* What makes the schema whole is that a process only ever believes in     *)
(* files that are recorded, so the first one it misses is recorded already *)
(* (and its script fails) or is the next.  What makes Vite end is that it  *)
(* is in the job whenever its dashboard is past the assignment.  What      *)
(* keeps fits fresh is that a refit under way holds no payload, or one of  *)
(* the last wipe; what makes a rebuild complete is that each segment it    *)
(* set out to refit is still to do until it has a fit.                     *)
(***************************************************************************)
EXTENDS FitStore, TLAPS

USE MigrationsAssumption, ServerAssumption, FitAssumption

Openings == {"shut", "new", "looked", "script", "open", "ended"}

IsFirst(S) == \E k \in 0 .. Files : S = 1 .. k

\* The files applied are the first ones, each once.
Prefix == /\ schema \in Seq(Nat) /\ schema = [i \in DOMAIN schema |-> i]
          /\ recorded = DOMAIN schema /\ recorded \subseteq All

\* A process believes only in what is recorded, and in nothing without the file.
Beliefs == /\ opening \in [Procs -> Openings] /\ seen \in [Procs -> SUBSET All]
           /\ \A p \in Procs : /\ seen[p] \subseteq recorded
                               /\ IsFirst(seen[p])
                               /\ ~ HasFile(p) => seen[p] = {}
                               /\ opening[p] = "script" => seen[p] # All
                               /\ opening[p] = "open" => seen[p] = All

DbInv == Prefix /\ Beliefs

LEMMA DbInvIsWhole == DbInv => SchemaIsWhole
<1> SUFFICES ASSUME DbInv PROVE SchemaIsWhole
  OBVIOUS
<1>1. schema = [i \in DOMAIN schema |-> i] /\ recorded = DOMAIN schema
  BY DEF DbInv, Prefix
<1>2. ASSUME NEW p \in Procs, opening[p] = "open" PROVE recorded = All
  <2>1. seen[p] = All /\ seen[p] \subseteq recorded
    BY <1>2 DEF DbInv, Beliefs
  <2>2. recorded \subseteq All
    BY DEF DbInv, Prefix
  <2> QED BY <2>1, <2>2
<1> QED BY <1>1, <1>2 DEF SchemaIsWhole

\* An empty database: no file applied, nothing believed.
LEMMA EmptyIsPrefix == /\ IsFirst({})
                       /\ <<>> = [i \in DOMAIN <<>> |-> i] /\ DOMAIN <<>> = {}
<1>1. 1 .. 0 = {} /\ 0 \in 0 .. Files
  OBVIOUS
<1> QED BY <1>1 DEF IsFirst

LEMMA DbInit == MigrationsInit => DbInv
BY EmptyIsPrefix DEF MigrationsInit, DbInv, Prefix, Beliefs, HasFile, Openings, All

-----------------------------------------------------------------------------
(* One lemma for each operation on the database. *)

LEMMA ConnectKeeps == ASSUME DbInv, NEW p \in Procs, Connect(p) PROVE DbInv'
BY DEF DbInv, Prefix, Beliefs, HasFile, Openings, All, Connect

LEMMA ResetKeeps == ASSUME DbInv, NEW p \in Procs, Reset(p) PROVE DbInv'
BY EmptyIsPrefix DEF DbInv, Prefix, Beliefs, HasFile, Openings, All, Reset

LEMMA LookKeeps == ASSUME DbInv, NEW p \in Procs, Look(p) PROVE DbInv'
<1>1. IsFirst(recorded)
  <2>1. Len(schema) \in 0 .. Files /\ recorded = 1 .. Len(schema)
    BY DEF DbInv, Prefix, All
  <2> QED BY <2>1 DEF IsFirst
<1> QED BY <1>1 DEF DbInv, Prefix, Beliefs, HasFile, Openings, Look

LEMMA BeginKeeps == ASSUME DbInv, NEW p \in Procs, Begin(p) PROVE DbInv'
BY DEF DbInv, Prefix, Beliefs, HasFile, Openings, All, Begin, Missing

LEMMA OpenedKeeps == ASSUME DbInv, NEW p \in Procs, Opened(p) PROVE DbInv'
BY DEF DbInv, Prefix, Beliefs, HasFile, Openings, All, Opened, Missing

LEMMA EndsKeeps == ASSUME DbInv, NEW p \in Procs, Ends(p) PROVE DbInv'
BY EmptyIsPrefix DEF DbInv, Prefix, Beliefs, HasFile, Openings, All, Ends

\* A file that may be applied is the one after the last.
LEMMA CommitKeeps == ASSUME DbInv, NEW p \in Procs, Commit(p) PROVE DbInv'
<1> DEFINE f == NextFile(p)
           n == Len(schema)
<1>1. n \in Nat /\ recorded = 1 .. n /\ n <= Files /\ Files \in Nat
  BY DEF DbInv, Prefix, All
<1>2. f \notin recorded /\ schema' = Append(schema, f) /\ recorded' = recorded \cup {f}
  BY DEF Commit, Applies
<1>3. PICK k \in 0 .. Files : seen[p] = 1 .. k
  BY DEF DbInv, Beliefs, IsFirst
<1>4. k < Files /\ k <= n
  <2>1. 1 .. k \subseteq 1 .. n /\ 1 .. k # 1 .. Files
    BY <1>1, <1>3 DEF Commit, DbInv, Beliefs, All
  <2> QED BY <1>1, <2>1
<1>5. f = k + 1
  <2>1. k + 1 \in Missing(p) /\ \A g \in Missing(p) : k + 1 <= g /\ g \in Nat
    BY <1>1, <1>3, <1>4 DEF Missing, All
  <2>2. f \in Missing(p) /\ \A g \in Missing(p) : f <= g
    BY <2>1 DEF NextFile
  <2> QED BY <1>1, <1>3, <2>1, <2>2
<1>6. f = n + 1 /\ f = k + 1 /\ n = k /\ f \in 1 .. Files
  BY <1>1, <1>2, <1>4, <1>5
<1>7. seen' = [seen EXCEPT ![p] = 1 .. f] /\ recorded' = 1 .. f /\ IsFirst(1 .. f)
  <2>1. (1 .. n) \cup {f} = 1 .. f /\ seen[p] \cup {f} = 1 .. f
    BY <1>1, <1>3, <1>6
  <2>2. seen' = [seen EXCEPT ![p] = seen[p] \cup {f}]
    BY DEF Commit
  <2>3. IsFirst(1 .. f)
    BY <1>6 DEF IsFirst
  <2> HIDE DEF f
  <2> QED BY <1>1, <1>2, <2>1, <2>2, <2>3
<1>8. Prefix'
  <2>1. schema' \in Seq(Nat) /\ DOMAIN schema' = 1 .. f
    BY <1>1, <1>2, <1>6 DEF DbInv, Prefix
  <2>2. schema' = [i \in 1 .. f |-> i]
    BY <1>1, <1>2, <1>6 DEF DbInv, Prefix
  <2>3. 1 .. f \subseteq 1 .. Files
    BY <1>6
  <2> QED BY <1>7, <2>1, <2>2, <2>3 DEF Prefix, All
<1>9. Beliefs'
  <2>1. recorded \subseteq recorded'
    BY <1>2
  <2>2. 1 .. f \subseteq 1 .. Files
    BY <1>6
  <2>3. opening' = [opening EXCEPT ![p] = "looked"]
    BY DEF Commit
  <2> HIDE DEF f
  <2>4. opening' \in [Procs -> Openings] /\ seen' \in [Procs -> SUBSET All]
    BY <1>7, <2>2, <2>3 DEF DbInv, Beliefs, Openings, All
  <2>5. ASSUME NEW q \in Procs
        PROVE  /\ seen'[q] \subseteq recorded'
               /\ IsFirst(seen'[q])
               /\ ~ HasFile(q)' => seen'[q] = {}
               /\ opening'[q] = "script" => seen'[q] # All
               /\ opening'[q] = "open" => seen'[q] = All
    BY <1>7, <2>1, <2>3 DEF DbInv, Beliefs, HasFile
  <2> QED BY <2>4, <2>5 DEF Beliefs, IsFirst
<1> QED BY <1>8, <1>9 DEF DbInv

-----------------------------------------------------------------------------
(* A dashboard's Vite. *)

Stages == {"off", "database", "spawned", "waits", "ready", "app", "lifespan",
           "serves", "stops", "gone"}

\* Before the spawn there is no Vite; past the assignment it is in the job; and
\* once the dashboard is gone so is Vite, unless it was never assigned.
ViteInv ==
    /\ stage \in [Servers -> Stages]
    /\ vite \in [Servers -> {"none", "starts", "holds", "aside", "dead"}]
    /\ inJob \in [Servers -> BOOLEAN] /\ early \in [Servers -> BOOLEAN]
    /\ \A p \in Servers :
        /\ stage[p] \in {"off", "database"} => vite[p] = "none"
        /\ stage[p] \in {"waits", "ready", "app", "lifespan", "serves", "stops"}
              => inJob[p] \/ FALSE \in JobTakes
        /\ stage[p] = "gone" => vite[p] \in {"none", "dead"} \/ early[p] \/ FALSE \in JobTakes

LEMMA ViteInvIsIt == ViteInv => NoViteLeft
BY DEF ViteInv, NoViteLeft, Goes, ViteLives

LEMMA ViteInit == ServerInit => ViteInv
BY DEF ServerInit, ViteInv, Stages

LEMMA FrameKeeps == ViteInv /\ UNCHANGED serverVars => ViteInv'
BY DEF ViteInv, serverVars

\* However a dashboard ends, it ends with its Vite; a kill before the assignment
\* is remembered.
LEMMA ExitKeeps ==
  ASSUME ViteInv, NEW p \in Servers, NEW clean \in BOOLEAN, Exit(p, clean), stage[p] # "off",
         \/ UNCHANGED early /\ stage[p] # "gone" /\ (stage[p] = "spawned" => ~ ViteLives(p))
         \/ early' = [early EXCEPT ![p] = Goes(p, "spawned")] /\ stage[p] # "gone"
  PROVE  ViteInv'
BY DEF ViteInv, Exit, To, Goes, ViteLives, Stages

LEMMA ServerKeeps ==
  ASSUME ViteInv, NEW p \in Servers, ServerRuns(p) \/ Launch(p) \/ Stop(p) \/ Kill(p)
                                     \/ ViteListens(p) \/ ViteDies(p)
  PROVE  ViteInv'
<1>1. CASE ServerMigrates(p)
  BY <1>1, FrameKeeps DEF ServerMigrates
<1>2. CASE ServerCannotOpen(p)
  BY <1>2 DEF ViteInv, Stages, To, Goes, ServerCannotOpen
<1>3. CASE Spawn(p)
  BY <1>3 DEF ViteInv, Stages, To, Goes, Spawn
<1>4. CASE Launch(p)
  BY <1>4 DEF ViteInv, Stages, To, Goes, Launch
<1>5. CASE Assign(p)
  <2>1. PICK takes \in JobTakes : inJob' = [inJob EXCEPT ![p] = takes]
    BY <1>5 DEF Assign
  <2>2. takes \in BOOLEAN /\ (takes \/ FALSE \in JobTakes)
    OBVIOUS
  <2> QED BY <1>5, <2>1, <2>2 DEF ViteInv, Stages, To, Goes, Assign
<1>6. CASE Bind(p)
  <2>1. \E to \in {"serves", "stops"} : stage' = [stage EXCEPT ![p] = to]
    BY <1>6 DEF Bind, To
  <2> QED BY <1>6, <2>1 DEF ViteInv, Stages, Goes, Bind
<1>7. CASE PortAnswers(p) \/ CreateApp(p) \/ Lifespan(p) \/ Stop(p)
  BY <1>7 DEF ViteInv, Stages, To, Goes, PortAnswers, CreateApp, Lifespan, Stop
<1>8. CASE ExitedAtOnce(p) \/ GivesUp(p) \/ CreateAppRaises(p) \/ ShutDown(p)
  BY <1>8, ExitKeeps DEF ExitedAtOnce, GivesUp, CreateAppRaises, ShutDown, Raises, Goes
<1>9. CASE Kill(p)
  BY <1>9, ExitKeeps DEF Kill
<1>10. CASE ViteListens(p) \/ ViteDies(p)
  BY <1>10 DEF ViteInv, ViteListens, ViteDies, ViteLives
<1> QED BY <1>1, <1>2, <1>3, <1>4, <1>5, <1>6, <1>7, <1>8, <1>9, <1>10 DEF ServerRuns

-----------------------------------------------------------------------------
(* Every step of the system is one of these. *)

Inv == DbInv /\ ViteInv

LEMMA DbFrame == DbInv /\ UNCHANGED dbVars => DbInv'
BY DEF DbInv, Prefix, Beliefs, HasFile, dbVars

LEMMA MigrateKeeps == ASSUME DbInv, NEW p \in Procs, Migrate(p) PROVE DbInv'
BY LookKeeps, BeginKeeps, CommitKeeps, OpenedKeeps DEF Migrate

LEMMA ServerDbKeeps == ASSUME DbInv, ServerNext PROVE DbInv'
<1>1. PICK p \in Servers : Launch(p) \/ ServerRuns(p) \/ Stop(p) \/ Kill(p)
                            \/ ViteListens(p) \/ ViteDies(p)
  BY DEF ServerNext
<1>2. p \in Procs
  OBVIOUS
<1>3. CASE Launch(p)
  BY <1>2, <1>3, ConnectKeeps DEF Launch
<1>4. CASE ServerMigrates(p)
  BY <1>2, <1>4, MigrateKeeps DEF ServerMigrates
<1>5. CASE ServerCannotOpen(p)
  BY <1>2, <1>5, EndsKeeps DEF ServerCannotOpen, CannotOpen
<1>6. CASE Kill(p) \/ ExitedAtOnce(p) \/ GivesUp(p) \/ CreateAppRaises(p) \/ ShutDown(p)
  BY <1>2, <1>6, EndsKeeps DEF Kill, ExitedAtOnce, GivesUp, CreateAppRaises, ShutDown,
                               Raises, Exit
<1>7. CASE \/ Spawn(p) \/ Assign(p) \/ PortAnswers(p) \/ CreateApp(p) \/ Lifespan(p)
           \/ Bind(p) \/ Stop(p) \/ ViteListens(p) \/ ViteDies(p)
  BY <1>7, DbFrame DEF Spawn, Assign, PortAnswers, CreateApp, Lifespan, Bind, Stop,
                       ViteListens, ViteDies
<1> QED BY <1>1, <1>3, <1>4, <1>5, <1>6, <1>7 DEF ServerRuns

LEMMA ToolKeeps ==
  ASSUME Inv, NEW t \in Tools,
         (\E c \in Commands : Command(t, c)) \/ ResetAll(t) \/ KillTool(t) \/ CommandRuns(t)
  PROVE  Inv'
<1>1. t \in Procs
  OBVIOUS
<1>2. UNCHANGED serverVars
  BY DEF Command, ResetAll, KillTool, CommandRuns, ToolMigrates, ToolFails, Report, Count,
         Wipe, FitRaises, Fit, FitHasNoSegment, RebuildDone, ListPool, FitPool, PoolDone,
         Read, Gather, SavePool, RestOfFits
<1>3. DbInv'
  <2>1. CASE \E c \in Commands : Command(t, c)
    BY <1>1, <2>1, ConnectKeeps DEF Inv, Command
  <2>2. CASE ResetAll(t)
    BY <1>1, <2>2, ResetKeeps DEF Inv, ResetAll
  <2>3. CASE ToolMigrates(t)
    BY <1>1, <2>3, MigrateKeeps DEF Inv, ToolMigrates
  <2>4. CASE Ends(t) \/ UNCHANGED dbVars
    BY <1>1, <2>4, EndsKeeps, DbFrame DEF Inv
  <2>5. CASE KillTool(t) \/ ToolFails(t) \/ Report(t) \/ FitHasNoSegment(t)
             \/ RebuildDone(t) \/ PoolDone(t)
    BY <2>4, <2>5 DEF KillTool, ToolFails, CannotOpen, CannotReset, Fails, Done, Report,
                      FitHasNoSegment, RebuildDone, PoolDone
  <2>6. CASE \/ Count(t) \/ Wipe(t) \/ FitRaises(t) \/ Fit(t) \/ ListPool(t) \/ FitPool(t)
             \/ Read(t) \/ Gather(t) \/ SavePool(t)
    BY <2>4, <2>6 DEF Count, Wipe, FitRaises, Fit, ListPool, FitPool, Read, Gather, SavePool,
                      Fails, Done
  <2> QED BY <2>1, <2>2, <2>3, <2>5, <2>6 DEF CommandRuns
<1> QED BY <1>2, <1>3, FrameKeeps DEF Inv

LEMMA NextKeepsInv == Inv /\ [Next]_vars => Inv'
<1> SUFFICES ASSUME Inv, [Next]_vars PROVE Inv'
  OBVIOUS
<1>1. CASE ServerNext
  <2>1. ViteInv'
    BY <1>1, ServerKeeps DEF Inv, ServerNext
  <2> QED BY <1>1, <2>1, ServerDbKeeps DEF Inv
<1>2. CASE UNCHANGED <<dbVars, serverVars>>
  BY <1>2, DbFrame, FrameKeeps DEF Inv
<1>3. CASE \E p \in Servers : Dashboard(p)
  <2>1. UNCHANGED <<dbVars, serverVars>>
    BY <1>3 DEF Dashboard, LogRow, LogReplayRow, Invalidate, DeleteSegment, RefitReads,
                RefitLoads, RefitEnds
  <2> QED BY <1>2, <2>1
<1>4. CASE \E t \in Tools : \/ \E c \in Commands : Command(t, c)
                            \/ ResetAll(t) \/ KillTool(t) \/ CommandRuns(t)
  BY <1>4, ToolKeeps
<1>5. CASE Over \/ UNCHANGED vars
  BY <1>2, <1>5 DEF Over, vars
<1> QED BY <1>1, <1>3, <1>4, <1>5 DEF Next

LEMMA SpecInv == Spec => []Inv
<1>1. Init => Inv
  BY DbInit, ViteInit DEF Init, Inv
<1> QED BY <1>1, NextKeepsInv, PTL DEF Spec

\* Whatever processes race, fail or are killed, every migration ran at most once
\* and in order, and who has the database open has all of them
\* (db.migrations.run_migrations).
THEOREM SchemaStaysWhole == Spec => []SchemaIsWhole
<1>1. Inv => SchemaIsWhole
  BY DbInvIsWhole DEF Inv
<1> QED BY <1>1, SpecInv, PTL

\* However a dashboard ends, its Vite ends with it, where the job takes it and the
\* dashboard was not killed before the assignment (vite.spawn_vite).
THEOREM ViteEnds == Spec => []NoViteLeft
<1>1. Inv => NoViteLeft
  BY ViteInvIsIt DEF Inv
<1> QED BY <1>1, SpecInv, PTL

-----------------------------------------------------------------------------
(* The fits: what the refits and the commands hold.                         *)

Phases == {"off", "opens", "wipes", "reads", "fits", "gathers", "pools", "done", "failed"}

Jobs  == [at : {"idle", "due", "read", "loaded"}, seg : Segs \cup {None},
          warm : Nat \cup {None}]
Holds == [at : Phases, cmd : Commands \cup {None}, todo : SUBSET Segs,
          seg : Segs \cup {None}, chosen : SUBSET Segs, failed : SUBSET Segs]

\* What a command holds fits where it is.
StepOk(r) ==
    /\ r.at \in {"off", "opens"} => r.todo = {} /\ r.chosen = {}
    /\ r.at \in {"wipes", "reads", "fits"} => r.cmd = "rebuild"
    /\ r.at \in {"gathers", "pools"} => r.cmd = "pool"
    /\ r.at = "wipes" => r.todo = r.chosen
    /\ r.at = "fits" => r.seg \in r.todo
    /\ r.at = "done" /\ r.cmd = "rebuild" => r.todo = {}

FitTypes == /\ exists \subseteq Segs /\ wipes \in Nat
            /\ job \in [Servers -> Jobs] /\ tool \in [Tools -> Holds]
            /\ \A r \in fits : r.root \in Nat
            /\ \A t \in Tools : StepOk(tool[t])

\* A refit that loaded nothing from before the wipe keeps the fits as they are.
ColdInv == quiet => /\ \A r \in fits : r.kind = "segment_fit" => r.root = wipes
                    /\ \A p \in Servers : job[p].warm \in {None, wipes}

\* A rebuild under way: what it set out to refit is refitted, has raised, is
\* still to come, or is gone from the database.
RebuildOk(r, ex, HasA) ==
    r.at \in {"reads", "fits", "done"} /\ r.cmd = "rebuild" =>
        (r.chosen \ r.failed) \cap ex \subseteq r.todo \cup HasA

\* The segments that have a fit of their own.
Fitting == {s \in Segs : HasFit(s, "segment_fit")}

ReplaceInv == \A t \in Tools : RebuildOk(tool[t], exists, Fitting)

-----------------------------------------------------------------------------
(* Types, and the chain of warm starts.                                     *)

LEMMA FitTypesInit == Init => FitTypes /\ ColdInv /\ ReplaceInv
<1> SUFFICES ASSUME Init PROVE FitTypes /\ ColdInv /\ ReplaceInv
  OBVIOUS
<1>1. NoRefit \in Jobs /\ Resting \in Holds
  BY DEF NoRefit, Jobs, Resting, Holds, Phases
<1>2. FitTypes
  <2>1. StepOk(Resting)
    BY DEF StepOk, Resting
  <2> QED BY <1>1, <2>1 DEF Init, FitInit, FitTypes
<1>3. ColdInv
  BY DEF Init, FitInit, ColdInv, NoRefit
<1>4. ReplaceInv
  BY DEF Init, FitInit, ReplaceInv, RebuildOk, StepOk, FitTypes, Resting
<1> QED BY <1>2, <1>3, <1>4

\* Steps that add no fit and wipe none, and give no refit a payload.
LEMMA ColdSame ==
  ASSUME ColdInv, UNCHANGED <<wipes, quiet>>, fits' \subseteq fits,
         \A p \in Servers : job'[p].warm \in {job[p].warm, None}
  PROVE  ColdInv'
BY DEF ColdInv

\* A fit that goes back to the last wipe.
LEMMA ColdAdds ==
  ASSUME ColdInv, UNCHANGED <<wipes, quiet>>,
         NEW r, fits' \subseteq fits \cup {r}, quiet /\ r.kind = "segment_fit" => r.root = wipes,
         \A p \in Servers : job'[p].warm \in {job[p].warm, None}
  PROVE  ColdInv'
BY DEF ColdInv

LEMMA EnvelopeIs ==
  ASSUME NEW s, NEW k, NEW root, NEW r \in Envelopes(s, k, root)
  PROVE  r.seg = s /\ r.kind = k /\ r.root = root
BY DEF Envelopes, Row

LEMMA DashboardFits ==
  ASSUME FitTypes, ColdInv, NEW p \in Servers, Dashboard(p) PROVE FitTypes' /\ ColdInv'
<1>0. job[p] \in Jobs
  BY DEF FitTypes
<1>1. ASSUME NEW s \in Segs, LogRow(p, s) \/ Invalidate(p, s) PROVE FitTypes' /\ ColdInv'
  <2> DEFINE j == [job[p] EXCEPT !.at = "due", !.seg = s]
  <2>0. j \in Jobs /\ j.warm = job[p].warm
    BY <1>0 DEF Jobs
  <2>1. job' = job \/ job' = [job EXCEPT ![p] = j]
    BY <1>0, <1>1 DEF LogRow, Invalidate, FitTypes
  <2> HIDE DEF j
  <2>2. UNCHANGED <<exists, fits, wipes, tool, quiet>>
    BY <1>1 DEF LogRow, Invalidate
  <2>3. job' \in [Servers -> Jobs] /\ \A q \in Servers : job'[q].warm = job[q].warm
    BY <2>0, <2>1 DEF FitTypes
  <2> QED BY <2>2, <2>3, ColdSame DEF FitTypes
<1>2. ASSUME NEW s \in Segs, LogReplayRow(p, s) \/ DeleteSegment(p, s)
      PROVE  FitTypes' /\ ColdInv'
  <2>1. exists' \subseteq exists /\ fits' \subseteq fits /\ UNCHANGED <<wipes, job, tool, quiet>>
    BY <1>2 DEF LogReplayRow, DeleteSegment
  <2> QED BY <2>1, ColdSame DEF FitTypes
<1>3. CASE RefitReads(p)
  <2>1. [job[p] EXCEPT !.at = "read"] = [at |-> "read", seg |-> job[p].seg, warm |-> job[p].warm]
    BY <1>0 DEF Jobs
  <2>2. \E j \in {NoRefit, [job[p] EXCEPT !.at = "read"]} : job' = [job EXCEPT ![p] = j]
    BY <1>3 DEF RefitReads
  <2>3. job' \in [Servers -> Jobs] /\ \A q \in Servers : job'[q].warm \in {job[q].warm, None}
    BY <1>0, <2>1, <2>2 DEF FitTypes, Jobs, NoRefit
  <2>4. UNCHANGED <<exists, fits, wipes, tool, quiet>>
    BY <1>3 DEF RefitReads, data
  <2> QED BY <2>3, <2>4, ColdSame DEF FitTypes
<1>4. CASE RefitLoads(p)
  <2> DEFINE w == WarmStart(job[p].seg)
  <2>1. w = None \/ \E r \in fits : r.kind = "segment_fit" /\ w = r.root
    BY DEF WarmStart, Latest, OfKind
  <2> DEFINE j == [job[p] EXCEPT !.at = "loaded", !.warm = w]
  <2>2. job' = [job EXCEPT ![p] = j]
    BY <1>0, <1>4 DEF RefitLoads, FitTypes
  <2>3. UNCHANGED <<exists, fits, wipes, tool, quiet>>
    BY <1>4 DEF RefitLoads, data
  <2> HIDE DEF w
  <2>4. w \in Nat \cup {None}
    BY <2>1 DEF FitTypes
  <2>5. j \in Jobs /\ j.warm = w
    BY <1>0, <2>4 DEF Jobs
  <2> HIDE DEF j
  <2>6. FitTypes'
    BY <2>2, <2>3, <2>5 DEF FitTypes
  <2>7. ColdInv'
    BY <2>1, <2>2, <2>3, <2>5 DEF ColdInv, FitTypes
  <2> QED BY <2>6, <2>7
<1>5. CASE RefitEnds(p)
  <2> DEFINE root == IF job[p].warm = None THEN wipes ELSE job[p].warm
  <2>1. root \in Nat /\ (quiet => root = wipes)
    BY <1>0 DEF Jobs, FitTypes, ColdInv
  <2>2. fits' = fits \/ \E r \in Envelopes(job[p].seg, "segment_fit", root) : fits' = Save(r)
    BY <1>5 DEF RefitEnds
  <2>3. job' = [job EXCEPT ![p] = NoRefit] /\ UNCHANGED <<exists, wipes, tool, quiet>>
    BY <1>5 DEF RefitEnds, data
  <2> HIDE DEF root
  <2>4. job' \in [Servers -> Jobs] /\ \A q \in Servers : job'[q].warm \in {job[q].warm, None}
    BY <2>3 DEF FitTypes, Jobs, NoRefit
  <2>5. CASE fits' = fits
    BY <2>3, <2>4, <2>5, ColdSame DEF FitTypes
  <2>6. ASSUME NEW r \in Envelopes(job[p].seg, "segment_fit", root), fits' = Save(r)
        PROVE  FitTypes' /\ ColdInv'
    <3>1. r.root = root /\ fits' \subseteq fits \cup {r}
      BY <2>6, EnvelopeIs DEF Save
    <3> QED BY <2>1, <2>3, <2>4, <3>1, ColdAdds DEF FitTypes
  <2> QED BY <2>2, <2>5, <2>6
<1> QED BY <1>1, <1>2, <1>3, <1>4, <1>5 DEF Dashboard

LEMMA ServerFits ==
  ASSUME FitTypes, ColdInv, JobsEnd, UNCHANGED <<data, fits, wipes, tool, quiet>>
  PROVE  FitTypes' /\ ColdInv'
<1>1. job' \in [Servers -> Jobs] /\ \A q \in Servers : job'[q].warm \in {job[q].warm, None}
  BY DEF JobsEnd, FitTypes, NoRefit, Jobs
<1> QED BY <1>1, ColdSame DEF FitTypes, data

-----------------------------------------------------------------------------
(* The commands.                                                            *)

\* What a command holds, after each step it may take.
LEMMA HoldsEffect ==
  ASSUME FitTypes, NEW t \in Tools, NEW q \in Holds, tool' = [tool EXCEPT ![t] = q]
  PROVE  tool' \in [Tools -> Holds] /\ tool'[t] = q
         /\ \A u \in Tools : u # t => tool'[u] = tool[u]
BY DEF FitTypes

\* A command's step changes what this command holds, and perhaps the fits.
ToolEffect(t) ==
    \E q \in Holds :
        /\ tool' = [tool EXCEPT ![t] = q] /\ StepOk(q)
        /\ RebuildOk(tool[t], exists, Fitting) =>
             RebuildOk(q, exists', Fitting')

LEMMA FittingGrows == fits \subseteq fits' => Fitting \subseteq Fitting'
BY DEF Fitting, HasFit, OfKind

LEMMA PhaseChanges ==
  ASSUME FitTypes, NEW t \in Tools, NEW phase \in Phases, Moves(t, phase)
  PROVE  \E q \in Holds : /\ tool' = [tool EXCEPT ![t] = q] /\ q.at = phase
                          /\ q.cmd = tool[t].cmd /\ q.todo = tool[t].todo /\ q.seg = tool[t].seg
                          /\ q.chosen = tool[t].chosen /\ q.failed = tool[t].failed
<1> DEFINE q == [tool[t] EXCEPT !.at = phase]
<1>1. tool[t] \in Holds /\ tool' = [tool EXCEPT ![t] = q]
  BY DEF FitTypes, Moves
<1>2. /\ q \in Holds /\ q.at = phase
      /\ q.cmd = tool[t].cmd /\ q.todo = tool[t].todo /\ q.seg = tool[t].seg
      /\ q.chosen = tool[t].chosen /\ q.failed = tool[t].failed
  BY <1>1 DEF Holds
<1> HIDE DEF q
<1> QED BY <1>1, <1>2

LEMMA FailsEffect ==
  ASSUME FitTypes, NEW t \in Tools, Fails(t) PROVE ToolEffect(t)
<1>1. [Resting EXCEPT !.at = "failed"] \in Holds /\ [Resting EXCEPT !.at = "failed"].at = "failed"
  BY DEF Resting, Holds, Phases
<1> QED BY <1>1 DEF Fails, ToolEffect, RebuildOk, StepOk, FitTypes

LEMMA DoneEffect ==
  ASSUME FitTypes, NEW t \in Tools, Done(t), UNCHANGED <<exists, fits>>,
         tool[t].cmd = "rebuild" =>
             \/ tool[t].at = "opens"
             \/ tool[t].at = "reads" /\ tool[t].todo = {}
  PROVE  ToolEffect(t)
<1>1. PICK q \in Holds : /\ tool' = [tool EXCEPT ![t] = q] /\ q.at = "done"
                         /\ q.cmd = tool[t].cmd /\ q.todo = tool[t].todo
                         /\ q.seg = tool[t].seg
                         /\ q.chosen = tool[t].chosen /\ q.failed = tool[t].failed
  BY PhaseChanges DEF Done, Phases
<1>2. Fitting' = Fitting
  BY DEF Fitting, HasFit, OfKind
<1>3. StepOk(q) /\ (RebuildOk(tool[t], exists, Fitting) => RebuildOk(q, exists', Fitting'))
  BY <1>1, <1>2 DEF RebuildOk, StepOk, FitTypes
<1> QED BY <1>1, <1>3 DEF ToolEffect

LEMMA CommandBegins ==
  ASSUME FitTypes, NEW t \in Tools, (\E c \in Commands : Command(t, c)) \/ ResetAll(t)
  PROVE  ToolEffect(t)
<1>1. PICK c \in Commands : tool' = [tool EXCEPT ![t].at = "opens", ![t].cmd = c]
  BY DEF Command, ResetAll
<1> DEFINE q == [tool[t] EXCEPT !.at = "opens", !.cmd = c]
<1>2. tool' = [tool EXCEPT ![t] = q] /\ tool[t] \in Holds /\ tool[t].at = "off"
  BY <1>1 DEF FitTypes, Command, ResetAll, At
<1>3. q \in Holds /\ q.at = "opens" /\ q.todo = tool[t].todo /\ q.chosen = tool[t].chosen
  BY <1>2 DEF Holds, Phases
<1> HIDE DEF q
<1>4. StepOk(q) /\ (RebuildOk(tool[t], exists, Fitting) => RebuildOk(q, exists', Fitting'))
  BY <1>2, <1>3 DEF RebuildOk, StepOk, FitTypes
<1> QED BY <1>2, <1>3, <1>4 DEF ToolEffect

LEMMA FirstIsToDo == \A t \in Tools : tool[t].todo # {} => FirstOf(t) \in tool[t].todo
BY DEF FirstOf

\* The steps of a rebuild.
LEMMA RebuildEffect ==
  ASSUME FitTypes, NEW t \in Tools,
         Count(t) \/ Wipe(t) \/ Read(t) \/ FitRaises(t) \/ Fit(t) \/ RebuildDone(t)
  PROVE  ToolEffect(t)
<1>0. tool[t] \in Holds /\ exists' = exists
  BY DEF FitTypes, Count, Wipe, Read, FitRaises, Fit, RebuildDone, RestOfFits, data
<1>1. CASE Count(t)
  <2> DEFINE e == {s \in exists : Counted(s) >= MinEvents}
             q == [tool[t] EXCEPT !.at = "wipes", !.todo = e, !.chosen = e]
  <2>1. tool[t].at = "opens" /\ tool[t].cmd = "rebuild" /\ UNCHANGED fits
    BY <1>1 DEF Count, Opens, At
  <2>2. CASE e = {}
    BY <1>0, <1>1, <2>1, <2>2, DoneEffect DEF Count
  <2>3. CASE e # {}
    <3>1. tool' = [tool EXCEPT ![t] = q]
      BY <1>1, <2>3 DEF Count, FitTypes
    <3>2. e \subseteq Segs
      BY DEF FitTypes
    <3> HIDE DEF e
    <3>3. /\ q \in Holds /\ q.at = "wipes" /\ q.cmd = "rebuild"
          /\ q.todo = e /\ q.chosen = e
      BY <1>0, <2>1, <3>2 DEF Holds, Phases
    <3> HIDE DEF q
    <3>4. StepOk(q) /\ RebuildOk(q, exists', Fitting')
      BY <3>3 DEF RebuildOk, StepOk, FitTypes
    <3> QED BY <3>1, <3>3, <3>4 DEF ToolEffect
  <2> QED BY <2>2, <2>3
<1>2. CASE Wipe(t)
  <2>1. PICK q \in Holds : /\ tool' = [tool EXCEPT ![t] = q] /\ q.at = "reads"
                           /\ q.cmd = tool[t].cmd /\ q.todo = tool[t].todo
                           /\ q.seg = tool[t].seg
                           /\ q.chosen = tool[t].chosen /\ q.failed = tool[t].failed
    BY <1>2, PhaseChanges DEF Wipe, Phases
  <2>2. StepOk(q) /\ (RebuildOk(tool[t], exists, Fitting) => RebuildOk(q, exists', Fitting'))
    BY <1>2, <2>1 DEF RebuildOk, StepOk, FitTypes, Wipe, At
  <2> QED BY <2>1, <2>2 DEF ToolEffect
<1>3. CASE Read(t)
  <2> DEFINE first == FirstOf(t)
             q == [tool[t] EXCEPT !.at = "fits", !.seg = first]
  <2>1. tool' = [tool EXCEPT ![t] = q] /\ tool[t].at = "reads" /\ Fitting' = Fitting
    BY <1>3 DEF Read, FitTypes, At, Fitting, HasFit, OfKind
  <2>2. first \in tool[t].todo
    BY <1>3, FirstIsToDo DEF Read
  <2> HIDE DEF first
  <2>3. /\ q \in Holds /\ q.at = "fits" /\ q.cmd = tool[t].cmd /\ q.todo = tool[t].todo
        /\ q.seg = first /\ q.chosen = tool[t].chosen /\ q.failed = tool[t].failed
    BY <1>0, <2>2 DEF Holds, Phases
  <2> HIDE DEF q
  <2>4. StepOk(q) /\ (RebuildOk(tool[t], exists, Fitting) => RebuildOk(q, exists', Fitting'))
    BY <1>0, <2>1, <2>2, <2>3 DEF RebuildOk, StepOk, FitTypes
  <2> QED BY <2>1, <2>3, <2>4 DEF ToolEffect
<1>4. ASSUME NEW failed \in SUBSET Segs, tool[t].at = "fits", Continue(t, failed),
             Fitting \subseteq Fitting',
             RebuildOk(tool[t], exists, Fitting) => tool[t].seg \in failed \cup Fitting'
      PROVE  ToolEffect(t)
  <2> DEFINE left == tool[t].todo \ {tool[t].seg}
             lost == tool[t].failed \cup failed
             q == [tool[t] EXCEPT !.at = "reads", !.todo = left, !.seg = None, !.failed = lost]
  <2>1. tool' = [tool EXCEPT ![t] = q]
    BY <1>4 DEF Continue, FitTypes
  <2>2. left \in SUBSET Segs /\ lost \in SUBSET Segs
    BY <1>0, <1>4 DEF Holds
  <2>3. /\ left = tool[t].todo \ {tool[t].seg} /\ lost = tool[t].failed \cup failed
    OBVIOUS
  <2> HIDE DEF left, lost
  <2>4. /\ q \in Holds /\ q.at = "reads" /\ q.cmd = tool[t].cmd /\ q.todo = left
        /\ q.chosen = tool[t].chosen /\ q.failed = lost
    BY <1>0, <2>2 DEF Holds, Phases
  <2> HIDE DEF q
  <2>5. StepOk(q) /\ (RebuildOk(tool[t], exists, Fitting) => RebuildOk(q, exists', Fitting'))
    BY <1>0, <1>4, <2>3, <2>4 DEF RebuildOk, StepOk, FitTypes
  <2> QED BY <2>1, <2>4, <2>5 DEF ToolEffect
<1>5. CASE FitRaises(t)
  <2>1. UNCHANGED fits /\ tool[t].at = "fits" /\ Continue(t, {tool[t].seg})
    BY <1>5 DEF FitRaises, At
  <2>2. Fitting \subseteq Fitting'
    BY <2>1, FittingGrows
  <2>3. tool[t].seg \in Segs
    BY <1>0, <2>1 DEF RebuildOk, StepOk, FitTypes, Holds
  <2> QED BY <1>4, <2>1, <2>2, <2>3
<1>6. CASE Fit(t)
  <2>1. PICK r \in Envelopes(tool[t].seg, "segment_fit", wipes) : fits' = fits \cup {r}
    BY <1>6 DEF Fit, Fitted
  <2>2. r.seg = tool[t].seg /\ r.kind = "segment_fit"
    BY EnvelopeIs
  <2>3. Fitting \subseteq Fitting'
    BY <2>1, FittingGrows
  <2>4. tool[t].seg \in Segs /\ tool[t].at = "fits" /\ Continue(t, {})
    BY <1>6 DEF Fit, FitTypes, At
  <2>5. tool[t].seg \in Fitting'
    BY <2>1, <2>2, <2>4 DEF Fitting, HasFit, OfKind
  <2> QED BY <1>4, <2>3, <2>4, <2>5
<1>7. CASE RebuildDone(t)
  BY <1>0, <1>7, DoneEffect DEF RebuildDone, At
<1> QED BY <1>1, <1>2, <1>3, <1>5, <1>6, <1>7

\* The steps of the pool, and what they leave alone.
LEMMA PoolEffect ==
  ASSUME FitTypes, NEW t \in Tools,
         ListPool(t) \/ Gather(t) \/ FitPool(t) \/ SavePool(t) \/ PoolDone(t)
  PROVE  ToolEffect(t)
<1>0. tool[t] \in Holds /\ exists' = exists
  BY DEF FitTypes, ListPool, Gather, FitPool, SavePool, PoolDone, RestOfFits, data
<1>1. CASE ListPool(t)
  <2> DEFINE q == [tool[t] EXCEPT !.at = "gathers", !.todo = exists]
  <2>1. tool' = [tool EXCEPT ![t] = q] /\ tool[t].cmd = "pool"
    BY <1>1 DEF ListPool, Opens, FitTypes
  <2>2. q \in Holds /\ q.at = "gathers" /\ q.cmd = tool[t].cmd
    BY <1>0 DEF Holds, Phases, FitTypes
  <2> HIDE DEF q
  <2>3. StepOk(q) /\ RebuildOk(q, exists', Fitting')
    BY <2>1, <2>2 DEF RebuildOk, StepOk, FitTypes
  <2> QED BY <2>1, <2>2, <2>3 DEF ToolEffect
<1>2. CASE Gather(t)
  <2> DEFINE left == tool[t].todo \ {FirstOf(t)}
             both == IF Counted(FirstOf(t)) >= MinEvents
                     THEN tool[t].chosen \cup {FirstOf(t)} ELSE tool[t].chosen
             q == [tool[t] EXCEPT !.todo = left, !.chosen = both]
  <2>1. tool' = [tool EXCEPT ![t] = q] /\ tool[t].at = "gathers"
    BY <1>2 DEF Gather, At, FitTypes
  <2>2. left \in SUBSET Segs /\ both \in SUBSET Segs
    BY <1>0, <1>2, FirstIsToDo DEF Holds, Gather
  <2> HIDE DEF left, both
  <2>3. q \in Holds /\ q.at = tool[t].at /\ q.cmd = tool[t].cmd
    BY <1>0, <2>2 DEF Holds, Phases
  <2> HIDE DEF q
  <2>4. StepOk(q) /\ (RebuildOk(tool[t], exists, Fitting) => RebuildOk(q, exists', Fitting'))
    BY <2>1, <2>3 DEF RebuildOk, StepOk, FitTypes
  <2> QED BY <2>1, <2>3, <2>4 DEF ToolEffect
<1>3. CASE FitPool(t)
  <2>1. UNCHANGED <<exists, fits>> /\ tool[t].at = "gathers"
    BY <1>0, <1>3 DEF FitPool, At
  <2>2. CASE Done(t)
    <3>1. tool[t].cmd # "rebuild"
      BY <2>1 DEF FitTypes, StepOk
    <3> QED BY <2>1, <2>2, <3>1, DoneEffect
  <2>3. CASE ~Done(t)
    <3> DEFINE q == [tool[t] EXCEPT !.at = "pools", !.todo = tool[t].chosen]
    <3>1. tool' = [tool EXCEPT ![t] = q]
      BY <1>3, <2>3 DEF FitPool, FitTypes
    <3>2. q \in Holds /\ q.at = "pools" /\ q.cmd = tool[t].cmd
      BY <1>0 DEF Holds, Phases
    <3> HIDE DEF q
    <3>3. StepOk(q) /\ (RebuildOk(tool[t], exists, Fitting) => RebuildOk(q, exists', Fitting'))
      BY <2>1, <3>2 DEF RebuildOk, StepOk, FitTypes
    <3> QED BY <3>1, <3>2, <3>3 DEF ToolEffect
  <2> QED BY <2>2, <2>3
<1>4. CASE SavePool(t)
  <2> DEFINE left == tool[t].todo \ {FirstOf(t)}
             q == [tool[t] EXCEPT !.todo = left]
  <2>1. CASE Fails(t)
    BY <2>1, FailsEffect
  <2>2. CASE ~Fails(t)
    <3>1. tool' = [tool EXCEPT ![t] = q] /\ tool[t].at = "pools"
      BY <1>4, <2>2 DEF SavePool, At, FitTypes
    <3>2. left \in SUBSET Segs
      BY <1>0 DEF Holds
    <3> HIDE DEF left
    <3>3. q \in Holds /\ q.at = tool[t].at /\ q.cmd = tool[t].cmd
      BY <1>0, <3>2 DEF Holds, Phases
    <3> HIDE DEF q
    <3>4. StepOk(q) /\ (RebuildOk(tool[t], exists, Fitting) => RebuildOk(q, exists', Fitting'))
      BY <3>1, <3>3 DEF RebuildOk, StepOk, FitTypes
    <3> QED BY <3>1, <3>3, <3>4 DEF ToolEffect
  <2> QED BY <2>1, <2>2
<1>5. CASE PoolDone(t)
  <2>1. PICK q \in Holds : /\ tool' = [tool EXCEPT ![t] = q] /\ q.at = "done"
                           /\ q.cmd = tool[t].cmd /\ q.todo = tool[t].todo
                           /\ q.seg = tool[t].seg
                           /\ q.chosen = tool[t].chosen /\ q.failed = tool[t].failed
    BY <1>5, PhaseChanges DEF PoolDone, Done, Phases
  <2>2. StepOk(q) /\ (RebuildOk(tool[t], exists, Fitting) => RebuildOk(q, exists', Fitting'))
    BY <1>5, <2>1 DEF RebuildOk, StepOk, FitTypes, PoolDone, At
  <2> QED BY <2>1, <2>2 DEF ToolEffect
<1> QED BY <1>1, <1>2, <1>3, <1>4, <1>5

LEMMA CommandEffect ==
  ASSUME FitTypes, NEW t \in Tools,
         \/ \E c \in Commands : Command(t, c)
         \/ ResetAll(t) \/ KillTool(t) \/ CommandRuns(t)
  PROVE  ToolEffect(t)
<1>1. CASE KillTool(t) \/ ToolFails(t) \/ FitHasNoSegment(t)
  BY <1>1, FailsEffect DEF KillTool, ToolFails, FitHasNoSegment
<1>2. CASE ToolMigrates(t)
  <2>1. tool[t] \in Holds /\ tool' = [tool EXCEPT ![t] = tool[t]]
    BY <1>2 DEF ToolMigrates, FitTypes
  <2>2. exists' = exists /\ Fitting' = Fitting
    BY <1>2 DEF ToolMigrates, RestOfFits, data, Fitting, HasFit, OfKind
  <2>3. StepOk(tool[t])
    BY DEF FitTypes
  <2> QED BY <2>1, <2>2, <2>3 DEF ToolEffect
<1>3. CASE Report(t)
  <2>1. Done(t) /\ UNCHANGED <<exists, fits>> /\ tool[t].at = "opens"
    BY <1>3 DEF Report, RestOfFits, data, Opens, At
  <2> QED BY <2>1, DoneEffect
<1> QED BY <1>1, <1>2, <1>3, CommandBegins, RebuildEffect, PoolEffect DEF CommandRuns

LEMMA CommandFits ==
  ASSUME FitTypes, ColdInv, NEW t \in Tools, ToolEffect(t),
         \/ \E c \in Commands : Command(t, c)
         \/ ResetAll(t) \/ KillTool(t) \/ CommandRuns(t)
  PROVE  FitTypes' /\ ColdInv'
<1>0. job' = job /\ exists' \subseteq exists
  BY DEF Command, ResetAll, KillTool, CommandRuns, ToolMigrates, ToolFails,
         Report, Count, Wipe, FitRaises, Fit, FitHasNoSegment, RebuildDone, ListPool, FitPool,
         PoolDone, Read, Gather, SavePool, RestOfFits, data
<1>1. /\ tool' \in [Tools -> Holds] /\ job' = job /\ exists' \subseteq exists
      /\ \A u \in Tools : StepOk(tool'[u])
  <2>1. PICK q \in Holds : tool' = [tool EXCEPT ![t] = q] /\ StepOk(q)
    BY DEF ToolEffect
  <2>2. tool' \in [Tools -> Holds] /\ \A u \in Tools : StepOk(tool'[u])
    BY <2>1 DEF FitTypes
  <2> QED BY <1>0, <2>2
<1>2. CASE Wipe(t)
  <2>1. /\ wipes' = wipes + 1 /\ quiet' = (\A p \in Servers : job[p].warm = None)
        /\ fits' = {r \in fits : r.kind = "pool_fit"}
    BY <1>2 DEF Wipe, Wiped
  <2>2. ColdInv'
    BY <1>1, <2>1 DEF ColdInv
  <2> QED BY <1>1, <2>1, <2>2 DEF FitTypes
<1>3. ASSUME NEW r, fits' \subseteq fits \cup {r}, r.root = wipes, UNCHANGED <<wipes, quiet>>
      PROVE  FitTypes' /\ ColdInv'
  BY <1>1, <1>3, ColdAdds DEF FitTypes
<1>4. CASE fits' \subseteq fits /\ UNCHANGED <<wipes, quiet>>
  BY <1>1, <1>4, ColdSame DEF FitTypes
<1>5. CASE Fit(t)
  <2>1. PICK r \in Envelopes(tool[t].seg, "segment_fit", wipes) : fits' = fits \cup {r}
    BY <1>5 DEF Fit, Fitted
  <2> QED BY <1>3, <1>5, <2>1, EnvelopeIs DEF Fit
<1>6. CASE SavePool(t)
  <2>1. CASE fits' = fits
    BY <1>4, <1>6, <2>1 DEF SavePool
  <2>2. CASE fits' # fits
    <3>1. PICK r \in Envelopes(FirstOf(t), "pool_fit", wipes) : fits' = fits \cup {r}
      BY <1>6, <2>2 DEF SavePool
    <3> QED BY <1>3, <1>6, <3>1, EnvelopeIs DEF SavePool
  <2> QED BY <2>1, <2>2
<1>7. CASE \/ \E c \in Commands : Command(t, c)
           \/ ResetAll(t) \/ KillTool(t) \/ ToolMigrates(t) \/ ToolFails(t) \/ Report(t)
           \/ Count(t) \/ FitRaises(t) \/ FitHasNoSegment(t) \/ RebuildDone(t) \/ ListPool(t)
           \/ FitPool(t) \/ PoolDone(t) \/ Read(t) \/ Gather(t)
  BY <1>4, <1>7 DEF Command, ResetAll, KillTool, ToolMigrates, ToolFails, Report, Count,
         FitRaises, FitHasNoSegment, RebuildDone, ListPool, FitPool, PoolDone, Read, Gather
<1> QED BY <1>2, <1>5, <1>6, <1>7 DEF CommandRuns

LEMMA ReplaceDashboard ==
  ASSUME FitTypes, ReplaceInv, NEW p \in Servers, Dashboard(p) PROVE ReplaceInv'
<1>1. tool' = tool /\ exists' \subseteq exists
  BY DEF Dashboard, LogRow, LogReplayRow, Invalidate, DeleteSegment, RefitReads, RefitLoads,
         RefitEnds, data
<1>2. Fitting \cap exists' \subseteq Fitting'
  <2>1. CASE \E s \in Segs : DeleteSegment(p, s)
    BY <2>1 DEF DeleteSegment, Fitting, HasFit, OfKind
  <2>2. CASE ~\E s \in Segs : DeleteSegment(p, s)
    <3>1. fits \subseteq fits'
      BY <2>2 DEF Dashboard, LogRow, LogReplayRow, Invalidate, RefitReads, RefitLoads, RefitEnds,
                  Save
    <3> QED BY <3>1, FittingGrows
  <2> QED BY <2>1, <2>2
<1>3. ASSUME NEW t \in Tools, RebuildOk(tool[t], exists, Fitting)
      PROVE  RebuildOk(tool[t], exists', Fitting')
  BY <1>1, <1>2, <1>3 DEF RebuildOk, StepOk, FitTypes
<1> QED BY <1>1, <1>3 DEF ReplaceInv

\* With one command, what it does to the fits concerns no other.
LEMMA ReplaceCommand ==
  ASSUME FitTypes, ReplaceInv, \A t, u \in Tools : t = u, NEW t \in Tools, ToolEffect(t)
  PROVE  ReplaceInv'
<1>1. PICK q \in Holds : /\ tool' = [tool EXCEPT ![t] = q]
                         /\ RebuildOk(tool[t], exists, Fitting) =>
                              RebuildOk(q, exists', Fitting')
  BY DEF ToolEffect
<1>2. tool'[t] = q /\ RebuildOk(q, exists', Fitting')
  BY <1>1, HoldsEffect DEF ReplaceInv
<1> QED BY <1>2 DEF ReplaceInv

LEMMA FitsKept == FitTypes /\ ColdInv /\ UNCHANGED fitVars => FitTypes' /\ ColdInv'
BY DEF FitTypes, ColdInv, fitVars

LEMMA FitStep ==
  ASSUME FitTypes, ColdInv, [Next]_vars
  PROVE  FitTypes' /\ ColdInv'
<1>1. CASE ServerNext /\ JobsEnd /\ UNCHANGED <<data, fits, wipes, tool, quiet>>
  BY <1>1, ServerFits
<1>2. ASSUME NEW t \in Tools, \/ \E c \in Commands : Command(t, c)
                              \/ ResetAll(t) \/ KillTool(t) \/ CommandRuns(t)
      PROVE  FitTypes' /\ ColdInv'
  BY <1>2, CommandEffect, CommandFits
<1>3. CASE Over \/ UNCHANGED vars
  BY <1>3, FitsKept DEF Over, vars
<1> QED BY <1>1, <1>2, <1>3, DashboardFits DEF Next

LEMMA ReplaceStep ==
  ASSUME FitTypes, ReplaceInv, \A t, u \in Tools : t = u, [Next]_vars PROVE ReplaceInv'
<1>1. ASSUME UNCHANGED <<exists, fits, tool>> PROVE ReplaceInv'
  BY <1>1 DEF ReplaceInv, RebuildOk, Fitting, HasFit, OfKind
<1>2. CASE UNCHANGED <<data, fits, wipes, tool, quiet>> \/ Over \/ UNCHANGED vars
  BY <1>1, <1>2 DEF data, Over, vars, fitVars
<1>3. ASSUME NEW t \in Tools, \/ \E c \in Commands : Command(t, c)
                              \/ ResetAll(t) \/ KillTool(t) \/ CommandRuns(t)
      PROVE  ReplaceInv'
  BY <1>3, CommandEffect, ReplaceCommand
<1> QED BY <1>2, <1>3, ReplaceDashboard DEF Next

LEMMA SpecFits == Spec => [](FitTypes /\ ColdInv)
<1>1. Init => FitTypes /\ ColdInv
  BY FitTypesInit
<1>2. FitTypes /\ ColdInv /\ [Next]_vars => FitTypes' /\ ColdInv'
  BY FitStep
<1> QED BY <1>1, <1>2, PTL DEF Spec

\* Whatever dashboards refit, and whatever commands run, meanwhile: after a wipe
\* no fit of a segment goes back by warm starts to one from before it, unless a
\* refit held an older payload at the wipe (cli_fit_rebuild.run).
THEOREM RebuiltStaysCold == Spec => []RebuiltIsCold
<1>1. ColdInv => RebuiltIsCold
  BY DEF ColdInv, RebuiltIsCold
<1> QED BY <1>1, SpecFits, PTL

\* A rebuild that ran to its end refitted all it set out to refit, but for what
\* raised or was deleted: whenever no second command may wipe its fits again.
THEOREM RebuildRefits ==
  ASSUME \A t, u \in Tools : t = u PROVE Spec => []RebuildReplaces
<1>1. FitTypes /\ ReplaceInv => RebuildReplaces
  <2> SUFFICES ASSUME FitTypes, ReplaceInv, NEW t \in Tools, At(t, "done"),
                      tool[t].cmd = "rebuild",
                      NEW s \in (tool[t].chosen \ tool[t].failed) \cap exists
               PROVE  HasFit(s, "segment_fit")
    BY DEF RebuildReplaces
  <2>1. tool[t].todo = {} /\ tool[t].at = "done"
    BY DEF FitTypes, StepOk, At
  <2> QED BY <2>1 DEF ReplaceInv, RebuildOk, Fitting
<1>2. Init => ReplaceInv
  BY FitTypesInit
<1>3. FitTypes /\ ReplaceInv /\ [Next]_vars => ReplaceInv'
  BY ReplaceStep
<1> QED BY <1>1, <1>2, <1>3, SpecFits, PTL DEF Spec
==============================================================================
