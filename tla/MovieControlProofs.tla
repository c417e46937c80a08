-------------------------- MODULE MovieControlProofs --------------------------
(***************************************************************************)
(* Theorems about movies: for any number of requests and watches, the      *)
(* blind toggle of fast-forward stays paired, whether or not commands to   *)
(* RetroArch fail; and where they do not, the controller's handles, its    *)
(* staged copies and the session's mode agree with what RetroArch does.    *)
(*                                                                         *)
(* As long as nothing has crossed, at most one hand is in flight, and      *)
(* where it stands says which part of the bookkeeping is done already and  *)
(* which is still to come.  The invariant is that table, and what holds    *)
(* while no hand is in flight.                                             *)
(***************************************************************************)
EXTENDS MovieControl, TLAPS

USE MovieAssumption

Moving == {"recording", "saving", "leaving", "waking", "staging", "verifying",
           "speeding", "sped", "halting", "halted", "slowing", "slowed",
           "resuming", "returning"}
Places == Resting \cup Watching \cup Moving

Movies == Calls \cup {None}
Emus == [movie : Movies, recording : BOOLEAN, paused : BOOLEAN, fast : BOOLEAN,
         ends : Nat]
Ctls == [movie : Movies, rec : Movies, ff : BOOLEAN, watch : Movies]
Jobs == [movie : Movies, fast : BOOLEAN]

Types == /\ emu \in Emus /\ ctl \in Ctls /\ crossed \in BOOLEAN
         /\ at \in [Hands -> Places] /\ job \in [Hands -> Jobs]

\* Fast-forward and its movie, while h is in flight.
FastFits(h) ==
    /\ events = <<>> \/ (at[h] = "returning" /\ events = <<"finished">>)
    /\ at[h] \in {"slowing", "slowed"} => ctl.ff
    /\ at[h] \notin {"halting", "halted", "slowing", "slowed"} => ~ctl.ff
    /\ at[h] = "sped" => emu.fast
    /\ at[h] = "slowed" => ~emu.fast
    /\ at[h] \notin {"sped", "slowed"} => emu.fast = ctl.ff
    /\ at[h] \in {"speeding", "sped"} => ctl.movie = h[2]
    /\ at[h] \in {"halting", "halted"} => ctl.movie # None
    /\ at[h] \notin {"speeding", "sped", "halting", "halted"} => ctl.movie = None

\* Copies, recording and mode, while h is in flight and no command fails.
RestFits(h) ==
    /\ at[h] = "verifying" => staged = {h[2]} /\ emu.movie \in {None, h[2]}
    /\ at[h] = "halting" => job[h].movie = ctl.movie
    /\ at[h] = "halted" => staged = {} /\ emu.movie = None
    /\ at[h] \notin {"verifying", "halted"} =>
           staged = {ctl.movie} \ {None} /\ emu.movie \in {None, ctl.movie}
    /\ ctl.rec # None <=> emu.recording
    /\ at[h] \in {"recording", "waking", "staging", "verifying", "speeding", "sped"}
           => mode = "idle" /\ ctl.rec = None
    /\ at[h] = "saving" => mode = "reference"
    /\ at[h] = "leaving" => mode = "reference" /\ ctl.rec = None
    /\ at[h] \in {"halting", "halted", "slowing", "slowed", "resuming"}
           => mode = "replay" /\ ctl.rec = None
    /\ at[h] = "returning" =>
           \/ events = <<"finished">> /\ mode = "replay" /\ ctl.rec = None
           \/ /\ events = <<>> /\ mode # "replay"
              /\ mode = "reference" <=> ctl.rec # None
              /\ h[1] = "call" => ctl.rec = None

\* What holds while no hand is in flight; one event at most is still queued.
Rests ==
    /\ events \in {<<>>, <<"started">>, <<"error">>, <<"finished">>}
    /\ emu.fast = ctl.ff
    /\ ctl.ff => ctl.movie # None
    /\ mode # "replay" \/ events \in {<<"error">>, <<"finished">>} => ctl.movie = None

Agrees ==
    /\ staged = {ctl.movie} \ {None} /\ emu.movie \in {None, ctl.movie}
    /\ ctl.rec # None <=> emu.recording
    /\ events \in {<<>>, <<"started">>} =>
           /\ mode = "replay" <=> ctl.movie # None
           /\ mode = "reference" <=> ctl.rec # None
    /\ events \in {<<"error">>, <<"finished">>} => ctl.rec = None

Alone(h) == \A x \in Hands : InFlight(x) => x = h

Table ==
    ~crossed =>
        /\ \A h \in Hands : InFlight(h) => /\ Alone(h) /\ FastFits(h)
                                           /\ Faults = FALSE => RestFits(h)
        /\ ~Busy => Rests /\ (Faults = FALSE => Agrees)

MovieInv == Types /\ Table

-----------------------------------------------------------------------------
(* Frames. *)

LEMMA HandsAre ==
    /\ \A c \in Calls : <<"call", c>> \in Hands /\ <<"watch", c>> \in Hands
    /\ \A c \in Calls : <<"call", c>>[2] = c /\ <<"call", c>>[1] = "call"
BY DEF Hands

LEMMA InFlightIs == ASSUME NEW h \in Hands, at \in [Hands -> Places]
                    PROVE InFlight(h) <=> at[h] \in Moving
BY DEF InFlight, Places, Moving, Resting, Watching

\* The hand h has taken a step and no other hand was or is in flight.
LEMMA Closes ==
    ASSUME Types', NEW h \in Hands,
           ~crossed' => /\ Alone(h)'
                        /\ InFlight(h)' => /\ FastFits(h)'
                                           /\ Faults = FALSE => RestFits(h)'
                        /\ ~InFlight(h)' => Rests' /\ (Faults = FALSE => Agrees')
    PROVE  MovieInv'
<1> SUFFICES ASSUME ~crossed' PROVE Table'
  BY DEF MovieInv, Table
<1>1. CASE InFlight(h)'
  BY <1>1 DEF Table, Busy, Alone
<1>2. CASE ~InFlight(h)'
  <2>1. ~Busy' /\ \A x \in Hands : ~InFlight(x)'
    BY <1>2 DEF Busy, Alone
  <2> QED BY <1>2, <2>1 DEF Table
<1> QED BY <1>1, <1>2

\* A hand in flight moves to s, on its way or out.
LEMMA Moves ==
    ASSUME MovieInv, Types', NEW h \in Hands, NEW s \in Places,
           at[h] \in Moving, Goes(h, s), crossed' = crossed,
           FastFits(h) /\ (Faults = FALSE => RestFits(h)) =>
               IF s \in Moving
               THEN FastFits(h)' /\ (Faults = FALSE => RestFits(h)')
               ELSE Rests' /\ (Faults = FALSE => Agrees')
    PROVE  MovieInv'
<1> SUFFICES ASSUME ~crossed PROVE
        /\ Alone(h)'
        /\ InFlight(h)' => FastFits(h)' /\ (Faults = FALSE => RestFits(h)')
        /\ ~InFlight(h)' => Rests' /\ (Faults = FALSE => Agrees')
  BY Closes
<1>1. at \in [Hands -> Places]
  BY DEF MovieInv, Types
<1>2. InFlight(h)
  BY <1>1, InFlightIs
<1>3. Alone(h) /\ FastFits(h) /\ (Faults = FALSE => RestFits(h))
  BY <1>2 DEF MovieInv, Table
<1>4. at'[h] = s /\ \A x \in Hands : x # h => at'[x] = at[x]
  BY <1>1 DEF Goes
<1>5. Alone(h)'
  BY <1>3, <1>4 DEF Alone, InFlight
<1>6. InFlight(h)' <=> s \in Moving
  BY <1>4 DEF InFlight, Places, Moving, Resting, Watching
<1> QED BY <1>3, <1>5, <1>6

\* No hand moves.
LEMMA Stays ==
    ASSUME MovieInv, Types', UNCHANGED <<at, crossed>>,
           \A h \in Hands : FastFits(h) => FastFits(h)',
           \A h \in Hands : FastFits(h) /\ RestFits(h) => RestFits(h)',
           Rests => Rests', Rests /\ Agrees => Agrees'
    PROVE  MovieInv'
<1>1. \A h \in Hands : InFlight(h)' <=> InFlight(h)
  BY DEF InFlight
<1>2. \A h \in Hands : Alone(h)' <=> Alone(h)
  BY <1>1 DEF Alone
<1>3. Busy' <=> Busy
  BY <1>1 DEF Busy
<1> QED BY <1>1, <1>2, <1>3 DEF MovieInv, Table

-----------------------------------------------------------------------------
(* A request begins. *)

\* Where nothing has crossed, it finds nobody in flight and no event queued.
LEMMA Begins ==
    ASSUME MovieInv, Quiet, ~crossed
    PROVE  Rests /\ (Faults = FALSE => Agrees) /\ (\A x \in Hands : ~InFlight(x))
BY DEF MovieInv, Table, Quiet, Busy

LEMMA StartKeeps == ASSUME MovieInv, NEW c \in Calls,
                           StartRecording(c) \/ StartPlayback(c)
                    PROVE  MovieInv'
<1> DEFINE h == <<"call", c>>
<1>h. h \in Hands /\ h[2] = c /\ h[1] = "call"
  BY HandsAre
<1>0. /\ Called(c, "idle") /\ UNCHANGED ctl /\ Types
      /\ Goes(h, "recording") \/ Goes(h, "waking")
  BY DEF StartRecording, StartPlayback, MovieInv
<1>1. at' \in [Hands -> Places]
  BY <1>0, <1>h DEF Types, Goes, Places, Moving
<1>2. job' \in [Hands -> Jobs]
  <2>1. job \in [Hands -> Jobs] /\ \A fast \in BOOLEAN : [movie |-> c, fast |-> fast] \in Jobs
    BY <1>0 DEF Types, Jobs, Movies
  <2> QED BY <2>1, <1>h DEF StartRecording, StartPlayback
<1>3. Types' /\ (~crossed' => ~crossed /\ Quiet)
  BY <1>0, <1>1, <1>2 DEF Types, Called, Cross, Quiet, Busy
<1>4. at'[h] \in {"recording", "waking"} /\ \A x \in Hands : x # h => at'[x] = at[x]
  BY <1>0, <1>h DEF Types, Goes
<1> SUFFICES ASSUME ~crossed'
             PROVE  Alone(h)' /\ InFlight(h)' /\ FastFits(h)'
                    /\ (Faults = FALSE => RestFits(h)')
  BY <1>3, <1>h, Closes
<1>5. /\ Rests /\ (Faults = FALSE => Agrees) /\ (\A x \in Hands : ~InFlight(x))
      /\ events = <<>> /\ mode = "idle"
  BY <1>0, <1>3, Begins DEF Quiet, Called
<1>6. Alone(h)' /\ InFlight(h)'
  BY <1>4, <1>5 DEF Alone, InFlight, Resting, Watching
<1>7. FastFits(h)'
  BY <1>0, <1>4, <1>5 DEF Called, FastFits, Rests
<1>8. Faults = FALSE => RestFits(h)'
  BY <1>0, <1>4, <1>5 DEF Called, RestFits, Rests, Agrees
<1> QED BY <1>6, <1>7, <1>8

LEMMA StopRecordingKeeps == ASSUME MovieInv, NEW c \in Calls, StopRecording(c)
                            PROVE  MovieInv'
<1> DEFINE h == <<"call", c>>
<1>h. h \in Hands /\ h[2] = c /\ h[1] = "call"
  BY HandsAre
<1>0. /\ Called(c, "reference") /\ UNCHANGED <<ctl, job>> /\ Types
      /\ Goes(h, IF ctl.rec = None THEN "leaving" ELSE "saving")
  BY DEF StopRecording, MovieInv
<1>1. at' \in [Hands -> Places]
  BY <1>0, <1>h DEF Types, Goes, Places, Moving
<1>3. Types' /\ (~crossed' => ~crossed /\ Quiet)
  BY <1>0, <1>1 DEF Types, Called, Cross, Quiet, Busy
<1>4. /\ at'[h] = IF ctl.rec = None THEN "leaving" ELSE "saving"
      /\ \A x \in Hands : x # h => at'[x] = at[x]
  BY <1>0, <1>h DEF Types, Goes
<1> SUFFICES ASSUME ~crossed'
             PROVE  Alone(h)' /\ InFlight(h)' /\ FastFits(h)'
                    /\ (Faults = FALSE => RestFits(h)')
  BY <1>3, <1>h, Closes
<1>5. /\ Rests /\ (Faults = FALSE => Agrees) /\ (\A x \in Hands : ~InFlight(x))
      /\ events = <<>> /\ mode = "reference"
  BY <1>0, <1>3, Begins DEF Quiet, Called
<1>6. Alone(h)' /\ InFlight(h)'
  BY <1>4, <1>5 DEF Alone, InFlight, Resting, Watching
<1>7. FastFits(h)'
  BY <1>0, <1>4, <1>5 DEF Called, FastFits, Rests
<1>8. Faults = FALSE => RestFits(h)'
  BY <1>0, <1>4, <1>5 DEF Called, RestFits, Rests, Agrees
<1> QED BY <1>6, <1>7, <1>8

\* A request or a watch begins to stop a replay, from the handles k.
LEMMA StopBeginsKeeps ==
    ASSUME MovieInv, NEW h \in Hands, NEW k \in Ctls, StopBegins(h, k),
           k = ctl \/ k = [ctl EXCEPT !.watch = None],
           h[1] = "call" => mode = "replay", Cross,
           UNCHANGED <<emu, staged, anchor, events, mode>>
    PROVE  MovieInv'
<1>0. Types
  BY DEF MovieInv
<1>1. k.movie = ctl.movie /\ k.rec = ctl.rec /\ k.ff = ctl.ff
  BY <1>0 DEF Types, Ctls
<1>2. /\ ctl' \in Ctls /\ ctl'.movie = ctl.movie /\ ctl'.rec = ctl.rec
      /\ ctl'.ff = ctl.ff
  BY <1>1 DEF StopBegins, Ctls, Movies
<1>3. /\ at'[h] = IF ctl.movie = None THEN "returning" ELSE "halting"
      /\ \A x \in Hands : x # h => at'[x] = at[x] \/ at'[x] = "cancelled"
      /\ at' \in [Hands -> Places]
  BY <1>0, <1>1 DEF StopBegins, Types, Places, Resting, Moving
<1>4. job' \in [Hands -> Jobs] /\ job'[h].movie = ctl.movie
  BY <1>0, <1>1 DEF StopBegins, Types, Jobs, Ctls
<1>5. Types' /\ (~crossed' => ~crossed /\ Quiet)
  BY <1>0, <1>2, <1>3, <1>4 DEF Types, Cross, Quiet, Busy
<1> SUFFICES ASSUME ~crossed'
             PROVE  Alone(h)' /\ InFlight(h)' /\ FastFits(h)'
                    /\ (Faults = FALSE => RestFits(h)')
  BY <1>5, Closes
<1>6. /\ Rests /\ (Faults = FALSE => Agrees) /\ (\A x \in Hands : ~InFlight(x))
      /\ events = <<>>
  BY <1>5, Begins DEF Quiet
<1>7. Alone(h)' /\ InFlight(h)'
  BY <1>3, <1>6 DEF Alone, InFlight, Resting, Watching
<1>8. FastFits(h)'
  BY <1>2, <1>3, <1>6 DEF FastFits, Rests
<1>9. Faults = FALSE => RestFits(h)'
  BY <1>2, <1>3, <1>4, <1>6 DEF RestFits, Rests, Agrees
<1> QED BY <1>7, <1>8, <1>9

LEMMA StopKeeps == ASSUME MovieInv, NEW c \in Calls, StopPlayback(c) \/ WatchStops(c)
                   PROVE  MovieInv'
<1>1. ctl \in Ctls /\ [ctl EXCEPT !.watch = None] \in Ctls
  BY DEF MovieInv, Types, Ctls, Movies
<1>2. CASE StopPlayback(c)
  BY <1>1, <1>2, HandsAre, StopBeginsKeeps DEF StopPlayback, Called
<1>3. CASE WatchStops(c)
  BY <1>1, <1>3, HandsAre, StopBeginsKeeps DEF WatchStops, Hands
<1> QED BY <1>2, <1>3

-----------------------------------------------------------------------------
(* A request works. *)

\* What a hand that moves leaves well-typed.
LEMMA Typed == ASSUME Types, NEW h \in Hands, NEW s \in Places, Goes(h, s)
               PROVE  at' \in [Hands -> Places]
BY DEF Types, Goes

LEMMA RecordReplayKeeps == ASSUME MovieInv, NEW c \in Calls, RecordReplay(c)
                           PROVE  MovieInv'
<1> DEFINE h == <<"call", c>>
<1>h. h \in Hands /\ h[2] = c /\ h[1] = "call"
  BY HandsAre
<1>1. /\ Types /\ "done" \in Places \ Moving /\ Goes(h, "done")
      /\ at[h] = "recording" /\ UNCHANGED <<staged, job, anchor, events, crossed>>
      /\ mode' = "reference"
  BY DEF RecordReplay, MovieInv, Places, Resting, Moving
<1>2. \/ /\ emu' \in Emus /\ emu'.recording = TRUE /\ emu'.fast = emu.fast
         /\ emu'.movie = emu.movie
         /\ ctl' \in Ctls /\ ctl'.rec = c /\ ctl'.movie = ctl.movie /\ ctl'.ff = ctl.ff
      \/ Faults = TRUE /\ UNCHANGED <<emu, ctl>>
  BY <1>1 DEF RecordReplay, Types, Emus, Ctls, Movies
<1>3. Types'
  BY <1>1, <1>2, <1>h, Typed DEF Types
<1>4. ASSUME FastFits(h) PROVE Rests'
  BY <1>1, <1>2, <1>4 DEF FastFits, Rests
<1>5. ASSUME FastFits(h), RestFits(h), Faults = FALSE PROVE Agrees'
  BY <1>1, <1>2, <1>5 DEF FastFits, RestFits, Agrees
<1> QED BY <1>1, <1>3, <1>4, <1>5, <1>h, Moves DEF Moving

LEMMA SaveRecordingKeeps == ASSUME MovieInv, NEW c \in Calls, SaveRecording(c)
                            PROVE  MovieInv'
<1> DEFINE h == <<"call", c>>
<1>h. h \in Hands /\ h[2] = c /\ h[1] = "call"
  BY HandsAre
<1>1. /\ Types /\ "leaving" \in Places /\ "leaving" \in Moving /\ Goes(h, "leaving")
      /\ at[h] = "saving" /\ UNCHANGED <<staged, job, anchor, events, mode, crossed>>
  BY DEF SaveRecording, MovieInv, Places, Moving
<1>2. /\ emu' \in Emus /\ emu'.recording = FALSE /\ emu'.fast = emu.fast
      /\ emu'.movie = None
      /\ ctl' \in Ctls /\ ctl'.rec = None /\ ctl'.movie = ctl.movie /\ ctl'.ff = ctl.ff
  BY <1>1 DEF SaveRecording, Types, Emus, Ctls, Movies
<1>3. Types' /\ at'[h] = "leaving"
  BY <1>1, <1>2, <1>h, Typed DEF Types, Goes
<1>4. ASSUME FastFits(h) PROVE FastFits(h)'
  BY <1>1, <1>2, <1>3, <1>4 DEF FastFits
<1>5. ASSUME FastFits(h), RestFits(h) PROVE RestFits(h)'
  BY <1>1, <1>2, <1>3, <1>5 DEF FastFits, RestFits
<1> QED BY <1>1, <1>3, <1>4, <1>5, <1>h, Moves DEF Moving

LEMMA ReferenceStoppedKeeps == ASSUME MovieInv, NEW c \in Calls, ReferenceStopped(c)
                               PROVE  MovieInv'
<1> DEFINE h == <<"call", c>>
<1>h. h \in Hands /\ h[2] = c /\ h[1] = "call"
  BY HandsAre
<1>1. /\ Types /\ "done" \in Places \ Moving /\ Goes(h, "done") /\ at[h] = "leaving"
      /\ UNCHANGED <<emu, ctl, staged, job, anchor, events, crossed>>
      /\ mode' = "idle"
  BY DEF ReferenceStopped, MovieInv, Places, Resting, Moving
<1>3. Types'
  BY <1>1, <1>h, Typed DEF Types
<1>4. ASSUME FastFits(h) PROVE Rests'
  BY <1>1, <1>4 DEF FastFits, Rests
<1>5. ASSUME FastFits(h), RestFits(h) PROVE Agrees'
  BY <1>1, <1>5 DEF FastFits, RestFits, Agrees
<1> QED BY <1>1, <1>3, <1>4, <1>5, <1>h, Moves DEF Moving

LEMMA WakesKeeps == ASSUME MovieInv, NEW c \in Calls, Wakes(c) PROVE MovieInv'
<1> DEFINE h == <<"call", c>>
<1>h. h \in Hands /\ h[2] = c /\ h[1] = "call"
  BY HandsAre
<1>1. /\ Types /\ "failed" \in Places \ Moving /\ "staging" \in Places
      /\ at[h] = "waking"
      /\ UNCHANGED <<ctl, staged, job, anchor, events, mode, crossed>>
      /\ Goes(h, "staging") \/ (Goes(h, "failed") /\ Faults = TRUE)
      /\ emu' \in Emus /\ emu'.recording = emu.recording /\ emu'.fast = emu.fast
      /\ emu'.movie = emu.movie
  BY DEF Wakes, Steps, MovieInv, Places, Resting, Moving, Types, Emus
<1>3. Types' /\ (Goes(h, "staging") => at'[h] = "staging")
  BY <1>1, <1>h, Typed DEF Types, Goes
<1>4. CASE Goes(h, "failed") /\ Faults = TRUE
  <2>1. ASSUME FastFits(h) PROVE Rests'
    BY <1>1, <2>1 DEF FastFits, Rests
  <2> QED BY <1>1, <1>3, <1>4, <2>1, <1>h, Moves DEF Moving
<1>5. CASE Goes(h, "staging")
  <2>1. ASSUME FastFits(h) PROVE FastFits(h)'
    BY <1>1, <1>3, <1>5, <2>1 DEF FastFits
  <2>2. ASSUME FastFits(h), RestFits(h) PROVE RestFits(h)'
    BY <1>1, <1>3, <1>5, <2>2 DEF FastFits, RestFits
  <2> QED BY <1>1, <1>3, <1>5, <2>1, <2>2, <1>h, Moves DEF Moving
<1> QED BY <1>1, <1>4, <1>5

LEMMA StageKeeps == ASSUME MovieInv, NEW c \in Calls, StageAndPlay(c) PROVE MovieInv'
<1> DEFINE h == <<"call", c>>
<1>h. h \in Hands /\ h[2] = c /\ h[1] = "call"
  BY HandsAre
<1>1. /\ Types /\ "failed" \in Places \ Moving /\ "verifying" \in Places
      /\ at[h] = "staging" /\ staged' = staged \cup {c}
      /\ UNCHANGED <<ctl, job, anchor, events, mode, crossed>>
      /\ \/ Goes(h, "verifying") /\ emu'.movie = c
         \/ Goes(h, "failed") /\ Faults = TRUE
      /\ emu' \in Emus /\ emu'.recording = emu.recording /\ emu'.fast = emu.fast
  BY DEF StageAndPlay, Steps, MovieInv, Places, Resting, Moving, Types, Emus, Movies
<1>3. Types' /\ (Goes(h, "verifying") => at'[h] = "verifying")
  BY <1>1, <1>h, Typed DEF Types, Goes
<1>4. CASE Goes(h, "failed") /\ Faults = TRUE
  <2>1. ASSUME FastFits(h) PROVE Rests'
    BY <1>1, <2>1 DEF FastFits, Rests
  <2> QED BY <1>1, <1>3, <1>4, <2>1, <1>h, Moves DEF Moving
<1>5. CASE Goes(h, "verifying") /\ emu'.movie = c
  <2>1. ASSUME FastFits(h) PROVE FastFits(h)'
    BY <1>1, <1>3, <1>5, <2>1 DEF FastFits
  <2>2. ASSUME FastFits(h), RestFits(h) PROVE RestFits(h)'
    BY <1>1, <1>3, <1>5, <1>h, <2>2 DEF FastFits, RestFits
  <2> QED BY <1>1, <1>3, <1>5, <2>1, <2>2, <1>h, Moves DEF Moving
<1> QED BY <1>1, <1>4, <1>5

\* The announcement of a replay, with the handles k; where nothing has crossed
\* it is the call's own replay, at the speed that the controller remembers.
LEMMA Announces ==
    ASSUME MovieInv, NEW c \in Calls, NEW k \in Ctls, k.rec = ctl.rec,
           at[<<"call", c>>] \in {"verifying", "sped"},
           FastFits(<<"call", c>>) => k.movie = c /\ k.ff = emu.fast,
           Announce(c, k), UNCHANGED <<emu, staged, job, crossed>>
    PROVE  MovieInv'
<1> DEFINE h == <<"call", c>>
<1> DEFINE w == <<"watch", c>>
<1>h. h \in Hands /\ h[2] = c /\ h[1] = "call" /\ w \in Hands
  BY HandsAre
<1>1. Types /\ InFlight(h)
  BY DEF MovieInv, InFlight, Resting, Watching
<1>2. /\ at' \in [Hands -> Places] /\ at'[h] \in {"done", "failed"}
      /\ \A x \in Hands : x # h => at'[x] = at[x] \/ at'[x] = "polling"
  <2>1. /\ at \in [Hands -> Places] /\ {"done", "failed", "polling"} \subseteq Places
        /\ h # w
    BY <1>1 DEF Types, Places, Resting, Watching
  <2>2. \/ at' = [at EXCEPT ![h] = "done", ![w] = "polling"]
        \/ at' = [at EXCEPT ![h] = "done"]
        \/ at' = [at EXCEPT ![h] = "failed"]
    BY DEF Announce, Goes
  <2> QED BY <2>1, <2>2, <1>h
<1>3. ctl' \in Ctls /\ ctl'.movie = k.movie /\ ctl'.rec = k.rec /\ ctl'.ff = k.ff
  BY DEF Announce, Ctls, Movies
<1>4. Types'
  BY <1>1, <1>2, <1>3 DEF Types
<1> SUFFICES ASSUME ~crossed
             PROVE  Alone(h)' /\ ~InFlight(h)' /\ Rests' /\ (Faults = FALSE => Agrees')
  BY <1>4, <1>h, Closes
<1>5. Alone(h) /\ FastFits(h) /\ (Faults = FALSE => RestFits(h))
  BY <1>1, <1>h DEF MovieInv, Table
<1>6. Alone(h)' /\ ~InFlight(h)'
  BY <1>2, <1>5 DEF Alone, InFlight, Resting, Watching
<1>7. k.movie = c /\ c # None /\ k.ff = emu.fast /\ events = <<>>
  BY <1>5 DEF FastFits
<1>8. mode' = "replay" /\ events' = <<"started">>
  BY <1>7 DEF Announce, Emits
<1>9. Rests'
  BY <1>3, <1>7, <1>8 DEF Rests
<1>10. Faults = FALSE => Agrees'
  BY <1>3, <1>5, <1>7, <1>8, <1>h DEF FastFits, RestFits, Agrees
<1> QED BY <1>6, <1>9, <1>10

LEMMA VerifiedKeeps == ASSUME MovieInv, NEW c \in Calls, Verified(c) PROVE MovieInv'
<1> DEFINE h == <<"call", c>>
<1> DEFINE k == [ctl EXCEPT !.movie = c]
<1>h. h \in Hands /\ h[2] = c /\ h[1] = "call" /\ c # None
  BY HandsAre
<1>1. /\ Types /\ at[h] = "verifying" /\ UNCHANGED <<emu, staged, job, crossed>>
      /\ k \in Ctls /\ k.movie = c /\ k.rec = ctl.rec /\ k.ff = ctl.ff
      /\ \/ ctl' = k /\ Goes(h, "speeding") /\ UNCHANGED <<anchor, events, mode>>
         \/ Announce(c, k)
  BY DEF Verified, Steps, MovieInv, Types, Ctls, Movies
<1> HIDE DEF k
<1>2. FastFits(h) => k.movie = c /\ k.ff = emu.fast
  BY <1>1 DEF FastFits, Types, Ctls, Emus
<1>3. CASE Announce(c, k)
  BY <1>1, <1>2, <1>3, <1>h, Announces
<1>4. CASE ctl' = k /\ Goes(h, "speeding") /\ UNCHANGED <<anchor, events, mode>>
  <2>1. Types' /\ at'[h] = "speeding" /\ "speeding" \in Places \cap Moving
    BY <1>1, <1>4, <1>h, Typed DEF Types, Goes, Places, Moving
  <2>2. ASSUME FastFits(h) PROVE FastFits(h)'
    BY <1>1, <1>4, <1>h, <2>1, <2>2 DEF FastFits
  <2>3. ASSUME FastFits(h), RestFits(h) PROVE RestFits(h)'
    BY <1>1, <1>4, <1>h, <2>1, <2>3 DEF FastFits, RestFits
  <2> QED BY <1>1, <1>4, <2>1, <2>2, <2>3, <1>h, Moves DEF Moving
<1> QED BY <1>1, <1>3, <1>4

LEMMA VerifyFailsKeeps == ASSUME MovieInv, NEW c \in Calls, VerifyFails(c)
                          PROVE  MovieInv'
<1> DEFINE h == <<"call", c>>
<1>h. h \in Hands /\ h[2] = c /\ h[1] = "call"
  BY HandsAre
<1>1. /\ Types /\ "done" \in Places \ Moving /\ Goes(h, "done")
      /\ at[h] = "verifying" /\ UNCHANGED <<ctl, job, anchor, crossed>>
      /\ staged' = staged \ {c} /\ Emits("error") /\ mode' = "replay"
      /\ emu' \in Emus /\ emu'.recording = FALSE /\ emu'.fast = emu.fast
      /\ emu'.movie = None
  BY DEF VerifyFails, Steps, MovieInv, Places, Resting, Moving, Types, Emus, Movies
<1>3. Types'
  BY <1>1, <1>h, Typed DEF Types
<1>4. ASSUME FastFits(h) PROVE Rests' /\ events' = <<"error">>
  BY <1>1, <1>4 DEF FastFits, Rests, Emits
<1>5. ASSUME FastFits(h), RestFits(h) PROVE Agrees'
  BY <1>1, <1>4, <1>5, <1>h DEF FastFits, RestFits, Agrees
<1> QED BY <1>1, <1>3, <1>4, <1>5, <1>h, Moves DEF Moving

LEMMA SpeedUpKeeps == ASSUME MovieInv, NEW c \in Calls, SpeedUp(c) PROVE MovieInv'
<1> DEFINE h == <<"call", c>>
<1>h. h \in Hands /\ h[2] = c /\ h[1] = "call"
  BY HandsAre
<1>1. /\ Types /\ "sped" \in Places \cap Moving /\ Goes(h, "sped")
      /\ at[h] = "speeding"
      /\ UNCHANGED <<ctl, staged, job, anchor, events, mode, crossed>>
      /\ emu' \in Emus /\ emu'.recording = emu.recording /\ emu'.fast = ~emu.fast
      /\ emu'.movie = emu.movie
  BY DEF SpeedUp, Steps, MovieInv, Places, Moving, Types, Emus
<1>3. Types' /\ at'[h] = "sped"
  BY <1>1, <1>h, Typed DEF Types, Goes
<1>4. ASSUME FastFits(h) PROVE FastFits(h)'
  BY <1>1, <1>3, <1>4 DEF FastFits, Types, Emus, Ctls
<1>5. ASSUME FastFits(h), RestFits(h) PROVE RestFits(h)'
  BY <1>1, <1>3, <1>5 DEF FastFits, RestFits
<1> QED BY <1>1, <1>3, <1>4, <1>5, <1>h, Moves DEF Moving

LEMMA SpedUpKeeps == ASSUME MovieInv, NEW c \in Calls, SpedUp(c) PROVE MovieInv'
<1> DEFINE h == <<"call", c>>
<1> DEFINE k == [ctl EXCEPT !.ff = TRUE]
<1>h. h \in Hands /\ h[2] = c /\ h[1] = "call" /\ c # None
  BY HandsAre
<1>1. /\ Types /\ at[h] = "sped" /\ UNCHANGED <<emu, staged, job, crossed>>
      /\ k \in Ctls /\ k.movie = ctl.movie /\ k.rec = ctl.rec /\ k.ff = TRUE
      /\ Announce(c, k)
  BY DEF SpedUp, Steps, MovieInv, Types, Ctls, Movies
<1> HIDE DEF k
<1>2. FastFits(h) => k.movie = c /\ k.ff = emu.fast
  BY <1>1, <1>h DEF FastFits, Types, Emus
<1> QED BY <1>1, <1>2, Announces

\* The watch of a replay's end sees it; no hand in flight has moved.
LEMMA SeesEndKeeps == ASSUME MovieInv, NEW c \in Calls, WatchSeesEnd(c)
                      PROVE  MovieInv'
<1> DEFINE w == <<"watch", c>>
<1>h. w \in Hands
  BY HandsAre
<1>1. /\ Types /\ "settling" \in Places /\ Goes(w, "settling")
      /\ UNCHANGED <<emu, ctl, staged, job, anchor, events, mode, crossed>>
  BY DEF WatchSeesEnd, MovieInv, Places, Watching
<1>2. Types'
  BY <1>1, <1>h, Typed DEF Types
<1>3. ~InFlight(w) /\ ~InFlight(w)' /\ \A x \in Hands : x # w => at'[x] = at[x]
  BY <1>1, <1>h DEF WatchSeesEnd, InFlight, Watching, Types, Goes
<1>4. \A x \in Hands : InFlight(x)' <=> InFlight(x)
  BY <1>3 DEF InFlight
<1>5. \A h \in Hands : Alone(h)' <=> Alone(h)
  BY <1>4 DEF Alone
<1>6. Busy' <=> Busy
  BY <1>4 DEF Busy
<1>7. \A h \in Hands : InFlight(h) => /\ FastFits(h)' <=> FastFits(h)
                                      /\ RestFits(h)' <=> RestFits(h)
  BY <1>1, <1>3 DEF FastFits, RestFits
<1>8. (Rests' <=> Rests) /\ (Agrees' <=> Agrees)
  BY <1>1 DEF Rests, Agrees
<1>9. Table'
  BY <1>1, <1>4, <1>5, <1>6, <1>7, <1>8 DEF Table, MovieInv
<1> QED BY <1>2, <1>9 DEF MovieInv

LEMMA WorksKeeps == ASSUME MovieInv, NEW c \in Calls, Works(c) PROVE MovieInv'
BY RecordReplayKeeps, SaveRecordingKeeps, ReferenceStoppedKeeps, WakesKeeps,
   StageKeeps, VerifiedKeeps, VerifyFailsKeeps, SpeedUpKeeps, SpedUpKeeps,
   SeesEndKeeps, StopKeeps DEF Works

LEMMA AsksKeeps == ASSUME MovieInv, NEW c \in Calls, Asks(c) PROVE MovieInv'
BY StartKeeps, StopRecordingKeeps, StopKeeps DEF Asks

-----------------------------------------------------------------------------
(* A replay is stopped. *)

LEMMA HaltsKeeps == ASSUME MovieInv, NEW h \in Hands, Halts(h) PROVE MovieInv'
<1>1. /\ Types /\ "halted" \in Places \cap Moving /\ Goes(h, "halted")
      /\ at[h] = "halting" /\ UNCHANGED <<ctl, job, anchor, events, mode, crossed>>
      /\ staged' = staged \ {job[h].movie}
      /\ emu' \in Emus /\ emu'.recording = FALSE /\ emu'.fast = emu.fast
      /\ emu'.movie = None
  BY DEF Halts, MovieInv, Places, Moving, Types, Emus, Movies
<1>3. Types' /\ at'[h] = "halted"
  BY <1>1, Typed DEF Types, Goes
<1>4. ASSUME FastFits(h) PROVE FastFits(h)'
  BY <1>1, <1>3, <1>4 DEF FastFits
<1>5. ASSUME FastFits(h), RestFits(h) PROVE RestFits(h)'
  BY <1>1, <1>3, <1>5 DEF FastFits, RestFits
<1> QED BY <1>1, <1>3, <1>4, <1>5, Moves DEF Moving

LEMMA ClearsKeeps == ASSUME MovieInv, NEW h \in Hands, Clears(h) PROVE MovieInv'
<1> DEFINE s == IF ctl.ff THEN "slowing" ELSE "resuming"
<1>1. /\ Types /\ s \in Places \cap Moving /\ Goes(h, s) /\ at[h] = "halted"
      /\ UNCHANGED <<emu, staged, job, anchor, events, mode, crossed>>
      /\ ctl' \in Ctls /\ ctl'.movie = None /\ ctl'.ff = ctl.ff /\ ctl'.rec = ctl.rec
  BY DEF Clears, MovieInv, Places, Moving, Types, Ctls, Movies
<1>3. Types' /\ at'[h] = s
  BY <1>1, Typed DEF Types, Goes
<1>4. ASSUME FastFits(h) PROVE FastFits(h)'
  BY <1>1, <1>3, <1>4 DEF FastFits
<1>5. ASSUME FastFits(h), RestFits(h) PROVE RestFits(h)'
  BY <1>1, <1>3, <1>5 DEF FastFits, RestFits
<1> QED BY <1>1, <1>3, <1>4, <1>5, Moves DEF Moving

LEMMA SlowDownKeeps == ASSUME MovieInv, NEW h \in Hands, SlowDown(h) PROVE MovieInv'
<1>1. /\ Types /\ "slowed" \in Places \cap Moving /\ Goes(h, "slowed")
      /\ at[h] = "slowing"
      /\ UNCHANGED <<ctl, staged, job, anchor, events, mode, crossed>>
      /\ emu' \in Emus /\ emu'.recording = emu.recording /\ emu'.fast = ~emu.fast
      /\ emu'.movie = emu.movie
  BY DEF SlowDown, MovieInv, Places, Moving, Types, Emus
<1>3. Types' /\ at'[h] = "slowed"
  BY <1>1, Typed DEF Types, Goes
<1>4. ASSUME FastFits(h) PROVE FastFits(h)'
  BY <1>1, <1>3, <1>4 DEF FastFits, Types, Emus, Ctls
<1>5. ASSUME FastFits(h), RestFits(h) PROVE RestFits(h)'
  BY <1>1, <1>3, <1>5 DEF FastFits, RestFits
<1> QED BY <1>1, <1>3, <1>4, <1>5, Moves DEF Moving

LEMMA SlowedDownKeeps == ASSUME MovieInv, NEW h \in Hands, SlowedDown(h)
                         PROVE  MovieInv'
<1>1. /\ Types /\ "resuming" \in Places \cap Moving /\ Goes(h, "resuming")
      /\ at[h] = "slowed"
      /\ UNCHANGED <<emu, staged, job, anchor, events, mode, crossed>>
      /\ ctl' \in Ctls /\ ctl'.movie = ctl.movie /\ ctl'.ff = FALSE
      /\ ctl'.rec = ctl.rec
  BY DEF SlowedDown, MovieInv, Places, Moving, Types, Ctls
<1>3. Types' /\ at'[h] = "resuming"
  BY <1>1, Typed DEF Types, Goes
<1>4. ASSUME FastFits(h) PROVE FastFits(h)'
  BY <1>1, <1>3, <1>4 DEF FastFits, Types, Emus, Ctls
<1>5. ASSUME FastFits(h), RestFits(h) PROVE RestFits(h)'
  BY <1>1, <1>3, <1>5 DEF FastFits, RestFits
<1> QED BY <1>1, <1>3, <1>4, <1>5, Moves DEF Moving

LEMMA ResumesKeeps == ASSUME MovieInv, NEW h \in Hands, Resumes(h) PROVE MovieInv'
<1>1. /\ Types /\ "failed" \in Places \ Moving /\ "returning" \in Places
      /\ at[h] = "resuming"
      /\ UNCHANGED <<ctl, staged, job, anchor, mode, crossed>>
      /\ \/ Goes(h, "returning") /\ Emits("finished")
         \/ Goes(h, "failed") /\ Faults = TRUE /\ events' = events
      /\ emu' \in Emus /\ emu'.recording = emu.recording /\ emu'.fast = emu.fast
      /\ emu'.movie = emu.movie
  BY DEF Resumes, MovieInv, Places, Resting, Moving, Types, Emus
<1>3. Types' /\ (Goes(h, "returning") => at'[h] = "returning")
  BY <1>1, Typed DEF Types, Goes
<1>4. CASE Goes(h, "failed") /\ Faults = TRUE /\ events' = events
  <2>1. ASSUME FastFits(h) PROVE Rests'
    BY <1>1, <1>4, <2>1 DEF FastFits, Rests
  <2> QED BY <1>1, <1>3, <1>4, <2>1, Moves DEF Moving
<1>5. CASE Goes(h, "returning") /\ Emits("finished")
  <2>1. ASSUME FastFits(h) PROVE FastFits(h)' /\ events' = <<"finished">>
    BY <1>1, <1>3, <1>5, <2>1 DEF FastFits, Emits
  <2>2. ASSUME FastFits(h), RestFits(h) PROVE RestFits(h)'
    BY <1>1, <1>3, <1>5, <2>1, <2>2 DEF FastFits, RestFits
  <2> QED BY <1>1, <1>3, <1>5, <2>1, <2>2, Moves DEF Moving
<1> QED BY <1>1, <1>4, <1>5

LEMMA ReturnsKeeps == ASSUME MovieInv, NEW h \in Hands, Returns(h) PROVE MovieInv'
<1>1. /\ Types /\ "done" \in Places \ Moving /\ Goes(h, "done")
      /\ at[h] = "returning"
      /\ UNCHANGED <<emu, ctl, staged, job, anchor, events, crossed>>
      /\ mode' = IF h[1] = "call" THEN "idle" ELSE mode
  BY DEF Returns, MovieInv, Places, Resting, Moving
<1>3. Types'
  BY <1>1, Typed DEF Types
<1>4. ASSUME FastFits(h) PROVE Rests'
  BY <1>1, <1>4 DEF FastFits, Rests
<1>5. ASSUME FastFits(h), RestFits(h) PROVE Agrees'
  BY <1>1, <1>5 DEF FastFits, RestFits, Agrees
<1> QED BY <1>1, <1>3, <1>4, <1>5, Moves DEF Moving

LEMMA StopsKeeps == ASSUME MovieInv, NEW h \in Hands, Stops(h) PROVE MovieInv'
BY HaltsKeeps, ClearsKeeps, SlowDownKeeps, SlowedDownKeeps, ResumesKeeps,
   ReturnsKeeps DEF Stops

-----------------------------------------------------------------------------
(* RetroArch, the queue and the theorems. *)

LEMMA RunsOutKeeps == ASSUME MovieInv, MovieRunsOut PROVE MovieInv'
<1>1. /\ Types /\ UNCHANGED <<ctl, staged, at, job, anchor, events, mode, crossed>>
      /\ emu' \in Emus /\ emu'.recording = emu.recording /\ emu'.fast = emu.fast
      /\ emu'.movie = None
  <2>1. emu \in Emus /\ emu.ends + 1 \in Nat
    BY DEF MovieInv, Types, Emus
  <2>2. emu' = [emu EXCEPT !.movie = None, !.paused = TRUE, !.ends = emu.ends + 1]
    BY DEF MovieRunsOut
  <2>3. emu' \in Emus /\ emu'.recording = emu.recording /\ emu'.fast = emu.fast
        /\ emu'.movie = None
    BY <2>1, <2>2 DEF Emus, Movies
  <2> QED BY <2>3 DEF MovieRunsOut, MovieInv
<1>2. Types'
  BY <1>1 DEF Types
<1>3. ASSUME NEW h \in Hands
      PROVE  (FastFits(h) => FastFits(h)') /\ (RestFits(h) => RestFits(h)')
  BY <1>1 DEF FastFits, RestFits
<1>4. (Rests => Rests') /\ (Agrees => Agrees')
  BY <1>1 DEF Rests, Agrees
<1> QED BY <1>1, <1>2, <1>3, <1>4, Stays

LEMMA EventKeeps == ASSUME MovieInv, HandleEvent PROVE MovieInv'
<1>1. /\ Types /\ UNCHANGED <<emu, ctl, staged, at, job, anchor, crossed>>
      /\ events # <<>> /\ events' = Tail(events)
      /\ mode' = IF Head(events) \in {"finished", "error"} THEN "idle" ELSE mode
  BY DEF HandleEvent, MovieInv
<1>2. Types'
  BY <1>1 DEF Types
<1>3. \A e : Head(<<e>>) = e /\ Tail(<<e>>) = <<>>
  OBVIOUS
<1>4. ASSUME NEW h \in Hands, FastFits(h)
      PROVE  FastFits(h)' /\ (RestFits(h) => RestFits(h)')
  <2>1. /\ at[h] = "returning" /\ events = <<"finished">>
        /\ events' = <<>> /\ mode' = "idle"
    BY <1>1, <1>3, <1>4 DEF FastFits
  <2>2. FastFits(h)'
    BY <1>1, <1>4, <2>1 DEF FastFits
  <2>3. RestFits(h) => RestFits(h)'
    BY <1>1, <1>4, <2>1 DEF FastFits, RestFits
  <2> QED BY <2>2, <2>3
<1>5. ASSUME Rests PROVE Rests' /\ (Agrees => Agrees')
  <2>1. CASE events = <<"started">>
    <3>1. events' = <<>> /\ mode' = mode
      BY <1>1, <1>3, <2>1
    <3> QED BY <1>1, <1>5, <2>1, <3>1 DEF Rests, Agrees
  <2>2. CASE events \in {<<"error">>, <<"finished">>}
    <3>1. events' = <<>> /\ mode' = "idle"
      BY <1>1, <1>3, <2>2
    <3> QED BY <1>1, <1>5, <2>2, <3>1 DEF Rests, Agrees
  <2> QED BY <1>1, <1>5, <2>1, <2>2 DEF Rests
<1> QED BY <1>1, <1>2, <1>4, <1>5, Stays

LEMMA Inits == MovieInit => MovieInv
<1> SUFFICES ASSUME MovieInit PROVE MovieInv
  OBVIOUS
<1>1. Types
  BY DEF MovieInit, Types, Emus, Ctls, Jobs, Movies, Places, Resting
<1>2. \A h \in Hands : ~InFlight(h)
  BY DEF MovieInit, InFlight, Resting
<1>3. Rests /\ Agrees
  BY DEF MovieInit, Rests, Agrees
<1> QED BY <1>1, <1>2, <1>3 DEF MovieInv, Table, Busy

LEMMA NextKeeps == MovieInv /\ [MovieNext]_vars => MovieInv'
<1> SUFFICES ASSUME MovieInv, [MovieNext]_vars PROVE MovieInv'
  OBVIOUS
<1>1. CASE UNCHANGED vars
  BY <1>1 DEF vars, MovieInv, Types, Table, InFlight, Alone, FastFits, RestFits,
     Busy, Rests, Agrees
<1>2. CASE MovieNext
  BY <1>2, AsksKeeps, WorksKeeps, StopsKeeps, RunsOutKeeps, EventKeeps DEF MovieNext
<1> QED BY <1>1, <1>2

LEMMA Invariant == MovieSpec => []MovieInv
BY Inits, NextKeeps, PTL DEF MovieSpec

\* movies.py turns fast-forward off in stop_playback iff start_playback turned
\* it on: between operations that did not cross, RetroArch's speed is the one the
\* controller remembers, and fast only with a replay, even where commands fail.
THEOREM FastForwardIsPaired == MovieSpec => []FastForwardPaired
<1>1. MovieInv => FastForwardPaired
  BY DEF MovieInv, Table, Rests, FastForwardPaired, Quiet
<1> QED BY <1>1, Invariant, PTL

\* Where no command to RetroArch fails, the controller's handles, the staged
\* copies and the session's mode describe what RetroArch does, between operations
\* that did not cross.  (A command that fails leaves behind the copies that are
\* written or the mode, or a reference without its recording.)
THEOREM ControllerIsRight == ASSUME Faults = FALSE PROVE MovieSpec => []ControllerAgrees
<1>1. MovieInv => ControllerAgrees
  BY DEF MovieInv, Table, Rests, Agrees, ControllerAgrees, Quiet
<1> QED BY <1>1, Invariant, PTL

==============================================================================
