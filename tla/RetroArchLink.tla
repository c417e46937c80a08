----------------------------- MODULE RetroArchLink -----------------------------
(***************************************************************************)
(* The link to RetroArch: NCIClient's one UDP socket and its lock, and the *)
(* four things that talk through it: the connect attempts of the dashboard *)
(* (RAClient.connect), the poller's snapshots (Poller.run, read_snapshot), *)
(* the ROM check (_check_rom_change) and a load (RAClient._load_state_sync).*)
(*                                                                         *)
(* Replies carry nothing that says which command they answer, so all that  *)
(* pairs them up is the order on the socket and the draining of what comes *)
(* too late.  A reply keeps what its reader can tell (its kind) and, for   *)
(* the properties, whether its command is still waited for and how many    *)
(* loads RetroArch had executed.  RetroArch echoes the command of a load   *)
(* at once and reads the state on a later frame.                           *)
(*                                                                         *)
(* A thread runs from one wait to the next without RetroArch answering     *)
(* another command in between: what follows the last reply of an exchange  *)
(* is one step with it.                                                    *)
(***************************************************************************)
EXTENDS Naturals, Sequences

CONSTANTS None,
          Cluster,       \* the reads of a snapshot: how much each asks for
          FailLimit,     \* _READ_RECONNECT_FAILURE_THRESHOLD
          GiveUpAfter,   \* _MAX_RECONNECT_ATTEMPTS
          Starts,        \* RetroArch at first: "runs" or "stalled"
          Dies,          \* may RetroArch exit?
          MaxEvents,     \* bound: loads and stalls together
          MaxLate        \* bound: commands RetroArch leaves waiting in a stall

ASSUME LinkAssumption ==
    /\ Cluster \in Seq({"wide", "narrow"}) /\ Len(Cluster) > 0
    /\ {FailLimit, GiveUpAfter} \subseteq Nat \ {0}
    /\ {MaxEvents, MaxLate} \subseteq Nat /\ Dies \in BOOLEAN
    /\ Starts \subseteq {"stalled", "runs"}

Threads == {"connect", "poll", "status", "load"}

ASSUME NoThread == None \notin Threads

VARIABLES
    ra,        \* RetroArch: it "runs", is "stalled" or "gone"
    stalls,    \* how often it has stalled
    epoch,     \* 0 without a game, then 1 and one more for each load executed
    pending,   \* it has a load to execute, whose command it has echoed
    slot,      \* the file of the reserved slot is there
    cmds,      \* the commands it has yet to read from its socket
    buffer,    \* the replies in NCIClient's socket
    lock,      \* NCIClient._lock: the thread inside an exchange, or None
    at,        \* what each thread is about to ask or is waiting for
    phase,     \* its exchange: "ready", "waits", "drains"
    linked,    \* RetroArchOrchestrator._connected
    shot,      \* the reads of the poller's snapshot so far
    prev,      \* TransitionDetector's previous snapshot, None at first
    bumped,    \* state_version differs from the poller's last
    fails,     \* Poller._read_fail_count
    retries,   \* Poller._reconnect_attempts
    loads,     \* loads begun
    late,      \* history: a drain has left an "answer" on its way, or a "load"
    early,     \* history: the last snapshot was taken before a load in progress
    wrong      \* history: a thread has taken the answer to another's command

net    == <<ra, stalls, epoch, pending>>
sock   == <<cmds, buffer, lock>>
poller == <<shot, prev, fails, retries>>
vars   == <<net, slot, sock, at, phase, linked, poller, bumped, loads, late, early,
            wrong>>

\* What a thread asks at each of its steps.
Asks(t) == CASE at[t] = "version" -> "version"
             [] at[t] = "status"  -> "status"
             [] at[t] = "read"    -> Cluster[Len(shot) + 1]
             [] at[t] = "pre"     -> "wide"
             [] at[t] = "check"   -> "wide"
             [] at[t] = "fire"    -> "load"
             [] OTHER             -> None

(* RetroArch, external: it reads its commands once a frame and answers.     *)

Client == <<slot, lock, at, phase, linked, poller, bumped, loads, late, early, wrong>>

Serves ==
    /\ ra = "runs" /\ cmds # <<>>
    /\ LET c == Head(cmds) IN
         /\ pending' = (pending \/ c.what = "load")
         /\ buffer' = IF c.heard
                      THEN Append(buffer, [what |-> c.what, live |-> c.live,
                                           shows |-> epoch])
                      ELSE buffer
    /\ cmds' = Tail(cmds)
    /\ UNCHANGED <<ra, stalls, epoch, Client>>

\* A frame later it reads the slot, if the file is still there and well-formed.
Executes ==
    /\ ra = "runs" /\ pending
    /\ pending' = FALSE
    /\ epoch' \in IF slot THEN {epoch, epoch + 1} ELSE {epoch}
    /\ UNCHANGED <<ra, stalls, cmds, buffer, Client>>

GameLoads == /\ ra = "runs" /\ epoch = 0
             /\ epoch' = 1
             /\ UNCHANGED <<ra, stalls, pending, cmds, buffer, Client>>
Stalls ==
    /\ ra = "runs" /\ stalls + loads < MaxEvents
    /\ ra' = "stalled" /\ stalls' = stalls + 1
    /\ UNCHANGED <<epoch, pending, cmds, buffer, Client>>
Resumes == /\ ra = "stalled"
           /\ ra' = "runs"
           /\ UNCHANGED <<stalls, epoch, pending, cmds, buffer, Client>>
Exits == /\ Dies /\ ra # "gone"
         /\ ra' = "gone" /\ cmds' = <<>> /\ pending' = FALSE
         /\ UNCHANGED <<stalls, epoch, buffer, Client>>

-----------------------------------------------------------------------------
(* NCIClient: an exchange, under the lock.                                  *)

\* What no exchange changes by itself: RetroArch, and what only a load or a
\* snapshot touches.
Others == <<net, slot, early>>

Sends(t) ==
    /\ lock = None /\ phase[t] = "ready" /\ Asks(t) # None
    /\ lock' = t /\ phase' = [phase EXCEPT ![t] = "waits"]
    /\ cmds' = IF ra = "gone" THEN cmds
               ELSE Append(cmds, [what |-> Asks(t), live |-> TRUE, heard |-> TRUE])
    /\ UNCHANGED <<Others, buffer, at, linked, poller, bumped, loads, late, wrong>>

\* No reply within the timeout.
Expires(t) ==
    /\ lock = t /\ phase[t] = "waits" /\ buffer = <<>>
    /\ ra # "runs" /\ Len(cmds) <= MaxLate
    /\ phase' = [phase EXCEPT ![t] = "drains"]
    /\ UNCHANGED <<Others, sock, at, linked, poller, bumped, loads, late, wrong>>

\* Nobody waits for these any longer.
Orphans(q) == [i \in DOMAIN q |-> [q[i] EXCEPT !.live = FALSE]]
OnItsWay   == {cmds[i] : i \in DOMAIN cmds}

\* A mistake: what has arrived since the timeout stays.
Drained_Not == buffer

\* _drain_socket discards what has arrived; what is on its way it cannot.
Drained == <<>>

Drains(t) ==
    /\ lock = t /\ phase[t] = "drains"
    /\ buffer' = Drained /\ cmds' = Orphans(cmds)
    /\ late' = late \cup {"answer" : c \in {d \in OnItsWay : d.heard}}
                    \cup {"load" : c \in {d \in OnItsWay : d.what = "load"}}
    /\ lock' = None /\ phase' = [phase EXCEPT ![t] = "ready"]
    /\ UNCHANGED wrong

\* The reply is the first in the buffer, whatever command it answers.
Takes(t) ==
    /\ lock = t /\ phase[t] = "waits" /\ buffer # <<>>
    /\ buffer' = Orphans(Tail(buffer)) /\ cmds' = Orphans(cmds)
    /\ wrong' = (wrong \/ ~Head(buffer).live)
    /\ lock' = None /\ phase' = [phase EXCEPT ![t] = "ready"]
    /\ UNCHANGED late

\* Does the reply parse as what the thread asked for?  Anything does as a version.
Parses(t) ==
    LET got == Head(buffer).what IN
    CASE Asks(t) = "version" -> TRUE
      [] Asks(t) = "status"  -> got = "status"
      [] OTHER               -> got \in {"wide", "narrow"}

Answered(t) == Takes(t) /\ Parses(t)
\* NCITimeout, or NCIProtocolError.
Raised(t) == Drains(t) \/ (Takes(t) /\ ~Parses(t))

Goes(t, s) == at' = [at EXCEPT ![t] = s]

-----------------------------------------------------------------------------
(* dashboard.event_loop retries every two seconds; RetroArchOrchestrator.   *)
(* connect, RAClient.connect.                                               *)

ConnectTries == /\ at["connect"] = "away" /\ Goes("connect", "version")
                /\ UNCHANGED <<Others, sock, phase, linked, poller, bumped, loads,
                               late, wrong>>

ConnectFails == /\ at["connect"] \in {"version", "status"} /\ Raised("connect")
                /\ Goes("connect", "away")
                /\ UNCHANGED <<Others, linked, poller, bumped, loads>>

ConnectHears == /\ at["connect"] = "version" /\ Answered("connect")
                /\ Goes("connect", "status")
                /\ UNCHANGED <<Others, linked, poller, bumped, loads>>

\* Without a game the attempt counts for nothing.
ConnectEnds ==
    /\ at["connect"] = "status" /\ Answered("connect")
    /\ IF Head(buffer).shows = 0
       THEN Goes("connect", "away") /\ UNCHANGED linked
       ELSE /\ linked' = TRUE
            /\ at' = [at EXCEPT !["connect"] = "done", !["poll"] = "read"]
    /\ UNCHANGED <<Others, poller, bumped, loads>>

-----------------------------------------------------------------------------
(* The ROM check of _tick_loop: whatever goes wrong is swallowed.           *)

CheckRom == /\ linked /\ at["status"] = "away" /\ Goes("status", "status")
            /\ UNCHANGED <<Others, sock, phase, linked, poller, bumped, loads,
                           late, wrong>>
RomChecked == /\ at["status"] = "status" /\ (Answered("status") \/ Raised("status"))
              /\ Goes("status", "away")
              /\ UNCHANGED <<Others, linked, poller, bumped, loads>>

-----------------------------------------------------------------------------
(* RAClient._load_state_sync.                                               *)

\* The source is copied to the reserved slot.
LoadBegins == /\ linked /\ at["load"] = "away" /\ stalls + loads < MaxEvents
              /\ loads' = loads + 1 /\ Goes("load", "pre")
              /\ slot' = TRUE
              /\ UNCHANGED <<net, early, sock, phase, linked, poller, bumped, late,
                             wrong>>

\* A mistake: state_version is bumped before the command is sent.
BumpsAt_Pre == "pre"

\* The exchange after which state_version is bumped.
BumpsAt == "fire"

LoadReads == /\ at["load"] = "pre" /\ Answered("load")
             /\ Goes("load", "fire") /\ bumped' = (bumped \/ BumpsAt = "pre")
             /\ UNCHANGED <<Others, linked, poller, loads>>

\* StateLoadError, or an NCIError passed on.
LoadRaises == /\ at["load"] \in {"pre", "check"} /\ Raised("load")
              /\ Goes("load", "away")
              /\ UNCHANGED <<Others, linked, poller, bumped, loads>>

\* load_state_slot takes one reply, if one comes, for the echo and then drains.
LoadEchoes ==
    /\ at["load"] = "fire" /\ lock = "load" /\ phase["load"] = "waits"
    /\ buffer # <<>> /\ buffer' = Tail(buffer)
    /\ phase' = [phase EXCEPT !["load"] = "drains"]
    /\ UNCHANGED <<Others, cmds, lock, at, late, wrong, linked, poller, bumped, loads>>

LoadFired == /\ at["load"] = "fire" /\ Drains("load")
             /\ Goes("load", "settle") /\ bumped' = (bumped \/ BumpsAt = "fire")
             /\ UNCHANGED <<Others, linked, poller, loads>>

\* Once load_settle_sec is over the staged file is deleted, if it can be.
LoadSettles ==
    /\ at["load"] = "settle" /\ Goes("load", "check")
    /\ slot' \in {FALSE, slot}
    /\ UNCHANGED <<net, early, sock, phase, linked, poller, bumped, loads, late, wrong>>

\* The bytes have changed, or they have not and the deadline is over, or they
\* are read again.
LoadChecks == /\ at["load"] = "check" /\ Answered("load")
              /\ at' \in {at, [at EXCEPT !["load"] = "away"]}
              /\ UNCHANGED <<Others, linked, poller, bumped, loads>>

-----------------------------------------------------------------------------
(* Poller.run: read_snapshot, and what its result leads to.                 *)

Read   == Append(shot, Head(buffer))
Whole  == Len(Read) = Len(Cluster)
\* A field of a wide read cannot be taken out of the reply to a narrow one.
Usable == \A i \in DOMAIN Read : Cluster[i] = "wide" => Read[i].what = "wide"
Epochs(s) == {s[i].shows : i \in DOMAIN s}

PollReads == /\ at["poll"] = "read" /\ Answered("poll") /\ ~Whole
             /\ shot' = Read
             /\ UNCHANGED <<Others, at, linked, prev, fails, retries, bumped, loads>>

PollSucceeds ==
    /\ at["poll"] = "read" /\ Answered("poll") /\ Whole /\ Usable
    /\ prev' = Epochs(Read) /\ bumped' = FALSE
    /\ early' = (pending \/ Epochs(Read) # {epoch})
    /\ shot' = <<>> /\ fails' = 0 /\ retries' = 0
    /\ UNCHANGED <<net, slot, at, linked, loads>>

Miss == \/ Raised("poll")
        \/ Answered("poll") /\ Whole /\ ~Usable

GivesUp == retries + 1 >= GiveUpAfter

PollFails ==
    /\ at["poll"] = "read" /\ Miss /\ shot' = <<>>
    /\ IF fails + 1 < FailLimit
       THEN fails' = fails + 1 /\ UNCHANGED <<at, retries>>
       ELSE /\ retries' = retries + 1 /\ fails' = 0
            /\ Goes("poll", IF GivesUp THEN "stopped" ELSE "closes")
    /\ UNCHANGED <<Others, linked, prev, bumped, loads>>

\* Replies to a closed socket are lost; the commands are not.
Unheard(q) == [i \in DOMAIN q |-> [q[i] EXCEPT !.heard = FALSE]]

\* A mistake: the reconnect clears the count of reconnects too.
PollReconnects_Forgets ==
    /\ at["poll"] = "closes" /\ lock = None
    /\ Goes("poll", "read")
    /\ buffer' = <<>> /\ cmds' = Unheard(cmds) /\ retries' = 0
    /\ UNCHANGED <<Others, lock, phase, linked, shot, prev, fails, bumped, loads, late,
                   wrong>>

\* NCIClient.close; the next exchange opens a new socket.
PollReconnects ==
    /\ at["poll"] = "closes" /\ lock = None
    /\ Goes("poll", "read")
    /\ buffer' = <<>> /\ cmds' = Unheard(cmds)
    /\ UNCHANGED <<Others, lock, phase, linked, poller, bumped, loads, late, wrong>>

-----------------------------------------------------------------------------
NewNCI          == cmds = <<>> /\ buffer = <<>> /\ lock = None
NewClient       == bumped = FALSE /\ loads = 0
NewPoller       == shot = <<>> /\ prev = {} /\ fails = 0 /\ retries = 0
NewOrchestrator == /\ linked = FALSE
                   /\ at = [t \in Threads |-> "away"]
                   /\ phase = [t \in Threads |-> "ready"]

\* build_orchestrator puts the parts together; RetroArch may be in any state.
Init ==
    /\ ra \in Starts /\ stalls = 0 /\ epoch \in {0, 1}
    /\ pending = FALSE /\ slot = FALSE
    /\ NewNCI /\ NewClient /\ NewPoller /\ NewOrchestrator
    /\ late = {} /\ early = FALSE /\ wrong = FALSE

RetroArch == Serves \/ Executes \/ GameLoads \/ Resumes
Exchange  == \E t \in Threads : Sends(t) \/ Expires(t)
Connect   == ConnectTries \/ ConnectFails \/ ConnectHears \/ ConnectEnds
LoadState == LoadReads \/ LoadRaises \/ LoadEchoes \/ LoadFired \/ LoadSettles
             \/ LoadChecks
Poll      == PollReads \/ PollSucceeds \/ PollFails \/ PollReconnects

Next == \/ RetroArch \/ Stalls \/ Exits \/ Exchange \/ Connect
        \/ CheckRom \/ RomChecked \/ LoadBegins \/ LoadState \/ Poll

\* A stall ends; threads run and have their turn at the lock; the dashboard
\* retries every two seconds.
Fairness ==
    /\ WF_vars(Serves) /\ WF_vars(Executes) /\ WF_vars(GameLoads) /\ WF_vars(Resumes)
    /\ WF_vars(Connect) /\ WF_vars(RomChecked) /\ WF_vars(LoadState) /\ WF_vars(Poll)
    /\ \A t \in Threads : SF_vars(Sends(t)) /\ WF_vars(Expires(t))
    /\ SF_vars(PollReconnects)

Spec     == Init /\ [][Next]_vars
FairSpec == Spec /\ Fairness

-----------------------------------------------------------------------------
(* Properties *)

\* "Drain any late reply ... otherwise it would be picked up by the next _send
\* call": as long as no reply came later than the drain after its timeout, every
\* thread gets the answers to its own commands.
OwnAnswers == wrong => "answer" \in late

\* Where RetroArch is gone for good the poller gives up in the end ("RA is gone,
\* not a transient hiccup"): it does not go on reconnecting for ever.
SilenceIsNoticed == linked /\ ra = "gone" ~> at["poll"] = "stopped"

\* A snapshot is compared with one from before a load only where RetroArch had
\* that load still to execute, or executed it between two reads, when the earlier
\* one was taken: state_version is bumped after the command and before any read
\* that follows it; unless a reply, or the load itself, came later than a drain.
LoadsResync ==
    [][PollSucceeds /\ ~bumped /\ late = {} /\ prev # {} /\ ~early
        => Epochs(Read) = prev]_vars

\* "eliminates the phantom-edge window between RA loading and the poller learning
\* about it": no comparison of snapshots shows what a load changed.  Not so: the
\* snapshot that resyncs may be taken before RetroArch reads the slot, and the next
\* is compared with it.
NoPhantomEdges ==
    [][PollSucceeds /\ ~bumped /\ late = {} /\ prev # {} => Epochs(Read) = prev]_vars

\* "will keep retrying": RetroArch, once it answers and has its game, is
\* connected to in the end.
ConnectsAtLast == <>(linked \/ ra = "gone")
=============================================================================
