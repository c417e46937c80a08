------------------------- MODULE DashboardServerProofs -------------------------
(***************************************************************************)
(* Theorems about the process around the sessions: for any number of ROM   *)
(* files, HTTP threads, pages and buttons, and however long it runs.       *)
(*                                                                         *)
(* Three arguments that do not need one another.  A button that is held    *)
(* and not yet in the detector's memory has a press that has not fired.    *)
(* The lock and the second look leave at most one builder, while there is  *)
(* no scheduler, so only a switch can come between its game and the game   *)
(* that is loaded.  The state that is pushed changes without a push in one *)
(* place alone, when the link comes up, and then a ROM is waiting that is  *)
(* sure to be of another game than none.                                   *)
(***************************************************************************)
EXTENDS DashboardServer, FiniteSetTheorems, SequenceTheorems, TLAPS

USE ServerAssumption

Messages == [kind : {"rom"}, what : Roms] \cup [kind : {"armed"}, what : BOOLEAN]
            \cup [kind : {"command"}, what : Verbs]
Posts    == Messages \ [kind : {"rom"}, what : Roms]
States   == [game : Games \cup {None}, armed : BOOLEAN, on : BOOLEAN]

LinkOK == /\ ra \in Roms \cup {None}
          /\ link \in [connected : BOOLEAN, poller : {"off", "on", "gone"},
                       misses : Nat, last : Roms \cup {None}]
          /\ check \in [asked : BOOLEAN, rom : Roms \cup {None}]
PadOK  == /\ pad \in [held : SUBSET (Verbs \cup {Mod}), open : BOOLEAN, prev : SUBSET Verbs]
          /\ presses \in [Verbs -> [down : Nat, fired : Nat]] /\ inputs \in Nat
LoopOK == /\ posted \in Seq(Posts) /\ events \in Seq(Messages)
          /\ server \in [at : {"idle", "named", "drop", "tell"}, game : Games \cup {None}]
          /\ game \in Games \cup {None} /\ armed \in BOOLEAN /\ specs \in Defined \cup {None}
ThreadsOK == /\ sched \in Games \cup {None} /\ builds \in Nat /\ crossed \in BOOLEAN
             /\ workers \in [Workers -> [at : {"rest", "lock", "build"},
                                         game : Games \cup {None}]]
PagesOK ==
    /\ pages \in [Pages -> [at : {"closed", "fetched", "open"}, queue : Seq(States),
                            shown : States \cup {None}, late : BOOLEAN]]
    /\ \A p \in Pages : Len(pages[p].queue) <= QMax

TypeOK == LinkOK /\ PadOK /\ LoopOK /\ ThreadsOK /\ PagesOK

-----------------------------------------------------------------------------
(* What the operators return. *)

\* A function on 1 .. n is a sequence.
LEMMA FunctionIsSeq == ASSUME NEW S, NEW n \in Nat, NEW h \in [1 .. n -> S] PROVE h \in Seq(S)
<1>1. [i \in 1 .. n |-> h[i]] \in Seq(S)
  OBVIOUS
<1> QED BY <1>1

\* Taking the first element away leaves the last one.
LEMMA LastOfTail ==
    ASSUME NEW S, NEW q \in Seq(S), q # <<>>
    PROVE  (IF Tail(q) = <<>> THEN Head(q) ELSE Last(Tail(q))) = Last(q)
<1> DEFINE n == Len(q)
           m == Len(Tail(q))
<1>1. /\ n \in Nat /\ n # 0 /\ m = n - 1 /\ (m = 0 <=> Tail(q) = <<>>)
      /\ \A i \in 1 .. m : Tail(q)[i] = q[i + 1]
  BY EmptySeq, HeadTailProperties
<1>2. Head(q) = q[1] /\ Last(q) = q[n] /\ Last(Tail(q)) = Tail(q)[m]
  BY DEF Last
<1> HIDE DEF n, m
<1>3. CASE m = 0
  BY <1>1, <1>2, <1>3
<1>4. CASE m # 0
  <2>1. m \in 1 .. m /\ m + 1 = n
    BY <1>1, <1>4
  <2> QED BY <1>1, <1>2, <1>4, <2>1
<1> QED BY <1>3, <1>4

\* The commands of a set of buttons are a sequence of messages, one for each.
LEMMA CommandsType == \A bs \in SUBSET Verbs : Commands(bs) \in Seq(Posts)
<1> SUFFICES ASSUME NEW bs \in SUBSET Verbs PROVE Commands(bs) \in Seq(Posts)
  OBVIOUS
<1> DEFINE T == {[kind |-> "command", what |-> b] : b \in bs}
           f == [b \in bs |-> [kind |-> "command", what |-> b]]
<1>1. f \in Surjection(bs, T)
  BY DEF Surjection
<1>2. IsFiniteSet(bs)
  BY FS_Subset
<1>3. IsFiniteSet(T)
  BY <1>1, <1>2, FS_Surjection
<1>4. PICK g \in Bijection(1 .. Cardinality(T), T) : TRUE
  BY <1>3, FS_CardinalityType DEF ExistsBijection
<1>5. g \in [1 .. Cardinality(T) -> T] /\ IsInjective(g)
  BY <1>4 DEF Bijection, Injection, IsInjective
<1>6. SetToSeq(T) \in [1 .. Cardinality(T) -> T]
  BY <1>5 DEF SetToSeq
<1>7. Cardinality(T) \in Nat
  BY <1>3, FS_CardinalityType
<1>8. T \subseteq Posts
  BY DEF Posts, Messages
<1> HIDE DEF T, f
<1>9. SetToSeq(T) \in Seq(Posts)
  <2>1. SetToSeq(T) \in [1 .. Cardinality(T) -> Posts]
    BY <1>6, <1>8
  <2> QED BY <2>1, <1>7, FunctionIsSeq
<1> QED BY <1>9 DEF Commands, T

\* A page's queue takes every new state, and stays within its bound.
LEMMA PushedType ==
    ASSUME NEW S, NEW q \in Seq(S), NEW s \in S, Len(q) <= QMax
    PROVE  /\ Pushed(q, s) \in Seq(S) /\ Len(Pushed(q, s)) <= QMax
           /\ Pushed(q, s) # <<>> /\ Last(Pushed(q, s)) = s
<1> QMax \in Nat \ {0}
  OBVIOUS
<1> DEFINE q0 == IF Len(q) < QMax THEN q ELSE Tail(q)
<1>1. q0 \in Seq(S) /\ Len(q0) < QMax
  OBVIOUS
<1>2. Pushed(q, s) = Append(q0, s)
  BY DEF Pushed
<1> HIDE DEF q0
<1>3. /\ Append(q0, s) \in Seq(S) /\ Len(Append(q0, s)) = Len(q0) + 1
      /\ Append(q0, s)[Len(q0) + 1] = s
  BY <1>1, AppendProperties
<1>4. Len(q0) \in Nat
  BY <1>1
<1> QED BY <1>1, <1>2, <1>3, <1>4 DEF Last

LEMMA BroadcastType ==
    ASSUME PagesOK, NEW s \in States, Broadcast(s) PROVE PagesOK'
<1> DEFINE Page == [at : {"closed", "fetched", "open"}, queue : Seq(States),
                    shown : States \cup {None}, late : BOOLEAN]
<1>1. ASSUME NEW p \in Pages PROVE pages'[p] \in Page /\ Len(pages'[p].queue) <= QMax
  <2>1. pages[p] \in Page /\ Len(pages[p].queue) <= QMax
    BY DEF PagesOK
  <2>2. Pushed(pages[p].queue, s) \in Seq(States) /\ Len(Pushed(pages[p].queue, s)) <= QMax
    BY <2>1, PushedType
  <2> QED BY <2>1, <2>2 DEF Broadcast
<1>2. pages' = [p \in Pages |-> pages'[p]]
  BY DEF Broadcast
<1> QED BY <1>1, <1>2 DEF PagesOK

LEMMA StateType == TypeOK => State \in States
BY DEF TypeOK, LinkOK, LoopOK, State, States

-----------------------------------------------------------------------------
(* Types. *)

\* The parts an action leaves alone keep their types.
LEMMA Same ==
    /\ LinkOK /\ UNCHANGED <<ra, link, check>> => LinkOK'
    /\ PadOK /\ UNCHANGED <<pad, presses, inputs>> => PadOK'
    /\ LoopOK /\ UNCHANGED <<posted, events, server, game, armed, specs>> => LoopOK'
    /\ ThreadsOK /\ UNCHANGED <<sched, builds, crossed, workers>> => ThreadsOK'
    /\ PagesOK /\ UNCHANGED pages => PagesOK'
<1>1. LinkOK /\ UNCHANGED <<ra, link, check>> => LinkOK'
  BY DEF LinkOK
<1>2. PadOK /\ UNCHANGED <<pad, presses, inputs>> => PadOK'
  BY DEF PadOK
<1>3. LoopOK /\ UNCHANGED <<posted, events, server, game, armed, specs>> => LoopOK'
  BY DEF LoopOK
<1>4. ThreadsOK /\ UNCHANGED <<sched, builds, crossed, workers>> => ThreadsOK'
  BY DEF ThreadsOK
<1>5. PagesOK /\ UNCHANGED pages => PagesOK'
  BY DEF PagesOK
<1> QED BY <1>1, <1>2, <1>3, <1>4, <1>5

LEMMA TypeInit == Init => TypeOK
<1> SUFFICES ASSUME Init PROVE TypeOK
  OBVIOUS
<1>1. LinkOK
  BY DEF Init, NewOrchestrator, NoCheck, LinkOK
<1>2. PadOK
  BY DEF Init, NewPad, PadOK
<1>3. LoopOK
  BY EmptySeq DEF Init, NewOrchestrator, NewPad, NewSession, Idle, LoopOK
<1>4. ThreadsOK
  BY DEF Init, NewSession, AtRest, ThreadsOK
<1>5. PagesOK
  <2>1. <<>> \in Seq(States) /\ Len(<<>>) <= QMax
    BY EmptySeq
  <2> QED BY <2>1 DEF Init, Closed, PagesOK
<1> QED BY <1>1, <1>2, <1>3, <1>4, <1>5 DEF TypeOK

LEMMA OutsideTypes ==
    ASSUME TypeOK, \/ \E r \in Roms \cup {None} : RetroArchChanges(r)
                   \/ \E b \in Verbs \cup {Mod} : Touch(b)
    PROVE  TypeOK'
<1> USE DEF TypeOK, session, threads, Input
<1>1. ASSUME NEW r \in Roms \cup {None}, RetroArchChanges(r) PROVE TypeOK'
  <2>1. LinkOK' /\ PadOK'
    BY <1>1 DEF RetroArchChanges, LinkOK, PadOK
  <2> QED BY <1>1, <2>1, Same DEF RetroArchChanges
<1>2. ASSUME NEW b \in Verbs \cup {Mod}, Touch(b) PROVE TypeOK'
  <2>1. PadOK'
    BY <1>2 DEF Touch, PadOK
  <2> QED BY <1>2, <2>1, Same DEF Touch
<1> QED BY <1>1, <1>2

LEMMA LinkTypes ==
    ASSUME TypeOK, Connect \/ PollFails \/ PollReads \/ CheckAsks \/ CheckReturns
    PROVE  TypeOK'
<1> USE DEF TypeOK, outside, session, threads
<1>1. ASSUME NEW r \in Roms, events' = Append(events, [kind |-> "rom", what |-> r]),
             UNCHANGED <<posted, session>>
      PROVE  LoopOK'
  <2>1. [kind |-> "rom", what |-> r] \in Messages
    BY DEF Messages
  <2> QED BY <1>1, <2>1, AppendProperties DEF LoopOK
<1>2. CASE Connect
  <2>1. LinkOK' /\ ra \in Roms
    BY <1>2 DEF Connect, LinkOK
  <2> QED BY <1>1, <1>2, <2>1, Same DEF Connect
<1>3. CASE PollFails
  <2>1. link.misses + 1 \in Nat /\ link'.poller \in {"off", "on", "gone"}
    BY <1>3 DEF PollFails, LinkOK
  <2>2. link' = [link EXCEPT !.misses = link.misses + 1, !.poller = link'.poller]
    BY <1>3 DEF PollFails, LinkOK
  <2>3. LinkOK'
    BY <1>3, <2>1, <2>2 DEF PollFails, LinkOK
  <2> QED BY <1>3, <2>3, Same DEF PollFails
<1>4. CASE PollReads
  <2>1. LinkOK'
    BY <1>4 DEF PollReads, LinkOK
  <2> QED BY <1>4, <2>1, Same DEF PollReads
<1>5. CASE CheckAsks
  <2>1. LinkOK'
    BY <1>5 DEF CheckAsks, LinkOK
  <2> QED BY <1>5, <2>1, Same DEF CheckAsks
<1>6. CASE CheckReturns
  <2>1. LinkOK' /\ check.rom \in Roms \cup {None}
    BY <1>6 DEF CheckReturns, LinkOK, NoCheck
  <2>2. LoopOK'
    BY <1>1, <1>6, <2>1, Same DEF CheckReturns
  <2> QED BY <1>6, <2>1, <2>2, Same DEF CheckReturns
<1> QED BY <1>2, <1>3, <1>4, <1>5, <1>6

LEMMA PadPollTypes == ASSUME TypeOK, PadPoll PROVE TypeOK'
<1> USE DEF TypeOK, session, threads
<1>1. Fires \in SUBSET Verbs
  BY DEF Fires
<1>2. Commands(Fires) \in Seq(Posts)
  BY <1>1, CommandsType
<1>3. (IF Opens \/ Closes THEN <<Arms(Opens)>> ELSE <<>>) \in Seq(Posts)
  <2>1. \A a \in BOOLEAN : Arms(a) \in Posts
    BY DEF Arms, Posts, Messages
  <2>2. Opens \in BOOLEAN
    BY DEF Opens
  <2>3. Arms(Opens) \in Posts
    BY <2>1, <2>2
  <2> QED BY <2>3
<1>4. posted' \in Seq(Posts)
  BY <1>2, <1>3, ConcatProperties DEF PadPoll, LoopOK
<1>5. PadOK'
  <2>1. pad' \in [held : SUBSET (Verbs \cup {Mod}), open : BOOLEAN, prev : SUBSET Verbs]
    <3>1. (Mod \in pad.held) \in BOOLEAN
      OBVIOUS
    <3> QED BY <3>1 DEF PadPoll, PadOK
  <2>2. ASSUME NEW b \in Verbs PROVE presses'[b] \in [down : Nat, fired : Nat]
    <3>1. presses[b] \in [down : Nat, fired : Nat]
      BY DEF PadOK
    <3>2. presses'[b] = [presses[b] EXCEPT !.fired = @ + 1] \/ presses'[b] = presses[b]
      BY DEF PadPoll
    <3> QED BY <3>1, <3>2
  <2>3. presses' \in [Verbs -> [down : Nat, fired : Nat]]
    BY <2>2 DEF PadPoll
  <2> QED BY <2>1, <2>3 DEF PadPoll, PadOK
<1>6. LoopOK'
  BY <1>4 DEF PadPoll, LoopOK
<1> QED BY <1>5, <1>6, Same DEF PadPoll

LEMMA LoopTypes == ASSUME TypeOK, LoopRuns \/ Handlers PROVE TypeOK'
<1> USE DEF TypeOK, outside, session, threads
<1>1. CASE LoopRuns
  <2>1. Head(posted) \in Messages /\ Tail(posted) \in Seq(Posts)
    BY <1>1 DEF LoopRuns, LoopOK, Posts
  <2>2. LoopOK'
    BY <1>1, <2>1 DEF LoopRuns, LoopOK
  <2> QED BY <1>1, <2>2, Same DEF LoopRuns
<1>2. ASSUME NEW kind, Takes(kind)
      PROVE  Head(events) \in Messages /\ events' \in Seq(Messages) /\ Head(events).kind = kind
  BY <1>2 DEF Takes, LoopOK
<1>3. CASE HandleRom
  <2>1. Head(events) \in Messages /\ events' \in Seq(Messages) /\ Head(events).kind = "rom"
    BY <1>2, <1>3 DEF HandleRom
  <2>2. GameOf[Head(events).what] \in Games
    BY <2>1 DEF Messages
  <2>3. LoopOK'
    BY <1>3, <2>1, <2>2 DEF HandleRom, Installed, HasDefinitions, LoopOK
  <2> QED BY <1>3, <2>3, Same DEF HandleRom
<1>4. CASE NameGame
  <2>1. LoopOK'
    BY <1>4 DEF NameGame, LoopOK
  <2> QED BY <1>4, <2>1, Same DEF NameGame
<1>5. CASE DropScheduler
  <2>1. LoopOK' /\ ThreadsOK'
    BY <1>5 DEF DropScheduler, Overtaken, LoopOK, ThreadsOK
  <2> QED BY <1>5, <2>1, Same DEF DropScheduler
<1>6. CASE TellPages
  <2>1. PagesOK'
    BY <1>6, BroadcastType, StateType DEF TellPages
  <2>2. LoopOK'
    BY <1>6 DEF TellPages, Installed, HasDefinitions, Idle, LoopOK
  <2> QED BY <1>6, <2>1, <2>2, Same DEF TellPages
<1>7. CASE HandleArmed
  <2>1. Head(events) \in Messages /\ events' \in Seq(Messages) /\ Head(events).kind = "armed"
    BY <1>2, <1>7 DEF HandleArmed
  <2>2. Head(events).what \in BOOLEAN
    BY <2>1 DEF Messages
  <2>3. [State EXCEPT !.armed = Head(events).what] \in States
    BY <2>2, StateType DEF States
  <2>4. PagesOK'
    BY <1>7, <2>3, BroadcastType DEF HandleArmed
  <2>5. LoopOK'
    BY <1>7, <2>1, <2>2 DEF HandleArmed, LoopOK
  <2> QED BY <1>7, <2>4, <2>5, Same DEF HandleArmed
<1>8. CASE HandleCommand
  <2>1. PagesOK' /\ events' \in Seq(Messages)
    BY <1>2, <1>8, BroadcastType, StateType DEF HandleCommand
  <2>2. LoopOK'
    BY <1>8, <2>1 DEF HandleCommand, LoopOK
  <2> QED BY <1>8, <2>1, <2>2, Same DEF HandleCommand
<1> QED BY <1>1, <1>3, <1>4, <1>5, <1>6, <1>7, <1>8 DEF Handlers

LEMMA PageTypes ==
    ASSUME TypeOK, NEW p \in Pages, Fetch(p) \/ Subscribe(p) \/ Receive(p) \/ Leave(p)
    PROVE  TypeOK'
<1> USE DEF TypeOK, outside, session, threads
<1>0. <<>> \in Seq(States) /\ Len(<<>>) <= QMax
  BY EmptySeq
<1>1. CASE Fetch(p)
  <2>1. PagesOK' /\ PadOK'
    BY <1>0, <1>1, StateType DEF Fetch, Input, PagesOK, PadOK
  <2> QED BY <1>1, <2>1, Same DEF Fetch
<1>2. CASE Subscribe(p)
  <2>1. PagesOK'
    BY <1>2 DEF Subscribe, PagesOK
  <2> QED BY <1>2, <2>1, Same DEF Subscribe
<1>3. CASE Receive(p)
  <2>1. /\ pages[p].queue \in Seq(States) /\ pages[p].queue # <<>>
        /\ Len(pages[p].queue) <= QMax
    BY <1>3 DEF Receive, PagesOK
  <2>2. /\ Head(pages[p].queue) \in States /\ Tail(pages[p].queue) \in Seq(States)
        /\ Len(Tail(pages[p].queue)) <= QMax
    BY <2>1
  <2>3. PagesOK'
    BY <1>3, <2>2 DEF Receive, PagesOK
  <2> QED BY <1>3, <2>3, Same DEF Receive
<1>4. CASE Leave(p)
  <2>1. PagesOK'
    BY <1>0, <1>4 DEF Leave, Closed, PagesOK
  <2> QED BY <1>4, <2>1, Same DEF Leave
<1> QED BY <1>1, <1>2, <1>3, <1>4

LEMMA ThreadTypes ==
    ASSUME TypeOK, NEW w \in Workers, AskScheduler(w) \/ Acquire(w) \/ Build(w)
    PROVE  TypeOK'
<1> USE DEF TypeOK, outside, session, threads
<1>1. CASE AskScheduler(w)
  <2>1. ThreadsOK' /\ PadOK'
    BY <1>1 DEF AskScheduler, Input, ThreadsOK, PadOK
  <2> QED BY <1>1, <2>1, Same DEF AskScheduler
<1>2. CASE Acquire(w)
  <2>1. ThreadsOK'
    BY <1>2 DEF Acquire, AtRest, ThreadsOK, LoopOK
  <2> QED BY <1>2, <2>1, Same DEF Acquire
<1>3. CASE Build(w)
  <2>1. ThreadsOK'
    BY <1>3 DEF Build, AtRest, ThreadsOK
  <2> QED BY <1>3, <2>1, Same DEF Build
<1> QED BY <1>1, <1>2, <1>3

LEMMA TypeStep == TypeOK /\ [Next]_vars => TypeOK'
<1>1. TypeOK /\ UNCHANGED vars => TypeOK'
  BY Same DEF vars, TypeOK
<1>2. TypeOK /\ Next => TypeOK'
  BY OutsideTypes, LinkTypes, PadPollTypes, LoopTypes, PageTypes, ThreadTypes DEF Next
<1> QED BY <1>1, <1>2

\* Every field holds a value of its kind, and no page's queue outgrows
\* SSE_QUEUE_MAX.
THEOREM TypeCorrect == Spec => []TypeOK
<1> QED BY TypeInit, TypeStep, PTL DEF Spec

-----------------------------------------------------------------------------
(* The gamepad. *)

\* While the menu is open, a button that is down and not yet remembered by the
\* detector has a press that has not fired.
PressInv == \A b \in Verbs :
    /\ presses[b].fired <= presses[b].down
    /\ pad.open /\ b \in pad.held \ pad.prev => presses[b].fired < presses[b].down

LEMMA PressInit == Init => PressInv
BY DEF Init, NewPad, PressInv

LEMMA TouchKeeps == ASSUME TypeOK, PressInv, NEW b \in Verbs \cup {Mod}, Touch(b) PROVE PressInv'
<1> SUFFICES ASSUME NEW v \in Verbs
             PROVE  /\ presses'[v].fired <= presses'[v].down
                    /\ pad'.open /\ v \in pad'.held \ pad'.prev
                       => presses'[v].fired < presses'[v].down
  BY DEF PressInv
<1>1. presses[v] \in [down : Nat, fired : Nat] /\ presses[v].fired <= presses[v].down
  BY DEF TypeOK, PadOK, PressInv
<1>2. /\ pad'.open = pad.open /\ pad'.prev = pad.prev
      /\ pad'.held = IF b \in pad.held THEN pad.held \ {b} ELSE pad.held \cup {b}
  BY DEF Touch, TypeOK, PadOK
<1>3. CASE v = b /\ v \notin pad.held
  <2>1. presses'[v] = [presses[v] EXCEPT !.down = @ + 1]
    BY <1>3 DEF Touch, TypeOK, PadOK
  <2> QED BY <1>1, <2>1
<1>4. CASE v = b /\ v \in pad.held
  <2>1. v \notin pad'.held /\ presses'[v] = presses[v]
    BY <1>2, <1>4 DEF Touch
  <2> QED BY <1>1, <2>1
<1>5. CASE v # b
  <2>1. presses'[v] = presses[v] /\ (v \in pad'.held <=> v \in pad.held)
    BY <1>2, <1>5 DEF Touch, TypeOK, PadOK
  <2> QED BY <1>1, <1>2, <2>1 DEF PressInv
<1> QED BY <1>3, <1>4, <1>5

\* What fires was not remembered, and is remembered from then on.
LEMMA PadPollKeeps == ASSUME TypeOK, PressInv, PadPoll PROVE PressInv'
<1> SUFFICES ASSUME NEW v \in Verbs
             PROVE  /\ presses'[v].fired <= presses'[v].down
                    /\ pad'.open /\ v \in pad'.held \ pad'.prev
                       => presses'[v].fired < presses'[v].down
  BY DEF PressInv
<1>1. presses[v] \in [down : Nat, fired : Nat] /\ presses[v].fired <= presses[v].down
  BY DEF TypeOK, PadOK, PressInv
<1>2. ~(pad'.open /\ v \in pad'.held \ pad'.prev)
  BY DEF PadPoll, TypeOK, PadOK
<1>3. CASE v \in Fires
  <2>1. pad.open /\ v \in pad.held \ pad.prev
    BY <1>3 DEF Fires, Before, Opens
  <2>2. presses[v].fired < presses[v].down
    BY <2>1 DEF PressInv
  <2>3. presses'[v] = [presses[v] EXCEPT !.fired = @ + 1]
    BY <1>3 DEF PadPoll
  <2> QED BY <1>1, <1>2, <2>2, <2>3
<1>4. CASE v \notin Fires
  <2>1. presses'[v] = presses[v]
    BY <1>4 DEF PadPoll
  <2> QED BY <1>1, <1>2, <2>1
<1> QED BY <1>3, <1>4

LEMMA PressStep == TypeOK /\ PressInv /\ [Next]_vars => PressInv'
<1> SUFFICES ASSUME TypeOK, PressInv, [Next]_vars PROVE PressInv'
  OBVIOUS
<1>1. UNCHANGED <<pad, presses>> => PressInv'
  BY DEF PressInv
<1>2. ASSUME NEW r \in Roms \cup {None}, RetroArchChanges(r) PROVE UNCHANGED <<pad, presses>>
  BY <1>2 DEF RetroArchChanges
<1>3. Connect \/ PollFails \/ PollReads \/ CheckAsks \/ CheckReturns => UNCHANGED <<pad, presses>>
  BY DEF Connect, PollFails, PollReads, CheckAsks, CheckReturns, outside
<1>4. LoopRuns \/ Handlers => UNCHANGED <<pad, presses>>
  BY DEF LoopRuns, Handlers, HandleRom, NameGame, DropScheduler, TellPages, HandleArmed,
     HandleCommand, outside
<1>5. ASSUME NEW p \in Pages, Fetch(p) \/ Subscribe(p) \/ Receive(p) \/ Leave(p)
      PROVE  UNCHANGED <<pad, presses>>
  BY <1>5 DEF Fetch, Subscribe, Receive, Leave, outside
<1>6. ASSUME NEW w \in Workers, AskScheduler(w) \/ Acquire(w) \/ Build(w)
      PROVE  UNCHANGED <<pad, presses>>
  BY <1>6 DEF AskScheduler, Acquire, Build, outside
<1>7. UNCHANGED vars => UNCHANGED <<pad, presses>>
  BY DEF vars
<1> QED BY <1>1, <1>2, <1>3, <1>4, <1>5, <1>6, <1>7, TouchKeeps, PadPollKeeps DEF Next

\* ControllerMenuDetector.step and _poll_once: a button fires at most once for
\* each time it was pressed, whatever the polls miss and however the menu opens
\* and closes while it is down.
THEOREM PressesFireOnce == Spec => []OneCommandPerPress
<1>1. PressInv => OneCommandPerPress
  BY DEF PressInv, OneCommandPerPress
<1> QED BY <1>1, PressInit, PressStep, TypeCorrect, PTL DEF Spec

-----------------------------------------------------------------------------
(* The scheduler. *)

Building(w) == workers[w].at = "build"

\* The lock and the second look: one thread builds at a time, only while there is
\* no scheduler and none was built since the last switch.
BuiltOnce ==
    /\ \A v, w \in Workers : Building(v) /\ Building(w) => v = w
    /\ \A w \in Workers : Building(w) => sched = None /\ workers[w].game # None
    /\ builds <= 1 /\ (sched = None => builds = 0)

\* Except between the two assignments of a switch, the scheduler and whatever is
\* being built are of the game, unless the switch overtook a builder.
Fits == crossed \/ server.at = "drop" \/
        (sched \in {None, game} /\ \A w \in Workers : Building(w) => workers[w].game = game)

SchedInv == BuiltOnce /\ Fits

LEMMA SchedInit == Init => SchedInv
BY DEF Init, NewSession, AtRest, SchedInv, BuiltOnce, Fits, Building

LEMMA AcquireKeeps ==
    ASSUME TypeOK, SchedInv, NEW w \in Workers, Acquire(w) PROVE SchedInv'
<1>1. workers[w].at = "lock" /\ \A v \in Workers : ~Building(v)
  BY DEF Acquire, Locked, Building
<1>2. UNCHANGED <<sched, builds, crossed, server, game>>
  BY DEF Acquire, outside, session
<1>3. \A v \in Workers \ {w} : workers'[v] = workers[v]
  BY DEF Acquire, TypeOK, ThreadsOK
<1>4. CASE sched # None \/ game = None
  <2>1. workers'[w] = AtRest
    BY <1>4 DEF Acquire, TypeOK, ThreadsOK
  <2>2. \A v \in Workers : ~Building(v)'
    BY <1>1, <1>3, <2>1 DEF Building, AtRest
  <2> QED BY <1>1, <1>2, <2>2 DEF SchedInv, BuiltOnce, Fits
<1>5. CASE sched = None /\ game # None
  <2>1. workers'[w] = [at |-> "build", game |-> game]
    BY <1>5 DEF Acquire, TypeOK, ThreadsOK
  <2>2. \A v \in Workers : Building(v)' => v = w
    BY <1>1, <1>3 DEF Building
  <2> QED BY <1>1, <1>2, <1>5, <2>1, <2>2 DEF SchedInv, BuiltOnce, Fits
<1> QED BY <1>4, <1>5

LEMMA BuildKeeps ==
    ASSUME TypeOK, SchedInv, NEW w \in Workers, Build(w) PROVE SchedInv'
<1>1. Building(w) /\ workers[w].game # None /\ sched = None /\ builds = 0
  BY DEF Build, SchedInv, BuiltOnce, Building
<1>2. \A v \in Workers : ~Building(v)'
  BY <1>1 DEF Build, AtRest, SchedInv, BuiltOnce, Building, TypeOK, ThreadsOK
<1>3. sched' = workers[w].game /\ builds' = 1 /\ UNCHANGED <<crossed, server, game>>
  BY <1>1 DEF Build
<1> QED BY <1>1, <1>2, <1>3 DEF SchedInv, BuiltOnce, Fits

\* game_id is assigned and then the scheduler dropped: a builder that is under
\* way meanwhile is of another game only if the switch overtook it.
LEMMA SwitchKeepsScheduler ==
    ASSUME TypeOK, SchedInv, NameGame \/ DropScheduler \/ TellPages PROVE SchedInv'
<1>1. UNCHANGED workers
  BY DEF NameGame, DropScheduler, TellPages, threads
<1>2. CASE NameGame
  <2>1. server'.at = "drop" /\ UNCHANGED <<sched, builds, crossed>>
    BY <1>2 DEF NameGame, threads, TypeOK, LoopOK
  <2> QED BY <1>1, <2>1 DEF SchedInv, BuiltOnce, Fits, Building
<1>3. CASE DropScheduler
  <2>1. sched' = None /\ builds' = 0 /\ crossed' = Overtaken /\ game' = game
    BY <1>3 DEF DropScheduler
  <2>2. ~Overtaken => \A w \in Workers : Building(w) => workers[w].game = game
    BY DEF Overtaken, Building
  <2> QED BY <1>1, <2>1, <2>2 DEF SchedInv, BuiltOnce, Fits, Building
<1>4. CASE TellPages
  <2>1. server.at = "tell" /\ UNCHANGED <<sched, builds, crossed, game>>
    BY <1>4 DEF TellPages, threads
  <2> QED BY <1>1, <2>1 DEF SchedInv, BuiltOnce, Fits, Building
<1> QED BY <1>2, <1>3, <1>4

LEMMA SchedStep == TypeOK /\ SchedInv /\ [Next]_vars => SchedInv'
<1> SUFFICES ASSUME TypeOK, SchedInv, [Next]_vars PROVE SchedInv'
  OBVIOUS
<1>1. ASSUME UNCHANGED <<sched, builds, crossed, game, workers>>,
             server' = server \/ server.at = "idle"
      PROVE  SchedInv'
  BY <1>1 DEF SchedInv, BuiltOnce, Fits, Building
<1>2. ASSUME NEW r \in Roms \cup {None}, RetroArchChanges(r) PROVE SchedInv'
  BY <1>1, <1>2 DEF RetroArchChanges, session, threads
<1>3. ASSUME NEW b \in Verbs \cup {Mod}, Touch(b) PROVE SchedInv'
  BY <1>1, <1>3 DEF Touch, session, threads
<1>4. CASE Connect \/ PollFails \/ PollReads \/ CheckAsks \/ CheckReturns
  BY <1>1, <1>4 DEF Connect, PollFails, PollReads, CheckAsks, CheckReturns, session, threads
<1>5. CASE PadPoll \/ LoopRuns
  BY <1>1, <1>5 DEF PadPoll, LoopRuns, session, threads
<1>6. CASE HandleRom
  BY <1>1, <1>6 DEF HandleRom, Takes, Free, threads
<1>7. CASE HandleArmed \/ HandleCommand
  BY <1>1, <1>7 DEF HandleArmed, HandleCommand, session, threads
<1>8. ASSUME NEW p \in Pages, Fetch(p) \/ Subscribe(p) \/ Receive(p) \/ Leave(p) PROVE SchedInv'
  BY <1>1, <1>8 DEF Fetch, Subscribe, Receive, Leave, session, threads
<1>9. ASSUME NEW w \in Workers, AskScheduler(w) PROVE SchedInv'
  <2>1. \A v \in Workers : /\ Building(v)' <=> Building(v)
                           /\ Building(v) => workers'[v] = workers[v]
    BY <1>9 DEF AskScheduler, Building, TypeOK, ThreadsOK
  <2>2. UNCHANGED <<sched, builds, crossed, game, server>>
    BY <1>9 DEF AskScheduler, session
  <2> QED BY <2>1, <2>2 DEF SchedInv, BuiltOnce, Fits
<1>10. CASE UNCHANGED vars
  BY <1>1, <1>10 DEF vars
<1> QED BY <1>2, <1>3, <1>4, <1>5, <1>6, <1>7, <1>8, <1>9, <1>10, SwitchKeepsScheduler,
           AcquireKeeps, BuildKeeps DEF Next, Handlers

\* get_scheduler and switch_game: the scheduler is the loaded game's unless a
\* switch overtook the thread that was building it, and one is built for each
\* switch however many threads ask.
THEOREM OneSchedulerPerGame == Spec => []SchedulerFitsGame
<1>1. SchedInv => SchedulerFitsGame
  BY DEF SchedInv, BuiltOnce, Fits, SchedulerFitsGame, Free
<1> QED BY <1>1, SchedInit, SchedStep, TypeCorrect, PTL DEF Spec

-----------------------------------------------------------------------------
(* The pages. *)

Shows(p) == IF pages[p].queue = <<>> THEN pages[p].shown ELSE Last(pages[p].queue)
Unnamed  == link.connected /\ game = None

\* Until the first ROM is handled there is one to be handled, before all else.
RomFirst ==
    /\ ~link.connected => /\ events = <<>> /\ posted = <<>> /\ ~check.asked
                          /\ game = None /\ Free
    /\ server.at = "named" => server.game # None
    /\ Unnamed => server.at = "named" \/ (Free /\ events # <<>> /\ Head(events).kind = "rom")

\* Otherwise a page has the state, or will read it last.
UpToDate ==
    Free /\ ~Unnamed =>
        \A p \in Pages : pages[p].at # "closed" /\ ~pages[p].late => Shows(p) = State

ShowInv == RomFirst /\ UpToDate

LEMMA ShowInit == Init => ShowInv
<1> SUFFICES ASSUME Init PROVE ShowInv
  OBVIOUS
<1>1. \A p \in Pages : pages[p].at = "closed"
  BY DEF Init, Closed
<1> QED BY <1>1 DEF Init, NewOrchestrator, NewPad, NewSession, NoCheck, Idle, Free, ShowInv, RomFirst,
                    UpToDate, Unnamed

\* An event more in the queue changes nothing of it.
LEMMA QuietKeeps ==
    ASSUME TypeOK, ShowInv, UNCHANGED <<server, game, armed, pages>>,
           link'.connected = link.connected,
           link.connected \/ UNCHANGED <<posted, events, check>>,
           events' = events \/ \E m \in Messages : events' = Append(events, m)
    PROVE  ShowInv'
<1>1. Unnamed' = Unnamed /\ Free' = Free /\ State' = State
  BY DEF Unnamed, Free, State
<1>2. \A p \in Pages : Shows(p)' = Shows(p)
  BY DEF Shows
<1>3. UpToDate'
  BY <1>1, <1>2 DEF ShowInv, UpToDate
<1>4. events # <<>> => events' # <<>> /\ Head(events') = Head(events)
  <2>1. events \in Seq(Messages)
    BY DEF TypeOK, LoopOK
  <2>2. ASSUME NEW m \in Messages, events # <<>>
        PROVE  Append(events, m) # <<>> /\ Head(Append(events, m)) = Head(events)
    <3>1. Append(events, m) \in Seq(Messages) /\ Append(events, m)[1] = events[1]
      BY <2>1, <2>2, AppendProperties
    <3> QED BY <2>1, <2>2, <3>1
  <2> QED BY <2>2
<1> QED BY <1>1, <1>3, <1>4 DEF ShowInv, RomFirst

LEMMA LinkShows ==
    ASSUME TypeOK, ShowInv, Connect \/ PollFails \/ PollReads \/ CheckAsks \/ CheckReturns
    PROVE  ShowInv'
<1> USE DEF outside, session, threads
<1>1. CASE Connect
  <2>1. /\ events = <<>> /\ game' = None /\ Free' /\ server' = server
        /\ link'.connected /\ events' = Append(events, [kind |-> "rom", what |-> ra])
    BY <1>1 DEF Connect, ShowInv, RomFirst, Free, TypeOK, LinkOK
  <2>2. Free' /\ events' # <<>> /\ Head(events').kind = "rom" /\ server'.at # "named"
    BY <2>1 DEF Free
  <2> QED BY <2>1, <2>2 DEF ShowInv, RomFirst, UpToDate, Unnamed
<1>2. CASE PollFails
  <2>1. link'.connected = link.connected
    BY <1>2 DEF PollFails, TypeOK, LinkOK
  <2> QED BY <1>2, <2>1, QuietKeeps DEF PollFails
<1>3. CASE PollReads
  <2>1. link'.connected = link.connected
    BY <1>3 DEF PollReads, TypeOK, LinkOK
  <2> QED BY <1>3, <2>1, QuietKeeps DEF PollReads
<1>4. CASE CheckAsks
  BY <1>4, QuietKeeps DEF CheckAsks
<1>5. CASE CheckReturns
  <2>1. link.connected /\ link'.connected = link.connected /\ check.rom \in Roms \cup {None}
    BY <1>5 DEF CheckReturns, ShowInv, RomFirst, TypeOK, LinkOK
  <2>2. \/ events' = events
        \/ check.rom \in Roms /\ events' = Append(events, [kind |-> "rom", what |-> check.rom])
    BY <1>5, <2>1 DEF CheckReturns
  <2>3. events' = events \/ \E m \in Messages : events' = Append(events, m)
    BY <2>2 DEF Messages
  <2>4. UNCHANGED <<server, game, armed, pages>>
    BY <1>5 DEF CheckReturns
  <2> QED BY <2>1, <2>3, <2>4, QuietKeeps
<1> QED BY <1>1, <1>2, <1>3, <1>4, <1>5

\* A push leaves every page that is not late with the state pushed.
LEMMA BroadcastShows ==
    ASSUME PagesOK, NEW s \in States, Broadcast(s),
           NEW p \in Pages, pages'[p].at # "closed", ~pages'[p].late
    PROVE  Shows(p)' = s
<1>1. /\ pages[p].queue \in Seq(States) /\ Len(pages[p].queue) <= QMax
      /\ pages[p] \in [at : {"closed", "fetched", "open"}, queue : Seq(States),
                       shown : States \cup {None}, late : BOOLEAN]
  BY DEF PagesOK
<1>2. pages'[p].queue = Pushed(pages[p].queue, s)
  BY <1>1 DEF Broadcast
<1> QED BY <1>1, <1>2, PushedType DEF Shows

LEMMA BroadcastUpdates ==
    ASSUME TypeOK, Broadcast(State'), State' \in States PROVE UpToDate'
BY BroadcastShows DEF UpToDate, TypeOK

LEMMA LoopShows == ASSUME TypeOK, ShowInv, LoopRuns \/ Handlers PROVE ShowInv'
<1> USE DEF outside, session, threads
<1>0. State' \in States
  BY LoopTypes, StateType DEF TypeOK, LinkOK, LoopOK, State, States
<1>1. CASE LoopRuns
  <2>1. link.connected /\ link' = link /\ Head(posted) \in Messages
    BY <1>1 DEF LoopRuns, ShowInv, RomFirst, TypeOK, LoopOK, Posts
  <2> QED BY <1>1, <2>1, QuietKeeps DEF LoopRuns
<1>2. ASSUME NEW kind, Takes(kind)
      PROVE  Head(events) \in Messages /\ Head(events).kind = kind /\ link.connected /\ Free
  BY <1>2 DEF Takes, TypeOK, LoopOK
<1>3. CASE HandleRom
  <2> DEFINE g == GameOf[Head(events).what]
  <2>1. Head(events) \in Messages /\ Head(events).kind = "rom" /\ link.connected /\ Free
    BY <1>2, <1>3 DEF HandleRom
  <2>2. g \in Games /\ g # None
    BY <2>1 DEF Messages
  <2>3. UNCHANGED <<link, game, armed, pages>>
    BY <1>3 DEF HandleRom
  <2>4. CASE g = game
    <3>1. game # None /\ server' = server
      BY <1>3, <2>2, <2>4 DEF HandleRom
    <3>2. Unnamed' = Unnamed /\ Free' = Free /\ State' = State /\ \A p \in Pages : Shows(p)' = Shows(p)
      BY <2>3, <3>1 DEF Unnamed, Free, State, Shows
    <3> QED BY <2>1, <2>3, <3>1, <3>2 DEF ShowInv, RomFirst, UpToDate, Unnamed
  <2>5. CASE g # game
    <3>1. server' = [at |-> "named", game |-> g]
      BY <1>3, <2>5 DEF HandleRom
    <3> QED BY <2>1, <2>2, <2>3, <3>1 DEF ShowInv, RomFirst, UpToDate, Unnamed, Free
  <2> QED BY <2>4, <2>5
<1>4. CASE NameGame
  <2>1. server.at = "named" /\ link.connected /\ UNCHANGED link
    BY <1>4 DEF NameGame, ShowInv, RomFirst, Free
  <2>2. game' # None /\ server'.at = "drop"
    BY <1>4 DEF NameGame, ShowInv, RomFirst, TypeOK, LoopOK
  <2> QED BY <2>1, <2>2 DEF ShowInv, RomFirst, UpToDate, Unnamed, Free
<1>5. CASE DropScheduler
  <2>1. server.at = "drop" /\ server'.at = "tell" /\ UNCHANGED <<link, game>>
    BY <1>5 DEF DropScheduler, TypeOK, LoopOK
  <2> QED BY <2>1 DEF ShowInv, RomFirst, UpToDate, Unnamed, Free
<1>6. CASE TellPages
  <2>1. server.at = "tell" /\ server'.at = "idle" /\ UNCHANGED <<link, game, armed>>
    BY <1>6 DEF TellPages, Idle
  <2>2. Broadcast(State')
    BY <1>6, <2>1 DEF TellPages, State
  <2>3. UpToDate'
    BY <1>0, <2>2, BroadcastUpdates
  <2> QED BY <2>1, <2>3 DEF ShowInv, RomFirst, Unnamed, Free
<1>7. CASE HandleArmed
  <2>1. Head(events).kind = "armed" /\ link.connected /\ Free /\ UNCHANGED <<link, game, server>>
    BY <1>2, <1>7 DEF HandleArmed
  <2>2. State' = [State EXCEPT !.armed = Head(events).what]
    <3>1. armed' = Head(events).what
      BY <1>7 DEF HandleArmed
    <3>2. State' = [game |-> game, armed |-> armed', on |-> link.connected]
      BY <2>1 DEF State
    <3>3. [State EXCEPT !.armed = armed'] = [game |-> game, armed |-> armed', on |-> link.connected]
      BY DEF State
    <3> QED BY <3>1, <3>2, <3>3
  <2>3. UpToDate'
    BY <1>0, <1>7, <2>2, BroadcastUpdates DEF HandleArmed
  <2>4. ~Unnamed
    BY <2>1 DEF ShowInv, RomFirst, Free
  <2> QED BY <2>1, <2>3, <2>4 DEF ShowInv, RomFirst, Unnamed, Free
<1>8. CASE HandleCommand
  <2>1. /\ Head(events).kind = "command" /\ link.connected /\ Free
        /\ UNCHANGED <<link, game, server, armed>>
    BY <1>2, <1>8 DEF HandleCommand
  <2>2. State' = State
    BY <2>1 DEF State
  <2>3. UpToDate'
    BY <1>0, <1>8, <2>2, BroadcastUpdates DEF HandleCommand
  <2>4. ~Unnamed
    BY <2>1 DEF ShowInv, RomFirst, Free
  <2> QED BY <2>1, <2>3, <2>4 DEF ShowInv, RomFirst, Unnamed, Free
<1> QED BY <1>1, <1>3, <1>4, <1>5, <1>6, <1>7, <1>8 DEF Handlers

\* Reading a queue to its end shows what was last in it.
LEMMA PagesShow ==
    ASSUME TypeOK, ShowInv, NEW p \in Pages, Fetch(p) \/ Subscribe(p) \/ Receive(p) \/ Leave(p)
    PROVE  ShowInv'
<1> USE DEF outside, session, threads
<1>1. UNCHANGED <<link, check, posted, events, server, game, armed>>
  BY DEF Fetch, Subscribe, Receive, Leave
<1>2. Unnamed' = Unnamed /\ Free' = Free /\ State' = State
  BY <1>1 DEF Unnamed, Free, State
<1>3. RomFirst'
  BY <1>1, <1>2 DEF ShowInv, RomFirst
<1>4. \A q \in Pages \ {p} : pages'[q] = pages[q] /\ Shows(q)' = Shows(q)
  BY DEF Fetch, Subscribe, Receive, Leave, TypeOK, PagesOK, Shows
<1>5. /\ pages[p] \in [at : {"closed", "fetched", "open"}, queue : Seq(States),
                       shown : States \cup {None}, late : BOOLEAN]
      /\ pages \in [Pages -> [at : {"closed", "fetched", "open"}, queue : Seq(States),
                              shown : States \cup {None}, late : BOOLEAN]]
  BY DEF TypeOK, PagesOK
<1>6. Free /\ ~Unnamed /\ pages'[p].at # "closed" /\ ~pages'[p].late => Shows(p)' = State
  <2>1. CASE Fetch(p)
    BY <1>5, <2>1 DEF Fetch, Shows, Free
  <2>2. CASE Subscribe(p)
    <3>1. pages'[p] = [pages[p] EXCEPT !.at = "open"] /\ pages[p].at = "fetched"
      BY <1>5, <2>2 DEF Subscribe
    <3>2. Shows(p)' = Shows(p) /\ pages'[p].late = pages[p].late
      BY <1>5, <3>1 DEF Shows
    <3> QED BY <3>1, <3>2 DEF ShowInv, UpToDate
  <2>3. CASE Receive(p)
    <3> DEFINE q == pages[p].queue
    <3>1. q \in Seq(States) /\ q # <<>>
      BY <1>5, <2>3 DEF Receive
    <3>2. pages'[p].queue = Tail(q) /\ pages'[p].shown = Head(q)
      BY <1>5, <2>3 DEF Receive
    <3>3. pages'[p].at = pages[p].at /\ pages'[p].late = pages[p].late
      BY <1>5, <2>3 DEF Receive
    <3> HIDE DEF q
    <3>4. (IF Tail(q) = <<>> THEN Head(q) ELSE Last(Tail(q))) = Last(q)
      BY <3>1, LastOfTail
    <3>5. Shows(p)' = Shows(p)
      BY <3>1, <3>2, <3>4 DEF Shows, q
    <3> QED BY <3>3, <3>5 DEF ShowInv, UpToDate
  <2>4. CASE Leave(p)
    BY <1>5, <2>4 DEF Leave, Closed
  <2> QED BY <2>1, <2>2, <2>3, <2>4
<1>7. UpToDate'
  BY <1>2, <1>4, <1>6 DEF ShowInv, UpToDate
<1> QED BY <1>3, <1>7 DEF ShowInv

LEMMA ShowStep == TypeOK /\ ShowInv /\ [Next]_vars => ShowInv'
<1> SUFFICES ASSUME TypeOK, ShowInv, [Next]_vars PROVE ShowInv'
  OBVIOUS
<1> USE DEF outside, session, threads
<1>1. ASSUME NEW r \in Roms \cup {None}, RetroArchChanges(r) PROVE ShowInv'
  BY <1>1, QuietKeeps DEF RetroArchChanges
<1>2. ASSUME NEW b \in Verbs \cup {Mod}, Touch(b) PROVE ShowInv'
  BY <1>2, QuietKeeps DEF Touch
<1>3. CASE PadPoll
  BY <1>3, QuietKeeps DEF PadPoll
<1>4. ASSUME NEW w \in Workers, AskScheduler(w) \/ Acquire(w) \/ Build(w) PROVE ShowInv'
  BY <1>4, QuietKeeps DEF AskScheduler, Acquire, Build
<1>5. CASE UNCHANGED vars
  BY <1>5, QuietKeeps DEF vars
<1> QED BY <1>1, <1>2, <1>3, <1>4, <1>5, LinkShows, LoopShows, PagesShow DEF Next

\* SSEBroadcaster.broadcast and subscribe, _handle_rom_info and switch_game: a
\* page that has read its queue shows the server's state once all events are
\* handled, however slow it was, unless a push fell between its fetch and its
\* subscription.
THEOREM PagesEndUpToDate == Spec => []LastStateArrives
<1>1. TypeOK /\ ShowInv => LastStateArrives
  <2> SUFFICES ASSUME TypeOK, ShowInv, Free, events = <<>>, NEW p \in Pages,
                      pages[p].at = "open", ~pages[p].late
               PROVE  State = Shows(p)
    BY DEF LastStateArrives, Shows
  <2>1. ~Unnamed
    BY DEF ShowInv, RomFirst, Free
  <2> QED BY <2>1 DEF ShowInv, UpToDate
<1> QED BY <1>1, ShowInit, ShowStep, TypeCorrect, PTL DEF Spec
================================================================================
