-------------------------- MODULE RetroArchLinkProofs --------------------------
(***************************************************************************)
(* Theorems about the link to RetroArch: for snapshots of any shape, any   *)
(* thresholds and bounds, and however often RetroArch stalls.              *)
(*                                                                         *)
(* As long as no drain has left an answer on its way, at most one command  *)
(* or reply is on the socket, and only while a thread holds the lock: it   *)
(* is that thread's own.  So a load reaches RetroArch only inside its own  *)
(* exchange, at whose end state_version is bumped, and as long as it is    *)
(* still to be executed the poller has a resync before it, or has taken    *)
(* its last snapshot too early.                                            *)
(***************************************************************************)
EXTENDS RetroArchLink, SequenceTheorems, TLAPS

Whats    == {"version", "status", "wide", "narrow", "load"}
Commands == [what : Whats, live : BOOLEAN, heard : BOOLEAN]
Replies  == [what : Whats, live : BOOLEAN, shows : Nat]

\* Where each thread can be.
Places(t) == CASE t = "connect" -> {"away", "version", "status", "done"}
               [] t = "poll"    -> {"away", "read", "closes", "stopped"}
               [] t = "status"  -> {"away", "status"}
               [] OTHER         -> {"away", "pre", "fire", "settle", "check"}
Asking == {"version", "status", "read", "pre", "fire", "check"}

SocketOK == /\ cmds \in Seq(Commands) /\ buffer \in Seq(Replies)
            /\ lock = None \/ lock \in Threads
            /\ phase \in [Threads -> {"ready", "waits", "drains"}]
ThreadsOK == /\ DOMAIN at = Threads /\ \A t \in Threads : at[t] \in Places(t)
             /\ linked \in BOOLEAN /\ bumped \in BOOLEAN /\ loads \in Nat
PollerOK == /\ shot \in Seq(Replies) /\ Len(shot) < Len(Cluster)
            /\ fails \in Nat /\ retries \in Nat
            /\ prev \in SUBSET Nat
RetroArchOK == /\ ra \in {"runs", "stalled", "gone"} /\ stalls \in Nat /\ epoch \in Nat
               /\ pending \in BOOLEAN /\ slot \in BOOLEAN /\ early \in BOOLEAN
               /\ late \subseteq {"answer", "load"} /\ wrong \in BOOLEAN
TypeOK == SocketOK /\ ThreadsOK /\ PollerOK /\ RetroArchOK

\* The lock is held by the one thread whose exchange is under way.
Held == /\ \A t \in Threads : phase[t] # "ready" => lock = t
        /\ lock # None => phase[lock] # "ready" /\ at[lock] \in Asking

\* What is on the socket is the holder's own.
OneOnTheWay ==
    "answer" \notin late =>
        /\ Len(cmds) + Len(buffer) <= IF lock = None THEN 0 ELSE 1
        /\ \A i \in 1 .. Len(cmds) :
              /\ cmds[i].live /\ cmds[i].heard
              /\ cmds[i].what = "load" => at[lock] = "fire"
        /\ \A i \in 1 .. Len(buffer) : buffer[i].live
        /\ ~wrong

\* Before the link is up nothing is polled, and it is not up without a game.
Linking == /\ linked => epoch # 0
           /\ ~linked => at["poll"] = "away" /\ prev = {} /\ shot = <<>>
           /\ \A i \in 1 .. Len(buffer) : buffer[i].shows <= epoch

\* A thread is between sending a load and bumping state_version.
Firing == lock = "load" /\ at["load"] = "fire"

\* All there is to compare is of now.
Current == /\ prev \in {{}, {epoch}}
           /\ \A i \in 1 .. Len(shot) : shot[i].shows = epoch
           /\ lock = "poll" => \A i \in 1 .. Len(buffer) : buffer[i].shows = epoch

\* A load still to be executed is one the poller is told of, or whose execution its
\* last snapshot did not wait for; and what it compares without a resync is of now.
Fresh ==
    late = {} =>
        /\ pending => Firing \/ bumped \/ early
        /\ ~bumped /\ ~Firing /\ ~early => Current

LinkInv == TypeOK /\ Held /\ OneOnTheWay /\ Linking /\ Fresh
-----------------------------------------------------------------------------
(* Sequences and sets. *)

LEMMA FunctionIsSeq == ASSUME NEW S, NEW n \in Nat, NEW h \in [1 .. n -> S] PROVE h \in Seq(S)
<1>1. [i \in 1 .. n |-> h[i]] \in Seq(S)
  OBVIOUS
<1> QED BY <1>1

\* Orphans and Unheard keep a sequence's length, and of its elements all but a flag.
LEMMA OrphansOfCommands ==
    ASSUME NEW q \in Seq(Commands)
    PROVE  Orphans(q) \in Seq(Commands) /\ Len(Orphans(q)) = Len(q)
<1>1. DOMAIN q = 1 .. Len(q) /\ Len(q) \in Nat
  OBVIOUS
<1>2. ASSUME NEW i \in 1 .. Len(q) PROVE [q[i] EXCEPT !.live = FALSE] \in Commands
  <2>1. q[i] \in Commands
    BY ElementOfSeq
  <2> QED BY <2>1 DEF Commands
<1>3. Orphans(q) \in [1 .. Len(q) -> Commands]
  BY <1>1, <1>2 DEF Orphans
<1>4. Orphans(q) \in Seq(Commands)
  BY <1>1, <1>3, FunctionIsSeq
<1> QED BY <1>1, <1>3, <1>4, LenProperties

LEMMA OrphansOfReplies ==
    ASSUME NEW q \in Seq(Replies)
    PROVE  /\ Orphans(q) \in Seq(Replies) /\ Len(Orphans(q)) = Len(q)
           /\ \A i \in 1 .. Len(q) : Orphans(q)[i].shows = q[i].shows
<1>1. DOMAIN q = 1 .. Len(q) /\ Len(q) \in Nat
  OBVIOUS
<1>2. ASSUME NEW i \in 1 .. Len(q)
      PROVE  /\ [q[i] EXCEPT !.live = FALSE] \in Replies
             /\ [q[i] EXCEPT !.live = FALSE].shows = q[i].shows
  <2>1. q[i] \in Replies
    BY ElementOfSeq
  <2> QED BY <2>1 DEF Replies
<1>3. Orphans(q) \in [1 .. Len(q) -> Replies]
  BY <1>1, <1>2 DEF Orphans
<1>4. Orphans(q) \in Seq(Replies)
  BY <1>1, <1>3, FunctionIsSeq
<1>5. \A i \in 1 .. Len(q) : Orphans(q)[i].shows = q[i].shows
  BY <1>1, <1>2 DEF Orphans
<1> QED BY <1>1, <1>3, <1>4, <1>5, LenProperties

LEMMA UnheardCommands ==
    ASSUME NEW q \in Seq(Commands)
    PROVE  Unheard(q) \in Seq(Commands) /\ Len(Unheard(q)) = Len(q)
<1>1. DOMAIN q = 1 .. Len(q) /\ Len(q) \in Nat
  OBVIOUS
<1>2. ASSUME NEW i \in 1 .. Len(q) PROVE [q[i] EXCEPT !.heard = FALSE] \in Commands
  <2>1. q[i] \in Commands
    BY ElementOfSeq
  <2> QED BY <2>1 DEF Commands
<1>3. Unheard(q) \in [1 .. Len(q) -> Commands]
  BY <1>1, <1>2 DEF Unheard
<1>4. Unheard(q) \in Seq(Commands)
  BY <1>1, <1>3, FunctionIsSeq
<1> QED BY <1>1, <1>3, <1>4, LenProperties

\* A sequence without elements.
LEMMA NoElements ==
    ASSUME NEW S, NEW q \in Seq(S)
    PROVE  Len(q) = 0 <=> q = <<>>
BY EmptySeq

\* What a snapshot shows is a set of numbers, one for each of its reads.
LEMMA EpochsAre ==
    ASSUME NEW s \in Seq(Replies)
    PROVE  /\ Epochs(s) \in SUBSET Nat
           /\ \A i \in 1 .. Len(s) : s[i].shows \in Epochs(s)
           /\ \A n : (\A i \in 1 .. Len(s) : s[i].shows = n) => Epochs(s) \subseteq {n}
<1>1. DOMAIN s = 1 .. Len(s)
  OBVIOUS
<1>2. Epochs(s) = {s[i].shows : i \in 1 .. Len(s)}
  BY <1>1 DEF Epochs
<1>3. \A i \in 1 .. Len(s) : s[i].shows \in Nat
  <2>1. \A i \in 1 .. Len(s) : s[i] \in Replies
    BY ElementOfSeq
  <2> QED BY <2>1 DEF Replies
<1> QED BY <1>2, <1>3

-----------------------------------------------------------------------------
(* What an exchange leaves behind. *)

LEMMA ThreadsAre == Threads = {"connect", "poll", "status", "load"}
BY DEF Threads

\* A step by which the exchange of t ends leaves nothing on the socket, as long
\* as no answer is left on its way, and the answer it took was its own.
Freed(t) ==
    /\ SocketOK' /\ lock' = None /\ \A u \in Threads : phase'[u] = "ready"
    /\ lock = t /\ at[t] \in Asking
    /\ late \subseteq late' /\ late' \subseteq {"answer", "load"} /\ wrong' \in BOOLEAN
    /\ "answer" \notin late' => cmds' = <<>> /\ buffer' = <<>> /\ ~wrong'
    /\ \A i \in 1 .. Len(buffer') : buffer'[i].shows <= epoch

LEMMA DrainsFree ==
    ASSUME LinkInv, NEW t \in Threads, Drains(t)
    PROVE  Freed(t)
<1> USE DEF LinkInv
<1>1. cmds \in Seq(Commands) /\ Len(cmds) \in Nat /\ DOMAIN cmds = 1 .. Len(cmds)
  BY DEF TypeOK, SocketOK
<1>2. SocketOK'
  BY <1>1, OrphansOfCommands DEF SocketOK, TypeOK, Drains, Drained
<1>3. lock' = None /\ lock = t /\ late \subseteq late' /\ wrong' = wrong /\ buffer' = <<>>
  BY DEF Drains, Drained
<1>4. \A u \in Threads : phase'[u] = "ready"
  BY DEF Drains, Held, TypeOK, SocketOK
<1>5. at[t] \in Asking /\ wrong' \in BOOLEAN
  BY <1>3, NoThread DEF Held, TypeOK, RetroArchOK
<1>6. late' \subseteq {"answer", "load"}
  BY DEF Drains, TypeOK, RetroArchOK
<1>7. ASSUME "answer" \notin late' PROVE cmds' = <<>> /\ ~wrong'
  <2>1. "answer" \notin late /\ \A d \in OnItsWay : ~d.heard
    BY <1>7 DEF Drains
  <2>2. \A i \in 1 .. Len(cmds) : cmds[i].heard
    BY <2>1 DEF OneOnTheWay
  <2>3. \A i \in 1 .. Len(cmds) : FALSE
    BY <2>1, <2>2, <1>1 DEF OnItsWay
  <2>4. Len(cmds) = 0
    BY <2>3, <1>1
  <2>5. cmds' \in Seq(Commands) /\ Len(cmds') = 0
    BY <2>4, <1>1, OrphansOfCommands DEF Drains
  <2>6. cmds' = <<>>
    BY <2>5, NoElements
  <2> QED BY <2>6, <2>1, <1>3 DEF OneOnTheWay
<1>8. \A i \in 1 .. Len(buffer') : buffer'[i].shows <= epoch
  BY <1>3
<1> QED BY <1>2, <1>3, <1>4, <1>5, <1>6, <1>7, <1>8 DEF Freed

LEMMA TakesFree ==
    ASSUME LinkInv, NEW t \in Threads, Takes(t)
    PROVE  Freed(t)
<1> USE DEF LinkInv
<1>1. /\ cmds \in Seq(Commands) /\ buffer \in Seq(Replies) /\ buffer # <<>>
      /\ Len(cmds) \in Nat /\ Len(buffer) \in Nat /\ Len(buffer) # 0
  BY EmptySeq DEF TypeOK, SocketOK, Takes
<1>2. /\ Tail(buffer) \in Seq(Replies) /\ Len(Tail(buffer)) = Len(buffer) - 1
      /\ \A i \in 1 .. Len(Tail(buffer)) : Tail(buffer)[i] = buffer[i + 1]
      /\ Head(buffer) = buffer[1] /\ Head(buffer) \in Replies
  BY <1>1, HeadTailProperties
<1>3. /\ buffer' \in Seq(Replies) /\ Len(buffer') = Len(buffer) - 1
      /\ \A i \in 1 .. Len(buffer') : buffer'[i].shows = buffer[i + 1].shows
  <2> DEFINE rest == Tail(buffer)
  <2>1. rest \in Seq(Replies) /\ Len(rest) = Len(buffer) - 1 /\ buffer' = Orphans(rest)
    BY <1>2 DEF Takes
  <2>2. \A i \in 1 .. Len(rest) : rest[i] = buffer[i + 1]
    BY <1>2
  <2> HIDE DEF rest
  <2> QED BY <2>1, <2>2, OrphansOfReplies
<1>4. cmds' \in Seq(Commands) /\ Len(cmds') = Len(cmds)
  BY <1>1, OrphansOfCommands DEF Takes
<1>5. lock = t /\ lock' = None /\ late' = late /\ wrong' = (wrong \/ ~Head(buffer).live)
  BY DEF Takes
<1>6. SocketOK'
  BY <1>3, <1>4, <1>5 DEF SocketOK, TypeOK, Takes
<1>7. \A u \in Threads : phase'[u] = "ready"
  BY DEF Takes, Held, TypeOK, SocketOK
<1>8. at[t] \in Asking /\ wrong' \in BOOLEAN /\ late' \subseteq {"answer", "load"}
  BY <1>5, <1>2, NoThread DEF Held, TypeOK, RetroArchOK, Replies
<1>9. ASSUME "answer" \notin late' PROVE cmds' = <<>> /\ buffer' = <<>> /\ ~wrong'
  <2>1. Len(cmds) + Len(buffer) <= 1 /\ ~wrong /\ buffer[1].live
    BY <1>9, <1>5, <1>1, NoThread DEF OneOnTheWay
  <2>2. Len(cmds') = 0 /\ Len(buffer') = 0
    BY <2>1, <1>1, <1>3, <1>4
  <2> QED BY <2>1, <2>2, <1>2, <1>3, <1>4, <1>5, NoElements
<1>10. \A i \in 1 .. Len(buffer') : buffer'[i].shows <= epoch
  <2> SUFFICES ASSUME NEW i \in 1 .. Len(buffer') PROVE buffer'[i].shows <= epoch
    OBVIOUS
  <2>1. i + 1 \in 1 .. Len(buffer)
    BY <1>1, <1>3
  <2> QED BY <2>1, <1>3 DEF Linking
<1> QED BY <1>3, <1>5, <1>6, <1>7, <1>8, <1>9, <1>10 DEF Freed

\* What a thread takes or misses is the end of its exchange.
LEMMA EndsFree ==
    ASSUME LinkInv, NEW t \in Threads, Answered(t) \/ Raised(t)
    PROVE  Freed(t)
BY DrainsFree, TakesFree DEF Answered, Raised

\* The answer a thread takes.
LEMMA AnswerIs ==
    ASSUME LinkInv, NEW t \in Threads, Answered(t)
    PROVE  /\ Head(buffer) \in Replies /\ Head(buffer).shows <= epoch
           /\ Head(buffer) = buffer[1] /\ 1 \in 1 .. Len(buffer)
<1>1. buffer \in Seq(Replies) /\ buffer # <<>>
  BY DEF Answered, Takes, LinkInv, TypeOK, SocketOK
<1>2. Len(buffer) \in Nat \ {0}
  BY <1>1, EmptySeq
<1>3. Head(buffer) = buffer[1] /\ Head(buffer) \in Replies
  BY <1>1
<1> QED BY <1>2, <1>3 DEF LinkInv, Linking
-----------------------------------------------------------------------------
(* The invariant, step by step. *)

\* A thread moves to where it can be.
LEMMA GoesTo ==
    ASSUME ThreadsOK, NEW t \in Threads, NEW s \in Places(t), Goes(t, s)
    PROVE  /\ DOMAIN at' = Threads /\ \A u \in Threads : at'[u] \in Places(u)
           /\ at'[t] = s /\ \A u \in Threads : u # t => at'[u] = at[u]
BY DEF ThreadsOK, Goes

\* An exchange has ended.
LEMMA EndKeeps ==
    ASSUME LinkInv, NEW t \in Threads, Freed(t), ThreadsOK', PollerOK',
           UNCHANGED <<net, slot>>, early' \in BOOLEAN,
           late = {} => /\ pending => bumped' \/ early'
                        /\ ~bumped' /\ ~early' => Current',
           linked' => epoch # 0,
           ~linked' => at'["poll"] = "away" /\ prev' = {} /\ shot' = <<>>
    PROVE  LinkInv'
<1> USE DEF LinkInv
<1>1. TypeOK'
  BY DEF TypeOK, Freed, RetroArchOK, net
<1>2. Held'
  BY DEF Held, Freed
<1>3. OneOnTheWay'
  <2> SUFFICES ASSUME "answer" \notin late'
               PROVE  cmds' = <<>> /\ buffer' = <<>> /\ ~wrong' /\ lock' = None
    BY DEF OneOnTheWay
  <2> QED BY DEF Freed
<1>4. Linking'
  BY DEF Linking, Freed, net
<1>5. Fresh'
  BY DEF Fresh, Freed, Current, net
<1> QED BY <1>1, <1>2, <1>3, <1>4, <1>5

\* It has ended and no snapshot was completed or read on.
LEMMA EndsKeep ==
    ASSUME LinkInv, NEW t \in Threads, Freed(t), ThreadsOK', PollerOK',
           UNCHANGED Others, prev' = prev, shot' \in {shot, <<>>},
           ~bumped' => ~bumped /\ ~Firing,
           linked' => epoch # 0, ~linked' => ~linked /\ at'["poll"] = "away"
    PROVE  LinkInv'
<1>1. lock' = None /\ late \subseteq late' /\ UNCHANGED <<net, slot, early>>
  BY DEF Freed, Others
<1>2. late = {} => /\ pending => bumped' \/ early'
                   /\ ~bumped' /\ ~early' => Current'
  <2> SUFFICES ASSUME late = {}, ~bumped'
               PROVE  (pending => early) /\ (~early => Current')
    BY <1>1
  <2>1. (pending => early) /\ (~early => Current)
    BY DEF LinkInv, Fresh
  <2>2. lock' # "poll" /\ Len(<<>>) = 0
    BY <1>1, NoThread DEF Threads
  <2> QED BY <1>1, <2>1, <2>2 DEF Current, net
<1>3. ~linked' => at'["poll"] = "away" /\ prev' = {} /\ shot' = <<>>
  BY DEF LinkInv, Linking
<1>4. early' \in BOOLEAN
  BY <1>1 DEF LinkInv, TypeOK, RetroArchOK
<1> QED BY <1>1, <1>2, <1>3, <1>4, EndKeeps

\* A thread that waits for no answer goes on to something else.
LEMMA BeginKeeps ==
    ASSUME LinkInv, NEW t \in Threads \ {"poll"}, at[t] \in {"away", "settle"},
           NEW s \in Places(t) \ {"fire"}, Goes(t, s), loads' \in Nat,
           slot' \in BOOLEAN,
           UNCHANGED <<net, early, sock, phase, linked, poller, bumped, late, wrong>>
    PROVE  LinkInv'
<1> USE DEF LinkInv
<1>1. /\ DOMAIN at' = Threads /\ \A u \in Threads : at'[u] \in Places(u)
      /\ at'[t] = s /\ \A u \in Threads : u # t => at'[u] = at[u]
  BY GoesTo DEF TypeOK
<1>2. lock # t
  BY NoThread DEF Held, Asking, TypeOK, SocketOK
<1>3. at'["poll"] = at["poll"]
  BY <1>1, ThreadsAre
<1>4. TypeOK'
  BY <1>1 DEF TypeOK, SocketOK, ThreadsOK, PollerOK, RetroArchOK, net, sock, poller
<1>5. lock' = lock /\ phase' = phase /\ (lock # None => at'[lock] = at[lock])
  BY <1>1, <1>2 DEF sock, TypeOK, SocketOK
<1>6. Held'
  BY <1>5 DEF Held
<1>7. OneOnTheWay'
  <2> SUFFICES ASSUME "answer" \notin late' PROVE OneOnTheWay'
    BY DEF OneOnTheWay
  <2>1. "answer" \notin late /\ cmds' = cmds /\ buffer' = buffer /\ wrong' = wrong
    BY DEF sock
  <2>2. \A i \in 1 .. Len(cmds) : lock # None
    BY <2>1, NoThread DEF OneOnTheWay, TypeOK, SocketOK
  <2> QED BY <2>1, <2>2, <1>5 DEF OneOnTheWay
<1>8. Linking'
  BY <1>3 DEF Linking, sock, poller, net
<1>9. Firing' = Firing
  BY <1>1, <1>2, <1>5 DEF Firing, Threads
<1>10. Fresh'
  BY <1>9 DEF Fresh, Current, sock, poller, net
<1> QED BY <1>4, <1>6, <1>7, <1>8, <1>10

LEMMA BeginsKeep ==
    ASSUME LinkInv, ConnectTries \/ CheckRom \/ LoadBegins \/ LoadSettles
    PROVE  LinkInv'
<1> USE DEF Others
<1>1. CASE ConnectTries
  <2>1. "version" \in Places("connect") \ {"fire"} /\ "connect" \in Threads \ {"poll"}
    BY DEF Places, Threads
  <2> QED BY <1>1, <2>1, BeginKeeps
         DEF ConnectTries, LinkInv, TypeOK, ThreadsOK, RetroArchOK
<1>2. CASE CheckRom
  <2>1. "status" \in Places("status") \ {"fire"} /\ "status" \in Threads \ {"poll"}
    BY DEF Places, Threads
  <2> QED BY <1>2, <2>1, BeginKeeps
         DEF CheckRom, LinkInv, TypeOK, ThreadsOK, RetroArchOK
<1>3. CASE LoadBegins
  <2>1. "pre" \in Places("load") \ {"fire"} /\ "load" \in Threads \ {"poll"}
    BY DEF Places, Threads
  <2>2. loads' \in Nat
    BY <1>3 DEF LoadBegins, LinkInv, TypeOK, ThreadsOK
  <2> QED BY <1>3, <2>1, <2>2, BeginKeeps DEF LoadBegins
<1>4. CASE LoadSettles
  <2>1. "check" \in Places("load") \ {"fire"} /\ "load" \in Threads \ {"poll"}
    BY DEF Places, Threads
  <2>2. slot' \in BOOLEAN /\ loads' \in Nat
    BY <1>4 DEF LoadSettles, LinkInv, TypeOK, ThreadsOK, RetroArchOK
  <2> QED BY <1>4, <2>1, <2>2, BeginKeeps DEF LoadSettles
<1> QED BY <1>1, <1>2, <1>3, <1>4

\* Connecting, the ROM check and a load: what ends an exchange of theirs.
LEMMA ConnectKeeps ==
    ASSUME LinkInv, ConnectFails \/ ConnectHears \/ ConnectEnds
    PROVE  LinkInv'
<1> USE DEF LinkInv
<1>1. Freed("connect")
  BY EndsFree DEF ConnectFails, ConnectHears, ConnectEnds, Threads
<1>2. /\ UNCHANGED <<Others, poller, bumped, loads>> /\ PollerOK'
      /\ prev' = prev /\ shot' = shot
  BY DEF ConnectFails, ConnectHears, ConnectEnds, poller, TypeOK, PollerOK
<1>3. ~Firing
  BY <1>1 DEF Freed, Firing
<1>4. /\ ThreadsOK'
      /\ linked' => epoch # 0
      /\ ~linked' => ~linked /\ at'["poll"] = "away"
  <2>1. CASE ConnectFails \/ ConnectHears
    <3>1. PICK s \in Places("connect") : Goes("connect", s)
      BY <2>1 DEF ConnectFails, ConnectHears, Places
    <3>2. linked' = linked
      BY <2>1 DEF ConnectFails, ConnectHears
    <3>3. ThreadsOK' /\ at'["poll"] = at["poll"]
      BY <1>2, <3>1, <3>2, GoesTo DEF TypeOK, ThreadsOK, Threads
    <3> QED BY <3>2, <3>3 DEF Linking
  <2>2. CASE ConnectEnds
    <3>1. Head(buffer) \in Replies /\ Head(buffer).shows <= epoch
      BY <2>2, AnswerIs DEF ConnectEnds, Threads
    <3>2. CASE Head(buffer).shows = 0
      <4>1. Goes("connect", "away") /\ linked' = linked
        BY <2>2, <3>2 DEF ConnectEnds
      <4>2. ThreadsOK' /\ at'["poll"] = at["poll"]
        BY <1>2, <4>1, GoesTo DEF TypeOK, ThreadsOK, Threads, Places
      <4> QED BY <4>1, <4>2 DEF Linking
    <3>3. CASE Head(buffer).shows # 0
      <4>1. linked' = TRUE /\ at' = [at EXCEPT !["connect"] = "done", !["poll"] = "read"]
        BY <2>2, <3>3 DEF ConnectEnds
      <4>2. ThreadsOK'
        BY <1>2, <4>1 DEF TypeOK, ThreadsOK, Threads, Places
      <4>3. epoch # 0
        BY <3>1, <3>3 DEF Replies, TypeOK, RetroArchOK
      <4> QED BY <4>1, <4>2, <4>3
    <3> QED BY <3>2, <3>3
  <2> QED BY <2>1, <2>2
<1>5. /\ "connect" \in Threads /\ shot' \in {shot, <<>>}
      /\ ~bumped' => ~bumped /\ ~Firing
      /\ UNCHANGED Others
  BY <1>2, <1>3 DEF Threads
<1> QED BY <1>1, <1>2, <1>4, <1>5, EndsKeep

LEMMA RomKeeps == ASSUME LinkInv, RomChecked PROVE LinkInv'
<1> USE DEF LinkInv
<1>1. Freed("status")
  BY EndsFree DEF RomChecked, Threads
<1>2. /\ UNCHANGED <<Others, linked, poller, bumped, loads>> /\ PollerOK'
      /\ prev' = prev /\ shot' = shot
  BY DEF RomChecked, poller, TypeOK, PollerOK
<1>3. ~Firing
  BY <1>1 DEF Freed, Firing
<1>4. "away" \in Places("status") /\ Goes("status", "away")
  BY DEF RomChecked, Places
<1>5. ThreadsOK' /\ at'["poll"] = at["poll"]
  BY <1>2, <1>4, GoesTo DEF TypeOK, ThreadsOK, Threads
<1> QED BY <1>1, <1>2, <1>3, <1>5, EndsKeep DEF Threads, Linking

LEMMA LoadKeeps ==
    ASSUME LinkInv, LoadReads \/ LoadRaises \/ LoadFired \/ LoadChecks
    PROVE  LinkInv'
<1> USE DEF LinkInv
<1>1. Freed("load")
  BY EndsFree DEF LoadReads, LoadRaises, LoadFired, LoadChecks, Threads, Raised
<1>2. /\ UNCHANGED <<Others, linked, poller, loads>> /\ PollerOK'
      /\ prev' = prev /\ shot' = shot
  BY DEF LoadReads, LoadRaises, LoadFired, LoadChecks, poller, TypeOK, PollerOK
<1>3. bumped' \in BOOLEAN /\ (~bumped' => ~bumped /\ ~Firing)
  <2>1. CASE LoadReads \/ LoadRaises \/ LoadChecks
    <3>1. at["load"] # "fire"
      BY <2>1 DEF LoadReads, LoadRaises, LoadChecks
    <3>2. bumped' = bumped \/ bumped' = (bumped \/ BumpsAt = "pre")
      BY <2>1 DEF LoadReads, LoadRaises, LoadChecks
    <3>3. BumpsAt # "pre" /\ bumped \in BOOLEAN
      BY DEF BumpsAt, TypeOK, ThreadsOK
    <3> QED BY <3>1, <3>2, <3>3 DEF Firing
  <2>2. CASE LoadFired
    BY <2>2 DEF LoadFired, BumpsAt
  <2> QED BY <2>1, <2>2
<1>4. ThreadsOK' /\ at'["poll"] = at["poll"]
  <2>1. CASE at' = at
    BY <1>2, <1>3, <2>1 DEF TypeOK, ThreadsOK
  <2>2. CASE \E s \in Places("load") : Goes("load", s)
    BY <1>2, <1>3, <2>2, GoesTo DEF TypeOK, ThreadsOK, Threads
  <2> QED
    BY <2>1, <2>2 DEF LoadReads, LoadRaises, LoadFired, LoadChecks, Places, Goes
<1> QED BY <1>1, <1>2, <1>3, <1>4, EndsKeep DEF Threads, Linking
\* The poller takes a reply: the snapshot so far, with one reply more.
LEMMA ReadIs ==
    ASSUME LinkInv, Answered("poll")
    PROVE  /\ Read \in Seq(Replies) /\ Len(Read) = Len(shot) + 1
           /\ Len(Read) \in Nat
           /\ \A i \in 1 .. Len(shot) : Read[i] = shot[i]
           /\ Read[Len(Read)] = Head(buffer) /\ Head(buffer).shows \in Nat
<1>1. Head(buffer) \in Replies /\ Head(buffer) = buffer[1] /\ 1 \in 1 .. Len(buffer)
  BY AnswerIs DEF Threads
<1>2. shot \in Seq(Replies) /\ Len(shot) \in Nat
  BY DEF LinkInv, TypeOK, PollerOK
<1>3. Head(buffer).shows \in Nat
  BY <1>1 DEF Replies
<1>4. /\ Read \in Seq(Replies) /\ Len(Read) = Len(shot) + 1
      /\ \A i \in 1 .. Len(shot) : Read[i] = shot[i]
      /\ Read[Len(shot) + 1] = Head(buffer)
  BY <1>1, <1>2, AppendProperties DEF Read
<1> QED BY <1>2, <1>3, <1>4

\* As long as nothing is late: a snapshot begun after the last one without a load
\* in between shows what there is now, and so did the last one if it was not early.
LEMMA ReadIsCurrent ==
    ASSUME LinkInv, Answered("poll"), late = {}, ~bumped, ~early
    PROVE  /\ Epochs(Read) = {epoch} /\ prev \in {{}, {epoch}}
           /\ \A i \in 1 .. Len(Read) : Read[i].shows = epoch
<1>1. lock = "poll"
  BY DEF Answered, Takes
<1>2. Current /\ Head(buffer).shows = epoch
  <2>1. Current
    BY <1>1 DEF LinkInv, Fresh, Firing
  <2>2. Head(buffer) = buffer[1] /\ 1 \in 1 .. Len(buffer)
    BY AnswerIs DEF Threads
  <2> QED BY <1>1, <2>1, <2>2 DEF Current
<1>3. \A i \in 1 .. Len(Read) : Read[i].shows = epoch
  <2> SUFFICES ASSUME NEW i \in 1 .. Len(Read) PROVE Read[i].shows = epoch
    OBVIOUS
  <2>1. Len(shot) \in Nat
    BY DEF LinkInv, TypeOK, PollerOK
  <2>2. CASE i = Len(Read)
    BY <1>2, <2>2, ReadIs
  <2>3. CASE i # Len(Read)
    <3>1. i \in 1 .. Len(shot)
      BY <2>1, <2>3, ReadIs
    <3> QED BY <3>1, <1>2, ReadIs DEF Current
  <2> QED BY <2>2, <2>3
<1>4. Epochs(Read) \subseteq {epoch} /\ Read[Len(Read)].shows \in Epochs(Read)
  <2>1. Len(Read) \in 1 .. Len(Read)
    <3>1. Len(shot) \in Nat
      BY DEF LinkInv, TypeOK, PollerOK
    <3> QED BY <3>1, ReadIs
  <2> QED BY <2>1, <1>3, ReadIs, EpochsAre
<1>5. Epochs(Read) = {epoch}
  BY <1>4
<1> QED BY <1>2, <1>3, <1>5 DEF Current

LEMMA PollEndsKeep ==
    ASSUME LinkInv, PollReads \/ PollSucceeds \/ PollFails
    PROVE  LinkInv'
<1> USE DEF LinkInv
<1>1. Freed("poll") /\ "poll" \in Threads
  BY EndsFree DEF PollReads, PollSucceeds, PollFails, Miss, Threads
<1>2. at["poll"] = "read" /\ linked /\ epoch # 0 /\ ~Firing /\ Len(shot) \in Nat
  BY <1>1 DEF PollReads, PollSucceeds, PollFails, Linking, Freed, Firing, TypeOK, PollerOK,
              ThreadsOK
<1>3. UNCHANGED <<net, slot, linked, loads>> /\ lock' = None /\ lock' # "poll"
  BY <1>1, NoThread DEF PollReads, PollSucceeds, PollFails, Others, Freed, Threads
<1>4. CASE PollReads
  <2>1. /\ Answered("poll") /\ shot' = Read /\ Len(Read) # Len(Cluster)
        /\ UNCHANGED <<at, prev, fails, retries, bumped, early>> /\ early \in BOOLEAN
    BY <1>4 DEF PollReads, Whole, Others, TypeOK, RetroArchOK
  <2>2. Len(Read) < Len(Cluster) /\ Read \in Seq(Replies)
    BY <2>1, <1>2, ReadIs, LinkAssumption DEF TypeOK, PollerOK
  <2>3. ThreadsOK' /\ PollerOK'
    BY <2>1, <2>2, <1>3 DEF TypeOK, ThreadsOK, PollerOK
  <2>4. late = {} => /\ pending => bumped' \/ early'
                     /\ ~bumped' /\ ~early' => Current'
    BY <2>1, <1>2, <1>3, ReadIsCurrent DEF Current, Fresh, net
  <2> QED BY <2>1, <2>3, <2>4, <1>1, <1>2, <1>3, EndKeeps
<1>5. CASE PollSucceeds
  <2>1. /\ Answered("poll") /\ shot' = <<>> /\ prev' = Epochs(Read)
        /\ bumped' = FALSE /\ fails' = 0 /\ retries' = 0 /\ at' = at
        /\ early' = (pending \/ Epochs(Read) # {epoch})
    BY <1>5 DEF PollSucceeds
  <2>2. Epochs(Read) \in SUBSET Nat
    BY <2>1, ReadIs, EpochsAre
  <2>3. ThreadsOK' /\ PollerOK' /\ Len(<<>>) = 0
    BY <2>1, <2>2, <1>3, EmptySeq, LinkAssumption DEF TypeOK, ThreadsOK, PollerOK
  <2>4. /\ pending => early'
        /\ ~early' => Epochs(Read) = {epoch}
    BY <2>1
  <2>5. ~early' => Current'
    <3> SUFFICES ASSUME ~early' PROVE Current'
      OBVIOUS
    <3>1. prev' = {epoch'} /\ shot' = <<>> /\ lock' # "poll"
      BY <2>1, <2>4, <1>3 DEF net
    <3> QED BY <3>1, <2>3 DEF Current
  <2>6. early' \in BOOLEAN
    BY <2>1 DEF TypeOK, RetroArchOK
  <2> QED BY <2>1, <2>3, <2>4, <2>5, <2>6, <1>1, <1>2, <1>3, EndKeeps
<1>6. CASE PollFails
  <2>1. /\ shot' = <<>> /\ prev' = prev /\ bumped' = bumped
        /\ fails' \in {fails + 1, 0} /\ retries' \in {retries + 1, retries}
        /\ at' = at \/ \E s \in Places("poll") : Goes("poll", s)
        /\ UNCHANGED Others
    BY <1>6 DEF PollFails, Places
  <2>2. ThreadsOK'
    BY <2>1, <1>1, <1>3, GoesTo DEF TypeOK, ThreadsOK
  <2>3. PollerOK'
    BY <2>1, EmptySeq, LinkAssumption DEF TypeOK, PollerOK
  <2> QED BY <2>1, <2>2, <2>3, <1>1, <1>2, <1>3, EndsKeep
<1> QED BY <1>4, <1>5, <1>6
\* What a thread asks.
LEMMA AsksIs ==
    ASSUME LinkInv, NEW t \in Threads, Asks(t) # None
    PROVE  /\ Asks(t) \in Whats /\ at[t] \in Asking
           /\ Asks(t) = "load" => at[t] = "fire"
<1>1. at[t] \in Places(t)
  BY DEF LinkInv, TypeOK, ThreadsOK
<1>2. CASE at[t] = "read"
  <2>1. Len(shot) + 1 \in 1 .. Len(Cluster) /\ Cluster \in Seq({"wide", "narrow"})
    BY LinkAssumption DEF LinkInv, TypeOK, PollerOK
  <2>2. Cluster[Len(shot) + 1] \in {"wide", "narrow"}
    BY <2>1, ElementOfSeq
  <2>3. Asks(t) = Cluster[Len(shot) + 1]
    BY <1>2 DEF Asks
  <2> QED BY <2>2, <2>3, <1>2 DEF Whats, Asking
<1>3. CASE at[t] \in {"version", "status", "pre", "check", "fire"}
  BY <1>3 DEF Asks, Whats, Asking
<1>4. CASE at[t] \notin {"read", "version", "status", "pre", "check", "fire"}
  BY <1>4 DEF Asks
<1> QED BY <1>2, <1>3, <1>4

LEMMA SendKeeps == ASSUME LinkInv, NEW t \in Threads, Sends(t) PROVE LinkInv'
<1> USE DEF LinkInv
<1> DEFINE c == [what |-> Asks(t), live |-> TRUE, heard |-> TRUE]
<1>1. /\ lock = None /\ phase[t] = "ready" /\ lock' = t /\ Asks(t) # None
      /\ phase' = [phase EXCEPT ![t] = "waits"]
      /\ cmds' = cmds \/ cmds' = Append(cmds, c)
      /\ UNCHANGED <<Others, buffer, at, linked, poller, bumped, loads, late, wrong>>
  BY DEF Sends
<1>2. /\ c \in Commands /\ c.live /\ c.heard /\ c.what = Asks(t) /\ at[t] \in Asking
      /\ Asks(t) = "load" => at[t] = "fire"
  BY <1>1, AsksIs DEF Commands
<1> HIDE DEF c
<1>3. cmds \in Seq(Commands) /\ Len(cmds) \in Nat /\ buffer \in Seq(Replies) /\ Len(buffer) \in Nat
  BY DEF TypeOK, SocketOK
<1>10. /\ Append(cmds, c) \in Seq(Commands) /\ Len(Append(cmds, c)) = Len(cmds) + 1
      /\ Append(cmds, c)[Len(cmds) + 1] = c
  <2>1. c \in Commands /\ cmds \in Seq(Commands)
    BY <1>2, <1>3
  <2> QED BY <2>1, AppendProperties
<1>4. cmds' \in Seq(Commands)
  BY <1>1, <1>3, <1>10
<1>5. TypeOK'
  BY <1>1, <1>4 DEF TypeOK, SocketOK, ThreadsOK, PollerOK, RetroArchOK, Others, net, poller
<1>6. Held'
  <2>1. phase \in [Threads -> {"ready", "waits", "drains"}]
    BY DEF TypeOK, SocketOK
  <2>2. \A u \in Threads : phase[u] = "ready"
    BY <1>1, NoThread DEF Held
  <2>3. phase'[t] = "waits" /\ \A u \in Threads : u # t => phase'[u] = "ready"
    BY <1>1, <2>1, <2>2
  <2> QED BY <2>3, <1>1, <1>2 DEF Held
<1>7. OneOnTheWay'
  <2> SUFFICES ASSUME "answer" \notin late' PROVE OneOnTheWay'
    BY DEF OneOnTheWay
  <2>1. Len(cmds) = 0 /\ Len(buffer) = 0 /\ ~wrong
    BY <1>1, <1>3 DEF OneOnTheWay
  <2>2. \/ Len(cmds') = 0
        \/ Len(cmds') = 1 /\ cmds'[1] = c
    BY <1>1, <2>1, <1>10
  <2>3. lock' # None /\ lock' = t /\ at' = at /\ Len(buffer') = 0 /\ ~wrong'
    BY <1>1, <2>1, NoThread
  <2>4. Len(cmds') + Len(buffer') <= 1
    BY <2>2, <2>3
  <2>5. ASSUME NEW i \in 1 .. Len(cmds')
        PROVE  /\ cmds'[i].live /\ cmds'[i].heard
               /\ cmds'[i].what = "load" => at'[lock'] = "fire"
    <3>1. cmds'[i] = c
      BY <2>2
    <3> QED BY <3>1, <1>2, <2>3
  <2>6. \A i \in 1 .. Len(buffer') : buffer'[i].live
    BY <2>3
  <2> QED BY <2>3, <2>4, <2>5, <2>6 DEF OneOnTheWay
<1>8. Linking'
  BY <1>1 DEF Linking, poller, Others, net
<1>9. Fresh'
  <2> SUFFICES ASSUME late = {}
               PROVE  /\ pending => bumped \/ early
                      /\ ~bumped /\ ~early => Current'
    BY <1>1 DEF Fresh, Others, net
  <2>1. Len(buffer) = 0
    BY <1>1, <1>3 DEF OneOnTheWay
  <2>2. ~Firing
    BY <1>1, NoThread DEF Firing, Threads
  <2> QED BY <2>1, <2>2, <1>1 DEF Fresh, Current, Others, net, poller
<1> QED BY <1>5, <1>6, <1>7, <1>8, <1>9

LEMMA ExpireKeeps == ASSUME LinkInv, NEW t \in Threads, Expires(t) PROVE LinkInv'
<1> USE DEF LinkInv
<1>1. /\ lock = t /\ phase' = [phase EXCEPT ![t] = "drains"]
      /\ UNCHANGED <<Others, sock, at, linked, poller, bumped, loads, late, wrong>>
  BY DEF Expires
<1>2. TypeOK'
  BY <1>1 DEF TypeOK, SocketOK, ThreadsOK, PollerOK, RetroArchOK, Others, net, sock, poller
<1>3. Held'
  BY <1>1, NoThread DEF Held, TypeOK, SocketOK, sock
<1>4. OneOnTheWay' /\ Linking' /\ Fresh'
  BY <1>1 DEF OneOnTheWay, Linking, Fresh, Current, Firing, sock, poller, Others, net
<1> QED BY <1>2, <1>3, <1>4

LEMMA EchoKeeps == ASSUME LinkInv, LoadEchoes PROVE LinkInv'
<1> USE DEF LinkInv
<1>1. /\ at["load"] = "fire" /\ lock = "load" /\ buffer # <<>> /\ buffer' = Tail(buffer)
      /\ phase' = [phase EXCEPT !["load"] = "drains"]
      /\ UNCHANGED <<Others, cmds, lock, at, late, wrong, linked, poller, bumped, loads>>
  BY DEF LoadEchoes
<1>2. /\ buffer' \in Seq(Replies) /\ Len(buffer') = Len(buffer) - 1 /\ Len(buffer) \in Nat
      /\ \A i \in 1 .. Len(buffer') : buffer'[i] = buffer[i + 1] /\ i + 1 \in 1 .. Len(buffer)
  <2>1. buffer \in Seq(Replies)
    BY DEF TypeOK, SocketOK
  <2> QED BY <2>1, <1>1, HeadTailProperties
<1>3. TypeOK'
  BY <1>1, <1>2 DEF TypeOK, SocketOK, ThreadsOK, PollerOK, RetroArchOK, Others, net, poller
<1>4. Held'
  BY <1>1 DEF Held, TypeOK, SocketOK, Asking, Threads
<1>5. OneOnTheWay'
  <2>1. Len(cmds) \in Nat
    BY DEF TypeOK, SocketOK
  <2>2. lock # None
    BY <1>1, NoThread DEF Threads
  <2> QED BY <2>1, <2>2, <1>1, <1>2 DEF OneOnTheWay
<1>6. Linking' /\ Fresh'
  BY <1>1, <1>2 DEF Linking, Fresh, Firing, poller, Others, net
<1> QED BY <1>3, <1>4, <1>5, <1>6

LEMMA ReconnectKeeps == ASSUME LinkInv, PollReconnects PROVE LinkInv'
<1> USE DEF LinkInv
<1>1. /\ lock = None /\ Goes("poll", "read") /\ buffer' = <<>> /\ cmds' = Unheard(cmds)
      /\ UNCHANGED <<Others, lock, phase, linked, poller, bumped, loads, late, wrong>>
      /\ at["poll"] = "closes"
  BY DEF PollReconnects
<1>2. cmds' \in Seq(Commands) /\ Len(cmds') = Len(cmds) /\ Len(cmds) \in Nat
  BY <1>1, UnheardCommands DEF TypeOK, SocketOK
<1>3. ThreadsOK'
  <2>1. "read" \in Places("poll") /\ "poll" \in Threads
    BY DEF Places, Threads
  <2> QED BY <1>1, <2>1, GoesTo DEF TypeOK, ThreadsOK
<1>4. TypeOK' /\ Len(buffer') = 0
  BY <1>1, <1>2, <1>3, EmptySeq DEF TypeOK, SocketOK, PollerOK, RetroArchOK, Others, net, poller
<1>5. Held'
  BY <1>1 DEF Held
<1>6. OneOnTheWay'
  <2> SUFFICES ASSUME "answer" \notin late' PROVE OneOnTheWay'
    BY DEF OneOnTheWay
  <2>1. Len(cmds) = 0 /\ ~wrong
    <3>1. Len(buffer) \in Nat
      BY DEF TypeOK, SocketOK
    <3> QED BY <1>1, <1>2, <3>1 DEF OneOnTheWay
  <2> QED BY <2>1, <1>1, <1>2, <1>4 DEF OneOnTheWay
<1>7. Linking' /\ Fresh'
  <2>1. linked
    BY <1>1 DEF Linking
  <2>2. ~Firing /\ ~Firing'
    BY <1>1, NoThread DEF Firing, Threads
  <2> QED BY <1>1, <1>4, <2>1, <2>2 DEF Linking, Fresh, Current, poller, Others, net
<1> QED BY <1>4, <1>5, <1>6, <1>7

\* RetroArch answers.
LEMMA ServeKeeps == ASSUME LinkInv, Serves PROVE LinkInv'
<1> USE DEF LinkInv
<1> DEFINE c == Head(cmds)
           r == [what |-> c.what, live |-> c.live, shows |-> epoch]
<1>1. /\ cmds # <<>> /\ pending' = (pending \/ c.what = "load")
      /\ buffer' = IF c.heard THEN Append(buffer, r) ELSE buffer
      /\ cmds' = Tail(cmds) /\ UNCHANGED <<ra, stalls, epoch, slot, early>>
      /\ UNCHANGED <<lock, at, phase, linked, poller, bumped, loads, late, wrong>>
  BY DEF Serves, Client
<1>2. /\ cmds \in Seq(Commands) /\ Len(cmds) \in Nat \ {0} /\ c = cmds[1] /\ c \in Commands
      /\ buffer \in Seq(Replies) /\ Len(buffer) \in Nat /\ epoch \in Nat
  BY <1>1, EmptySeq DEF TypeOK, SocketOK, RetroArchOK
<1>3. r \in Replies /\ r.shows = epoch /\ r.live = c.live
  BY <1>2 DEF Commands, Replies
<1>4. pending' \in BOOLEAN
  BY <1>1 DEF TypeOK, RetroArchOK
<1> HIDE DEF r
<1>5. /\ buffer' \in Seq(Replies)
      /\ \/ buffer' = buffer
         \/ /\ Len(buffer') = Len(buffer) + 1 /\ buffer'[Len(buffer) + 1] = r
            /\ \A i \in 1 .. Len(buffer) : buffer'[i] = buffer[i]
  BY <1>1, <1>2, <1>3, AppendProperties
<1>6. /\ cmds' \in Seq(Commands) /\ Len(cmds') = Len(cmds) - 1
      /\ \A i \in 1 .. Len(cmds') : cmds'[i] = cmds[i + 1] /\ i + 1 \in 1 .. Len(cmds)
  BY <1>1, <1>2, HeadTailProperties
<1> HIDE DEF c
<1>7. TypeOK'
  BY <1>1, <1>4, <1>5, <1>6 DEF TypeOK, SocketOK, ThreadsOK, PollerOK, RetroArchOK, poller
<1>8. Held'
  BY <1>1 DEF Held
<1>9. ASSUME "answer" \notin late
      PROVE  /\ lock \in Threads /\ Len(cmds) = 1 /\ Len(buffer) = 0 /\ c.live /\ c.heard
             /\ c.what = "load" => lock = "load" /\ at["load"] = "fire"
             /\ ~wrong
  <2>4. Len(cmds) + Len(buffer) <= IF lock = None THEN 0 ELSE 1
    BY <1>9 DEF OneOnTheWay
  <2>1. lock # None /\ Len(cmds) = 1 /\ Len(buffer) = 0
    <3>1. CASE lock = None
      BY <3>1, <2>4, <1>2
    <3>2. CASE lock # None
      <4>1. Len(cmds) + Len(buffer) <= 1
        BY <3>2, <2>4
      <4>2. Len(cmds) \in Nat \ {0} /\ Len(buffer) \in Nat
        BY <1>2
      <4>3. \A m \in Nat \ {0} : \A n \in Nat : m + n <= 1 => m = 1 /\ n = 0
        OBVIOUS
      <4>4. Len(cmds) = 1 /\ Len(buffer) = 0
        BY <4>1, <4>2, <4>3
      <4> QED BY <4>4, <3>2
    <3> QED BY <3>1, <3>2
  <2>2. /\ c.live /\ c.heard /\ ~wrong
        /\ c.what = "load" => at[lock] = "fire"
    BY <1>9, <1>2 DEF OneOnTheWay
  <2>3. at[lock] = "fire" => lock = "load"
    BY <2>1 DEF TypeOK, SocketOK, ThreadsOK, Places, Threads
  <2> QED BY <2>1, <2>2, <2>3 DEF TypeOK, SocketOK
<1>10. OneOnTheWay'
  <2> SUFFICES ASSUME "answer" \notin late PROVE OneOnTheWay'
    BY <1>1 DEF OneOnTheWay
  <2>1. Len(cmds') = 0 /\ Len(buffer') = 1 /\ buffer'[1] = r /\ lock # None
    BY <1>1, <1>2, <1>3, <1>5, <1>6, <1>9, NoThread, AppendProperties
  <2> QED BY <2>1, <1>1, <1>3, <1>9 DEF OneOnTheWay
<1>11. Linking'
  <2>1. \A i \in 1 .. Len(buffer') : buffer'[i].shows <= epoch
    <3> SUFFICES ASSUME NEW i \in 1 .. Len(buffer') PROVE buffer'[i].shows <= epoch
      OBVIOUS
    <3>1. \/ i \in 1 .. Len(buffer) /\ buffer'[i] = buffer[i]
          \/ buffer'[i] = r
      BY <1>2, <1>5
    <3> QED BY <3>1, <1>2, <1>3 DEF Linking
  <2> QED BY <2>1, <1>1 DEF Linking, poller
<1>12. Fresh'
  <2> SUFFICES ASSUME late = {} PROVE Fresh'
    BY <1>1 DEF Fresh
  <2>1. Firing' = Firing /\ (c.what = "load" => Firing)
    BY <1>1, <1>9 DEF Firing
  <2>2. \A i \in 1 .. Len(buffer') : buffer'[i].shows = epoch
    BY <1>2, <1>3, <1>5, <1>9
  <2> QED BY <2>1, <2>2, <1>1 DEF Fresh, Current, poller
<1> QED BY <1>7, <1>8, <1>10, <1>11, <1>12

\* It executes a load.
LEMMA ExecuteKeeps == ASSUME LinkInv, Executes PROVE LinkInv'
<1> USE DEF LinkInv
<1>1. /\ pending /\ pending' = FALSE /\ epoch' \in {epoch, epoch + 1} /\ epoch \in Nat
      /\ UNCHANGED <<ra, stalls, cmds, buffer, Client>>
  BY DEF Executes, TypeOK, RetroArchOK
<1>2. epoch' \in Nat /\ epoch <= epoch'
  BY <1>1
<1>3. TypeOK'
  BY <1>1, <1>2 DEF TypeOK, SocketOK, ThreadsOK, PollerOK, RetroArchOK, Client, poller
<1>4. Held' /\ OneOnTheWay'
  BY <1>1 DEF Held, OneOnTheWay, Client
<1>5. Linking'
  <2>1. \A i \in 1 .. Len(buffer) : buffer[i].shows \in Nat
    <3>1. \A i \in 1 .. Len(buffer) : buffer[i] \in Replies
      BY ElementOfSeq DEF TypeOK, SocketOK
    <3> QED BY <3>1 DEF Replies
  <2> QED BY <2>1, <1>1, <1>2 DEF Linking, Client, poller
<1>6. Fresh'
  BY <1>1 DEF Fresh, Firing, Client
<1> QED BY <1>3, <1>4, <1>5, <1>6

\* It stops and goes on answering, gets its game or exits.
LEMMA RetroArchKeeps ==
    ASSUME LinkInv, GameLoads \/ Stalls \/ Resumes \/ Exits
    PROVE  LinkInv'
<1> USE DEF LinkInv
<1>1. /\ UNCHANGED <<slot, early, buffer, lock, at, phase, linked, poller>>
      /\ UNCHANGED <<bumped, loads, late, wrong>>
      /\ cmds' \in {cmds, <<>>} /\ ra' \in {"runs", "stalled", "gone"}
      /\ epoch' = epoch \/ (epoch = 0 /\ epoch' = 1)
      /\ stalls' \in {stalls, stalls + 1}
  BY DEF GameLoads, Stalls, Resumes, Exits, Client, TypeOK, RetroArchOK
<1>9. pending' \in BOOLEAN /\ (pending' => pending)
  <2>1. pending \in BOOLEAN
    BY DEF TypeOK, RetroArchOK
  <2>2. CASE GameLoads \/ Stalls \/ Resumes
    <3>1. pending' = pending
      BY <2>2 DEF GameLoads, Stalls, Resumes
    <3> QED BY <2>1, <3>1
  <2>3. CASE Exits
    <3>1. pending' = FALSE
      BY <2>3 DEF Exits
    <3> QED BY <3>1
  <2> QED BY <2>2, <2>3
<1>2. /\ cmds' \in Seq(Commands) /\ Len(cmds') <= Len(cmds) /\ Len(cmds) \in Nat
      /\ Len(cmds') \in Nat
      /\ \A i \in 1 .. Len(cmds') : cmds'[i] = cmds[i] /\ i \in 1 .. Len(cmds)
  <2>1. cmds \in Seq(Commands) /\ Len(cmds) \in Nat
    BY DEF TypeOK, SocketOK
  <2>2. CASE cmds' = cmds
    BY <2>1, <2>2
  <2>3. CASE cmds' = <<>>
    <3>1. cmds' \in Seq(Commands) /\ Len(cmds') = 0
      BY <2>3, EmptySeq
    <3> QED BY <2>1, <3>1
  <2> QED BY <1>1, <2>2, <2>3
<1>3. epoch \in Nat /\ buffer \in Seq(Replies) /\ Len(buffer) \in Nat
  BY DEF TypeOK, SocketOK, RetroArchOK
<1>4. TypeOK'
  <2>1. epoch' \in Nat /\ stalls' \in Nat
    BY <1>1, <1>3 DEF TypeOK, RetroArchOK
  <2> QED BY <2>1, <1>1, <1>2, <1>9 DEF TypeOK, SocketOK, ThreadsOK, PollerOK, RetroArchOK, poller
<1>5. Held'
  BY <1>1 DEF Held
<1>6. OneOnTheWay'
  BY <1>1, <1>2, <1>3 DEF OneOnTheWay
<1>7. Linking'
  <2>1. \A i \in 1 .. Len(buffer) : buffer[i].shows \in Nat
    <3>1. \A i \in 1 .. Len(buffer) : buffer[i] \in Replies
      BY <1>3, ElementOfSeq
    <3> QED BY <3>1 DEF Replies
  <2> QED BY <2>1, <1>1, <1>3 DEF Linking, poller
<1>8. Fresh'
  <2>1. CASE epoch' = epoch
    BY <2>1, <1>1, <1>9 DEF Fresh, Current, Firing, poller
  <2>2. CASE epoch = 0
    <3>1. at["poll"] = "away" /\ prev = {} /\ shot = <<>>
      BY <2>2 DEF Linking
    <3>2. lock # "poll"
      BY <3>1, NoThread DEF Held, Asking, Threads
    <3>3. Current'
      BY <3>1, <3>2, <1>1 DEF Current, poller
    <3> QED BY <3>3, <1>1, <1>9 DEF Fresh, Firing
  <2> QED BY <2>1, <2>2, <1>1
<1> QED BY <1>4, <1>5, <1>6, <1>7, <1>8

LEMMA InitInv == Init => LinkInv
<1> SUFFICES ASSUME Init PROVE LinkInv
  OBVIOUS
<1>1. /\ cmds = <<>> /\ buffer = <<>> /\ lock = None /\ bumped = FALSE /\ loads = 0
      /\ shot = <<>> /\ prev = {} /\ fails = 0 /\ retries = 0 /\ linked = FALSE
      /\ at = [t \in Threads |-> "away"] /\ phase = [t \in Threads |-> "ready"]
      /\ late = {} /\ wrong = FALSE /\ pending = FALSE /\ slot = FALSE /\ early = FALSE
      /\ epoch \in {0, 1} /\ stalls = 0 /\ ra \in Starts
  BY DEF Init, NewNCI, NewClient, NewPoller, NewOrchestrator
<1>2. Len(cmds) = 0 /\ Len(buffer) = 0 /\ Len(shot) = 0
  BY <1>1
<1>7. cmds \in Seq(Commands) /\ buffer \in Seq(Replies)
  BY <1>1, EmptySeq
<1>3. SocketOK /\ RetroArchOK
  <2>1. SocketOK
    BY <1>1, <1>7 DEF SocketOK
  <2>2. Starts \subseteq {"stalled", "runs"}
    BY LinkAssumption
  <2>3. ra \in {"runs", "stalled", "gone"}
    BY <1>1, <2>2
  <2>4. /\ stalls = 0 /\ epoch \in {0, 1} /\ late = {} /\ wrong = FALSE
    BY <1>1
  <2>5. wrong \in BOOLEAN
    BY <2>4
  <2>6. late \subseteq {"answer", "load"}
    BY <2>4
  <2>7. stalls \in Nat /\ epoch \in Nat
    BY <2>4
  <2>8. RetroArchOK
    BY <1>1, <2>3, <2>5, <2>6, <2>7 DEF RetroArchOK
  <2> QED BY <2>1, <2>8
<1>4. ThreadsOK
  BY <1>1 DEF ThreadsOK, Places
<1>5. PollerOK
  BY <1>1, <1>2, EmptySeq, LinkAssumption DEF PollerOK
<1>6. Held /\ OneOnTheWay /\ Linking /\ Fresh
  BY <1>1, <1>2 DEF Held, OneOnTheWay, Linking, Fresh, Current, Threads
<1> QED BY <1>3, <1>4, <1>5, <1>6 DEF LinkInv, TypeOK

LEMMA NextKeeps == LinkInv /\ [Next]_vars => LinkInv'
<1> SUFFICES ASSUME LinkInv, [Next]_vars PROVE LinkInv'
  OBVIOUS
<1>1. CASE RetroArch \/ Stalls \/ Exits
  BY <1>1, ServeKeeps, ExecuteKeeps, RetroArchKeeps DEF RetroArch
<1>2. CASE Exchange
  BY <1>2, SendKeeps, ExpireKeeps DEF Exchange
<1>3. CASE Connect \/ CheckRom \/ RomChecked \/ LoadBegins
  BY <1>3, BeginsKeep, ConnectKeeps, RomKeeps DEF Connect
<1>4. CASE LoadState
  BY <1>4, LoadKeeps, EchoKeeps, BeginsKeep DEF LoadState
<1>5. CASE Poll
  BY <1>5, PollEndsKeep, ReconnectKeeps DEF Poll
<1>6. CASE UNCHANGED vars
  BY <1>6 DEF vars, net, sock, poller, LinkInv, TypeOK, SocketOK, ThreadsOK, PollerOK,
              RetroArchOK, Held, OneOnTheWay, Linking, Fresh, Current, Firing
<1> QED BY <1>1, <1>2, <1>3, <1>4, <1>5, <1>6 DEF Next

LEMMA SpecInv == Spec => []LinkInv
BY InitInv, NextKeeps, PTL DEF Spec

-----------------------------------------------------------------------------
(* The theorems. *)

\* The parts keep their shape: in particular a snapshot in the making is always
\* shorter than the cluster of reads it is made of.
THEOREM TypeCorrect == Spec => []TypeOK
<1>1. LinkInv => TypeOK
  BY DEF LinkInv
<1> QED BY <1>1, SpecInv, PTL

\* As long as no reply comes later than the drain after its timeout, every thread
\* gets the answers to its own commands (NCIClient._send, _drain_socket), however
\* the threads take turns at the lock.
THEOREM AnswersAreOwn == Spec => []OwnAnswers
<1>1. LinkInv => OwnAnswers
  BY DEF LinkInv, OneOnTheWay, OwnAnswers
<1> QED BY <1>1, SpecInv, PTL

\* state_version is bumped after the command of a load and before any read that
\* follows it, so that the snapshots the detector compares without a resync
\* (Poller.run, TransitionDetector.update) show nothing a load has changed, however
\* long RetroArch takes to execute it; unless a reply or a load came later than a
\* drain, or the earlier snapshot was taken before a load sent was executed.
THEOREM LoadsAreNoticed == Spec => LoadsResync
<1>1. ASSUME LinkInv
      PROVE  [PollSucceeds /\ ~bumped /\ late = {} /\ prev # {} /\ ~early
                => Epochs(Read) = prev]_vars
  BY <1>1, ReadIsCurrent DEF PollSucceeds
<1> QED BY <1>1, SpecInv, PTL DEF LoadsResync
===============================================================================
