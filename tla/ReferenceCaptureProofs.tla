------------------------ MODULE ReferenceCaptureProofs ------------------------
(***************************************************************************)
(* The invariants of ReferenceCapture that hold under every interleaving,  *)
(* proved for every value of the constants.                                *)
(*                                                                         *)
(* The invariant is split in two.  Core speaks of the run phases and the   *)
(* capture tables: only a handful of table operations change them, and     *)
(* each has a lemma.  Control types everything else.  With requests from   *)
(* enabled buttons, one at a time, the tables implement RunLedger as well. *)
(***************************************************************************)
EXTENDS ReferenceCapture, FiniteSetTheorems, TLAPS

Tables == /\ status \in [RunId -> Status] /\ kind \in [RunId -> {"live", "replay"}]
          /\ gameOf \in [RunId -> Games] /\ active \in SUBSET RunId
          /\ sess \in [RunId \X Ords -> Sess] /\ owner \in [Segs -> Owner]
          /\ att \in SUBSET Att

Phase == paused \in Run0 /\ rec \in Rec

Control == /\ mode \in Mode /\ queue \in Seq(Event) /\ loop \in Start \cup {None}
           /\ reqs \in [Reqs -> Request] /\ movie \in Movie

\* Recording needs a loaded game, and so does the segment a handler closes.
GameKnown == game \in Games \cup {None} /\ (rec.run # 0 => game # None)

\* Rows stay in their game because what is recorded, or offered for resuming, is
\* always a run of the loaded one.
GamesAgree == /\ rec.run # 0 => gameOf[rec.run] = game
              /\ paused # 0 => gameOf[paused] = game
              /\ RowsStayInGame

\* TypeOK alone is not inductive: a segment's owner is a run and a session only
\* because the recorder's are set together.
Core == /\ Tables /\ Phase /\ GameKnown /\ RunPhaseExclusive /\ CurrentRunIsDraft
        /\ SessionAccounting /\ GamesAgree /\ RowsReferToRows

Inv == Core /\ Control

-----------------------------------------------------------------------------
\* The invariant contains the type invariant.
LEMMA InvTypes == Inv => TypeOK
  BY DEF Inv, Core, Tables, Phase, Control, GameKnown, TypeOK

\* A fresh process over an empty database satisfies the invariant.
LEMMA InitInv == Init => Inv
<1> SUFFICES ASSUME Init PROVE Inv
  OBVIOUS
<1>1. Control
  <2>1. queue \in Seq(Event)
    <3>1. PICK g \in Games : queue = <<RomInfo(g)>>
      BY DEF Init
    <3>2. RomInfo(g) \in Event
      BY CaptureAssumption DEF RomInfo, Event, Kinds
    <3> QED BY <3>1, <3>2
  <2>2. reqs \in [Reqs -> Request]
    BY CaptureAssumption DEF Init, NoReq, Request, Op, Run0
  <2>3. NoMovie \subseteq Movie
    BY CaptureAssumption DEF NoMovie, Movie
  <2>4. movie \in Movie
    BY <2>3 DEF Init
  <2> QED BY <2>1, <2>2, <2>4 DEF Init, Control, Mode, Start
<1>2. Tables
  BY DEF Init, Tables, Status, Sess, Owner
<1>3. Phase
  BY CaptureAssumption DEF Init, Phase, NoRec, Rec, Run0, Ord0, Source
<1>4. GameKnown /\ RunPhaseExclusive /\ CurrentRunIsDraft /\ SessionAccounting
  BY DEF Init, NoRec, GameKnown, RunPhaseExclusive, CurrentRunIsDraft, SessionAccounting
<1>5. GamesAgree
  BY CaptureAssumption DEF Init, NoRec, GamesAgree, RowsStayInGame, RunId, Ords
<1>6. RowsReferToRows
  BY CaptureAssumption DEF Init, RowsReferToRows, RunId, Ords
<1> QED BY <1>1, <1>2, <1>3, <1>4, <1>5, <1>6 DEF Inv, Core

-----------------------------------------------------------------------------
(* What the table operations do to Core.                                    *)

\* Rows that go, and owners that are dropped, leave the other rows in their game.
LEMMA RowsStay ==
  ASSUME RowsStayInGame, gameOf' = gameOf, att' \in SUBSET att,
         \A s \in Segs : owner'[s] \in {owner[s], None, Unowned}
  PROVE  RowsStayInGame'
<1>1. None \notin RunId \X Ords /\ Unowned \notin RunId \X Ords
  BY CaptureAssumption DEF Unowned, RunId, Ords
<1> QED BY <1>1 DEF RowsStayInGame

\* Steps that change neither the tables nor who is recording keep Core.
LEMMA CoreFrame ==
  ASSUME Core, game' = game, paused' = paused, UNCHANGED dbVars,
         rec' \in Rec, rec'.run = rec.run, rec'.ord = rec.ord
  PROVE  Core'
<1> USE DEF dbVars
<1>1. Tables' /\ Phase' /\ GameKnown'
  BY DEF Core, Tables, Phase, GameKnown
<1>2. RunPhaseExclusive' /\ CurrentRunIsDraft' /\ SessionAccounting'
  BY DEF Core, RunPhaseExclusive, CurrentRunIsDraft, SessionAccounting
<1>3. GamesAgree' /\ RowsReferToRows'
  BY DEF Core, GamesAgree, RowsStayInGame, RowsReferToRows
<1> QED BY <1>1, <1>2, <1>3 DEF Core

\* Clearing the controller strands a draft but breaks nothing.
LEMMA CoreIdle ==
  ASSUME Core, EnterIdle, game' \in Games \cup {None}, att' \in SUBSET att,
         UNCHANGED <<status, kind, gameOf, active, sess, owner>>
  PROVE  Core'
<1>1. Tables' /\ Phase' /\ GameKnown'
  BY CaptureAssumption DEF Core, Tables, Phase, GameKnown, EnterIdle, NoRec, Rec,
     Run0, Ord0, Source
<1>2. RunPhaseExclusive' /\ CurrentRunIsDraft'
  BY DEF EnterIdle, NoRec, RunPhaseExclusive, CurrentRunIsDraft
<1>3. SessionAccounting'
  BY DEF Core, EnterIdle, NoRec, SessionAccounting, CurrentRunIsDraft, Phase, Rec, RunId
<1>4. RowsStayInGame' /\ RowsReferToRows'
  BY RowsStay DEF Core, GamesAgree, RowsReferToRows
<1>5. GamesAgree'
  BY <1>4 DEF GamesAgree, EnterIdle, NoRec
<1> QED BY <1>1, <1>2, <1>3, <1>4, <1>5 DEF Core

\* A hard delete the foreign keys allow takes the run and all that refers to it.
LEMMA CoreHardDelete ==
  ASSUME Core, NEW r \in RunId, Deletable(r), HardDelete(r), EnterIdle, game' = game
  PROVE  Core'
<1>1. Tables'
  BY DEF Core, Tables, HardDelete, Status, Sess, Owner
<1>2. Phase' /\ GameKnown'
  BY CaptureAssumption DEF Core, Phase, GameKnown, EnterIdle, NoRec, Rec, Run0, Ord0, Source
<1>3. RunPhaseExclusive' /\ CurrentRunIsDraft'
  BY DEF EnterIdle, NoRec, RunPhaseExclusive, CurrentRunIsDraft
<1>4. SessionAccounting'
  BY DEF Core, Tables, HardDelete, EnterIdle, NoRec, SessionAccounting,
     CurrentRunIsDraft, Phase, Rec, RunId
<1>5. GamesAgree'
  <2>1. RowsStayInGame'
    BY RowsStay DEF Core, HardDelete, GamesAgree
  <2> QED BY <2>1 DEF GamesAgree, EnterIdle, NoRec
<1>6. RowsReferToRows'
  <2>1. \A s \in Segs : owner'[s] \in RunId \X Ords => sess'[owner'[s]] # "none"
    <3> SUFFICES ASSUME NEW s \in Segs, owner'[s] \in RunId \X Ords
                 PROVE  sess'[owner'[s]] # "none"
      OBVIOUS
    <3>1. s \notin OwnedBy(r) /\ owner'[s] = owner[s]
      BY CaptureAssumption DEF Core, Tables, HardDelete, RunId, Ords
    <3>2. owner[s][1] # r
      BY <3>1 DEF OwnedBy
    <3> QED BY <3>1, <3>2 DEF Core, RowsReferToRows, HardDelete
  <2>2. \A a \in att' : owner'[a.seg] # None /\ status'[a.run] \in {"draft", "saved"}
    BY DEF Core, Tables, HardDelete, Deletable, RowsReferToRows, Att
  <2>3. \A s \in RunId \X Ords : sess'[s] # "none" => status'[s[1]] \in {"draft", "saved"}
    BY DEF Core, Tables, HardDelete, RowsReferToRows
  <2> QED BY <2>1, <2>2, <2>3 DEF RowsReferToRows
<1> QED BY <1>1, <1>2, <1>3, <1>4, <1>5, <1>6 DEF Core

\* A new run starts with one open session, the recorder's.
LEMMA CoreCreate ==
  ASSUME Core, NEW r \in RunId, NEW k \in {"live", "replay"}, NEW src \in Source,
         CreateRun(r, k), EnterRecording(r, 1, src, None), paused = 0,
         game # None, game' = game, k = "live" => LiveDrafts(game) = {}
  PROVE  Core'
<1>0. 1 \in Ords /\ 1 \in Ord0 /\ r \in Run0
  BY CaptureAssumption DEF Ords, Ord0, RunId, Run0
<1>1. Tables'
  BY <1>0 DEF Core, Tables, GameKnown, CreateRun, Status, Sess
<1>2. Phase' /\ GameKnown' /\ RunPhaseExclusive'
  BY <1>0 DEF Core, Phase, GameKnown, EnterRecording, Rec, RunPhaseExclusive, Run0
<1>3. CurrentRunIsDraft'
  BY <1>0 DEF Core, Tables, EnterRecording, CreateRun, CurrentRunIsDraft, RunId
<1>4. SessionAccounting'
  <2> SUFFICES ASSUME NEW s \in RunId \X Ords, sess'[s] = "open", <<r, 1>> # s
               PROVE  status'[s[1]] = "draft" /\ s[1] \notin {0, r}
    BY DEF SessionAccounting, EnterRecording
  <2>1. sess[s] = "open"
    BY DEF CreateRun, Core, Tables
  <2>2. s[1] # r
    BY <2>1 DEF CreateRun, Core, RowsReferToRows
  <2>3. status[s[1]] = "draft"
    BY <2>1 DEF Core, SessionAccounting, CurrentRunIsDraft, Phase, Rec, RunId
  <2> QED BY <2>2, <2>3 DEF CreateRun, Core, Tables, RunId
<1>5. GamesAgree'
  <2>1. gameOf'[r] = game /\ \A p \in RunId : status[p] # "none" => gameOf'[p] = gameOf[p]
    BY DEF Core, Tables, GameKnown, CreateRun
  <2>2. \A a \in att' : gameOf'[a.run] = a.seg[1]
    BY <2>1 DEF Core, Tables, Att, CreateRun, RowsReferToRows, GamesAgree, RowsStayInGame
  <2>3. ASSUME NEW s \in Segs, owner'[s] \in RunId \X Ords PROVE gameOf'[owner'[s][1]] = s[1]
    <3>1. owner'[s] = owner[s] /\ sess[owner[s]] # "none"
      BY <2>3 DEF Core, CreateRun, RowsReferToRows
    <3>2. owner[s][1] \in RunId /\ status[owner[s][1]] # "none"
      BY <2>3, <3>1 DEF Core, RowsReferToRows
    <3> QED BY <2>1, <2>3, <3>1, <3>2 DEF Core, GamesAgree, RowsStayInGame
  <2> QED BY <2>1, <2>2, <2>3 DEF EnterRecording, GamesAgree, RowsStayInGame
<1>6. RowsReferToRows'
  BY <1>0 DEF Core, Tables, CreateRun, RowsReferToRows, Att
<1> QED BY <1>1, <1>2, <1>3, <1>4, <1>5, <1>6 DEF Core

\* Ending the session hands the run over from the recorder to `paused'.
LEMMA CoreEndSession ==
  ASSUME Core, EndCurrentSession, game' = game
  PROVE  Core'
<1>1. Tables'
  BY DEF Core, Tables, EndCurrentSession, EndSession, Sess
<1>2. Phase' /\ GameKnown' /\ RunPhaseExclusive'
  BY CaptureAssumption DEF Core, Phase, GameKnown, EndCurrentSession, NoRec, Rec,
     Run0, Ord0, Source, RunPhaseExclusive
<1>3. CurrentRunIsDraft'
  BY DEF Core, EndCurrentSession, NoRec, CurrentRunIsDraft
<1>4. SessionAccounting'
  <2> SUFFICES ASSUME NEW s \in RunId \X Ords, sess'[s] = "open"
               PROVE  status[s[1]] = "draft" /\ s[1] \notin {rec.run, 0}
    BY DEF SessionAccounting, EndCurrentSession, NoRec
  <2>1. sess[s] = "open" /\ <<rec.run, rec.ord>> # s
    BY DEF Core, Tables, EndCurrentSession, EndSession, CurrentRunIsDraft, Ords, RunId
  <2> QED BY <2>1 DEF Core, SessionAccounting, RunId
<1>5. GamesAgree'
  BY DEF Core, EndCurrentSession, NoRec, GamesAgree, RowsStayInGame
<1>6. RowsReferToRows'
  BY DEF Core, Tables, EndCurrentSession, EndSession, RowsReferToRows
<1> QED BY <1>1, <1>2, <1>3, <1>4, <1>5, <1>6 DEF Core

\* Saving the current run, recorded or paused, leaves it without open session.
LEMMA CoreSave ==
  ASSUME Core, NEW r \in RunId, r \in {paused, rec.run}, SaveRun(r), EnterIdle,
         \/ r = paused /\ UNCHANGED sess
         \/ r = rec.run /\ sess' = EndSession(rec.run, rec.ord),
         game' = game
  PROVE  Core'
<1>1. Tables'
  BY DEF Core, Tables, SaveRun, EndSession, Status, Sess
<1>2. Phase' /\ GameKnown'
  BY CaptureAssumption DEF Core, Phase, GameKnown, EnterIdle, NoRec, Rec, Run0, Ord0, Source
<1>3. RunPhaseExclusive' /\ CurrentRunIsDraft'
  BY DEF EnterIdle, NoRec, RunPhaseExclusive, CurrentRunIsDraft
<1>4. SessionAccounting'
  <2> SUFFICES ASSUME NEW s \in RunId \X Ords, sess'[s] = "open"
               PROVE  status'[s[1]] = "draft" /\ s[1] # 0
    BY DEF SessionAccounting, EnterIdle, NoRec
  <2>1. sess[s] = "open" /\ s[1] # r
    <3>1. CASE r = paused /\ UNCHANGED sess
      BY <3>1 DEF Core, SessionAccounting, RunPhaseExclusive, CurrentRunIsDraft, RunId
    <3>2. CASE r = rec.run /\ sess' = EndSession(rec.run, rec.ord)
      BY <3>2 DEF Core, Tables, EndSession, SessionAccounting, CurrentRunIsDraft, RunId
    <3> QED BY <3>1, <3>2
  <2>2. status[s[1]] = "draft"
    BY <2>1 DEF Core, SessionAccounting, CurrentRunIsDraft, RunId
  <2> QED BY <2>1, <2>2 DEF SaveRun, Core, Tables, RunId
<1>5. GamesAgree'
  BY DEF Core, SaveRun, EnterIdle, NoRec, GamesAgree, RowsStayInGame
<1>6. RowsReferToRows'
  BY DEF Core, Tables, SaveRun, EndSession, RowsReferToRows, Att
<1> QED BY <1>1, <1>2, <1>3, <1>4, <1>5, <1>6 DEF Core

\* Resuming opens the paused run's only open session.
LEMMA CoreResume ==
  ASSUME Core, paused # 0, NEW o \in Ords, NEW pend \in Start \cup {None},
         sess' = [sess EXCEPT ![<<paused, o>>] = "open"],
         EnterRecording(paused, o, "reference", pend), game # None, game' = game,
         UNCHANGED <<status, kind, gameOf, active, owner, att>>
  PROVE  Core'
<1>0. paused \in RunId /\ rec.run = 0 /\ o \in Ord0 /\ o # 0
  BY DEF Core, Phase, Run0, RunId, RunPhaseExclusive, Ords, Ord0
<1>1. Tables'
  BY <1>0 DEF Core, Tables, Sess
<1>2. Phase' /\ GameKnown' /\ RunPhaseExclusive'
  BY <1>0 DEF Core, Phase, GameKnown, EnterRecording, Rec, RunPhaseExclusive, Run0, Source
<1>3. CurrentRunIsDraft'
  BY <1>0 DEF Core, Tables, EnterRecording, CurrentRunIsDraft
<1>4. SessionAccounting'
  <2> SUFFICES ASSUME NEW s \in RunId \X Ords, sess'[s] = "open", <<paused, o>> # s
               PROVE  status[s[1]] = "draft" /\ s[1] \notin {0, paused}
    BY DEF SessionAccounting, EnterRecording
  <2>1. sess[s] = "open"
    BY DEF Core, Tables
  <2> QED BY <2>1, <1>0 DEF Core, SessionAccounting, RunId
<1>5. GamesAgree'
  BY DEF Core, EnterRecording, GamesAgree, RowsStayInGame
<1>6. RowsReferToRows'
  BY <1>0 DEF Core, Tables, RowsReferToRows, CurrentRunIsDraft
<1> QED BY <1>1, <1>2, <1>3, <1>4, <1>5, <1>6 DEF Core

\* Dropping a session that no attempt depends on takes its segments along.
LEMMA CoreDeleteSession ==
  ASSUME Core, NEW r \in RunId, NEW o \in Ords, DeleteCaptureSession(r, o)
  PROVE  Core'
<1> DEFINE its == {s \in Segs : owner[s] = <<r, o>>}
<1>0. /\ ~(rec.run = r /\ rec.ord = o) /\ \A a \in att : a.seg \notin its
      /\ sess' = [sess EXCEPT ![<<r, o>>] = "none"]
      /\ owner' = [s \in Segs |-> IF s \in its THEN None ELSE owner[s]]
      /\ UNCHANGED <<game, paused, rec, status, kind, gameOf, active, att>>
  BY DEF DeleteCaptureSession
<1>1. Tables'
  BY <1>0 DEF Core, Tables, Sess, Owner
<1>2. Phase' /\ GameKnown' /\ RunPhaseExclusive'
  BY <1>0 DEF Core, Phase, GameKnown, RunPhaseExclusive
<1>3. CurrentRunIsDraft'
  BY <1>0 DEF Core, Tables, CurrentRunIsDraft
<1>4. SessionAccounting'
  BY <1>0 DEF Core, Tables, SessionAccounting
<1>5. GamesAgree'
  <2>1. \A s \in Segs : owner'[s] \in {owner[s], None, Unowned}
    BY <1>0
  <2>2. RowsStayInGame'
    BY <1>0, <2>1, RowsStay DEF Core, GamesAgree
  <2> QED BY <1>0, <2>2 DEF Core, GamesAgree
<1>6. RowsReferToRows'
  <2>1. \A s \in Segs : owner'[s] \in RunId \X Ords => sess'[owner'[s]] # "none"
    <3> SUFFICES ASSUME NEW s \in Segs, owner'[s] \in RunId \X Ords
                 PROVE  sess'[owner'[s]] # "none"
      OBVIOUS
    <3>1. owner'[s] = owner[s] /\ owner[s] # <<r, o>>
      BY <1>0, CaptureAssumption DEF RunId, Ords
    <3> QED BY <1>0, <3>1 DEF Core, Tables, RowsReferToRows
  <2>2. \A a \in att' : owner'[a.seg] # None /\ status'[a.run] \in {"draft", "saved"}
    BY <1>0 DEF Core, Tables, RowsReferToRows, Att
  <2>3. \A s \in RunId \X Ords : sess'[s] # "none" => status'[s[1]] \in {"draft", "saved"}
    BY <1>0 DEF Core, Tables, RowsReferToRows
  <2> QED BY <2>1, <2>2, <2>3 DEF RowsReferToRows
<1> QED BY <1>1, <1>2, <1>3, <1>4, <1>5, <1>6 DEF Core

\* Deleting a saved run leaves its shared segments unowned and its rows gone.
LEMMA CoreDeleteRun ==
  ASSUME Core, NEW r \in RunId, NEW purge \in BOOLEAN, DeleteRun(r, purge)
  PROVE  Core'
<1> DEFINE doomed == IF purge THEN Exclusive(r) ELSE {}
<1>0. /\ status[r] = "saved" /\ status' = [status EXCEPT ![r] = "gone"]
      /\ sess' = [s \in RunId \X Ords |-> IF s[1] = r THEN "none" ELSE sess[s]]
      /\ owner' = [s \in Segs |-> IF s \in doomed THEN None
                                  ELSE IF s \in OwnedBy(r) THEN Unowned
                                  ELSE owner[s]]
      /\ att' = {a \in att : a.run # r /\ a.seg \notin doomed}
      /\ kind' = [kind EXCEPT ![r] = "live"]
      /\ UNCHANGED <<game, paused, rec, gameOf>>
  BY DEF DeleteRun
<1>1. Tables'
  <2>1. active' \in SUBSET RunId
    BY DEF DeleteRun, HandOverActive, Core, Tables, Saved
  <2> QED BY <1>0, <2>1 DEF Core, Tables, Status, Sess, Owner
<1>2. Phase' /\ GameKnown' /\ RunPhaseExclusive'
  BY <1>0 DEF Core, Phase, GameKnown, RunPhaseExclusive
<1>3. CurrentRunIsDraft'
  BY <1>0 DEF Core, Tables, Phase, Rec, CurrentRunIsDraft, Run0, RunId, Ord0, Ords
<1>4. SessionAccounting'
  BY <1>0 DEF Core, Tables, SessionAccounting
<1>5. GamesAgree'
  <2>1. \A s \in Segs : owner'[s] \in {owner[s], None, Unowned}
    BY <1>0
  <2>2. RowsStayInGame'
    BY <1>0, <2>1, RowsStay DEF Core, GamesAgree
  <2> QED BY <1>0, <2>2 DEF Core, GamesAgree
<1>6. RowsReferToRows'
  <2>1. \A s \in Segs : owner'[s] \in RunId \X Ords => sess'[owner'[s]] # "none"
    <3> SUFFICES ASSUME NEW s \in Segs, owner'[s] \in RunId \X Ords
                 PROVE  sess'[owner'[s]] # "none"
      OBVIOUS
    <3>1. None \notin RunId \X Ords /\ Unowned \notin RunId \X Ords
      BY CaptureAssumption DEF Unowned, RunId, Ords
    <3>2. s \notin OwnedBy(r) /\ owner'[s] = owner[s]
      BY <1>0, <3>1
    <3>3. owner[s][1] # r
      BY <3>2 DEF OwnedBy
    <3> QED BY <1>0, <3>2, <3>3 DEF Core, RowsReferToRows
  <2>2. \A a \in att' : owner'[a.seg] # None /\ status'[a.run] \in {"draft", "saved"}
    <3> SUFFICES ASSUME NEW a \in att, a.run # r, a.seg \notin doomed
                 PROVE  owner'[a.seg] # None /\ status'[a.run] \in {"draft", "saved"}
      BY <1>0
    <3>1. a.run \in RunId /\ a.seg \in Segs
      BY DEF Core, Tables, Att
    <3>2. None # Unowned
      BY CaptureAssumption DEF Unowned
    <3> QED BY <1>0, <3>1, <3>2 DEF Core, Tables, RowsReferToRows
  <2>3. \A s \in RunId \X Ords : sess'[s] # "none" => status'[s[1]] \in {"draft", "saved"}
    BY <1>0 DEF Core, Tables, RowsReferToRows
  <2> QED BY <2>1, <2>2, <2>3 DEF RowsReferToRows
<1> QED BY <1>1, <1>2, <1>3, <1>4, <1>5, <1>6 DEF Core

\* Closing a segment makes the recorder's open session its owner, or leaves the
\* owner it has.
LEMMA CoreHandleExit ==
  ASSUME Core, Control, HandleExit
  PROVE  Core'
<1>1. CASE Closes
  <2> DEFINE seg == <<game, Head(queue).geo>>
             me  == <<rec.run, rec.ord>>
  <2>1. /\ owner' = [owner EXCEPT ![seg] = IF @ = None THEN me ELSE @]
        /\ att' = att \cup {[run |-> rec.run, seg |-> seg]}
        /\ rec' = [rec EXCEPT !.pend = None]
        /\ UNCHANGED <<game, paused, status, kind, gameOf, active, sess>>
    BY <1>1 DEF HandleExit
  <2>2. seg \in Segs
    <3>1. Head(queue) \in Event /\ Head(queue).k = "exit"
      BY DEF HandleExit, Takes, Control
    <3> QED BY <1>1, <3>1 DEF Event, Segs, Core, GameKnown, Closes
  <2>3. me \in RunId \X Ords /\ sess[me] = "open" /\ status[rec.run] = "draft"
    BY <1>1 DEF Core, Phase, Rec, CurrentRunIsDraft, Closes, Run0, RunId, Ord0, Ords
  <2>4. Tables'
    <3>1. owner' \in [Segs -> Owner]
      BY <2>1, <2>2, <2>3 DEF Core, Tables, Owner
    <3>2. [run |-> rec.run, seg |-> seg] \in Att
      BY <2>2, <2>3 DEF Att
    <3> QED BY <2>1, <3>1, <3>2 DEF Core, Tables
  <2>5. Phase' /\ GameKnown' /\ RunPhaseExclusive' /\ CurrentRunIsDraft' /\ SessionAccounting'
    BY <2>1 DEF Core, Phase, GameKnown, RunPhaseExclusive, CurrentRunIsDraft,
       SessionAccounting, Rec
  <2>6. GamesAgree'
    <3>1. gameOf[rec.run] = game
      BY <1>1 DEF Closes, Core, GamesAgree
    <3>2. \A a \in att' : gameOf[a.run] = a.seg[1]
      BY <2>1, <3>1 DEF Core, GamesAgree, RowsStayInGame
    <3>3. \A s \in Segs : owner'[s] \in {owner[s]} \cup (IF s = seg THEN {me} ELSE {})
      BY <2>1 DEF Core, Tables
    <3>4. \A s \in Segs : owner'[s] \in RunId \X Ords => gameOf[owner'[s][1]] = s[1]
      BY <3>1, <3>3 DEF Core, GamesAgree, RowsStayInGame
    <3> QED BY <2>1, <3>1, <3>2, <3>4 DEF Core, GamesAgree, RowsStayInGame
  <2>7. RowsReferToRows'
    <3>1. \A s \in Segs : owner'[s] \in RunId \X Ords => sess'[owner'[s]] # "none"
      BY <2>1, <2>2, <2>3 DEF Core, Tables, RowsReferToRows
    <3>2. \A a \in att' : owner'[a.seg] # None /\ status'[a.run] \in {"draft", "saved"}
      <4>1. None # me
        BY <2>3, CaptureAssumption DEF RunId, Ords
      <4> QED BY <2>1, <2>2, <2>3, <4>1 DEF Core, Tables, RowsReferToRows, Att
    <3> QED BY <2>1, <3>1, <3>2 DEF Core, RowsReferToRows
  <2> QED BY <2>4, <2>5, <2>6, <2>7 DEF Core
<1>2. CASE ~Closes
  BY <1>2, CoreFrame DEF HandleExit, dbVars, Core, Phase
<1> QED BY <1>1, <1>2

\* A game switch closes the sessions of the draft it surfaces.
LEMMA CoreHandleRomInfo ==
  ASSUME Core, Control, HandleRomInfo
  PROVE  Core'
<1> DEFINE g == Head(queue).game
<1>0. g \in Games
  BY DEF HandleRomInfo, Takes, Control, Event
<1>1. CASE g = game
  BY <1>1, CoreFrame DEF HandleRomInfo, dbVars, Core, Phase
<1>2. CASE g # game /\ LiveDrafts(g) = {}
  <2>1. EnterIdle /\ game' \in Games \cup {None}
    BY <1>0, <1>2 DEF HandleRomInfo, SwitchGame, EnterIdle
  <2> QED BY <1>2, <2>1, CoreIdle DEF HandleRomInfo
<1>3. CASE g # game /\ LiveDrafts(g) # {}
  <2>1. PICK r \in LiveDrafts(g) :
          /\ paused' = r /\ rec' = NoRec /\ game' = g
          /\ sess' = CloseOrphans(r)
          /\ UNCHANGED <<status, kind, gameOf, active, owner, att>>
    BY <1>3 DEF HandleRomInfo, SwitchGame
  <2>2. r \in RunId /\ status[r] = "draft"
    BY DEF LiveDrafts
  <2>3. Tables'
    BY <2>1 DEF Core, Tables, Sess, CloseOrphans
  <2>4. Phase' /\ GameKnown' /\ RunPhaseExclusive' /\ CurrentRunIsDraft'
    BY <1>0, <2>1, <2>2, CaptureAssumption DEF Phase, GameKnown, RunPhaseExclusive,
       CurrentRunIsDraft, NoRec, Rec, Run0, RunId, Ord0, Source
  <2>5. SessionAccounting'
    BY <2>1 DEF Core, Tables, SessionAccounting, CurrentRunIsDraft, NoRec, RunId, CloseOrphans
  <2>6. GamesAgree'
    BY <2>1 DEF Core, NoRec, LiveDrafts, GamesAgree, RowsStayInGame
  <2>7. RowsReferToRows'
    BY <2>1 DEF Core, Tables, RowsReferToRows, CloseOrphans
  <2> QED BY <2>3, <2>4, <2>5, <2>6, <2>7 DEF Core
<1> QED BY <1>1, <1>2, <1>3

-----------------------------------------------------------------------------
(* One step for each group of actions.                                      *)

\* Handlers that begin.
LEMMA BeginsKeepInv == ASSUME Inv, NEW q \in Reqs, Begins(q) PROVE Inv'
<1> USE DEF Inv
<1>0. \A op \in Op, r \in Run0 : Suspend(q, op, r) => reqs' \in [Reqs -> Request]
  BY DEF Suspend, Control, Request
<1>1. CASE StartReference(q)
  <2>1. Control'
    BY <1>0, <1>1, CaptureAssumption DEF StartReference, Control, Op, Run0
  <2>2. CASE LiveDrafts(game) = {}
    <3>1. PICK r \in RunId : CreateRun(r, "live") /\ EnterRecording(r, 1, "reference", None)
      BY <1>1, <2>2 DEF StartReference, DraftAllowed
    <3>2. Core'
      BY <1>1, <2>2, <3>1, CoreCreate DEF StartReference, Free, Source
    <3> QED BY <2>1, <3>2
  <2>3. CASE LiveDrafts(game) # {}
    <3>1. EnterIdle /\ game' = game /\ UNCHANGED dbVars
      BY <1>1, <2>3 DEF StartReference, DraftAllowed
    <3>2. Core'
      BY <3>1, CoreIdle DEF dbVars, Core, GameKnown
    <3> QED BY <2>1, <3>2
  <2> QED BY <2>2, <2>3
<1>2. CASE ResumeReference(q)
  <2>1. Control'
    BY <1>0, <1>2, CaptureAssumption DEF ResumeReference, Control, Op, Run0
  <2>2. PICK o \in Ords : /\ sess' = [sess EXCEPT ![<<paused, o>>] = "open"]
                          /\ EnterRecording(paused, o, "reference", rec.pend)
    BY <1>2 DEF ResumeReference
  <2>3. rec.pend \in Start \cup {None}
    BY DEF Core, Phase, Rec
  <2>4. Core'
    BY <1>2, <2>2, <2>3, CoreResume DEF ResumeReference, Free
  <2> QED BY <2>1, <2>4
<1>3. CASE StartReplay(q)
  <2>1. Control'
    BY <1>0, <1>3, CaptureAssumption DEF StartReplay, Control, Op, Run0
  <2>2. PICK r \in RunId : CreateRun(r, "replay") /\ EnterRecording(r, 1, "replay", None)
    BY <1>3 DEF StartReplay
  <2>3. Core'
    BY <1>3, <2>2, CoreCreate DEF StartReplay, Free, Source
  <2> QED BY <2>1, <2>3
<1>4. CASE StopReference(q) \/ SaveAndFinish(q) \/ StopReplay(q)
  <2>1. UNCHANGED <<mode, game, paused, rec, dbVars, queue, loop>>
    BY <1>4 DEF StopReference, SaveAndFinish, StopReplay
  <2>2. rec \in Rec /\ rec.run \in Run0
    BY DEF Core, Phase, Rec
  <2>3. Core'
    BY <2>1, <2>2, CoreFrame
  <2>4. reqs' \in [Reqs -> Request]
    BY <1>0, <1>4, <2>2, CaptureAssumption DEF StopReference, SaveAndFinish, StopReplay, Op, Run0
  <2>5. movie' \in Movie
    BY <1>4 DEF StopReference, SaveAndFinish, StopReplay, Control, Movie
  <2> QED BY <2>1, <2>3, <2>4, <2>5 DEF Control
<1> QED BY <1>1, <1>2, <1>3, <1>4 DEF Begins

\* A replay's end: the run it recorded is discarded if it may be.
LEMMA DiscardThenIdleKeepsCore ==
  ASSUME Core, NEW r \in Run0, DiscardThenIdle(r), game' = game, mode \in Mode
  PROVE  Core' /\ mode' \in Mode
<1>1. CASE Empty(r) /\ Deletable(r)
  <2>1. r \in RunId
    BY <1>1 DEF Empty, Run0, RunId
  <2> QED BY <1>1, <2>1, CoreHardDelete DEF DiscardThenIdle, Mode
<1>2. CASE ~(Empty(r) /\ Deletable(r))
  <2>1. UNCHANGED <<paused, rec, dbVars>> /\ mode' \in Mode
    BY <1>2 DEF DiscardThenIdle, Mode
  <2> QED BY <2>1, CoreFrame DEF Core, Phase
<1> QED BY <1>1, <1>2

\* Handlers that come back from the backend.
LEMMA ReturnsKeepInv == ASSUME Inv, NEW q \in Reqs, Returns(q) PROVE Inv'
<1> USE DEF Inv
<1>0. reqs \in [Reqs -> Request] /\ (Return(q) => reqs' \in [Reqs -> Request])
  <2>1. NoReq \in Request
    BY CaptureAssumption DEF NoReq, Request, Op, Run0
  <2> QED BY <2>1 DEF Return, Control
<1>1. CASE \/ StartReferenceReturns(q) \/ ReplayPlays(q) \/ StartReplayReturns(q)
           \/ ReplayRefused(q) \/ ReplayRaises(q)
  <2> USE DEF StartReferenceReturns, ReplayPlays, StartReplayReturns, ReplayRefused, ReplayRaises
  <2>1. UNCHANGED <<game, paused, rec, dbVars, loop>>
    BY <1>1
  <2>2. Core'
    BY <2>1, CoreFrame DEF Core, Phase
  <2>3. reqs' \in [Reqs -> Request]
    BY <1>0, <1>1, CaptureAssumption DEF Suspend, Request, Op, Run0
  <2>4. mode' \in Mode /\ movie' \in Movie
    BY <1>1 DEF Control, Mode, Movie
  <2>5. queue' \in Seq(Event)
    <3>1. Notice("error") \in Event
      BY DEF Notice, Event, Kinds
    <3> QED BY <1>1, <3>1 DEF Control
  <2> QED BY <2>1, <2>2, <2>3, <2>4, <2>5 DEF Control
<1>2. CASE StopReferenceReturns(q)
  BY <1>0, <1>2, CoreEndSession DEF StopReferenceReturns, Control, Mode
<1>3. CASE SaveAndFinishReturns(q)
  <2>1. Control'
    BY <1>0, <1>3 DEF SaveAndFinishReturns, Control, Mode
  <2>2. CASE rec.run = 0
    BY <1>3, <2>1, <2>2, CoreFrame DEF SaveAndFinishReturns, Core, Phase
  <2>3. CASE rec.run # 0
    <3>1. rec.run \in RunId
      BY <2>3 DEF Core, Phase, Rec, Run0, RunId
    <3> QED BY <1>3, <2>1, <2>3, <3>1, CoreSave DEF SaveAndFinishReturns
  <2> QED BY <2>2, <2>3
<1>4. CASE StopReplayReturns(q)
  <2>1. Notice("finished") \in Event
    BY DEF Notice, Event, Kinds
  <2>2. reqs[q].run \in Run0
    BY <1>0 DEF Request
  <2>3. Core' /\ mode' \in Mode
    BY <1>4, <2>2, DiscardThenIdleKeepsCore DEF StopReplayReturns, Control
  <2>4. queue' \in Seq(Event)
    BY <1>4, <2>1 DEF StopReplayReturns, Control
  <2>5. movie' \in Movie
    BY <1>4 DEF StopReplayReturns, Control, Movie
  <2>6. Control'
    BY <1>0, <1>4, <2>3, <2>4, <2>5 DEF StopReplayReturns, Control
  <2> QED BY <2>3, <2>6
<1> QED BY <1>1, <1>2, <1>3, <1>4 DEF Returns

\* Requests that run through without suspending.
LEMMA ImmediateKeepsInv == ASSUME Inv, Immediate PROVE Inv'
<1> USE DEF Inv
<1>1. CASE StopReplayAtOnce
  <2>1. rec.run \in Run0
    BY DEF Core, Phase, Rec
  <2>2. Core' /\ mode' \in Mode
    BY <1>1, <2>1, DiscardThenIdleKeepsCore DEF StopReplayAtOnce, Control
  <2> QED BY <1>1, <2>2 DEF StopReplayAtOnce, Control, Movie
<1>2. CASE FinalizeRun
  <2>1. paused \in RunId
    BY <1>2 DEF FinalizeRun, Core, Phase, Run0, RunId
  <2> QED BY <1>2, <2>1, CoreSave DEF FinalizeRun, Control
<1>3. CASE DiscardRun
  <2>1. paused \in RunId
    BY <1>3 DEF DiscardRun, Core, Phase, Run0, RunId
  <2> QED BY <1>3, <2>1, CoreHardDelete DEF DiscardRun, Control
<1>4. CASE StartPractice
  <2>1. Control'
    BY <1>4 DEF StartPractice, Control, Mode
  <2>2. CASE mode = "reference"
    BY <1>4, <2>1, <2>2, CoreIdle DEF StartPractice, dbVars, Core, GameKnown
  <2>3. CASE mode # "reference"
    BY <1>4, <2>1, <2>3, CoreFrame DEF StartPractice, Core, Phase
  <2> QED BY <2>2, <2>3
<1>5. CASE StopPractice
  BY <1>5, CoreFrame DEF StopPractice, Control, Mode, Core, Phase
<1>6. CASE ResetData
  <2>1. Control'
    BY <1>6 DEF ResetData, Control, Mode
  <2>2. att' \in SUBSET att
    BY <1>6 DEF ResetData
  <2>3. CASE mode = "reference"
    BY <1>6, <2>1, <2>2, <2>3, CoreIdle DEF ResetData, Core, GameKnown
  <2>4. CASE mode # "reference"
    <3>1. UNCHANGED <<game, paused, rec, status, kind, gameOf, active, sess, owner>>
      BY <1>6, <2>4 DEF ResetData
    <3>2. Tables' /\ Phase' /\ GameKnown'
      BY <2>2, <3>1 DEF Core, Tables, Phase, GameKnown
    <3>3. RunPhaseExclusive' /\ CurrentRunIsDraft' /\ SessionAccounting'
      BY <3>1 DEF Core, RunPhaseExclusive, CurrentRunIsDraft, SessionAccounting
    <3>4. GamesAgree' /\ RowsReferToRows'
      BY <2>2, <3>1 DEF Core, GamesAgree, RowsStayInGame, RowsReferToRows
    <3> QED BY <2>1, <3>2, <3>3, <3>4 DEF Core
  <2> QED BY <2>3, <2>4
<1>7. ASSUME NEW r \in RunId, ActivateRun(r) PROVE Inv'
  <2>1. UNCHANGED <<game, paused, rec, status, kind, gameOf, sess, owner, att>>
        /\ active' \in SUBSET RunId /\ Control'
    BY <1>7 DEF ActivateRun, Core, Tables, Control
  <2>2. Tables' /\ Phase' /\ GameKnown'
    BY <2>1 DEF Core, Tables, Phase, GameKnown
  <2>3. RunPhaseExclusive' /\ CurrentRunIsDraft' /\ SessionAccounting'
    BY <2>1 DEF Core, RunPhaseExclusive, CurrentRunIsDraft, SessionAccounting
  <2>4. GamesAgree' /\ RowsReferToRows'
    BY <2>1 DEF Core, GamesAgree, RowsStayInGame, RowsReferToRows
  <2> QED BY <2>1, <2>2, <2>3, <2>4 DEF Core
<1>8. ASSUME NEW r \in RunId, NEW p \in BOOLEAN, DeleteRun(r, p) PROVE Inv'
  BY <1>8, CoreDeleteRun DEF DeleteRun, Control
<1>9. ASSUME NEW r \in RunId, NEW o \in Ords, DeleteCaptureSession(r, o) PROVE Inv'
  BY <1>9, CoreDeleteSession DEF DeleteCaptureSession, Control
<1> QED BY <1>1, <1>2, <1>3, <1>4, <1>5, <1>6, <1>7, <1>8, <1>9 DEF Immediate

\* The end of a replay, finished or failed, as the event loop handles it.
LEMMA ReplayEndKeepsCore ==
  ASSUME Core, game' = game,
         IF Empty(rec.run) /\ Deletable(rec.run)
         THEN HardDelete(rec.run) /\ EnterIdle
         ELSE EndCurrentSession
  PROVE  Core'
<1>1. CASE Empty(rec.run) /\ Deletable(rec.run)
  <2>1. rec.run \in RunId
    BY <1>1 DEF Empty, Core, Phase, Rec, Run0, RunId
  <2> QED BY <1>1, <2>1, CoreHardDelete
<1>2. CASE ~(Empty(rec.run) /\ Deletable(rec.run))
  BY <1>2, CoreEndSession
<1> QED BY <1>1, <1>2

\* The event loop.
LEMMA HandlesKeepInv == ASSUME Inv, Handles PROVE Inv'
<1> USE DEF Inv
<1>0. \A k \in Kinds : Takes(k) => queue' \in Seq(Event)
  BY DEF Takes, Control
<1>1. CASE HandleEntrance
  <2>1. Core'
    BY <1>1, CoreFrame DEF HandleEntrance, Core, Phase
  <2>2. loop' \in Start \cup {None}
    BY <1>1 DEF HandleEntrance, Core, Phase, Rec, Start
  <2> QED BY <1>0, <1>1, <2>1, <2>2 DEF HandleEntrance, Control, Kinds
<1>2. CASE EntranceSaved
  <2>1. rec' \in Rec /\ rec'.run = rec.run /\ rec'.ord = rec.ord
    BY <1>2 DEF EntranceSaved, Control, Core, Phase, Rec
  <2> QED BY <1>2, <2>1, CoreFrame DEF EntranceSaved, Control
<1>3. CASE HandleExit
  BY <1>0, <1>3, CoreHandleExit DEF HandleExit, Control, Kinds
<1>4. CASE HandleRomInfo
  BY <1>0, <1>4, CoreHandleRomInfo DEF HandleRomInfo, SwitchGame, Control, Kinds, Mode
<1>5. CASE HandleReplayFinished
  BY <1>0, <1>5, ReplayEndKeepsCore DEF HandleReplayFinished, Control, Kinds, Mode
<1>6. CASE HandleReplayError
  BY <1>0, <1>6, ReplayEndKeepsCore DEF HandleReplayError, Control, Kinds, Mode
<1> QED BY <1>1, <1>2, <1>3, <1>4, <1>5, <1>6 DEF Handles

\* The backend, the movie watcher and the crash.
LEMMA OutsideKeepsInv ==
  ASSUME Inv, PollerEmits \/ RomChanges \/ Watches \/ CrashAndRestart
  PROVE  Inv'
<1> USE DEF Inv
<1>1. CASE PollerEmits
  <2>1. Notice("entrance") \in Event
    BY DEF Notice, Event, Kinds
  <2>2. \A g \in Geos : Exit(g) \in Event
    BY CaptureAssumption DEF Exit, Event, Kinds, Control, Movie
  <2>3. queue' \in Seq(Event)
    BY <1>1, <2>1, <2>2 DEF PollerEmits, Control
  <2> QED BY <1>1, <2>3, CoreFrame DEF PollerEmits, Control, Core, Phase
<1>2. CASE RomChanges
  <2>1. \A g \in Games : RomInfo(g) \in Event
    BY CaptureAssumption DEF RomInfo, Event, Kinds
  <2>2. queue' \in Seq(Event)
    <3>1. PICK g \in Games : queue' = Append(queue, RomInfo(g))
      BY <1>2 DEF RomChanges
    <3> QED BY <2>1, <3>1 DEF Control
  <2>3. movie' \in Movie
    BY <1>2 DEF RomChanges, Marked, Control, Movie
  <2> QED BY <1>2, <2>2, <2>3, CoreFrame DEF RomChanges, Control, Core, Phase
<1>3. CASE Watches
  <2>1. Notice("finished") \in Event
    BY DEF Notice, Event, Kinds
  <2>2. UNCHANGED <<mode, game, paused, rec, dbVars, loop, reqs>> /\ movie' \in Movie
    BY <1>3 DEF Watches, MovieRunsOut, ReplayEnds, ReplayEndHandled, Marked, Control, Movie
  <2>3. queue' \in Seq(Event)
    BY <1>3, <2>1 DEF Watches, MovieRunsOut, ReplayEnds, ReplayEndHandled, Control
  <2> QED BY <2>2, <2>3, CoreFrame DEF Control, Core, Phase
<1>4. CASE CrashAndRestart
  <2>1. Core'
    BY <1>4, CoreIdle DEF CrashAndRestart, dbVars
  <2>2. queue' \in Seq(Event)
    <3>1. PICK g \in Games : queue' = <<RomInfo(g)>>
      BY <1>4 DEF CrashAndRestart
    <3>2. RomInfo(g) \in Event
      BY CaptureAssumption DEF RomInfo, Event, Kinds
    <3> QED BY <3>1, <3>2
  <2>3. reqs' \in [Reqs -> Request]
    BY <1>4, CaptureAssumption DEF CrashAndRestart, NoReq, Request, Op, Run0
  <2> QED BY <1>4, <2>1, <2>2, <2>3 DEF CrashAndRestart, Control, Mode, Movie
<1> QED BY <1>1, <1>2, <1>3, <1>4

\* No step of any handler, of the event loop, of the movie's watcher or of a
\* crash breaks the invariant.
LEMMA NextKeepsInv == Inv /\ [Next]_vars => Inv'
<1> SUFFICES ASSUME Inv, [Next]_vars PROVE Inv'
  OBVIOUS
<1>1. ASSUME NEW q \in Reqs, Begins(q) \/ Returns(q) PROVE Inv'
  BY <1>1, BeginsKeepInv, ReturnsKeepInv
<1>2. CASE Immediate \/ Handles
  BY <1>2, ImmediateKeepsInv, HandlesKeepInv
<1>3. CASE PollerEmits \/ RomChanges \/ Watches \/ CrashAndRestart
  BY <1>3, OutsideKeepsInv
<1>4. CASE UNCHANGED vars
  BY <1>4, CoreFrame DEF vars, Inv, Core, Phase, Control
<1> QED BY <1>1, <1>2, <1>3, <1>4 DEF Next

-----------------------------------------------------------------------------
\* So the invariant holds in every state the program reaches.
LEMMA SpecInv == Spec => []Inv
  BY InitInv, NextKeepsInv, PTL DEF Spec

\* Every variable keeps its type, for any games, requests and bounds.
THEOREM TypeCorrect == Spec => []TypeOK
  BY SpecInv, InvTypes, PTL

\* The controller never records one run while it shows another as paused, however
\* many handlers start, stop, resume and save at once.
THEOREM PhasesExclude == Spec => []RunPhaseExclusive
<1>1. Inv => RunPhaseExclusive
  BY DEF Inv, Core
<1> QED BY <1>1, SpecInv, PTL

\* The recorded or paused run is always a draft in the database, and recording
\* happens into that run's open session.
THEOREM CurrentRunStaysDraft == Spec => []CurrentRunIsDraft
<1>1. Inv => CurrentRunIsDraft
  BY DEF Inv, Core
<1> QED BY <1>1, SpecInv, PTL

\* No paused or saved run keeps a session open, across crashes, resets, game
\* switches and overlapping requests.
THEOREM SessionsAccounted == Spec => []SessionAccounting
<1>1. Inv => SessionAccounting
  BY DEF Inv, Core
<1> QED BY <1>1, SpecInv, PTL

\* Discarding, deleting and purging runs and sessions never leaves a row that
\* refers to one that is gone.
THEOREM RowsStayReferred == Spec => []RowsReferToRows
<1>1. Inv => RowsReferToRows
  BY DEF Inv, Core
<1> QED BY <1>1, SpecInv, PTL

\* No attempt and no segment is ever credited to a run of another game, whatever
\* handlers and replays are under way when the ROM changes.
THEOREM RowsStayWithGame == Spec => []RowsStayInGame
<1>1. Inv => RowsStayInGame
  BY DEF Inv, Core, GamesAgree
<1> QED BY <1>1, SpecInv, PTL

-----------------------------------------------------------------------------
(* The refinement of RunLedger, when requests come from enabled buttons one *)
(* at a time.                                                               *)

\* Only saved runs are flagged, and at most one of a game.
Flags == /\ \A r \in active : status[r] = "saved"
         /\ \A r, s \in active : gameOf[r] = gameOf[s] => r = s

\* A stop of a replay that waits for the backend is alone, and the run it read
\* before has not been saved meanwhile: what it discards is no saved run.
Pending == /\ \A p, q \in Reqs : reqs[p] # NoReq /\ reqs[q] # NoReq => p = q
           /\ \A q \in Reqs : reqs[q].op = "stopReplay" /\ reqs[q].run # 0
                => status[reqs[q].run] \in {"draft", "gone"}

LedgerInv == Flags /\ Pending

LedgerStep == Ledger!LedgerNext \/ UNCHANGED Ledger!ledgerVars

Ref == [g \in Games |-> ReferenceOf(g)]

LEMMA OneFlag ==
  ASSUME NEW S, NEW n, NEW ref,
         ref = CASE S = {} -> 0 [] Cardinality(S) = 1 -> CHOOSE r \in S : TRUE [] OTHER -> n
  PROVE  /\ S = {} => ref = 0
         /\ \A x : S = {x} => ref = x
<1>1. ASSUME NEW x, S = {x} PROVE ref = x
  <2>1. Cardinality(S) = 1 /\ S # {}
    BY <1>1, FS_Singleton
  <2>2. (CHOOSE r \in S : TRUE) = x
    BY <1>1
  <2> QED BY <2>1, <2>2
<1> QED BY <1>1

\* The reference of a game, as its flags tell it.
LEMMA RefIs ==
  ASSUME NEW g \in Games
  PROVE  /\ Flagged(g) = {} => Ref[g] = 0
         /\ \A r : Flagged(g) = {r} => Ref[g] = r
<1> DEFINE S == Flagged(g)
           c == Ref[g]
<1>1. c = CASE S = {} -> 0 [] Cardinality(S) = 1 -> CHOOSE r \in S : TRUE
            [] OTHER -> MaxRuns + 1
  BY DEF Ref, ReferenceOf
<1> HIDE DEF S, c
<1>2. (S = {} => c = 0) /\ \A x : S = {x} => c = x
  BY <1>1, OneFlag
<1> QED BY <1>2 DEF S, c

LEMMA RefIsNext ==
  ASSUME NEW g \in Games
  PROVE  /\ Flagged(g)' = {} => Ref'[g] = 0
         /\ \A r : Flagged(g)' = {r} => Ref'[g] = r
<1> DEFINE S == Flagged(g)'
           c == Ref'[g]
<1>1. c = CASE S = {} -> 0 [] Cardinality(S) = 1 -> CHOOSE r \in S : TRUE
            [] OTHER -> MaxRuns + 1
  BY DEF Ref, ReferenceOf
<1> HIDE DEF S, c
<1>2. (S = {} => c = 0) /\ \A x : S = {x} => c = x
  BY <1>1, OneFlag
<1> QED BY <1>2 DEF S, c

LEMMA RefKept ==
  ASSUME NEW g \in Games, Flagged(g)' = Flagged(g) PROVE Ref'[g] = Ref[g]
BY DEF Ref, ReferenceOf

LEMMA LedgerUnchanged ==
  ASSUME Flags, UNCHANGED <<status, gameOf, active>> PROVE LedgerStep /\ Flags'
<1>1. Ref' = Ref
  BY DEF Ref, ReferenceOf, Flagged
<1> QED BY <1>1 DEF LedgerStep, Ledger!ledgerVars, Ref, Flags

\* A draft is thrown away, or one that is gone already.
LEMMA LedgerDiscards ==
  ASSUME Tables, Flags, NEW r \in RunId, status[r] \in {"draft", "gone"}, HardDelete(r)
  PROVE  LedgerStep /\ Flags'
<1>1. UNCHANGED <<gameOf, active>> /\ status' = [status EXCEPT ![r] = "gone"]
  BY DEF HardDelete
<1>2. Ref' = Ref
  BY <1>1 DEF Ref, ReferenceOf, Flagged
<1>3. CASE status[r] = "draft"
  <2>1. Ledger!Discard(r)
    BY <1>1, <1>2, <1>3 DEF Ledger!Discard, Ledger!Moves, Ref
  <2> QED BY <1>1, <1>3, <2>1 DEF LedgerStep, Ledger!LedgerNext, Ledger!RunId, RunId, Flags, Tables
<1>4. CASE status[r] = "gone"
  <2>1. UNCHANGED status
    BY <1>1, <1>4 DEF Tables
  <2> QED BY <1>1, <2>1, LedgerUnchanged
<1> QED BY <1>3, <1>4

LEMMA LedgerBegins ==
  ASSUME Tables, Flags, game \in Games, NEW r \in RunId, NEW k, CreateRun(r, k)
  PROVE  LedgerStep /\ Flags'
<1>1. /\ status[r] = "none" /\ status' = [status EXCEPT ![r] = "draft"]
      /\ gameOf' = [gameOf EXCEPT ![r] = game] /\ active' = active
  BY DEF CreateRun
<1>2. r \notin active
  BY <1>1 DEF Flags
<1>3. \A s \in active : status'[s] = status[s] /\ gameOf'[s] = gameOf[s]
  BY <1>1, <1>2 DEF Tables
<1>4. \A g \in Games : Flagged(g)' = Flagged(g)
  BY <1>1, <1>3 DEF Flagged
<1>5. Ref' = Ref
  <2>1. \A g \in Games : Ref'[g] = Ref[g]
    BY <1>4, RefKept
  <2>2. Ref = [g \in Games |-> Ref[g]] /\ Ref' = [g \in Games |-> Ref'[g]]
    BY DEF Ref
  <2> HIDE DEF Ref
  <2> QED BY <2>1, <2>2
<1>6. Ledger!Begin(r, game)
  BY <1>1, <1>5 DEF Ledger!Begin, Ledger!Moves, Ref
<1>7. Flags'
  BY <1>1, <1>3 DEF Flags
<1> QED BY <1>6, <1>7 DEF LedgerStep, Ledger!LedgerNext, Ledger!RunId, RunId

\* Flagging a run makes it the reference of its game and changes no other game's.
LEMMA FlagRefers ==
  ASSUME Tables, Flags, NEW r \in RunId, UNCHANGED gameOf,
         active' = {s \in active : gameOf[s] # gameOf[r]} \cup {r}
  PROVE  Ledger!Refers(gameOf[r], r) /\ \A t, s \in active' : gameOf[t] = gameOf[s] => t = s
<1>1. Flagged(gameOf[r])' = {r} /\ gameOf[r] \in Games
  BY DEF Flagged, Tables
<1>2. \A g \in Games : g # gameOf[r] => Flagged(g)' = Flagged(g)
  BY DEF Flagged, Tables
<1>3. Ref'[gameOf[r]] = r
  BY <1>1, RefIsNext
<1>4. \A g \in Games : g # gameOf[r] => Ref'[g] = Ref[g]
  BY <1>2, RefKept
<1>5. Ref' = [Ref EXCEPT ![gameOf[r]] = r]
  <2>1. Ref' = [g \in Games |-> Ref'[g]] /\ Ref = [g \in Games |-> Ref[g]]
    BY DEF Ref
  <2> HIDE DEF Ref
  <2> QED BY <1>1, <1>3, <1>4, <2>1
<1> QED BY <1>5 DEF Ledger!Refers, Ref, Flags

LEMMA LedgerSaves ==
  ASSUME Tables, Flags, NEW r \in RunId, status[r] = "draft", SaveRun(r)
  PROVE  LedgerStep /\ Flags'
<1>1. Ledger!Refers(gameOf[r], r) /\ \A t, s \in active' : gameOf[t] = gameOf[s] => t = s
  BY FlagRefers DEF SaveRun
<1>2. Ledger!Finalize(r)
  BY <1>1 DEF SaveRun, Ledger!Finalize, Ledger!Moves
<1>3. Flags'
  BY <1>1 DEF SaveRun, Flags, Tables
<1> QED BY <1>2, <1>3 DEF LedgerStep, Ledger!LedgerNext, Ledger!RunId, RunId

LEMMA LedgerActivates ==
  ASSUME Tables, Flags, NEW r \in RunId, ActivateRun(r)
  PROVE  LedgerStep /\ Flags'
<1>1. Ledger!Refers(gameOf[r], r) /\ \A t, s \in active' : gameOf[t] = gameOf[s] => t = s
  BY FlagRefers DEF ActivateRun
<1>2. Ledger!Activate(r)
  BY <1>1 DEF ActivateRun, Ledger!Activate
<1>3. Flags'
  BY <1>1 DEF ActivateRun, Flags, Tables
<1> QED BY <1>2, <1>3 DEF LedgerStep, Ledger!LedgerNext, Ledger!RunId, RunId

\* Deleting the reference hands its flag to another saved run, if there is one.
LEMMA LedgerDeletes ==
  ASSUME Tables, Flags, NEW r \in RunId, NEW p \in BOOLEAN, DeleteRun(r, p)
  PROVE  LedgerStep /\ Flags'
<1> DEFINE g == gameOf[r]
           others == Saved(g) \ {r}
<1>0. /\ status[r] = "saved" /\ status' = [status EXCEPT ![r] = "gone"] /\ gameOf' = gameOf
      /\ HandOverActive(r) /\ g \in Games
  BY DEF DeleteRun, Tables
<1>1. Ledger!Moves(r, "saved", "gone") /\ Ledger!Saved(g) = Saved(g)
  BY <1>0 DEF Ledger!Moves, Ledger!Saved, Saved, Ledger!RunId, RunId
<1>2. Ref = [h \in Games |-> Ref[h]] /\ Ref' = [h \in Games |-> Ref'[h]]
  BY DEF Ref
<1>3. CASE r \notin active
  <2>1. active' = active
    BY <1>0, <1>3 DEF HandOverActive
  <2>2. Ref' = Ref
    BY <1>0, <2>1 DEF Ref, ReferenceOf, Flagged
  <2>3. Ref[g] # r
    <3>1. CASE Flagged(g) = {}
      BY <1>0, <3>1, RefIs DEF RunId
    <3>2. CASE Flagged(g) # {}
      <4>1. PICK s \in active : Flagged(g) = {s}
        BY <3>2 DEF Flagged, Flags
      <4> QED BY <1>0, <1>3, <4>1, RefIs
    <3> QED BY <3>1, <3>2
  <2>4. Ledger!Delete(r)
    BY <1>0, <1>1, <2>2, <2>3 DEF Ledger!Delete, Ref
  <2>5. Flags'
    BY <1>0, <1>3, <2>1 DEF Flags, Tables
  <2> QED BY <2>4, <2>5 DEF LedgerStep, Ledger!LedgerNext, Ledger!RunId, RunId
<1>4. CASE r \in active
  <2>1. Flagged(g) = {r} /\ Ref[g] = r
    <3>1. Flagged(g) = {r}
      BY <1>4 DEF Flagged, Flags
    <3> QED BY <1>0, <3>1, RefIs
  <2>2. CASE others = {}
    <3>1. active' = active \ {r}
      BY <1>0, <1>4, <2>2 DEF HandOverActive
    <3>2. Flagged(g)' = {} /\ \A h \in Games : h # g => Flagged(h)' = Flagged(h)
      BY <1>0, <2>1, <3>1 DEF Flagged
    <3>3. Ref'[g] = 0 /\ \A h \in Games : h # g => Ref'[h] = Ref[h]
      BY <1>0, <3>2, RefIsNext, RefKept
    <3>4. Ledger!Refers(g, 0)
      <4>1. Ref' = [Ref EXCEPT ![g] = 0]
        <5> HIDE DEF Ref
        <5> QED BY <1>0, <1>2, <3>3
      <4> QED BY <4>1 DEF Ledger!Refers, Ref
    <3>5. Ledger!Delete(r)
      BY <1>0, <1>1, <2>1, <2>2, <3>4 DEF Ledger!Delete, Ref
    <3>6. Flags'
      BY <1>0, <3>1 DEF Flags, Tables
    <3> QED BY <3>5, <3>6 DEF LedgerStep, Ledger!LedgerNext, Ledger!RunId, RunId
  <2>3. CASE others # {}
    <3>1. PICK s \in others : active' = (active \ {r}) \cup {s}
      BY <1>0, <1>4, <2>3 DEF HandOverActive
    <3>2. s \in RunId /\ s # r /\ status[s] = "saved" /\ gameOf[s] = g
      BY DEF Saved
    <3>3. Flagged(g)' = {s} /\ \A h \in Games : h # g => Flagged(h)' = Flagged(h)
      BY <1>0, <2>1, <3>1, <3>2 DEF Flagged
    <3>4. Ref'[g] = s /\ \A h \in Games : h # g => Ref'[h] = Ref[h]
      BY <1>0, <3>3, RefIsNext, RefKept
    <3>5. Ledger!Refers(g, s)
      <4>1. Ref' = [Ref EXCEPT ![g] = s]
        <5> HIDE DEF Ref
        <5> QED BY <1>0, <1>2, <3>4
      <4> QED BY <4>1 DEF Ledger!Refers, Ref
    <3>6. Ledger!Delete(r)
      BY <1>0, <1>1, <2>1, <2>3, <3>5 DEF Ledger!Delete, Ref
    <3>7. Flags'
      BY <1>0, <1>4, <3>1, <3>2 DEF Flags, Tables
    <3> QED BY <3>6, <3>7 DEF LedgerStep, Ledger!LedgerNext, Ledger!RunId, RunId
  <2> QED BY <2>2, <2>3
<1> QED BY <1>3, <1>4

LEMMA LedgerInit == Init => Ledger!LedgerInit /\ LedgerInv
<1> SUFFICES ASSUME Init PROVE Ledger!LedgerInit /\ LedgerInv
  OBVIOUS
<1>1. \A g \in Games : Flagged(g) = {}
  BY DEF Init, Flagged
<1>2. Ref = [g \in Games |-> 0]
  <2>1. \A g \in Games : Ref[g] = 0
    BY <1>1, RefIs
  <2>2. Ref = [g \in Games |-> Ref[g]]
    BY DEF Ref
  <2> HIDE DEF Ref
  <2> QED BY <2>1, <2>2
<1>3. Ledger!LedgerInit
  BY <1>2 DEF Init, Ledger!LedgerInit, Ledger!RunId, RunId, Ref
<1>4. LedgerInv
  BY DEF Init, LedgerInv, Flags, Pending, NoReq
<1> QED BY <1>3, <1>4

\* Steps that leave runs and waiting requests alone, or let one come back.
LEMMA LedgerSame ==
  ASSUME Inv, LedgerInv, UNCHANGED <<status, gameOf, active>>,
         \/ UNCHANGED reqs
         \/ \E q \in Reqs : Return(q)
         \/ reqs' = [q \in Reqs |-> NoReq]
  PROVE  LedgerStep /\ LedgerInv'
<1>1. LedgerStep /\ Flags'
  BY LedgerUnchanged DEF LedgerInv
<1>2. Pending'
  BY DEF LedgerInv, Pending, Return, NoReq, Inv, Control
<1> QED BY <1>1, <1>2 DEF LedgerInv

\* Handlers that begin: nothing else waits then.
LEMMA LedgerBegin ==
  ASSUME Inv, LedgerInv, Settled, NEW q \in Reqs, Begins(q) PROVE LedgerStep /\ LedgerInv'
<1> USE DEF Inv, Core
<1>0. AllIdle /\ game \in Games /\ reqs \in [Reqs -> Request]
  BY DEF Begins, StartReference, ResumeReference, StopReference, SaveAndFinish, StartReplay,
         StopReplay, Free, Calm, GameKnown, Control
<1>1. ASSUME NEW op, NEW r, Suspend(q, op, r),
             op = "stopReplay" /\ r # 0 => status'[r] \in {"draft", "gone"}
      PROVE  Pending'
  <2>1. \A p \in Reqs : p # q => reqs'[p] = NoReq
    BY <1>0, <1>1 DEF AllIdle, Suspend
  <2>2. reqs'[q] = [op |-> op, run |-> r]
    BY <1>0, <1>1 DEF Suspend
  <2> QED BY <1>1, <2>1, <2>2 DEF Pending, NoReq
<1>2. ASSUME NEW r \in RunId, NEW k, CreateRun(r, k) PROVE LedgerStep /\ Flags'
  BY <1>0, <1>2, LedgerBegins DEF LedgerInv
<1>3. CASE StartReference(q)
  <2>1. CASE DraftAllowed
    <3>1. Suspend(q, "startRef", 0) /\ \E r \in RunId : CreateRun(r, "live")
      BY <1>3, <2>1 DEF StartReference
    <3> QED BY <1>1, <1>2, <3>1 DEF LedgerInv
  <2>2. CASE ~DraftAllowed
    BY <1>3, <2>2, LedgerSame DEF StartReference, dbVars
  <2> QED BY <2>1, <2>2
<1>4. CASE StartReplay(q)
  <2>1. Suspend(q, "startReplay", 0) /\ \E r \in RunId : CreateRun(r, "replay")
    BY <1>4 DEF StartReplay
  <2> QED BY <1>1, <1>2, <2>1 DEF LedgerInv
<1>5. CASE ResumeReference(q) \/ StopReference(q) \/ SaveAndFinish(q)
  <2>1. UNCHANGED <<status, gameOf, active>>
    BY <1>5 DEF ResumeReference, StopReference, SaveAndFinish, dbVars
  <2>2. \E op \in {"startRef", "stopRef", "saveFinish"} : Suspend(q, op, 0)
    BY <1>5 DEF ResumeReference, StopReference, SaveAndFinish
  <2>3. Pending'
    BY <1>1, <2>2
  <2> QED BY <2>1, <2>3, LedgerUnchanged DEF LedgerInv
<1>6. CASE StopReplay(q)
  <2>1. UNCHANGED <<status, gameOf, active>> /\ Suspend(q, "stopReplay", rec.run)
    BY <1>6 DEF StopReplay, dbVars
  <2>2. rec.run # 0 => status'[rec.run] = "draft"
    BY <2>1 DEF CurrentRunIsDraft
  <2>3. Pending'
    BY <1>1, <2>1, <2>2
  <2> QED BY <2>1, <2>3, LedgerUnchanged DEF LedgerInv
<1> QED BY <1>3, <1>4, <1>5, <1>6 DEF Begins

\* What a replay's end discards was recorded or paused a moment ago.
LEMMA LedgerDiscardIdle ==
  ASSUME Inv, LedgerInv, NEW r \in Run0, r # 0 => status[r] \in {"draft", "gone"},
         DiscardThenIdle(r)
  PROVE  LedgerStep /\ Flags'
<1>1. CASE Empty(r) /\ Deletable(r)
  <2>1. r \in RunId /\ r # 0 /\ HardDelete(r)
    BY <1>1 DEF Empty, DiscardThenIdle, Run0, RunId
  <2> QED BY <2>1, LedgerDiscards DEF Inv, Core, LedgerInv
<1>2. CASE ~(Empty(r) /\ Deletable(r))
  <2>1. UNCHANGED <<status, gameOf, active>>
    BY <1>2 DEF DiscardThenIdle, dbVars
  <2> QED BY <2>1, LedgerUnchanged DEF LedgerInv
<1> QED BY <1>1, <1>2

\* A draft that waits stays one or goes, unless it is saved.
LEMMA PendingKept ==
  ASSUME Inv, LedgerInv, NEW r \in RunId, HardDelete(r),
         reqs' = reqs \/ \E q \in Reqs : Return(q)
  PROVE  Pending'
<1>1. \A p \in RunId : status[p] \in {"draft", "gone"} => status'[p] \in {"draft", "gone"}
  BY DEF HardDelete, Inv, Core, Tables
<1>2. \A q \in Reqs : reqs[q].run # 0 => reqs[q].run \in RunId
  BY DEF Inv, Control, Request, Run0, RunId
<1>3. \A q \in Reqs : reqs'[q] \in {reqs[q], NoReq}
  BY DEF Return, Inv, Control
<1> QED BY <1>1, <1>2, <1>3 DEF LedgerInv, Pending, NoReq

\* Once the only request came back, or none waits, none does.
LEMMA PendingNone ==
  ASSUME \A p \in Reqs : reqs'[p] = NoReq PROVE Pending'
BY DEF Pending, NoReq

LEMMA LedgerReturns ==
  ASSUME Inv, LedgerInv, NEW q \in Reqs, Returns(q) PROVE LedgerStep /\ LedgerInv'
<1> USE DEF Inv, Core
<1>1. CASE \/ StartReferenceReturns(q) \/ StartReplayReturns(q)
           \/ ReplayRefused(q) \/ ReplayRaises(q) \/ StopReferenceReturns(q)
  <2>1. UNCHANGED <<status, gameOf, active>> /\ Return(q)
    BY <1>1 DEF StartReferenceReturns, StartReplayReturns, ReplayRefused, ReplayRaises,
                StopReferenceReturns, EndCurrentSession, dbVars
  <2> QED BY <2>1, LedgerSame
<1>2. CASE ReplayPlays(q)
  <2>1. UNCHANGED <<status, gameOf, active>> /\ reqs[q] # NoReq
    BY <1>2 DEF ReplayPlays, NoReq, dbVars
  <2>2. reqs' = [reqs EXCEPT ![q] = [op |-> "replayOn", run |-> 0]]
    BY <1>2 DEF ReplayPlays, Suspend
  <2>3. Pending'
    BY <2>1, <2>2 DEF LedgerInv, Pending, Control
  <2> QED BY <2>1, <2>3, LedgerUnchanged DEF LedgerInv
<1>3. CASE SaveAndFinishReturns(q)
  <2>1. CASE rec.run = 0
    BY <1>3, <2>1, LedgerSame DEF SaveAndFinishReturns, dbVars
  <2>2. CASE rec.run # 0
    <3>1. rec.run \in RunId /\ SaveRun(rec.run) /\ status[rec.run] = "draft"
      BY <1>3, <2>2 DEF SaveAndFinishReturns, Phase, Rec, Run0, RunId, CurrentRunIsDraft
    <3>2. \A p \in Reqs : reqs'[p] = NoReq
      BY <1>3 DEF SaveAndFinishReturns, Return, LedgerInv, Pending, NoReq, Control
    <3> QED BY <3>1, <3>2, LedgerSaves, PendingNone DEF LedgerInv
  <2> QED BY <2>1, <2>2
<1>4. CASE StopReplayReturns(q)
  <2>1. /\ reqs[q].run \in Run0 /\ DiscardThenIdle(reqs[q].run) /\ Return(q)
        /\ reqs[q].run # 0 => status[reqs[q].run] \in {"draft", "gone"}
    BY <1>4 DEF StopReplayReturns, Control, Request, LedgerInv, Pending
  <2>2. reqs[q] # NoReq
    BY <1>4 DEF StopReplayReturns, NoReq
  <2>3. \A p \in Reqs : reqs'[p] = NoReq
    BY <2>1, <2>2 DEF Return, LedgerInv, Pending, Control
  <2> QED BY <2>1, <2>3, LedgerDiscardIdle, PendingNone DEF LedgerInv
<1> QED BY <1>1, <1>2, <1>3, <1>4 DEF Returns

LEMMA LedgerImmediate ==
  ASSUME Inv, LedgerInv, Settled, Immediate PROVE LedgerStep /\ LedgerInv'
<1> USE DEF Inv, Core
<1>0. reqs' = reqs /\ \A p \in Reqs : reqs'[p] = NoReq
  BY DEF Immediate, StopReplayAtOnce, FinalizeRun, DiscardRun, StartPractice, StopPractice,
         ResetData, ActivateRun, DeleteRun, DeleteCaptureSession, Calm, AllIdle
<1>1. Pending'
  BY <1>0, PendingNone
<1>2. CASE StopReplayAtOnce
  <2>1. rec.run \in Run0 /\ (rec.run # 0 => status[rec.run] = "draft")
    BY DEF Phase, Rec, CurrentRunIsDraft
  <2> QED BY <1>1, <1>2, <2>1, LedgerDiscardIdle DEF StopReplayAtOnce, LedgerInv
<1>3. CASE FinalizeRun
  <2>1. paused \in RunId /\ SaveRun(paused) /\ status[paused] = "draft"
    BY <1>3 DEF FinalizeRun, Phase, Run0, RunId, CurrentRunIsDraft
  <2> QED BY <1>1, <2>1, LedgerSaves DEF LedgerInv
<1>4. CASE DiscardRun
  <2>1. paused \in RunId /\ HardDelete(paused) /\ status[paused] = "draft"
    BY <1>4 DEF DiscardRun, Phase, Run0, RunId, CurrentRunIsDraft
  <2> QED BY <1>1, <2>1, LedgerDiscards DEF LedgerInv
<1>5. CASE \/ StartPractice \/ StopPractice \/ ResetData
           \/ \E r \in RunId, o \in Ords : DeleteCaptureSession(r, o)
  <2>1. UNCHANGED <<status, gameOf, active>>
    BY <1>5 DEF StartPractice, StopPractice, ResetData, DeleteCaptureSession, dbVars
  <2> QED BY <1>1, <2>1, LedgerUnchanged DEF LedgerInv
<1>6. ASSUME NEW r \in RunId, ActivateRun(r) PROVE LedgerStep /\ LedgerInv'
  BY <1>1, <1>6, LedgerActivates DEF LedgerInv
<1>7. ASSUME NEW r \in RunId, NEW p \in BOOLEAN, DeleteRun(r, p) PROVE LedgerStep /\ LedgerInv'
  BY <1>1, <1>7, LedgerDeletes DEF LedgerInv
<1> QED BY <1>2, <1>3, <1>4, <1>5, <1>6, <1>7 DEF Immediate

LEMMA LedgerHandles ==
  ASSUME Inv, LedgerInv, Handles PROVE LedgerStep /\ LedgerInv'
<1> USE DEF Inv, Core
<1>1. CASE HandleEntrance \/ EntranceSaved \/ HandleExit \/ HandleRomInfo
  <2>1. UNCHANGED <<status, gameOf, active, reqs>>
    BY <1>1 DEF HandleEntrance, EntranceSaved, HandleExit, HandleRomInfo, dbVars
  <2> QED BY <2>1, LedgerSame
<1>2. CASE HandleReplayFinished \/ HandleReplayError
  <2>0. reqs' = reqs
    BY <1>2 DEF HandleReplayFinished, HandleReplayError
  <2>1. CASE Empty(rec.run) /\ Deletable(rec.run)
    <3>1. rec.run \in RunId /\ status[rec.run] = "draft" /\ HardDelete(rec.run)
      BY <1>2, <2>1 DEF HandleReplayFinished, HandleReplayError, Empty, Phase, Rec, Run0, RunId,
                        CurrentRunIsDraft
    <3> QED BY <2>0, <3>1, LedgerDiscards, PendingKept DEF LedgerInv
  <2>2. CASE ~(Empty(rec.run) /\ Deletable(rec.run))
    <3>1. UNCHANGED <<status, gameOf, active>>
      BY <1>2, <2>2 DEF HandleReplayFinished, HandleReplayError, EndCurrentSession
    <3> QED BY <2>0, <3>1, LedgerSame
  <2> QED BY <2>1, <2>2
<1> QED BY <1>1, <1>2 DEF Handles

LEMMA LedgerNextStep ==
  ASSUME Settled, Inv, LedgerInv, [Next]_vars PROVE LedgerStep /\ LedgerInv'
<1>1. CASE PollerEmits \/ RomChanges \/ Watches \/ CrashAndRestart \/ UNCHANGED vars
  <2>1. UNCHANGED <<status, gameOf, active>> /\ (UNCHANGED reqs \/ reqs' = [q \in Reqs |-> NoReq])
    BY <1>1 DEF PollerEmits, RomChanges, Watches, MovieRunsOut, ReplayEnds, ReplayEndHandled,
                CrashAndRestart, vars, dbVars
  <2> QED BY <2>1, LedgerSame
<1> QED BY <1>1, LedgerBegin, LedgerReturns, LedgerImmediate, LedgerHandles DEF Next

\* With requests from enabled buttons, one at a time, the capture tables keep
\* the run ledger's promise: runs go from draft to saved or away, and a game with
\* a saved run has exactly one reference, a saved run of its own.
THEOREM TablesImplementLedger ==
  ASSUME Settled = TRUE PROVE Spec => ImplementsLedger
<1>1. Inv /\ LedgerInv /\ [Next]_vars => LedgerInv' /\ [Ledger!LedgerNext]_(Ledger!ledgerVars)
  BY LedgerNextStep DEF LedgerStep
<1> QED BY SpecInv, LedgerInit, <1>1, PTL DEF Spec, ImplementsLedger, Ledger!LedgerSpec

\* What follows in the ledger follows for the tables that implement it.
LEMMA ReferredStep ==
  ASSUME Tables, Tables', LedgerStep, Ledger!SavedIsReferred PROVE Ledger!SavedIsReferred'
<1> DEFINE R == Ref
<1> USE DEF Ledger!SavedIsReferred, Ledger!Saved, Ledger!RunId, RunId, Ledger!Moves
<1>0. R = [g \in Games |-> R[g]] /\ R' = [g \in Games |-> R'[g]]
  BY DEF Ref
<1>1. \A g \in Games : IF Ledger!Saved(g) = {} THEN R[g] = 0 ELSE R[g] \in Ledger!Saved(g)
  BY DEF Ref
<1>2. SUFFICES \A g \in Games : IF Ledger!Saved(g)' = {} THEN R'[g] = 0
                                                        ELSE R'[g] \in Ledger!Saved(g)'
  BY DEF Ref
<1>3. CASE UNCHANGED Ledger!ledgerVars
  <2>1. status' = status /\ gameOf' = gameOf /\ R' = R
    BY <1>3 DEF Ledger!ledgerVars, Ref
  <2> HIDE DEF R
  <2> QED BY <1>1, <2>1
<1>4. CASE Ledger!LedgerNext
  <2>1. PICK r \in RunId : \/ \E g \in Games : Ledger!Begin(r, g)
                           \/ Ledger!Discard(r) \/ Ledger!Finalize(r)
                           \/ Ledger!Activate(r) \/ Ledger!Delete(r)
    BY <1>4 DEF Ledger!LedgerNext
  <2>2. CASE Ledger!Discard(r) \/ \E g \in Games : Ledger!Begin(r, g)
    <3>1. R' = R
      BY <2>2 DEF Ledger!Begin, Ledger!Discard, Ref
    <3>2. \A g \in Games : Ledger!Saved(g)' = Ledger!Saved(g)
      BY <2>2 DEF Ledger!Begin, Ledger!Discard, Tables
    <3> HIDE DEF R
    <3> QED BY <1>1, <3>1, <3>2
  <2>3. CASE Ledger!Finalize(r) \/ Ledger!Activate(r)
    <3>1. R' = [R EXCEPT ![gameOf[r]] = r] /\ gameOf' = gameOf /\ gameOf[r] \in Games
      BY <2>3 DEF Ledger!Finalize, Ledger!Activate, Ledger!Refers, Ref, Tables
    <3>2. status'[r] = "saved" /\ \A s \in RunId : s # r => status'[s] = status[s]
      BY <2>3 DEF Ledger!Finalize, Ledger!Activate, Tables
    <3> HIDE DEF R
    <3> QED BY <1>0, <1>1, <3>1, <3>2
  <2>4. CASE Ledger!Delete(r)
    <3> DEFINE h == gameOf[r]
    <3>1. /\ status[r] = "saved" /\ status'[r] = "gone" /\ gameOf' = gameOf /\ h \in Games
          /\ \A s \in RunId : s # r => status'[s] = status[s]
      BY <2>4 DEF Ledger!Delete, Tables
    <3>2. /\ R[h] # r => R' = R
          /\ R[h] = r /\ Ledger!Saved(h) \ {r} = {} => R' = [R EXCEPT ![h] = 0]
          /\ R[h] = r /\ Ledger!Saved(h) \ {r} # {} =>
               \E s \in Ledger!Saved(h) \ {r} : R' = [R EXCEPT ![h] = s]
      BY <2>4 DEF Ledger!Delete, Ledger!Refers, Ref
    <3>3. Ledger!Saved(h)' = Ledger!Saved(h) \ {r}
      BY <3>1
    <3>4. \A g \in Games : g # h => Ledger!Saved(g)' = Ledger!Saved(g)
      BY <3>1
    <3> HIDE DEF R
    <3> QED BY <1>0, <1>1, <3>1, <3>2, <3>3, <3>4
  <2> QED BY <2>1, <2>2, <2>3, <2>4
<1> QED BY <1>3, <1>4 DEF LedgerStep

\* As soon as a game has saved runs, exactly one is flagged, one of its own: the
\* run that practice and replay are offered from.
THEOREM SavedGamesHaveReference ==
  ASSUME Settled = TRUE PROVE Spec => []Ledger!SavedIsReferred
<1>1. Init => Ledger!SavedIsReferred
  <2> SUFFICES ASSUME Init PROVE Ledger!SavedIsReferred
    OBVIOUS
  <2>1. Ledger!LedgerInit
    BY LedgerInit
  <2> QED BY <2>1 DEF Ledger!LedgerInit, Ledger!SavedIsReferred, Ledger!Saved, Ref
<1>2. Inv /\ Inv' /\ LedgerInv /\ Ledger!SavedIsReferred /\ [Next]_vars
         => LedgerInv' /\ Ledger!SavedIsReferred'
  BY LedgerNextStep, ReferredStep DEF Inv, Core
<1> QED BY SpecInv, LedgerInit, <1>1, <1>2, PTL DEF Spec
===============================================================================
