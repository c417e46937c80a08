------------------------------ MODULE RunLedger ------------------------------
(***************************************************************************)
(* What the capture subsystem promises about reference runs, whatever its  *)
(* controllers, handlers and crashes do: a run is created as a draft; a    *)
(* draft either becomes saved or is thrown away; a saved run is never a    *)
(* draft again and goes away only when the user deletes it; and a game     *)
(* with a saved run always has exactly one reference, one of its own saved *)
(* runs.                                                                   *)
(*                                                                         *)
(* ReferenceCapture implements this specification, with the flag column of *)
(* its table read as the reference of each game.                           *)
(***************************************************************************)
EXTENDS Naturals

CONSTANTS Games,    \* the games the ledger holds runs for
          MaxRuns   \* how many runs are ever created

VARIABLES status,    \* run -> "none", "draft", "saved" or "gone"
          gameOf,    \* run -> the game it was created for
          reference  \* game -> the run it is practised from, 0 for none

ledgerVars == <<status, gameOf, reference>>

RunId == 1 .. MaxRuns

Saved(g) == {r \in RunId : status[r] = "saved" /\ gameOf[r] = g}

LedgerInit == /\ status = [r \in RunId |-> "none"]
              /\ gameOf \in [RunId -> Games]
              /\ reference = [g \in Games |-> 0]

Moves(r, from, to) == status[r] = from /\ status' = [status EXCEPT ![r] = to]
Refers(g, r) == reference' = [reference EXCEPT ![g] = r]

Begin(r, g) == /\ Moves(r, "none", "draft")
               /\ gameOf' = [gameOf EXCEPT ![r] = g]
               /\ UNCHANGED reference

Discard(r) == Moves(r, "draft", "gone") /\ UNCHANGED <<gameOf, reference>>

\* Finalizing makes the run the reference of its game.
Finalize(r) == /\ Moves(r, "draft", "saved") /\ Refers(gameOf[r], r)
               /\ UNCHANGED gameOf

Activate(r) == /\ status[r] = "saved" /\ Refers(gameOf[r], r)
               /\ UNCHANGED <<status, gameOf>>

\* Deleting the reference hands the part to another saved run, if any.
Delete(r) == /\ Moves(r, "saved", "gone") /\ UNCHANGED gameOf
             /\ LET g == gameOf[r]
                    others == Saved(g) \ {r}
                IN  IF reference[g] # r THEN UNCHANGED reference
                    ELSE IF others = {} THEN Refers(g, 0)
                    ELSE \E s \in others : Refers(g, s)

LedgerNext == \E r \in RunId : \/ \E g \in Games : Begin(r, g)
                               \/ Discard(r) \/ Finalize(r)
                               \/ Activate(r) \/ Delete(r)

LedgerSpec == LedgerInit /\ [][LedgerNext]_ledgerVars

\* So a game is practised from one of its own saved runs as soon as it has any.
SavedIsReferred ==
    \A g \in Games : IF Saved(g) = {} THEN reference[g] = 0 ELSE reference[g] \in Saved(g)
==============================================================================
