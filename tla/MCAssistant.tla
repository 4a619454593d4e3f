----------------------------- MODULE MCAssistant -----------------------------
(***************************************************************************)
(* Chat windows, confirmed actions and the daily memory job for TLC.  They *)
(* share no table in these models, so one behaviour watches one of them:   *)
(* its focus, chosen at the start, is the component that moves.            *)
(***************************************************************************)
EXTENDS ChatWindow, AIActions, DailyMemory, TLC

CONSTANTS bought, followed, remembered

VARIABLE focus

\* Actions with each sort of part; the other two are one part of these.
EachPart ==
  (bought :> "position.add") @@ (followed :> "watchlist.add")
    @@ (remembered :> "memory.write")

AssistantVars == <<ChatVars, ActionVars, DailyVars, focus>>

\* The two halves of the daily job are watched apart: the memories, with no
\* judgment, and the judgments, with no memory.
MCInit ==
  /\ focus \in {"chat", "actions", "memories", "judgments"}
  /\ ChatInit /\ ActionsInit /\ DailyInit
  /\ focus # "memories" => memory = [k \in Keys |-> "none"]

MCNext ==
  /\ UNCHANGED focus
  /\ \/ /\ focus = "chat"
        /\ ChatNext \/ (ChatDone /\ UNCHANGED ChatVars)
        /\ UNCHANGED <<ActionVars, DailyVars>>
     \/ /\ focus = "actions"
        /\ ActionsNext \/ (ActionsDone /\ UNCHANGED ActionVars)
        /\ UNCHANGED <<ChatVars, DailyVars>>
     \/ /\ focus = "memories"
        /\ UseMemories \/ StartDaily \/ RunDaily \/ Die
        /\ UNCHANGED <<ChatVars, ActionVars>>
     \/ /\ focus = "judgments"
        /\ UseItems \/ StartDaily \/ RunDaily \/ Die
        /\ UNCHANGED <<ChatVars, ActionVars>>

MCSpec ==
  /\ MCInit /\ [][MCNext]_AssistantVars
  /\ focus \in {"memories", "judgments"} => DailyFairness
=============================================================================
