--------------------------- MODULE KronosTraining ---------------------------
(***************************************************************************)
(* tools/m27_kronos_path_a_launch.py: a launch trains a model by steps,    *)
(* saves checkpoints under the names of their steps, and at the end copies *)
(* the best of them to best_model.  A checkpoint is written to a temporary *)
(* directory that is renamed.  Launches may share the output directory,    *)
(* and one may die between any two steps.                                  *)
(*                                                                         *)
(* A directory of smoke models is shared by any number of launches, which  *)
(* may resume from a checkpoint.  Real models have a directory of their    *)
(* own, and one launch at a time, which never resumes: save_pretrained     *)
(* takes an existing directory, so nothing keeps two of them apart.  What  *)
(* a model is is left out but for who trained it and its loss.             *)
(***************************************************************************)
EXTENDS Naturals, FiniteSets

CONSTANTS
  Launches,
  MaxSteps, Interval,   \* max_steps and checkpoint_interval
  Losses                \* positive; the smaller the better

ASSUME TrainingAssumption ==
  /\ {MaxSteps, Interval} \subseteq Nat \ {0}
  /\ Losses \subseteq Nat \ {0} /\ \E x \in Losses : \A y \in Losses : y <= x
  /\ "none" \notin Launches

VARIABLES
  kind,     \* --artifact-kind of the directory: "smoke" or "real"
  tmp,      \* the directories step_*.tmp
  saved,    \* the directories step_*
  best,     \* the directory best_model
  launch    \* what each launch is at

TrainingVars == <<kind, tmp, saved, best, launch>>

StepNumbers == 1 .. MaxSteps
Infinite == 1 + CHOOSE x \in Losses : \A y \in Losses : y <= x

\* What a file of a directory holds: a model of a launch, or nothing.
NoModel == [by |-> "none", step |-> 0, loss |-> 0, bestLoss |-> 0]
NoDir == [there |-> FALSE, model |-> NoModel, manifest |-> NoModel]
EmptyDir == [NoDir EXCEPT !.there = TRUE]

NewLaunch ==
  [at |-> "idle", from |-> 0, step |-> 0, loss |-> Infinite, bestLoss |-> Infinite,
   chosenLoss |-> Infinite, bestStep |-> 0, lastSaved |-> 0, over |-> FALSE]

TrainingInit ==
  /\ kind \in {"smoke", "real"}
  /\ tmp = [s \in StepNumbers |-> NoDir] /\ saved = [s \in StepNumbers |-> NoDir] /\ best = NoDir
  /\ launch = [l \in Launches |-> NewLaunch]

Live(l) == launch[l].at \notin {"idle", "skipped", "completed", "failed"}
Now(l, q) == launch' = [launch EXCEPT ![l] = q]
GoesTo(l, at) == launch' = [launch EXCEPT ![l].at = at]

-----------------------------------------------------------------------------
(* The loop.                                                               *)

\* A published model ends the launch: it is skipped, or refused.
FindPublished(l) ==
  /\ launch[l].at = "idle" /\ best.there
  /\ GoesTo(l, "skipped")
  /\ UNCHANGED <<kind, tmp, saved, best>>

StartLaunch(l) ==
  /\ launch[l].at = "idle" /\ ~best.there
  /\ kind = "real" => \A m \in Launches : ~Live(m)
  /\ \/ Now(l, [NewLaunch EXCEPT !.at = "train"])
     \/ \E s \in StepNumbers :
          /\ kind = "smoke" /\ saved[s].model # NoModel /\ saved[s].model.step < MaxSteps
          /\ Now(l, [NewLaunch EXCEPT !.at = "train", !.from = saved[s].model.step,
                                          !.step = saved[s].model.step,
                                          !.bestLoss = saved[s].model.bestLoss])
  /\ UNCHANGED <<kind, tmp, saved, best>>

Checkpoints(step) == step % Interval = 0 \/ step = MaxSteps
Lower(a, b) == IF a <= b THEN a ELSE b

\* A real launch keeps the best loss of all its steps; a smoke one that of
\* its checkpoints.
TrainStep(l) ==
  /\ launch[l].at = "train" /\ launch[l].step < MaxSteps
  /\ \E x \in Losses :
       LET q == launch[l] IN
         Now(l, [q EXCEPT !.step = q.step + 1, !.loss = x,
                              !.bestLoss = IF kind = "real" THEN Lower(x, q.bestLoss) ELSE q.bestLoss,
                              !.at = IF Checkpoints(q.step + 1) THEN "look" ELSE "train"])
  /\ UNCHANGED <<kind, tmp, saved, best>>

\* The epochs of a smoke launch are over before its steps: it saves once more.
EndEpochs(l) ==
  /\ kind = "smoke" /\ launch[l].at = "train"
  /\ launch[l].step # launch[l].from /\ launch[l].step < MaxSteps
  /\ Now(l, [launch[l] EXCEPT
                   !.over = TRUE,
                   !.at = IF launch[l].lastSaved = launch[l].step THEN "publish" ELSE "look"])
  /\ UNCHANGED <<kind, tmp, saved, best>>

EndSteps(l) ==
  /\ launch[l].at = "train" /\ launch[l].step = MaxSteps
  /\ GoesTo(l, "publish")
  /\ UNCHANGED <<kind, tmp, saved, best>>

-----------------------------------------------------------------------------
(* _save_checkpoint and _save_kronos_pretrained_checkpoint.                *)

TheModel(l) ==
  [by |-> l, step |-> launch[l].step, loss |-> launch[l].loss,
   bestLoss |-> Lower(launch[l].loss, launch[l].bestLoss)]

LookForRoom(l) ==
  /\ launch[l].at = "look"
  /\ LET s == launch[l].step IN
       GoesTo(l, IF saved[s].there \/ tmp[s].there THEN "failed" ELSE "make")
  /\ UNCHANGED <<kind, tmp, saved, best>>

\* Variant for mutation: an existing directory is taken.
TakesDirectory_Any(s) == TRUE
\* Whether the directory can be made: mkdir takes no existing one.
TakesDirectory(s) == kind = "real" \/ ~tmp[s].there

MakeTmp(l) ==
  /\ launch[l].at = "make"
  /\ LET s == launch[l].step IN
       IF TakesDirectory(s)
       THEN /\ tmp' = [tmp EXCEPT ![s].there = TRUE]
            /\ GoesTo(l, "model")
       ELSE GoesTo(l, "failed") /\ UNCHANGED tmp
  /\ UNCHANGED <<kind, saved, best>>

SaveModel(l) ==
  /\ launch[l].at = "model"
  /\ LET s == launch[l].step IN
       IF tmp[s].there
       THEN /\ tmp' = [tmp EXCEPT ![s].model = TheModel(l)]
            /\ GoesTo(l, "manifest")
       ELSE GoesTo(l, "failed") /\ UNCHANGED tmp
  /\ UNCHANGED <<kind, saved, best>>

SaveManifest(l) ==
  /\ launch[l].at = "manifest"
  /\ LET s == launch[l].step IN
       IF tmp[s].there
       THEN /\ tmp' = [tmp EXCEPT ![s].manifest = TheModel(l)]
            /\ GoesTo(l, "rename")
       ELSE GoesTo(l, "failed") /\ UNCHANGED tmp
  /\ UNCHANGED <<kind, saved, best>>

\* Variant for mutation: by the best loss of all steps.
IsBest_OfSteps(q) == q.loss <= q.bestLoss \/ q.bestStep = 0
\* The best checkpoint of a smoke launch so far, or its first; of a real one.
IsBest(q) ==
  IF kind = "smoke" THEN q.loss <= q.bestLoss \/ q.bestStep = 0
  ELSE q.loss <= q.chosenLoss

\* rename, which replaces no directory that holds anything.
RenameTmp(l) ==
  /\ launch[l].at = "rename"
  /\ LET q == launch[l]
         s == q.step
         kept == [q EXCEPT !.at = IF q.over THEN "publish" ELSE "train",
                           !.lastSaved = s, !.bestLoss = Lower(q.loss, q.bestLoss)]
     IN  IF tmp[s].there /\ ~saved[s].there
         THEN /\ saved' = [saved EXCEPT ![s] = tmp[s]]
              /\ tmp' = [tmp EXCEPT ![s] = NoDir]
              /\ Now(l, IF IsBest(q) THEN [kept EXCEPT !.bestStep = s, !.chosenLoss = q.loss]
                            ELSE kept)
         ELSE GoesTo(l, "failed") /\ UNCHANGED <<tmp, saved>>
  /\ UNCHANGED <<kind, best>>

-----------------------------------------------------------------------------
(* copytree to best_model: the directory, which must not be there, and the *)
(* files of it.                                                            *)

Publish(l) ==
  /\ launch[l].at = "publish"
  /\ IF best.there THEN GoesTo(l, "failed") /\ UNCHANGED best
     ELSE best' = EmptyDir /\ GoesTo(l, "copy")
  /\ UNCHANGED <<kind, tmp, saved>>

CopyFile(l) ==
  /\ launch[l].at = "copy"
  /\ LET from == saved[launch[l].bestStep]
         copied == {[best EXCEPT !.model = from.model], [best EXCEPT !.manifest = from.manifest]} \ {best}
     IN  /\ best' \in copied
         /\ GoesTo(l, IF best'.model # NoModel /\ best'.manifest # NoModel THEN "completed" ELSE "copy")
  /\ UNCHANGED <<kind, tmp, saved>>

DieTraining(l) ==
  /\ Live(l)
  /\ GoesTo(l, "failed")
  /\ UNCHANGED <<kind, tmp, saved, best>>

TrainingDone == \A l \in Launches : launch[l].at # "idle" /\ ~Live(l)

TrainingNext ==
  \E l \in Launches :
    \/ FindPublished(l) \/ StartLaunch(l) \/ TrainStep(l) \/ EndEpochs(l) \/ EndSteps(l)
    \/ LookForRoom(l) \/ MakeTmp(l) \/ SaveModel(l) \/ SaveManifest(l) \/ RenameTmp(l)
    \/ Publish(l) \/ CopyFile(l) \/ DieTraining(l)

TrainingSpec == TrainingInit /\ [][TrainingNext]_TrainingVars

-----------------------------------------------------------------------------
(* A checkpoint under its name holds a model and the manifest of the same  *)
(* model, whichever launches meet in the directory and wherever they die.  *)
CheckpointsAreWhole ==
  \A s \in StepNumbers : saved[s].there =>
    saved[s].model # NoModel /\ saved[s].model.step = s /\ saved[s].manifest = saved[s].model

(* The model that a launch publishes, once both its files are there, is    *)
(* one model, and none of the checkpoints of a launch from the start on    *)
(* has a lower loss.                                                       *)
PublishedIsBest ==
  best.model # NoModel /\ best.manifest # NoModel =>
    /\ best.manifest = best.model
    /\ LET l == best.model.by IN
         launch[l].from = 0 =>
           \A s \in StepNumbers : saved[s].model.by = l => best.model.loss <= saved[s].model.loss
=============================================================================
