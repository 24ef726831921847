-------------------------- MODULE MCCanvasAutosave --------------------------
(***************************************************************************)
(* CanvasAutosave for TLC: the default workspace, another one, the same     *)
(* with an image that is still embedded, and the same with an older         *)
(* built-in workflow.                                                       *)
(***************************************************************************)
EXTENDS CanvasAutosave

CONSTANTS blank, scene, sceneWithImage, sceneOfOld

MCValues == {blank, scene, sceneWithImage, sceneOfOld}
MCStrip == [v \in MCValues |-> IF v = sceneWithImage THEN scene ELSE v]
MCOpened == [v \in MCValues |-> IF v = sceneOfOld THEN scene ELSE v]
=============================================================================
