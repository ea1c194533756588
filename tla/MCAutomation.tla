---------------------------- MODULE MCAutomation ----------------------------
(***************************************************************************)
(* Two versions of a definition for TLC: the second has an End in a branch *)
(* and one at the top level.                                               *)
(***************************************************************************)
EXTENDS Automation, TLC

Version1 ==
  <<0>> :> "action" @@ <<1>> :> "branch" @@ <<1, 0, 0>> :> "wait" @@ <<1, 0, 1>> :> "action" @@
  <<2>> :> "action"

Version2 ==
  <<0>> :> "branch" @@ <<0, 0, 0>> :> "end" @@ <<0, 1, 0>> :> "action" @@ <<1>> :> "action" @@
  <<2>> :> "end" @@ <<3>> :> "action"

TwoVersions == <<Version1, Version2>>
=============================================================================
