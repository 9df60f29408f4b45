-------------------------- MODULE MCProcessCommand --------------------------
(***************************************************************************)
(* ProcessCommand with one call of each kind.                              *)
(***************************************************************************)
EXTENDS ProcessCommand, TLC

FourCallers == {"r1", "e1", "w1", "s1"}
KindOfFour == ("r1" :> "run") @@ ("e1" :> "ensure")
              @@ ("w1" :> "wait") @@ ("s1" :> "stop")

=============================================================================
