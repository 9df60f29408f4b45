---------------------------- MODULE MCLogStreams ----------------------------
(***************************************************************************)
(* LogStreams with four lines whose lengths make the writes to a history   *)
(* of three bytes go around its end, stop at it, and replace it whole.     *)
(***************************************************************************)
EXTENDS LogStreams

FourLines == {<<2, 2, 2, 4>>}

=============================================================================
