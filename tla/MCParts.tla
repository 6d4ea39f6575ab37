------------------------------- MODULE MCParts -------------------------------
(* Parts with small values. *)
EXTENDS Parts

CONSTANTS tick, slow  \* periodic timers

Intervals == tick :> 1 @@ slow :> 3
WaitTimes == {-1, 0, 1, 2}

Characters == {"a", "?", "9", "N", "U", "L", Quote, Backslash}
Statements == {<<"a">>, <<"?">>, <<"a", "?">>, <<"?", "?">>, <<"?", "a", "?">>,
               <<"?", "?", "?">>, <<"?", "?", "?", "?">>}
Values == {<<>>, <<"?">>, <<Quote, "a">>}

=============================================================================
