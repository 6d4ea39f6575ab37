------------------------------- MODULE MCSession -------------------------------
(* Session with lengths of replies: one packet, exactly two, or two of     *)
(* which the second is not full. *)
EXTENDS Session

TwoPackets == [id \in Ids |-> IF id = 257 THEN 7 ELSE 2 * MSS]
OnePacket == [id \in Ids |-> 7]
OverOnePacket == [id \in Ids |-> MSS + 1]

=============================================================================
