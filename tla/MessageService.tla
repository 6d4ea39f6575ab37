---------------------------- MODULE MessageService ----------------------------
(***************************************************************************)
(* What a session promises its peer, without bytes, packets or pools: the  *)
(* messages are handled one by one in the order they were sent, each once, *)
(* and a peer that reads finds their replies in that order.  Once objects  *)
(* that were used before have been handed out again, what is handled may   *)
(* be something else; the replies to it still come in order.               *)
(***************************************************************************)
EXTENDS Naturals, Sequences

CONSTANTS Messages,       \* what a peer may send
          ReplyIdOf(_)    \* the identity of the reply to a message

VARIABLES asked,     \* the messages the peer has sent
          handled,   \* those that have been handled
          answered,  \* the identities of the replies the peer has received
          reused     \* an object was handed out that had been used

vars == <<asked, handled, answered, reused>>

Init == asked = <<>> /\ handled = <<>> /\ answered = <<>> /\ reused = FALSE

(* One more message, any. *)
OneMore(messages, more) ==
  LET last == more[Len(more)]
  IN  more # <<>> /\ more = Append(messages, last) /\ last \in Messages

Ask == OneMore(asked, asked') /\ UNCHANGED <<handled, answered>>

Handle == /\ Len(handled) < Len(asked)
          /\ handled' = Append(handled, asked[Len(handled) + 1])
          /\ UNCHANGED <<asked, answered>>

Mishandle == reused /\ OneMore(handled, handled') /\ UNCHANGED <<asked, answered>>

Answer == /\ Len(answered) < Len(handled)
          /\ answered' = Append(answered, ReplyIdOf(handled[Len(answered) + 1]))
          /\ UNCHANGED <<asked, handled>>

Next == /\ reused' \in {reused, TRUE}
        /\ Ask \/ Handle \/ Mishandle \/ Answer \/ UNCHANGED <<asked, handled, answered>>

Spec == Init /\ [][Next]_vars

=============================================================================
