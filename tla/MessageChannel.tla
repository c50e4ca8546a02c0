--------------------------- MODULE MessageChannel ---------------------------
(***************************************************************************)
(* What a client may count on of the messages the server sends to it: they *)
(* arrive in the order they were sent, each at most once.  The last ones   *)
(* are missing if the connection is lost.                                  *)
(***************************************************************************)
EXTENDS Sequences, Naturals

VARIABLES sent,      \* the messages sent to the client
          delivered  \* those written to its connection

Init == sent = <<>> /\ delivered = <<>>

(* One call of the manager may send several.                               *)
Send == /\ Len(sent) < Len(sent') /\ SubSeq(sent', 1, Len(sent)) = sent
        /\ UNCHANGED delivered

Deliver == /\ Len(delivered) < Len(sent)
           /\ delivered' = Append(delivered, sent[Len(delivered) + 1])
           /\ UNCHANGED sent

Next == Send \/ Deliver

Spec == Init /\ [][Next]_<< sent, delivered >>
=============================================================================
