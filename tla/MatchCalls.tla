----------------------------- MODULE MatchCalls -----------------------------
(***************************************************************************)
(* The ServerManager as the clients that a MatchHandler knows: seen from   *)
(* any one of its matches, the manager is a behaviour of MatchHandler.     *)
(***************************************************************************)
EXTENDS ServerManager

Handles(id) == INSTANCE MatchHandler WITH match <- MatchOf(id)

(* The manager calls every match as its handler expects: it moves only     *)
(* players who are in it and lets in only those it has room for, so no     *)
(* match ever panics for want of a player.                                 *)
CallsAreExpected ==
    /\ \A id \in MatchID : Handles(id)!Init
    /\ [][\A id \in MatchID :
            [Handles(id)!Next]_<< MatchOf(id) >>]_vars
=============================================================================
