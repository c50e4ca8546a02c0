-------------------------- MODULE MCServerManager --------------------------
(* Small instances of ServerManager: values of its constants for TLC.      *)
EXTENDS ServerManager, TLC

CONSTANTS a, b, c,     \* nicknames
          h1, h2, h3   \* addresses

ThreeNames    == {a, b, c}
ThreeHandlers == {h1, h2, h3}

(* A turn of one card with force (20, Guerrero) and then one of a card     *)
(* (41, Rey) to use it on.                                                 *)
DeckOf2  == << 41, 20 >>
CardsOf2 == {41, 20}

NoOtherDeal == {}

OffersTo1 == {1}

SymmetricClients == Permutations(Handler) \cup Permutations(Name)
                        \cup Permutations(MatchID)
=============================================================================
