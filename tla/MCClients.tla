----------------------------- MODULE MCClients -----------------------------
(* A small instance of Clients: values of its constants for TLC.           *)
EXTENDS Clients, MatchCalls, TLC

CONSTANTS a, b,        \* nicknames
          h1, h2, h3   \* addresses

TwoNames      == {a, b}
ThreeHandlers == {h1, h2, h3}

(* A turn of two cards with force (20 Guerrero, 11 Campo) and then one     *)
(* with cards (26 Campesino, 41 Rey) to use it on.                         *)
DeckOf4  == << 41, 26, 11, 20 >>
CardsOf4 == ToSet(DeckOf4)

NoOtherDeal == {}

OffersTo1 == {1}

SymmetricClients == Permutations(Handler) \cup Permutations(Name)
                        \cup Permutations(MatchID)
=============================================================================
