--------------------------- MODULE MCMatchHandler ---------------------------
(* Small instances of MatchHandler: values of its constants for TLC.       *)
EXTENDS MatchHandler, TLC

CONSTANTS a, b, c  \* nicknames

TwoNames   == {a, b}
ThreeNames == {a, b, c}

(* Decks, drawn from their end. 1, 2 Inquisidor, 11 Campo, 20 Guerrero,    *)
(* 24 Ciudad, 26, 27 Campesino, 41 Rey.                                    *)
(* Two turns of four cards, in two orders.                                 *)
DeckOf8 == << 41, 26, 24, 2, 1, 11, 20, 27 >>
DealsOf8 == { << 1, 11, 20, 27, 41, 26, 24, 2 >> }
CardsOf8 == ToSet(DeckOf8)

(* Two turns of two cards with force in the first.                         *)
DeckOf4 == << 41, 26, 11, 20 >>
CardsOf4 == ToSet(DeckOf4)

(* The same cards over one that is left at the end, too few for a turn.    *)
DeckOf5 == << 1, 41, 26, 11, 20 >>
CardsOf5 == ToSet(DeckOf5)

NoOtherDeal == {}

OffersTo2 == 0..2
OffersTo3 == 0..3

SymmetricNames == Permutations(Name)
=============================================================================
