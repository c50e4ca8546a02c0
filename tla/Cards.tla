------------------------------- MODULE Cards -------------------------------
(***************************************************************************)
(* The card database: src/Model/CardModel.cpp and Card::init() of          *)
(* src/Model/Card.cpp.  A card is its id; the ids of a model are           *)
(* consecutive.  Names of models and the flag isBerserk (false for every   *)
(* model and never read by the game) are left out.                         *)
(***************************************************************************)
EXTENDS Naturals, FiniteSetsExt

(* CardModel::models, by model id: Inquisidor, Campo, Guerrero, Caballero, *)
(* Ciudad, Campesino, Rey.                                                 *)
CardModel == << [attack |-> 1, production |-> 0, victory |-> 1],
                [attack |-> 2, production |-> 0, victory |-> 1],
                [attack |-> 2, production |-> 1, victory |-> 0],
                [attack |-> 3, production |-> 0, victory |-> 0],
                [attack |-> 0, production |-> 4, victory |-> 0],
                [attack |-> 0, production |-> 1, victory |-> 2],
                [attack |-> 0, production |-> 0, victory |-> 5] >>

cardAmount == << 10, 9, 3, 1, 2, 15, 8 >>

(* The highest id of the cards of the first k models.                      *)
LastIdOf(k) == MapThenSumSet(LAMBDA i : cardAmount[i], 1..k)

CardId == 1..LastIdOf(7)

(* Card::cards: the model each id was created with.                        *)
Base == [id \in CardId |-> CardModel[Min({k \in 1..7 : id <= LastIdOf(k)})]]

GetAttack(id)     == Base[id].attack
GetProduction(id) == Base[id].production
GetVictory(id)    == Base[id].victory

(* The sums Player::getTotal...() takes over a collection of cards.        *)
TotalAttack(cards)     == MapThenSumSet(GetAttack, cards)
TotalProduction(cards) == MapThenSumSet(GetProduction, cards)
TotalVictory(cards)    == MapThenSumSet(GetVictory, cards)
=============================================================================
