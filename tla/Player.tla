------------------------------- MODULE Player -------------------------------
(***************************************************************************)
(* Model::Player (src/Model/Player.cpp): what a player owns and its state  *)
(* in the dispute for the card on the table.  Every method is an operator  *)
(* from the player to the value it returns, or to the player it leaves.    *)
(* The two vectors of cards are sets: no result depends on their order.    *)
(***************************************************************************)
EXTENDS Integers, Cards

NewPlayer(n) == [ name |-> n, gold |-> 0,
                  activeCards |-> {}, purchasedThisTurnCards |-> {},
                  isWinningAuction |-> FALSE, isTyingAuction |-> FALSE,
                  hasPassed |-> FALSE, hasAttacked |-> FALSE ]

Owned(p) == p.activeCards \cup p.purchasedThisTurnCards

GetTotalAttack(p)     == TotalAttack(p.activeCards)
GetTotalProduction(p) == TotalProduction(Owned(p))
GetTotalVictory(p)    == TotalVictory(Owned(p))

(* Mutant: the vector of recent cards is not cleared.                      *)
OnTurnEndKeepingRecent(p) == [p EXCEPT !.activeCards = Owned(p),
                                       !.hasAttacked = FALSE]

OnTurnEnd(p) == [p EXCEPT !.activeCards = Owned(p),
                          !.purchasedThisTurnCards = {},
                          !.hasAttacked = FALSE]

(* Mutant: the card replaces those bought earlier in the turn.             *)
AddCardInPlace(p, card) == [p EXCEPT !.purchasedThisTurnCards = {card}]

AddCard(p, card) ==
    [p EXCEPT !.purchasedThisTurnCards = @ \cup {card}]

(* Mutant: who ties may not pass either.                                   *)
CanPassUnlessTying(p) ==
    ~p.isWinningAuction /\ ~p.isTyingAuction /\ ~p.hasPassed

CanPass(p) == ~p.isWinningAuction /\ ~p.hasPassed

(* Mutant: the gold is not compared with the offer.                        *)
CanOfferOnCredit(p, amount) == ~p.isWinningAuction /\ ~p.hasPassed

CanOffer(p, amount) ==
    ~p.isWinningAuction /\ ~p.hasPassed /\ amount <= p.gold

CanAttack(p, amount) ==
    ~p.hasAttacked /\ ~p.hasPassed /\ GetTotalAttack(p) > amount

Pay(p, amount) == [p EXCEPT !.gold = @ - amount]

(* Mutant: what is earned replaces what was saved.                         *)
EarnOnly(p, amount) == [p EXCEPT !.gold = amount]

Earn(p, amount) == [p EXCEPT !.gold = @ + amount]

SetAuctionWinner(p) ==
    [p EXCEPT !.isWinningAuction = TRUE, !.isTyingAuction = FALSE]

SetInAuctionTie(p) ==
    [p EXCEPT !.isTyingAuction = TRUE, !.isWinningAuction = FALSE]

ResetAuctionState(p) ==
    [p EXCEPT !.isWinningAuction = FALSE, !.isTyingAuction = FALSE,
              !.hasPassed = FALSE]
=============================================================================
