CONSTANTS
  a = a
  b = b
  c = c
  NoName = NoName
  Name <- TwoNames
  Card <- CardsOf8
  InitialDeck <- DeckOf8
  Deals <- DealsOf8
  NumPlayers = 2
  CardsPerTurn = 4
  InitialGold = 2
  AuctioneerGoldDisadvantage = 1
  OfferAmounts <- OffersTo2
SPECIFICATION SteadySpec
SYMMETRY SymmetricNames
INVARIANTS LeaderMatchesBid NeverStuck
PROPERTIES WinnersHaveMostVictory
