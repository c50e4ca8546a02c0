CONSTANTS
  a = a
  b = b
  c = c
  NoName = NoName
  Name <- ThreeNames
  Card <- CardsOf4
  InitialDeck <- DeckOf4
  Deals <- NoOtherDeal
  NumPlayers = 3
  CardsPerTurn = 4
  InitialGold = 3
  AuctioneerGoldDisadvantage = 1
  OfferAmounts <- OffersTo3
SPECIFICATION SteadySpec
PROPERTIES WinnersHaveMostVictory
