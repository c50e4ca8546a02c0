CONSTANTS
  a = a
  b = b
  c = c
  NoName = NoName
  Name <- TwoNames
  Card <- CardsOf4
  InitialDeck <- DeckOf4
  Deals <- NoOtherDeal
  NumPlayers = 2
  CardsPerTurn = 2
  InitialGold = 2
  AuctioneerGoldDisadvantage = 1
  OfferAmounts <- OffersTo2
SPECIFICATION Spec
INVARIANTS WaitsForSomeone
