CONSTANTS
  a = a
  b = b
  c = c
  NoName = NoName
  Name <- ThreeNames
  Card <- CardsOf4
  InitialDeck <- DeckOf4
  Deals <- NoOtherDeal
  NumPlayers = 3
  CardsPerTurn = 2
  InitialGold = 1
  AuctioneerGoldDisadvantage = 0
  OfferAmounts <- OffersTo2
SPECIFICATION FairSpec
INVARIANTS LeaderMatchesBid
PROPERTIES MatchEnds
