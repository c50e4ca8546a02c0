CONSTANTS
  a = a
  b = b
  c = c
  h1 = h1
  h2 = h2
  h3 = h3
  NoName = NoName
  Name <- ThreeNames
  Handler <- ThreeHandlers
  MatchID = {m1}
  Card <- CardsOf2
  InitialDeck <- DeckOf2
  Deals <- NoOtherDeal
  NumPlayers = 2
  CardsPerTurn = 1
  InitialGold = 1
  AuctioneerGoldDisadvantage = 0
  OfferAmounts <- OffersTo1
SPECIFICATION Spec
SYMMETRY SymmetricClients
INVARIANTS ShowsWhoPlays
