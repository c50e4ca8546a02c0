CONSTANTS
  a = a
  b = b
  h1 = h1
  h2 = h2
  h3 = h3
  NoName = NoName
  Name <- TwoNames
  Handler <- ThreeHandlers
  MatchID = {m1, m2}
  Card <- CardsOf4
  InitialDeck <- DeckOf4
  Deals <- NoOtherDeal
  NumPlayers = 2
  CardsPerTurn = 2
  InitialGold = 1
  AuctioneerGoldDisadvantage = 0
  OfferAmounts <- OffersTo1
SPECIFICATION ClientsSpec
INVARIANTS RoundTrip
