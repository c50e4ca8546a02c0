CONSTANTS
  a = a
  b = b
  h1 = h1
  h2 = h2
  NoName = NoName
  Name <- TwoNames
  Handler <- TwoHandlers
  MatchID = {m1}
  Card <- CardsOf1
  InitialDeck <- DeckOf1
  Deals <- NoOtherDeal
  NumPlayers = 2
  CardsPerTurn = 1
  InitialGold = 1
  AuctioneerGoldDisadvantage = 0
  OfferAmounts = {}
  MaxMessages = 4
SPECIFICATION ServerSpec
PROPERTIES WorksUntilSignal
\* A server that was stopped, with its sessions gone, has ended.
CHECK_DEADLOCK FALSE
