CONSTANTS
  a = a
  b = b
  c = c
  NoName = NoName
  Name <- ThreeNames
  Card <- CardsOf5
  InitialDeck <- DeckOf5
  Deals <- NoOtherDeal
  NumPlayers = 3
  CardsPerTurn = 2
  InitialGold = 2
  AuctioneerGoldDisadvantage = 1
  OfferAmounts <- OffersTo2
SPECIFICATION Spec
SYMMETRY SymmetricNames
INVARIANTS TypeOK NoFault BidCovered OneHolderPerCard
PROPERTIES NoCardLost LedgerFollowsBroadcast SoldToTheLeader
\* A match emptied while it runs takes no more players: it stops for good.
CHECK_DEADLOCK FALSE
