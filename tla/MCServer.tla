------------------------------ MODULE MCServer ------------------------------
(* A small instance of Server: values of its constants for TLC.            *)
EXTENDS Server

CONSTANTS a, b,   \* nicknames
          h1, h2  \* addresses

TwoNames    == {a, b}
TwoHandlers == {h1, h2}

(* One card, which takes the match through an auction to its end.          *)
DeckOf1  == << 20 >>
CardsOf1 == {20}

NoOtherDeal == {}

=============================================================================
