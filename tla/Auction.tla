------------------------------ MODULE Auction ------------------------------
(***************************************************************************)
(* What a match promises about its cards and the gold of its players,      *)
(* whatever the phases that bring it about: a card goes to whoever leads   *)
(* the dispute for it, at the price of the bid, and no hand and no purse   *)
(* changes in any other way while the match runs.                          *)
(***************************************************************************)
EXTENDS Integers, Sequences

CONSTANTS
    Name, NoName,
    TotalAttack(_), TotalProduction(_)  \* what a set of cards is worth

VARIABLES
    table,   \* the cards of the turn; the first is in dispute
    kind,    \* what the dispute is held with: force, gold, or none is held
    bid,     \* the highest force or offer
    leader,  \* who made it, or nobody: no bid yet, a tie, a leader who left
    gold,    \* the gold of every player
    hands    \* the cards of every player

vars == << table, kind, bid, leader, gold, hands >>

Players == DOMAIN gold

Init ==
    /\ table = <<>> /\ kind = "none" /\ bid = 0 /\ leader = NoName
    /\ gold = [n \in {} |-> 0] /\ hands = [n \in {} |-> {}]

(* The next dispute, or the end of the match.                              *)
Opens ==
    /\ bid' = 0 /\ leader' = NoName
    /\ kind' \in {"force", "gold", "none"}
    /\ kind' = "none" <=> table' = <<>>

(* The card in dispute goes to its winner, or to nobody; after the last    *)
(* one of the turn everybody earns what their cards produce.               *)
Settles(winner, price) ==
    LET paid == IF winner = NoName THEN gold
                ELSE [gold EXCEPT ![winner] = @ - price]
    IN  /\ Opens
        /\ hands' = IF winner = NoName THEN hands
                    ELSE [hands EXCEPT ![winner] = @ \cup {Head(table)}]
        /\ \/ /\ Tail(table) # <<>>
              /\ table' = Tail(table) /\ gold' = paid
           \/ /\ Tail(table) = <<>>
              /\ gold' = [p \in Players |->
                            paid[p] + TotalProduction(hands'[p])]

(* The bids player n can make: the force of cards in hand beats what       *)
(* stands; gold that n owns beats it or, when n is not the leader, ties    *)
(* it; and a pass leaves it as it is.                                      *)
Bids(n) ==
    LET Higher(amounts) ==
            [amount : {x \in amounts : x > bid}, leader : {n}]
        Forces  == {TotalAttack(S) : S \in SUBSET hands[n]}
        Offers  == 0..gold[n]
    IN  {[amount |-> bid, leader |-> leader]}
            \cup (IF kind = "force" THEN Higher(Forces) ELSE Higher(Offers))
            \cup (IF kind = "gold" /\ n # leader /\ 0 < bid /\ bid <= gold[n]
                  THEN {[amount |-> bid, leader |-> NoName]} ELSE {})

Stands(b) ==
    /\ bid' = b.amount /\ leader' = b.leader
    /\ UNCHANGED << table, kind, gold, hands >>

(* Force costs nothing; without a winner by force gold decides.            *)
Closes(b) ==
    \/ /\ kind = "force" /\ b.leader = NoName
       /\ kind' = "gold" /\ bid' = 0 /\ leader' = NoName
       /\ UNCHANGED << table, gold, hands >>
    \/ kind = "force" /\ b.leader # NoName /\ Settles(b.leader, 0)
    \/ kind = "gold" /\ Settles(b.leader, b.amount)

Move(n) ==
    /\ kind # "none" /\ n \in Players
    /\ \E b \in Bids(n) : Stands(b) \/ Closes(b)

(* The entry that fills the match starts it.                               *)
Enter(n) ==
    /\ kind = "none" /\ n \notin Players
    /\ hands' = [p \in Players \cup {n} |-> IF p = n THEN {} ELSE hands[p]]
    /\ \/ /\ gold' = [p \in Players \cup {n} |-> IF p = n THEN 0 ELSE gold[p]]
          /\ UNCHANGED << table, kind, bid, leader >>
       \/ Opens /\ gold' \in [Players \cup {n} -> Nat]

(* Who leaves takes gold, cards and lead out of the match; the bid stays.  *)
Exit(n) ==
    /\ n \in Players
    /\ gold' = [p \in Players \ {n} |-> gold[p]]
    /\ hands' = [p \in Players \ {n} |-> hands[p]]
    /\ leader' = IF leader = n THEN NoName ELSE leader
    /\ UNCHANGED << table, kind, bid >>

Next == \E n \in Name : Move(n) \/ Enter(n) \/ Exit(n)

Spec == Init /\ [][Next]_vars
=============================================================================
