---------------------------- MODULE Match_proofs ----------------------------
(***************************************************************************)
(* Lemmas about Match, for any number of players and cards, any deck and   *)
(* any amounts of gold: what its phase methods and handlers preserve.      *)
(***************************************************************************)
EXTENDS Match, SequenceTheorems, WellFoundedInduction, TLAPS

(* The invariant that holds between two handlers, and between two phase    *)
(* methods of one handler: who leads or ties an auction can pay, and there *)
(* is a card to dispute.                                                   *)
Covered(m) ==
    m.currentPhase = "Auction" =>
        \A i \in 1..Len(m.players) :
            m.players[i].isWinningAuction \/ m.players[i].isTyingAuction
                => m.currentOffer <= m.players[i].gold

(* No card is disputed: nobody leads, ties or has passed.                  *)
AllReset(ps) ==
    \A i \in 1..Len(ps) : /\ ~ps[i].isWinningAuction
                          /\ ~ps[i].isTyingAuction
                          /\ ~ps[i].hasPassed

Undisputed(m) ==
    m.currentAttack = 0 /\ m.currentOffer = 0 /\ AllReset(m.players)

Sound(m) ==
    /\ MatchType(m)
    /\ m.fault = "none"
    /\ m.currentPhase # "GameStart"
    /\ m.currentPhase \in {"Attack", "Auction"} => m.cardsInAuction # <<>>
    /\ m.currentPhase \notin {"Attack", "Auction"} => Undisputed(m)
    /\ m.currentPhase = "Attack" => m.currentOffer = 0
    /\ m.currentPhase = "Auction" => m.currentAttack = 0
    /\ Covered(m)

(* Who leads: nobody, one player, or at least two at equal gold.           *)
NobodyLeads(ps) ==
    \A i \in 1..Len(ps) : ~ps[i].isWinningAuction /\ ~ps[i].isTyingAuction

Leads(ps, w) ==
    \A i \in 1..Len(ps) : /\ ps[i].isWinningAuction <=> i = w
                          /\ ~ps[i].isTyingAuction

SomeoneLeads(ps) == \E w \in 1..Len(ps) : Leads(ps, w)

Tied(ps) ==
    /\ \A i \in 1..Len(ps) : ~ps[i].isWinningAuction
    /\ \E i, j \in 1..Len(ps) : /\ i # j /\ ps[i].isTyingAuction
                                /\ ps[j].isTyingAuction

(* The force or the offer on the table is held by those who lead.          *)
Led(m) ==
    /\ m.currentPhase = "Attack" =>
          IF m.currentAttack = 0 THEN NobodyLeads(m.players)
                                 ELSE SomeoneLeads(m.players)
    /\ m.currentPhase = "Auction" =>
          IF m.currentOffer = 0 THEN NobodyLeads(m.players)
                                ELSE SomeoneLeads(m.players) \/ Tied(m.players)

(* The players hold the same cards.                                        *)
SameCards(p, q) ==
    /\ q.name = p.name /\ q.activeCards = p.activeCards
    /\ q.purchasedThisTurnCards = p.purchasedThisTurnCards

SameHands(ps, qs) ==
    /\ Len(qs) = Len(ps)
    /\ \A i \in 1..Len(ps) : SameCards(ps[i], qs[i])

(* A phase method runs in a handler, hence with a player in the match.     *)
Playing(m) == Sound(m) /\ m.players # <<>>

(* The players own the same gold.                                          *)
SameGold(ps, qs) == \A i \in 1..Len(ps) : qs[i].gold = ps[i].gold

(* What player i made of the bid: nothing, by passing; more, shown by      *)
(* force or owned in gold, and leads; or as much, and nobody leads.        *)
BidOn(m) == IF m.currentPhase = "Attack" THEN m.currentAttack
                                         ELSE m.currentOffer

Passes(m, r) ==
    /\ BidOn(r) = BidOn(m)
    /\ \A j \in 1..Len(m.players) :
          r.players[j].isWinningAuction = m.players[j].isWinningAuction

Raises(m, r, i) ==
    /\ BidOn(m) < BidOn(r) /\ Leads(r.players, i)
    /\ m.currentPhase = "Attack"
          => BidOn(r) = TotalAttack(m.players[i].activeCards)
    /\ m.currentPhase = "Auction" => BidOn(r) <= m.players[i].gold

Equals(m, r, i) ==
    /\ m.currentPhase = "Auction" /\ 0 < BidOn(m) /\ BidOn(r) = BidOn(m)
    /\ BidOn(m) <= m.players[i].gold /\ ~m.players[i].isWinningAuction
    /\ \A j \in 1..Len(r.players) : ~r.players[j].isWinningAuction

BidBy(m, r, i) == Passes(m, r) \/ Raises(m, r, i) \/ Equals(m, r, i)

(* The update of an input is its event alone; who attacks has the force.   *)
Says(m, r, i) ==
    \E type \in {"Attack", "Offer", "Pass"}, gold \in Nat :
        /\ r.updateEvent = << Event(type, NameAt(m, i), gold) >>
        /\ type = "Attack" => m.currentPhase = "Attack" /\ Raises(m, r, i)

(* What an input that is accepted makes of a match, before processPhase(). *)
Bids(m, r) ==
    /\ Playing(r) /\ (Led(m) => Led(r))
    /\ m.currentPhase \in {"Attack", "Auction"}
    /\ r.currentPhase = m.currentPhase
    /\ SameHands(m.players, r.players) /\ SameGold(m.players, r.players)
    /\ \E i \in 1..Len(m.players) : BidBy(m, r, i) /\ Says(m, r, i)
    /\ r.deck = m.deck /\ r.cardsInAuction = m.cardsInAuction
    /\ r.discarded = m.discarded
    /\ r.currentAuctioneer = m.currentAuctioneer

(* What the handler of an input leaves.                                    *)
Handled(m, h) ==
    h = SetError(m) \/ \E r : Bids(m, r) /\ h = ProcessPhase(r)

-----------------------------------------------------------------------------
(* Induction on numbers, and folds.                                        *)

LEMMA SmallestIndex ==
    ASSUME NEW S, S \subseteq Nat, S # {}
    PROVE  \E i \in S : \A j \in S : i <= j
<1>1. PICK i \in S : \A j \in S : << j, i >> \notin OpToRel(<, Nat)
  BY NatLessThanWellFounded, WFMin
<1>2. \A j \in S : ~(j < i)
  BY <1>1 DEF OpToRel
<1>. QED
  BY <1>2

LEMMA Induct ==
    ASSUME NEW n \in Nat, NEW S, 0 \in S,
           \A k \in 1..n : k - 1 \in S => k \in S
    PROVE  \A k \in 0..n : k \in S
<1>. DEFINE bad == {k \in 0..n : k \notin S}
<1>1. ASSUME bad # {} PROVE FALSE
  <2>1. bad \subseteq Nat
    OBVIOUS
  <2>2. PICK k \in bad : \A j \in bad : k <= j
    BY <1>1, <2>1, SmallestIndex
  <2>3. k \in 1..n /\ k - 1 \in 0..n /\ k - 1 \notin bad
    BY <2>2
  <2>. QED
    BY <2>2, <2>3
<1>. QED
  BY <1>1

LEMMA MaxOf ==
    ASSUME NEW n \in Nat, NEW s \in SUBSET (1..n), s # {}
    PROVE  Max(s) \in s /\ \A i \in s : Max(s) >= i
<1>. DEFINE T == {n - i : i \in s}
<1>1. \A i \in s : i \in Nat /\ n - i \in Nat
  OBVIOUS
<1>2. T \subseteq Nat /\ T # {}
  BY <1>1, Zenon
<1>3. PICK t \in T : \A j \in T : t <= j
  BY <1>2, SmallestIndex
<1>4. PICK i \in s : t = n - i
  BY <1>3
<1>5. \A j \in s : i >= j
  <2>1. ASSUME NEW j \in s PROVE i >= j
    <3>1. n - j \in T
      OBVIOUS
    <3>. HIDE DEF T
    <3>2. n - i <= n - j
      BY <1>3, <1>4, <3>1
    <3>. QED
      BY <1>1, <3>2
  <2>. QED
    BY <2>1
<1>. QED
  BY <1>5 DEF Max

LEMMA MaxOfInterval ==
    ASSUME NEW k \in Nat \ {0}
    PROVE  Max(1..k) = k /\ (1..k) \ {k} = 1..(k - 1) /\ 1..k # {}
<1>. DEFINE x == Max(1..k)
<1>1. \A i : i \in 1..k <=> i \in 1..(k - 1) \/ i = k
  OBVIOUS
<1>2. k \notin 1..(k - 1)
  OBVIOUS
<1>3. (1..k) \ {k} = 1..(k - 1) /\ 1..k # {}
  BY <1>1, <1>2, Zenon
<1>4. x \in 1..k /\ x >= k
  BY <1>1, <1>3, MaxOf
<1>. HIDE DEF x
<1>5. x = k
  BY <1>4
<1>. QED
  BY <1>3, <1>5 DEF x

(* The value of a fold for every set of the first k positions.             *)
FoldsTo(g, k, step, c, es) ==
    \A s \in SUBSET (1..k) :
        g[s] = IF s = {} THEN c ELSE step[<< g[s \ {Max(s)}], es[Max(s)] >>]

LEMMA FoldExists ==
    ASSUME NEW C, NEW E, NEW c \in C, NEW step \in [C \X E -> C],
           NEW es \in Seq(E)
    PROVE  \E g \in [SUBSET (1..Len(es)) -> C] :
              FoldsTo(g, Len(es), step, c, es)
<1>. DEFINE n == Len(es)
            Good == {k \in 0..n : \E g \in [SUBSET (1..k) -> C] :
                        FoldsTo(g, k, step, c, es)}
<1>1. n \in Nat /\ \A i \in 1..n : es[i] \in E
  OBVIOUS
<1>2. 0 \in Good
  <2>. DEFINE g == [s \in SUBSET (1..0) |-> c]
  <2>1. \A s \in SUBSET (1..0) : s = {}
    OBVIOUS
  <2>2. FoldsTo(g, 0, step, c, es) /\ g \in [SUBSET (1..0) -> C]
    BY <2>1 DEF FoldsTo
  <2>. QED
    BY <1>1, <2>2
<1>3. ASSUME NEW k \in 1..n, k - 1 \in Good PROVE k \in Good
  <2>1. PICK g \in [SUBSET (1..(k - 1)) -> C] : FoldsTo(g, k - 1, step, c, es)
    BY <1>3
  <2>. DEFINE h == [s \in SUBSET (1..k) |->
                      IF k \in s THEN step[<< g[s \ {k}], es[k] >>] ELSE g[s]]
  <2>2. ASSUME NEW s \in SUBSET (1..k)
        PROVE  /\ h[s] \in C
               /\ h[s] = IF s = {} THEN c
                         ELSE step[<< h[s \ {Max(s)}], es[Max(s)] >>]
    <3>1. CASE k \in s
      <4>1. Max(s) = k
        <5>. DEFINE x == Max(s)
        <5>1. s # {} /\ k \in Nat
          BY <1>1, <3>1
        <5>2. x \in s /\ x >= k
          BY <3>1, <5>1, MaxOf
        <5>. HIDE DEF x
        <5>3. x \in 1..k
          BY <5>2
        <5>4. x = k
          BY <5>1, <5>2, <5>3
        <5>. QED
          BY <5>4 DEF x
      <4>2. /\ s \ {k} \in SUBSET (1..(k - 1))
            /\ s \ {k} \in SUBSET (1..k) /\ k \notin s \ {k}
        BY <1>1
      <4>3. h[s \ {k}] = g[s \ {k}] /\ g[s \ {k}] \in C
        BY <4>2
      <4>. HIDE DEF h
      <4>4. h[s] = step[<< g[s \ {k}], es[k] >>]
        BY <3>1 DEF h
      <4>. QED
        BY <1>1, <3>1, <4>1, <4>3, <4>4
    <3>2. CASE k \notin s
      <4>1. s \in SUBSET (1..(k - 1)) /\ h[s] = g[s] /\ g[s] \in C
        BY <1>1, <3>2
      <4>2. CASE s # {}
        <5>1. s \ {Max(s)} \in SUBSET (1..(k - 1))
              /\ h[s \ {Max(s)}] = g[s \ {Max(s)}]
          BY <3>2, <4>1
        <5>. HIDE DEF h
        <5>. QED
          BY <2>1, <4>1, <4>2, <5>1 DEF FoldsTo
      <4>3. CASE s = {}
        BY <2>1, <4>1, <4>3 DEF FoldsTo
      <4>. QED
        BY <4>2, <4>3
    <3>. QED
      BY <3>1, <3>2
  <2>3. h \in [SUBSET (1..k) -> C]
    <3>1. DOMAIN h = SUBSET (1..k) /\ h = [s \in SUBSET (1..k) |-> h[s]]
      OBVIOUS
    <3>. HIDE DEF h
    <3>. QED
      BY <2>2, <3>1
  <2>. HIDE DEF h
  <2>4. FoldsTo(h, k, step, c, es)
    BY <2>2 DEF FoldsTo
  <2>. QED
    BY <2>3, <2>4
<1>4. n \in Good
  <2>. HIDE DEF Good
  <2>1. \A k \in 1..n : k - 1 \in Good => k \in Good
    BY <1>3
  <2>. HIDE DEF n
  <2>2. \A k \in 0..n : k \in Good
    BY <1>1, <1>2, <2>1, Induct
  <2>. QED
    BY <1>1, <2>2
<1>. QED
  BY <1>4

(* The fold of a function: its values after the first 0, 1, ... elements.  *)
Steps(h, step, c, es) ==
    /\ h[0] = c
    /\ \A k \in 1..Len(es) : h[k] = step[<< h[k - 1], es[k] >>]

Folded(step, c, es) == (CHOOSE h : Steps(h, step, c, es))[Len(es)]

LEMMA StepsUnique ==
    ASSUME NEW step, NEW c, NEW es, Len(es) \in Nat, NEW g, NEW h,
           Steps(g, step, c, es), Steps(h, step, c, es)
    PROVE  \A k \in 0..Len(es) : g[k] = h[k]
<1>. DEFINE S == {k \in 0..Len(es) : g[k] = h[k]}
<1>1. 0 \in S
  BY DEF Steps
<1>2. ASSUME NEW k \in 1..Len(es), k - 1 \in S PROVE k \in S
  <2>1. k \in 0..Len(es) /\ g[k - 1] = h[k - 1]
    BY <1>2
  <2>2. g[k] = step[<< g[k - 1], es[k] >>] /\ h[k] = step[<< h[k - 1], es[k] >>]
    BY DEF Steps
  <2>. QED
    BY <2>1, <2>2
<1>. HIDE DEF S
<1>3. \A k \in 1..Len(es) : k - 1 \in S => k \in S
  BY <1>2
<1>4. \A k \in 0..Len(es) : k \in S
  BY <1>1, <1>3, Induct
<1>. QED
  BY <1>4 DEF S

LEMMA StepsExist ==
    ASSUME NEW C, NEW E, NEW c \in C, NEW step \in [C \X E -> C],
           NEW es \in Seq(E)
    PROVE  \E h \in [0..Len(es) -> C] : Steps(h, step, c, es)
<1>. DEFINE n == Len(es)
<1>1. PICK g \in [SUBSET (1..n) -> C] : FoldsTo(g, n, step, c, es)
  BY FoldExists
<1>. DEFINE h == [k \in 0..n |-> g[1..k]]
<1>2. n \in Nat
  OBVIOUS
<1>. HIDE DEF n
<1>3. h \in [0..n -> C]
  <2>1. \A k \in 0..n : 1..k \in SUBSET (1..n)
    BY <1>2
  <2>. QED
    BY <2>1
<1>4. h[0] = c
  <2>1. 1..0 = {} /\ {} \in SUBSET (1..n) /\ 0 \in 0..n
    BY <1>2
  <2>2. g[{}] = c
    BY <1>1, <2>1 DEF FoldsTo
  <2>. QED
    BY <2>1, <2>2
<1>5. ASSUME NEW k \in 1..n PROVE h[k] = step[<< h[k - 1], es[k] >>]
  <2>1. k \in Nat \ {0} /\ 1..k \in SUBSET (1..n)
    BY <1>2
  <2>2. Max(1..k) = k /\ (1..k) \ {k} = 1..(k - 1) /\ 1..k # {}
    BY <2>1, MaxOfInterval
  <2>3. g[1..k] = step[<< g[(1..k) \ {k}], es[k] >>]
    BY <1>1, <2>1, <2>2 DEF FoldsTo
  <2>4. k \in 0..n /\ k - 1 \in 0..n
    BY <1>2
  <2>. QED
    BY <2>2, <2>3, <2>4
<1>. HIDE DEF h
<1>6. Steps(h, step, c, es)
  BY <1>4, <1>5 DEF Steps, n
<1>. QED
  BY <1>3, <1>6 DEF n

LEMMA FoldedSteps ==
    ASSUME NEW step, NEW c, NEW es, Len(es) \in Nat, NEW h,
           Steps(h, step, c, es)
    PROVE  Folded(step, c, es) = h[Len(es)]
<1>. DEFINE g == CHOOSE f : Steps(f, step, c, es)
<1>1. Steps(g, step, c, es)
  BY Zenon
<1>. HIDE DEF g
<1>2. g[Len(es)] = h[Len(es)]
  BY <1>1, StepsUnique
<1>. QED
  BY <1>2 DEF Folded, g

(* A fold, element by element.                                             *)
LEMMA FoldedNone ==
    ASSUME NEW step, NEW c
    PROVE  Folded(step, c, <<>>) = c
<1>1. Steps([k \in {0} |-> c], step, c, <<>>)
  BY DEF Steps
<1>. QED
  BY <1>1, FoldedSteps

LEMMA FoldedType ==
    ASSUME NEW C, NEW E, NEW c \in C, NEW step \in [C \X E -> C],
           NEW es \in Seq(E)
    PROVE  Folded(step, c, es) \in C
<1>1. PICK h \in [0..Len(es) -> C] : Steps(h, step, c, es)
  BY StepsExist
<1>2. Len(es) \in Nat /\ Len(es) \in 0..Len(es)
  OBVIOUS
<1>3. Folded(step, c, es) = h[Len(es)]
  BY <1>1, <1>2, FoldedSteps
<1>. QED
  BY <1>2, <1>3

(* What holds of a fold so far, S[k] of its first k elements, holds of it. *)
LEMMA FoldedIn ==
    ASSUME NEW C, NEW E, NEW c \in C, NEW step \in [C \X E -> C],
           NEW es \in Seq(E), NEW S, c \in S[0],
           \A k \in 1..Len(es) : \A x \in C :
              x \in S[k - 1] => step[<< x, es[k] >>] \in S[k]
    PROVE  Folded(step, c, es) \in S[Len(es)]
<1>1. PICK h \in [0..Len(es) -> C] : Steps(h, step, c, es)
  BY StepsExist
<1>. DEFINE T == {k \in 0..Len(es) : h[k] \in S[k]}
<1>2. Len(es) \in Nat
  OBVIOUS
<1>3. 0 \in T
  BY <1>1, <1>2 DEF Steps
<1>4. ASSUME NEW k \in 1..Len(es), k - 1 \in T PROVE k \in T
  <2>1. k \in 0..Len(es) /\ k - 1 \in 0..Len(es) /\ h[k - 1] \in S[k - 1]
    BY <1>2, <1>4
  <2>2. h[k] = step[<< h[k - 1], es[k] >>] /\ h[k - 1] \in C
    BY <1>1, <2>1 DEF Steps
  <2>. QED
    BY <2>1, <2>2
<1>. HIDE DEF T
<1>5. \A k \in 1..Len(es) : k - 1 \in T => k \in T
  BY <1>4
<1>6. \A k \in 0..Len(es) : k \in T
  BY <1>2, <1>3, <1>5, Induct
<1>7. Folded(step, c, es) = h[Len(es)] /\ Len(es) \in 0..Len(es)
  BY <1>1, <1>2, FoldedSteps
<1>. QED
  BY <1>6, <1>7 DEF T

LEMMA FoldedAppend ==
    ASSUME NEW C, NEW E, NEW c \in C, NEW step \in [C \X E -> C],
           NEW es \in Seq(E), NEW e \in E
    PROVE  Folded(step, c, Append(es, e)) = step[<< Folded(step, c, es), e >>]
<1>. DEFINE n == Len(es)
            more == Append(es, e)
<1>1. PICK h \in [0..n -> C] : Steps(h, step, c, es)
  BY StepsExist
<1>2. n \in Nat /\ Len(more) = n + 1 /\ more[n + 1] = e
      /\ \A i \in 1..n : more[i] = es[i]
  OBVIOUS
<1>3. Folded(step, c, es) = h[n]
  BY <1>1, <1>2, FoldedSteps
<1>. DEFINE g == [k \in 0..(n + 1) |-> IF k = n + 1 THEN step[<< h[n], e >>]
                                                   ELSE h[k]]
<1>. HIDE DEF n, more
<1>4. g[n + 1] = step[<< h[n], e >>] /\ \A k \in 0..n : g[k] = h[k]
  BY <1>2
<1>. HIDE DEF g
<1>5. g[0] = c
  BY <1>1, <1>2, <1>4 DEF Steps
<1>6. ASSUME NEW k \in 1..(n + 1)
      PROVE  g[k] = step[<< g[k - 1], more[k] >>]
  <2>1. CASE k = n + 1
    <3>1. k - 1 = n /\ n \in 0..n
      BY <1>2, <2>1
    <3>2. g[k - 1] = h[n] /\ more[k] = e
      BY <1>2, <1>4, <2>1, <3>1
    <3>. QED
      BY <1>4, <2>1, <3>2
  <2>2. CASE k # n + 1
    <3>1. k \in 1..n /\ k \in 0..n /\ k - 1 \in 0..n
      BY <1>2, <2>2
    <3>2. h[k] = step[<< h[k - 1], es[k] >>]
      BY <1>1, <3>1 DEF Steps, n
    <3>. QED
      BY <1>2, <1>4, <3>1, <3>2
  <2>. QED
    BY <2>1, <2>2
<1>7. Steps(g, step, c, more)
  BY <1>2, <1>5, <1>6 DEF Steps
<1>8. Folded(step, c, more) = g[n + 1]
  BY <1>2, <1>7, FoldedSteps
<1>. QED
  BY <1>3, <1>4, <1>8 DEF more

(* The hypotheses of the two lemmas below, named: the provers find the     *)
(* instance they need by the name.                                         *)
IsStep(step, C, E) == step \in [C \X E -> C]
SameSteps(more, step, C, E) ==
    \A x \in C, y \in E : more[<< x, y >>] = step[<< x, y >>]

(* A fold over two sequences goes on from the fold over the first.         *)
LEMMA FoldedConcat ==
    ASSUME NEW C, NEW E, NEW step, IsStep(step, C, E),
           NEW c \in C, NEW s \in Seq(E), NEW t \in Seq(E)
    PROVE  Folded(step, c, s \o t) = Folded(step, Folded(step, c, s), t)
<1>0. step \in [C \X E -> C]
  BY DEF IsStep
<1>. DEFINE n == Len(s)
            m == Len(t)
            both == s \o t
<1>1. /\ n \in Nat /\ m \in Nat /\ both \in Seq(E) /\ Len(both) = n + m
      /\ \A i \in 1..n : both[i] = s[i]
      /\ \A i \in 1..m : both[n + i] = t[i]
  BY ConcatProperties
<1>2. PICK h \in [0..Len(both) -> C] : Steps(h, step, c, both)
  BY <1>0, <1>1, StepsExist
<1>. DEFINE g == [k \in 0..m |-> h[n + k]]
<1>. HIDE DEF n, m, both
<1>3. Steps(h, step, c, s)
  <2>1. \A k \in 1..n : k \in 1..(n + m)
    BY <1>1
  <2>. QED
    BY <1>1, <1>2, <2>1 DEF Steps, n
<1>4. Folded(step, c, s) = h[n] /\ Folded(step, c, both) = h[n + m]
  <2>1. Folded(step, c, s) = h[n]
    BY <1>1, <1>3, FoldedSteps DEF n
  <2>2. Folded(step, c, both) = h[n + m]
    <3>1. Len(both) \in Nat /\ Len(both) = n + m
      BY <1>1
    <3>2. Folded(step, c, both) = h[Len(both)]
      BY <1>2, <3>1, FoldedSteps, Zenon
    <3>. QED
      BY <3>1, <3>2
  <2>. QED
    BY <2>1, <2>2
<1>5. ASSUME NEW k \in 1..m PROVE g[k] = step[<< g[k - 1], t[k] >>]
  <2>1. n + k \in 1..(n + m) /\ k \in 0..m /\ k - 1 \in 0..m
        /\ (n + k) - 1 = n + (k - 1)
    BY <1>1
  <2>2. h[n + k] = step[<< h[(n + k) - 1], both[n + k] >>]
    BY <1>1, <1>2, <2>1 DEF Steps
  <2>. QED
    BY <1>1, <2>1, <2>2
<1>6. g[0] = h[n] /\ g[m] = h[n + m]
  BY <1>1
<1>. HIDE DEF g
<1>7. Steps(g, step, h[n], t)
  BY <1>5, <1>6 DEF Steps, m
<1>8. Folded(step, h[n], t) = g[m]
  BY <1>1, <1>7, FoldedSteps DEF m
<1>. QED
  BY <1>4, <1>6, <1>8 DEF both

(* The fold of the community modules goes from set of positions to set of  *)
(* positions.  (more is step where both have a value.)                     *)
LEMMA FoldsToFolded ==
    ASSUME NEW C, NEW E, NEW step, NEW more, NEW c, NEW es, NEW iter,
           IsStep(step, C, E), SameSteps(more, step, C, E),
           c \in C, es \in Seq(E), FoldsTo(iter, Len(es), more, c, es)
    PROVE  iter[1..Len(es)] = Folded(step, c, es)
<1>. DEFINE n == Len(es)
<1>0. /\ step \in [C \X E -> C]
      /\ \A x \in C, y \in E : more[<< x, y >>] = step[<< x, y >>]
  BY DEF IsStep, SameSteps
<1>1. DOMAIN es = 1..n /\ n \in Nat /\ \A i \in 1..n : es[i] \in E
  OBVIOUS
<1>8. PICK h \in [0..n -> C] : Steps(h, step, c, es)
  BY <1>0, StepsExist
<1>. DEFINE T == {k \in 0..n : iter[1..k] = h[k]}
<1>2. 0 \in T
  <2>1. 1..0 = {} /\ 1..0 \in SUBSET (1..n) /\ 0 \in 0..n
    BY <1>1
  <2>. QED
    BY <1>8, <2>1 DEF Steps, FoldsTo
<1>3. ASSUME NEW k \in 1..n, k - 1 \in T PROVE k \in T
  <2>1. k \in Nat /\ 1..k \in SUBSET (1..n) /\ k \in 0..n
    BY <1>1
  <2>2. Max(1..k) = k /\ (1..k) \ {k} = 1..(k - 1) /\ 1..k # {}
    BY <2>1, MaxOfInterval
  <2>3. iter[1..k] = more[<< iter[1..(k - 1)], es[k] >>]
    BY <2>1, <2>2 DEF FoldsTo
  <2>4. iter[1..(k - 1)] = h[k - 1] /\ h[k - 1] \in C /\ es[k] \in E
    BY <1>1, <1>3
  <2>5. h[k] = step[<< h[k - 1], es[k] >>]
    BY <1>8 DEF Steps
  <2>. QED
    BY <1>0, <2>1, <2>3, <2>4, <2>5
<1>4. \A k \in 1..n : k - 1 \in T => k \in T
  BY <1>3
<1>5. n \in T
  <2>. HIDE DEF T, n
  <2>1. \A k \in 0..n : k \in T
    BY <1>1, <1>2, <1>4, Induct
  <2>. QED
    BY <1>1, <2>1
<1>6. Folded(step, c, es) = h[n]
  BY <1>1, <1>8, FoldedSteps
<1>. QED
  BY <1>5, <1>6

-----------------------------------------------------------------------------
(* Events.                                                                 *)

LEMMA EventIsUpdate ==
    ASSUME NEW type \in EventType, NEW n \in Name \cup {NoName}, NEW value \in Int
    PROVE  Event(type, n, value) \in Update /\ << Event(type, n, value) >> \in Seq(Update)
BY DEF Event, Update

LEMMA EventSays ==
    ASSUME NEW type, NEW n, NEW value
    PROVE  /\ Event(type, n, value).type = type
           /\ Event(type, n, value).nickname = n
           /\ Event(type, n, value).value = value
BY DEF Event

(* A card in an event is its id.                                           *)
LEMMA CardIsInt == Card \subseteq Int
BY DeckAssumption DEF CardId

(* Events that follow those of the update are typed as it is.              *)
LEMMA AddEventsType ==
    ASSUME NEW m, MatchType(m), NEW events \in Seq(Update)
    PROVE  /\ MatchType(AddEvents(m, events))
           /\ AddEvents(m, events) =
                [m EXCEPT !.updateEvent = AddEvents(m, events).updateEvent]
<1>1. m.updateEvent \in Seq(Update)
  BY DEF MatchType
<1>2. m.updateEvent \o events \in Seq(Update)
  BY <1>1, ConcatProperties
<1>. QED
  BY <1>2 DEF AddEvents, MatchType

-----------------------------------------------------------------------------
(* Players.                                                                *)

LEMMA ResetType ==
    ASSUME NEW p \in PlayerType
    PROVE  /\ ResetAuctionState(p) \in PlayerType
           /\ ResetAuctionState(p).gold = p.gold
           /\ ~ResetAuctionState(p).isWinningAuction
           /\ ~ResetAuctionState(p).isTyingAuction
           /\ ~ResetAuctionState(p).hasPassed
BY DEF ResetAuctionState, PlayerType

LEMMA AddCardType ==
    ASSUME NEW p \in PlayerType, NEW card \in Card
    PROVE  /\ AddCard(p, card) \in PlayerType
           /\ AddCard(p, card).gold = p.gold
BY DEF AddCard, PlayerType

LEMMA PayType ==
    ASSUME NEW p \in PlayerType, NEW amount \in Nat, amount <= p.gold
    PROVE  Pay(p, amount) \in PlayerType
BY DEF Pay, PlayerType

LEMMA ProduceType ==
    ASSUME NEW p \in PlayerType, NEW q,
           q = Earn(OnTurnEnd(p), GetTotalProduction(OnTurnEnd(p)))
    PROVE  /\ q \in PlayerType
           /\ q.isWinningAuction = p.isWinningAuction
           /\ q.isTyingAuction = p.isTyingAuction
           /\ q.hasPassed = p.hasPassed
<1>1. /\ OnTurnEnd(p) \in PlayerType
      /\ OnTurnEnd(p).isWinningAuction = p.isWinningAuction
      /\ OnTurnEnd(p).isTyingAuction = p.isTyingAuction
      /\ OnTurnEnd(p).hasPassed = p.hasPassed
  BY DEF OnTurnEnd, Owned, PlayerType
<1>2. GetTotalProduction(OnTurnEnd(p)) \in Nat
  BY <1>1, TotalsAssumption DEF GetTotalProduction, Owned, PlayerType
<1>. QED
  BY <1>1, <1>2 DEF Earn, PlayerType

(* A method applied to every player keeps a vector of as many players.     *)
LEMMA MapType ==
    ASSUME NEW ps \in Seq(PlayerType), NEW f,
           f = [i \in DOMAIN ps |-> f[i]],
           \A i \in 1..Len(ps) : f[i] \in PlayerType
    PROVE  f \in Seq(PlayerType) /\ Len(f) = Len(ps)
<1>1. DOMAIN ps = 1..Len(ps) /\ Len(ps) \in Nat
  OBVIOUS
<1>. QED
  BY <1>1, IsASeq

LEMMA ResetAllType ==
    ASSUME NEW ps \in Seq(PlayerType)
    PROVE  /\ ApplyToPlayers(ps, ResetAuctionState) \in Seq(PlayerType)
           /\ Len(ApplyToPlayers(ps, ResetAuctionState)) = Len(ps)
           /\ \A i \in 1..Len(ps) :
                ApplyToPlayers(ps, ResetAuctionState)[i] =
                    ResetAuctionState(ps[i])
<1>1. DOMAIN ps = 1..Len(ps) /\ Len(ps) \in Nat
  OBVIOUS
<1>2. \A i \in 1..Len(ps) : ResetAuctionState(ps[i]) \in PlayerType
  BY <1>1, ResetType
<1>. QED
  BY <1>1, <1>2, IsASeq DEF ApplyToPlayers

LEMMA NameIsTyped ==
    ASSUME NEW m, MatchType(m), NEW i \in 1..Len(m.players)
    PROVE  NameAt(m, i) \in Name
<1>1. m.players \in Seq(PlayerType)
  BY DEF MatchType
<1>2. m.players[i] \in PlayerType
  BY <1>1
<1>. QED
  BY <1>2 DEF NameAt, PlayerType

(* The scan for the winners only ever names players: shown of the smallest *)
(* number of players for which it would not.                               *)
(* The scan for the winners, player by player.                             *)
LEMMA WinnersScan ==
    ASSUME NEW ps \in Seq(PlayerType)
    PROVE  \E f :
              /\ WinnersOf(ps) = f[Len(ps)] /\ f[0] = <<>>
              /\ \A i \in 1..Len(ps) : f[i] =
                    IF GetTotalVictory(ps[i]) > GetTotalVictory(ps[1]) THEN << i >>
                    ELSE IF GetTotalVictory(ps[i]) = GetTotalVictory(ps[1])
                    THEN Append(f[i - 1], i)
                    ELSE f[i - 1]
<1>. DEFINE n == Len(ps)
            victory == [i \in DOMAIN ps |-> GetTotalVictory(ps[i])]
            Scan(w, i) == IF victory[i] > victory[1] THEN << i >>
                          ELSE IF victory[i] = victory[1] THEN Append(w, i)
                          ELSE w
            Upto(f, k) == f = [i \in 0..k |->
                            IF i = 0 THEN <<>> ELSE Scan(f[i - 1], i)]
            winners == CHOOSE f : Upto(f, n)
<1>1. n \in Nat
  OBVIOUS
<1>2. WinnersOf(ps) = winners[n]
  BY Zenon DEF WinnersOf
<1>3. \A i \in 1..n : victory[i] = GetTotalVictory(ps[i])
  OBVIOUS
<1>. HIDE DEF n, victory, Scan
<1>4. \E f : Upto(f, n)
  <2>. DEFINE bad == {k \in 0..n : ~ \E f : Upto(f, k)}
  <2>1. ASSUME bad # {} PROVE FALSE
    <3>1. bad \subseteq Nat
      OBVIOUS
    <3>2. PICK k \in bad : \A j \in bad : k <= j
      BY <2>1, <3>1, SmallestIndex
    <3>3. CASE k = 0
      <4>1. Upto([i \in 0..0 |-> <<>>], 0)
        OBVIOUS
      <4>. QED
        BY <3>2, <3>3, <4>1
    <3>4. CASE k # 0
      <4>1. k - 1 \in 0..n /\ k - 1 \notin bad /\ k \in 1..n
        BY <1>1, <3>2, <3>4
      <4>2. PICK f : Upto(f, k - 1)
        BY <4>1
      <4>. DEFINE g == [i \in 0..k |-> IF i < k THEN f[i] ELSE Scan(f[k - 1], k)]
      <4>3. \A i \in 0..k : g[i] = IF i = 0 THEN <<>> ELSE Scan(g[i - 1], i)
        <5>1. \A i \in 0..(k - 1) : f[i] = IF i = 0 THEN <<>> ELSE Scan(f[i - 1], i)
          BY <4>2
        <5>. QED
          BY <4>1, <5>1
      <4>4. Upto(g, k)
        BY <4>3
      <4>. QED
        BY <3>2, <4>4
    <3>. QED
      BY <3>3, <3>4
  <2>. QED
    BY <1>1, <2>1
<1>5. Upto(winners, n)
  BY <1>4
<1>. HIDE DEF winners
<1>6. \A i \in 0..n : winners[i] = IF i = 0 THEN <<>> ELSE Scan(winners[i - 1], i)
  BY <1>5
<1>7. winners[0] = <<>>
      /\ \A i \in 1..n : winners[i] = Scan(winners[i - 1], i)
  BY <1>1, <1>6
<1>8. \A i \in 1..n : winners[i] =
                    IF GetTotalVictory(ps[i]) > GetTotalVictory(ps[1]) THEN << i >>
                    ELSE IF GetTotalVictory(ps[i]) = GetTotalVictory(ps[1])
                    THEN Append(winners[i - 1], i)
                    ELSE winners[i - 1]
  <2>1. \A i \in 1..n : 1 \in 1..n
    BY <1>1
  <2>. QED
    BY <1>3, <1>7, <2>1 DEF Scan
<1>. QED
  BY <1>2, <1>7, <1>8 DEF n

LEMMA WinnersType ==
    ASSUME NEW ps \in Seq(PlayerType)
    PROVE  WinnersOf(ps) \in Seq(1..Len(ps))
<1>. DEFINE n == Len(ps)
            Scan(w, i) ==
              IF GetTotalVictory(ps[i]) > GetTotalVictory(ps[1]) THEN << i >>
              ELSE IF GetTotalVictory(ps[i]) = GetTotalVictory(ps[1])
              THEN Append(w, i)
              ELSE w
<1>1. n \in Nat
  OBVIOUS
<1>2. PICK winners :
         /\ WinnersOf(ps) = winners[n] /\ winners[0] = <<>>
         /\ \A i \in 1..n : winners[i] = Scan(winners[i - 1], i)
  BY WinnersScan, Zenon
<1>3. ASSUME NEW w \in Seq(1..n), NEW i \in 1..n
      PROVE  Scan(w, i) \in Seq(1..n)
  <2>. HIDE DEF n
  <2>1. << i >> \in Seq(1..n) /\ Append(w, i) \in Seq(1..n)
    BY <1>3
  <2>. QED
    BY <1>3, <2>1
<1>. HIDE DEF n, Scan
<1>4. \A i \in 0..n : winners[i] \in Seq(1..n)
  <2>. DEFINE bad == {k \in 0..n : winners[k] \notin Seq(1..n)}
  <2>1. ASSUME bad # {} PROVE FALSE
    <3>1. bad \subseteq Nat
      OBVIOUS
    <3>2. PICK k \in bad : \A j \in bad : k <= j
      BY <2>1, <3>1, SmallestIndex
    <3>3. k # 0
      <4>1. winners[0] = <<>> /\ <<>> \in Seq(1..n)
        BY <1>1, <1>2
      <4>. QED
        BY <3>2, <4>1
    <3>4. k \in 1..n /\ k - 1 \in 0..n /\ k - 1 \notin bad
      BY <1>1, <3>2, <3>3
    <3>. QED
      BY <1>2, <1>3, <3>2, <3>4
  <2>. QED
    BY <2>1
<1>. QED
  BY <1>1, <1>2, <1>4 DEF n

LEMMA WinnerIndex ==
    ASSUME NEW m, MatchType(m), WinnerIndices(m) # {}
    PROVE  /\ GetCurrentWinner(m) \in 1..Len(m.players)
           /\ m.players[GetCurrentWinner(m)].isWinningAuction
<1>1. DOMAIN m.players = 1..Len(m.players)
  BY DEF MatchType
<1>2. WinnerIndices(m) \subseteq Nat
  BY <1>1 DEF WinnerIndices
<1>3. \E i \in WinnerIndices(m) : \A j \in WinnerIndices(m) : i <= j
  BY <1>2, SmallestIndex
<1>4. GetCurrentWinner(m) \in WinnerIndices(m)
  BY <1>3 DEF GetCurrentWinner
<1>. QED
  BY <1>1, <1>4 DEF WinnerIndices

-----------------------------------------------------------------------------
(* The phase methods.                                                      *)

LEMMA TurnStartSound ==
    ASSUME NEW m, Playing(m), m.currentPhase = "TurnStart"
    PROVE  /\ Playing(OnTurnStartPhase(m)) /\ Undisputed(OnTurnStartPhase(m))
           /\ OnTurnStartPhase(m).currentPhase \in {"Attack", "GameEnd"}
<1>. DEFINE left  == Len(m.deck) - CardsPerTurn
            drawn == Reverse(SubSeq(m.deck, left + 1, Len(m.deck)))
            table == m.cardsInAuction \o drawn
            r     == OnTurnStartPhase(m)
<1>1. MatchType(m) /\ m.fault = "none" /\ m.players # <<>> /\ Undisputed(m)
  BY DEF Playing, Sound
<1>2. m.deck \in Seq(Card) /\ m.cardsInAuction \in Seq(Card)
  BY <1>1 DEF MatchType
<1>3. Len(m.deck) \in Nat /\ left \in Int
  BY <1>2, ConfigAssumption
<1>4. CASE ~CanDraw(m.deck)
  <2>1. r = [m EXCEPT !.currentPhase = "GameEnd"]
    BY <1>4 DEF OnTurnStartPhase
  <2>. QED
    BY <1>1, <2>1 DEF Playing, Sound, Covered, MatchType, Phase, Undisputed
<1>5. CASE CanDraw(m.deck)
  <2>1. left \in Nat /\ left < Len(m.deck) /\ CardsPerTurn \in Nat
    BY <1>3, <1>5, ConfigAssumption DEF CanDraw
  <2>2. SubSeq(m.deck, left + 1, Len(m.deck)) \in Seq(Card)
        /\ Len(SubSeq(m.deck, left + 1, Len(m.deck))) = CardsPerTurn
    BY <1>2, <1>3, <2>1
  <2>3. drawn \in Seq(Card) /\ Len(drawn) = CardsPerTurn
    BY <2>1, <2>2, IsASeq DEF Reverse
  <2>. HIDE DEF drawn
  <2>4. table \in Seq(Card) /\ Len(table) = Len(m.cardsInAuction) + CardsPerTurn
    BY <1>2, <2>3, ConcatProperties
  <2>. HIDE DEF table
  <2>5. table # <<>>
    BY <1>2, <2>1, <2>4, ConfigAssumption
  <2>6. SubSeq(m.deck, 1, left) \in Seq(Card)
    BY <1>2, <1>3, <2>1
  <2>. DEFINE n == AddEvents(m, [i \in DOMAIN table |->
                                   Event("Draw", NoName, table[i])])
  <2>7. r = [n EXCEPT !.deck = SubSeq(n.deck, 1, left),
                      !.cardsInAuction = table, !.currentPhase = "Attack"]
    <3>1. r = IF ~CanDraw(m.deck) THEN [m EXCEPT !.currentPhase = "GameEnd"]
              ELSE IF left < 0 THEN Panic(m)
              ELSE [n EXCEPT !.deck = SubSeq(n.deck, 1, left),
                             !.cardsInAuction = table,
                             !.currentPhase = "Attack"]
      BY Zenon DEF OnTurnStartPhase, drawn, table
    <3>. QED
      BY <1>5, <2>1, <3>1
  <2>8. MatchType(n) /\ n.fault = "none" /\ n.players = m.players
        /\ n.deck = m.deck /\ n.currentAttack = m.currentAttack
        /\ n.currentOffer = m.currentOffer
    <3>. DEFINE draws == [i \in DOMAIN table |-> Event("Draw", NoName, table[i])]
    <3>1. DOMAIN table = 1..Len(table) /\ Len(table) \in Nat
      BY <2>4
    <3>2. ASSUME NEW i \in 1..Len(table)
          PROVE  Event("Draw", NoName, table[i]) \in Update
      <4>1. table[i] \in Card
        BY <2>4
      <4>. QED
        BY <4>1, CardIsInt, EventIsUpdate DEF EventType
    <3>3. draws \in Seq(Update)
      BY <3>1, <3>2, IsASeq
    <3>4. n = AddEvents(m, draws)
      OBVIOUS
    <3>. HIDE DEF draws, n
    <3>. QED
      BY <1>1, <3>3, <3>4, AddEventsType DEF AddEvents, MatchType
  <2>. HIDE DEF n
  <2>. HIDE DEF left, r
  <2>9. MatchType(r) /\ r.fault = "none" /\ r.players = m.players
        /\ r.currentPhase = "Attack" /\ r.cardsInAuction = table
        /\ r.currentAttack = m.currentAttack /\ r.currentOffer = m.currentOffer
    BY <2>8, <2>4, <2>6, <2>7 DEF MatchType, Phase
  <2>. QED
    BY <1>1, <2>5, <2>9 DEF Playing, Sound, Covered, Undisputed, r
<1>. QED
  BY <1>4, <1>5

(* What every phase method that ends a dispute does to the players.        *)
LEMMA ResetCovers ==
    ASSUME NEW m, MatchType(m), m.fault = "none",
           NEW ps \in Seq(PlayerType), ps # <<>>,
           m.players = ApplyToPlayers(ps, ResetAuctionState),
           m.currentAttack = 0, m.currentOffer = 0,
           m.currentPhase # "GameStart",
           m.currentPhase \in {"Attack", "Auction"} => m.cardsInAuction # <<>>
    PROVE  Playing(m) /\ Undisputed(m)
<1>1. Len(ps) \in Nat /\ Len(ps) # 0
  OBVIOUS
<1>2. DOMAIN ps = 1..Len(ps)
  OBVIOUS
<1>. DEFINE qs == ApplyToPlayers(ps, ResetAuctionState)
<1>3. /\ Len(qs) = Len(ps)
      /\ \A i \in 1..Len(ps) : qs[i] = ResetAuctionState(ps[i])
  BY ResetAllType
<1>4. m.players = qs
  OBVIOUS
<1>. HIDE DEF qs
<1>5. Len(m.players) = Len(ps) /\ m.players # <<>>
  BY <1>1, <1>3, <1>4
<1>6. AllReset(m.players)
  <2>1. \A i \in 1..Len(ps) : ps[i] \in PlayerType
    BY <1>2
  <2>2. \A i \in 1..Len(ps) : m.players[i] = ResetAuctionState(ps[i])
    BY <1>3, <1>4
  <2>3. ASSUME NEW i \in 1..Len(ps)
        PROVE  /\ ~m.players[i].isWinningAuction
               /\ ~m.players[i].isTyingAuction
               /\ ~m.players[i].hasPassed
    <3>1. ps[i] \in PlayerType /\ m.players[i] = ResetAuctionState(ps[i])
      BY <2>1, <2>2
    <3>. QED
      BY <3>1, ResetType
  <2>. QED
    BY <2>3, <1>5 DEF AllReset
<1>. QED
  BY <1>5, <1>6 DEF Playing, Sound, Covered, Undisputed, AllReset

LEMMA AttackSound ==
    ASSUME NEW m, Playing(m), m.currentPhase = "Attack"
    PROVE  /\ Playing(OnAttackPhase(m)) /\ Undisputed(OnAttackPhase(m))
           /\ OnAttackPhase(m).currentPhase \in {"Auction", "TurnEnd", "Attack"}
           /\ m.currentAttack = 0 => OnAttackPhase(m).currentPhase = "Auction"
<1>. DEFINE w == GetCurrentWinner(m)
            won == IsThereWinner(m) /\ WinnerIndices(m) # {}
            ps == IF won
                  THEN [m.players EXCEPT ![w] = AddCard(@, Head(m.cardsInAuction))]
                  ELSE m.players
            table == IF won THEN Tail(m.cardsInAuction) ELSE m.cardsInAuction
            events == IF won
                      THEN Append(m.updateEvent, Event("GetCard", NameAt(m, w), 0))
                      ELSE m.updateEvent
            phase == IF ~won THEN "Auction"
                     ELSE IF table = <<>> THEN "TurnEnd" ELSE "Attack"
            r == OnAttackPhase(m)
<1>1. MatchType(m) /\ m.fault = "none" /\ m.players # <<>>
      /\ m.cardsInAuction # <<>> /\ m.currentOffer = 0
  BY DEF Playing, Sound
<1>2. m.cardsInAuction \in Seq(Card) /\ m.players \in Seq(PlayerType)
  BY <1>1 DEF MatchType
<1>3. Head(m.cardsInAuction) \in Card /\ Tail(m.cardsInAuction) \in Seq(Card)
  BY <1>1, <1>2
<1>4. ps \in Seq(PlayerType) /\ Len(ps) = Len(m.players)
  <2>1. CASE won
    <3>1. w \in 1..Len(m.players)
      BY <1>1, <2>1, WinnerIndex
    <3>2. m.players[w] \in PlayerType
      BY <1>2, <3>1
    <3>3. AddCard(m.players[w], Head(m.cardsInAuction)) \in PlayerType
      BY <1>3, <3>2, AddCardType
    <3>. QED
      BY <1>2, <2>1, <3>1, <3>3, ExceptSeq
  <2>2. CASE ~won
    BY <1>2, <2>2
  <2>. QED
    BY <2>1, <2>2
<1>5. ps # <<>>
  BY <1>1, <1>2, <1>4
<1>6. table \in Seq(Card)
  BY <1>2, <1>3
<1>7. /\ phase \in {"Auction", "TurnEnd", "Attack"}
      /\ phase # "TurnEnd" => table # <<>>
      /\ m.currentAttack = 0 => phase = "Auction"
  BY <1>1 DEF IsThereWinner
<1>8. r = [m EXCEPT !.players = ApplyToPlayers(ps, ResetAuctionState),
                    !.cardsInAuction = table, !.updateEvent = events,
                    !.currentPhase = phase, !.currentAttack = 0]
  <2>1. r = IF won /\ m.cardsInAuction = <<>> THEN Undefined(m)
            ELSE [m EXCEPT !.players = ApplyToPlayers(ps, ResetAuctionState),
                    !.cardsInAuction = table, !.updateEvent = events,
                    !.currentPhase = phase, !.currentAttack = 0]
    BY Zenon DEF OnAttackPhase
  <2>. QED
    BY <1>1, <2>1
<1>9. ApplyToPlayers(ps, ResetAuctionState) \in Seq(PlayerType)
  BY <1>4, ResetAllType
<1>10. events \in Seq(Update)
  <2>1. m.updateEvent \in Seq(Update)
    BY <1>1 DEF MatchType
  <2>2. CASE won
    <3>1. w \in 1..Len(m.players)
      BY <1>1, <2>2, WinnerIndex
    <3>2. Event("GetCard", NameAt(m, w), 0) \in Update
      BY <1>1, <3>1, NameIsTyped, EventIsUpdate DEF EventType
    <3>. QED
      BY <2>1, <2>2, <3>2, AppendProperties
  <2>. QED
    BY <2>1, <2>2
<1>. HIDE DEF ps, table, events, phase, r
<1>11. MatchType(r) /\ r.fault = "none" /\ r.cardsInAuction = table
       /\ r.currentPhase = phase /\ r.currentAttack = 0 /\ r.currentOffer = 0
       /\ r.players = ApplyToPlayers(ps, ResetAuctionState)
  BY <1>1, <1>6, <1>7, <1>8, <1>9, <1>10 DEF MatchType, Phase
<1>12. Playing(r) /\ Undisputed(r)
  BY <1>4, <1>5, <1>7, <1>11, ResetCovers
<1>. QED
  BY <1>7, <1>11, <1>12 DEF r

LEMMA AuctionSound ==
    ASSUME NEW m, Playing(m), m.currentPhase = "Auction"
    PROVE  /\ Playing(OnAuctionPhase(m)) /\ Undisputed(OnAuctionPhase(m))
           /\ OnAuctionPhase(m).currentPhase \in {"TurnEnd", "Attack"}
<1>. DEFINE w == GetCurrentWinner(m)
            sold == IsThereWinner(m) /\ WinnerIndices(m) # {}
            ps == IF sold
                  THEN [m.players EXCEPT ![w] =
                          Pay(AddCard(@, Head(m.cardsInAuction)), m.currentOffer)]
                  ELSE m.players
            table == Tail(m.cardsInAuction)
            discarded == IF sold THEN m.discarded
                         ELSE Append(m.discarded, Head(m.cardsInAuction))
            events == IF sold
                      THEN m.updateEvent \o
                              << Event("Pay", NameAt(m, w), m.currentOffer),
                                 Event("GetCard", NameAt(m, w), 0) >>
                      ELSE m.updateEvent
            phase == IF table = <<>> THEN "TurnEnd" ELSE "Attack"
            r == OnAuctionPhase(m)
<1>1. MatchType(m) /\ m.fault = "none" /\ m.players # <<>>
      /\ m.cardsInAuction # <<>> /\ Covered(m) /\ m.currentAttack = 0
  BY DEF Playing, Sound
<1>2. m.cardsInAuction \in Seq(Card) /\ m.players \in Seq(PlayerType)
      /\ m.currentOffer \in Nat /\ m.discarded \in Seq(Card)
  BY <1>1 DEF MatchType
<1>3. Head(m.cardsInAuction) \in Card /\ table \in Seq(Card)
  BY <1>1, <1>2
<1>4. ASSUME sold
      PROVE  /\ w \in 1..Len(m.players)
             /\ m.currentOffer <= m.players[w].gold
  <2>1. w \in 1..Len(m.players) /\ m.players[w].isWinningAuction
    BY <1>1, <1>4, WinnerIndex
  <2>. QED
    BY <1>1, <2>1 DEF Covered
<1>5. ps \in Seq(PlayerType) /\ Len(ps) = Len(m.players)
  <2>1. CASE sold
    <3>1. m.players[w] \in PlayerType
      BY <1>2, <1>4, <2>1
    <3>2. AddCard(m.players[w], Head(m.cardsInAuction)) \in PlayerType
          /\ AddCard(m.players[w], Head(m.cardsInAuction)).gold
                = m.players[w].gold
      BY <1>3, <3>1, AddCardType
    <3>3. Pay(AddCard(m.players[w], Head(m.cardsInAuction)), m.currentOffer)
            \in PlayerType
      BY <1>2, <1>4, <2>1, <3>2, PayType
    <3>. QED
      BY <1>2, <1>4, <2>1, <3>3, ExceptSeq
  <2>2. CASE ~sold
    BY <1>2, <2>2
  <2>. QED
    BY <2>1, <2>2
<1>6. ps # <<>>
  BY <1>1, <1>2, <1>5
<1>7. discarded \in Seq(Card)
  BY <1>2, <1>3
<1>8. r = [m EXCEPT !.players = ApplyToPlayers(ps, ResetAuctionState),
                    !.cardsInAuction = table, !.discarded = discarded,
                    !.updateEvent = events, !.currentPhase = phase,
                    !.currentOffer = 0]
  <2>1. r = IF m.cardsInAuction = <<>> THEN Undefined(m)
            ELSE IF sold /\ m.currentOffer > m.players[w].gold THEN Panic(m)
            ELSE [m EXCEPT !.players = ApplyToPlayers(ps, ResetAuctionState),
                    !.cardsInAuction = table, !.discarded = discarded,
                    !.updateEvent = events, !.currentPhase = phase,
                    !.currentOffer = 0]
    BY Zenon DEF OnAuctionPhase
  <2>2. ~(sold /\ m.currentOffer > m.players[w].gold)
    <3>1. ASSUME sold PROVE m.players[w].gold \in Nat
      <4>1. m.players[w] \in PlayerType
        BY <1>2, <1>4, <3>1
      <4>. QED
        BY <4>1 DEF PlayerType
    <3>. QED
      BY <1>2, <1>4, <3>1
  <2>. QED
    BY <1>1, <2>1, <2>2
<1>9. ApplyToPlayers(ps, ResetAuctionState) \in Seq(PlayerType)
  BY <1>5, ResetAllType
<1>10. phase \in {"TurnEnd", "Attack"} /\ (phase = "Attack" => table # <<>>)
  OBVIOUS
<1>11. events \in Seq(Update)
  <2>1. m.updateEvent \in Seq(Update)
    BY <1>1 DEF MatchType
  <2>2. CASE sold
    <3>1. Event("Pay", NameAt(m, w), m.currentOffer) \in Update
          /\ Event("GetCard", NameAt(m, w), 0) \in Update
      BY <1>1, <1>2, <1>4, <2>2, NameIsTyped, EventIsUpdate DEF EventType
    <3>2. << Event("Pay", NameAt(m, w), m.currentOffer),
             Event("GetCard", NameAt(m, w), 0) >> \in Seq(Update)
      BY <3>1
    <3>. QED
      BY <2>1, <2>2, <3>2, ConcatProperties
  <2>. QED
    BY <2>1, <2>2
<1>. HIDE DEF ps, table, discarded, events, phase, r
<1>12. MatchType(r) /\ r.fault = "none" /\ r.cardsInAuction = table
       /\ r.currentPhase = phase /\ r.currentAttack = 0 /\ r.currentOffer = 0
       /\ r.players = ApplyToPlayers(ps, ResetAuctionState)
  BY <1>1, <1>3, <1>7, <1>8, <1>9, <1>10, <1>11 DEF MatchType, Phase
<1>13. Playing(r) /\ Undisputed(r)
  BY <1>5, <1>6, <1>10, <1>12, ResetCovers
<1>. QED
  BY <1>10, <1>12, <1>13 DEF r

LEMMA NextAuctioneerType ==
    ASSUME NEW m, MatchType(m), m.players # <<>>
    PROVE  /\ MatchType(NextAuctioneer(m))
           /\ NextAuctioneer(m) =
                [m EXCEPT !.updateEvent = NextAuctioneer(m).updateEvent,
                          !.currentAuctioneer = NextAuctioneer(m).currentAuctioneer]
<1>. DEFINE next == IF m.currentAuctioneer + 1 >= Len(m.players) THEN 0
                    ELSE m.currentAuctioneer + 1
            event == Event("IsAuctioneer", NameAt(m, next + 1), 0)
<1>1. m.players \in Seq(PlayerType) /\ m.currentAuctioneer \in Nat \cup {-1}
  BY DEF MatchType
<1>2. Len(m.players) \in Nat \ {0}
  BY <1>1
<1>3. next \in Nat /\ next + 1 \in 1..Len(m.players)
  BY <1>1, <1>2
<1>4. << event >> \in Seq(Update)
  BY <1>3, NameIsTyped, EventIsUpdate DEF EventType
<1>5. NextAuctioneer(m) =
        [AddEvents(m, << event >>) EXCEPT !.currentAuctioneer = next]
  BY Zenon DEF NextAuctioneer
<1>. HIDE DEF next, event
<1>. DEFINE n == AddEvents(m, << event >>)
<1>6. /\ MatchType(n) /\ n.currentAuctioneer = m.currentAuctioneer
      /\ n = [m EXCEPT !.updateEvent = n.updateEvent]
  <2>1. n = [m EXCEPT !.updateEvent = m.updateEvent \o << event >>]
    BY DEF AddEvents
  <2>2. MatchType(n)
    BY <1>4, AddEventsType
  <2>. HIDE DEF n
  <2>3. m.updateEvent \o << event >> \in Seq(Update)
    BY <1>4 DEF MatchType
  <2>. QED
    BY <2>1, <2>2, <2>3 DEF MatchType
<1>. HIDE DEF n
<1>7. NextAuctioneer(m) = [n EXCEPT !.currentAuctioneer = next]
  BY <1>5 DEF n
<1>. QED
  BY <1>3, <1>6, <1>7 DEF MatchType

LEMMA TurnEndSound ==
    ASSUME NEW m, Playing(m), m.currentPhase = "TurnEnd"
    PROVE  /\ Playing(OnTurnEndPhase(m))
           /\ OnTurnEndPhase(m).currentPhase = "TurnStart"
<1>. DEFINE Produce(p) == Earn(OnTurnEnd(p), GetTotalProduction(OnTurnEnd(p)))
            ps == ApplyToPlayers(m.players, Produce)
            earn == [i \in DOMAIN ps |->
                       Event("Earn", ps[i].name, GetTotalProduction(ps[i]))]
            paid == [AddEvents(m, earn) EXCEPT !.players = ps]
            r == OnTurnEndPhase(m)
<1>1. MatchType(m) /\ m.fault = "none" /\ m.players # <<>> /\ Undisputed(m)
  BY DEF Playing, Sound
<1>2. m.players \in Seq(PlayerType)
  BY <1>1 DEF MatchType
<1>3. ps \in Seq(PlayerType) /\ Len(ps) = Len(m.players) /\ AllReset(ps)
  <2>1. DOMAIN m.players = 1..Len(m.players) /\ Len(m.players) \in Nat
    BY <1>2
  <2>2. \A i \in 1..Len(m.players) :
          /\ Produce(m.players[i]) \in PlayerType
          /\ ~Produce(m.players[i]).isWinningAuction
          /\ ~Produce(m.players[i]).isTyingAuction
          /\ ~Produce(m.players[i]).hasPassed
    <3>. HIDE DEF Produce
    <3>1. ASSUME NEW i \in 1..Len(m.players), NEW q, q = Produce(m.players[i])
          PROVE  /\ q \in PlayerType
                 /\ ~q.isWinningAuction /\ ~q.isTyingAuction /\ ~q.hasPassed
      <4>1. m.players[i] \in PlayerType
        BY <1>2
      <4>. QED
        BY <1>1, <3>1, <4>1, ProduceType DEF Undisputed, AllReset, Produce
    <3>. QED
      BY <3>1
  <2>3. ps = [i \in 1..Len(m.players) |-> Produce(m.players[i])]
    BY <2>1 DEF ApplyToPlayers
  <2>. HIDE DEF ps, Produce
  <2>4. /\ ps \in Seq(PlayerType) /\ Len(ps) = Len(m.players)
        /\ \A i \in 1..Len(m.players) : ps[i] = Produce(m.players[i])
    BY <2>1, <2>2, <2>3, IsASeq
  <2>. QED
    BY <2>2, <2>4 DEF AllReset
<1>4. ps # <<>>
  BY <1>1, <1>2, <1>3
<1>5. earn \in Seq(Update)
  <2>. HIDE DEF ps
  <2>1. Len(ps) \in Nat /\ DOMAIN ps = 1..Len(ps)
    BY <1>3
  <2>2. ASSUME NEW i \in 1..Len(ps)
        PROVE  Event("Earn", ps[i].name, GetTotalProduction(ps[i])) \in Update
    <3>1. ps[i] \in PlayerType
      BY <1>3, <2>1
    <3>2. ps[i].name \in Name /\ GetTotalProduction(ps[i]) \in Nat
      BY <3>1, TotalsAssumption DEF GetTotalProduction, Owned, PlayerType
    <3>. QED
      BY <3>2, EventIsUpdate DEF EventType
  <2>. QED
    BY <2>1, <2>2, IsASeq
<1>6. r = [NextAuctioneer(paid) EXCEPT !.currentPhase = "TurnStart"]
  <2>1. r = IF m.players = <<>> THEN Undefined(m)
            ELSE [NextAuctioneer(paid) EXCEPT !.currentPhase = "TurnStart"]
    BY Zenon DEF OnTurnEndPhase
  <2>. QED
    BY <1>1, <2>1
<1>7. MatchType(paid) /\ paid.fault = "none" /\ paid.players = ps
      /\ paid.currentAttack = 0 /\ paid.currentOffer = 0
  <2>. HIDE DEF earn, ps
  <2>. QED
    BY <1>1, <1>3, <1>5, AddEventsType DEF AddEvents, MatchType, Undisputed
<1>. HIDE DEF ps, paid, r
<1>8. MatchType(r) /\ r.fault = "none" /\ r.currentPhase = "TurnStart"
      /\ r.players = ps /\ r.currentAttack = 0 /\ r.currentOffer = 0
  <2>. DEFINE n == NextAuctioneer(paid)
  <2>1. paid.players # <<>>
    BY <1>4, <1>7
  <2>2. /\ MatchType(n)
        /\ n = [paid EXCEPT !.updateEvent = n.updateEvent,
                            !.currentAuctioneer = n.currentAuctioneer]
    BY <1>7, <2>1, NextAuctioneerType
  <2>3. r = [n EXCEPT !.currentPhase = "TurnStart"]
    BY <1>6
  <2>. HIDE DEF n
  <2>4. n.fault = "none" /\ n.players = ps
        /\ n.currentAttack = 0 /\ n.currentOffer = 0
    BY <1>7, <2>2 DEF MatchType
  <2>. QED
    BY <2>2, <2>3, <2>4 DEF MatchType, Phase
<1>. QED
  BY <1>3, <1>4, <1>8 DEF Playing, Sound, Covered, Undisputed, r

LEMMA GameEndSound ==
    ASSUME NEW m, Playing(m), m.currentPhase = "GameEnd"
    PROVE  /\ Playing(OnGameEndPhase(m))
           /\ OnGameEndPhase(m).currentPhase = "Finished"
<1>. DEFINE winners == WinnersOf(m.players)
            n == AddEvents(m, [k \in DOMAIN winners |->
                                 Event("Winner", NameAt(m, winners[k]), 0)])
            r == OnGameEndPhase(m)
<1>1. MatchType(m) /\ m.fault = "none" /\ m.players # <<>> /\ Undisputed(m)
  BY DEF Playing, Sound
<1>2. r = [n EXCEPT !.currentPhase = "Finished"]
  <2>1. r = IF m.players = <<>> THEN Undefined(m)
            ELSE [n EXCEPT !.currentPhase = "Finished"]
    BY Zenon DEF OnGameEndPhase
  <2>. QED
    BY <1>1, <2>1
<1>3. [k \in DOMAIN winners |-> Event("Winner", NameAt(m, winners[k]), 0)]
        \in Seq(Update)
  <2>1. winners \in Seq(1..Len(m.players))
    BY <1>1, WinnersType DEF MatchType
  <2>. HIDE DEF winners
  <2>2. Len(winners) \in Nat /\ DOMAIN winners = 1..Len(winners)
    BY <2>1
  <2>3. ASSUME NEW k \in 1..Len(winners)
        PROVE  Event("Winner", NameAt(m, winners[k]), 0) \in Update
    <3>1. winners[k] \in 1..Len(m.players)
      BY <2>1
    <3>. QED
      BY <1>1, <3>1, NameIsTyped, EventIsUpdate DEF EventType
  <2>. QED
    BY <2>2, <2>3, IsASeq
<1>4. MatchType(n) /\ n.fault = "none" /\ n.players = m.players
      /\ n.currentAttack = 0 /\ n.currentOffer = 0
  <2>. HIDE DEF winners
  <2>. QED
    BY <1>1, <1>3, AddEventsType DEF AddEvents, MatchType, Undisputed
<1>. HIDE DEF n, r
<1>5. MatchType(r) /\ r.fault = "none" /\ r.currentPhase = "Finished"
      /\ r.players = m.players /\ r.currentAttack = 0 /\ r.currentOffer = 0
  BY <1>2, <1>4 DEF MatchType, Phase
<1>. QED
  BY <1>1, <1>5 DEF Playing, Sound, Covered, Undisputed, r

(* The switch of PhaseHandler.                                             *)
LEMMA PhaseMethod ==
    ASSUME NEW m, ~Resting(m)
    PROVE  /\ m.currentPhase = "TurnStart" => OnPhase(m) = OnTurnStartPhase(m)
           /\ m.currentPhase = "Attack"    => OnPhase(m) = OnAttackPhase(m)
           /\ m.currentPhase = "Auction"   => OnPhase(m) = OnAuctionPhase(m)
           /\ m.currentPhase = "TurnEnd"   => OnPhase(m) = OnTurnEndPhase(m)
           /\ m.currentPhase = "GameEnd"   => OnPhase(m) = OnGameEndPhase(m)
<1>1. OnPhase(m) = OnCurrentPhase(m)
  BY Zenon DEF OnPhase
<1>2. CASE m.currentPhase = "TurnStart"
  BY <1>1, <1>2 DEF OnCurrentPhase
<1>3. CASE m.currentPhase = "Attack"
  BY <1>1, <1>3 DEF OnCurrentPhase
<1>4. CASE m.currentPhase = "Auction"
  BY <1>1, <1>4 DEF OnCurrentPhase
<1>5. CASE m.currentPhase = "TurnEnd"
  BY <1>1, <1>5 DEF OnCurrentPhase
<1>6. CASE m.currentPhase = "GameEnd"
  BY <1>1, <1>6 DEF OnCurrentPhase
<1>. QED
  BY <1>2, <1>3, <1>4, <1>5, <1>6

(* A match that rests stays as it is.                                      *)
LEMMA RestingStays ==
    ASSUME NEW m, Resting(m)
    PROVE  OnPhase(m) = m
BY Zenon DEF OnPhase

(* Where nothing is disputed nobody leads.                                 *)
LEMMA UndisputedIsLed ==
    ASSUME NEW m, Undisputed(m)
    PROVE  Led(m)
BY DEF Undisputed, AllReset, Led, NobodyLeads

(* A phase method either rests or leaves nothing disputed.                 *)
LEMMA OnPhaseSound ==
    ASSUME NEW m, Playing(m)
    PROVE  Playing(OnPhase(m)) /\ (Led(m) => Led(OnPhase(m)))
<1>1. CASE Resting(m)
  BY <1>1, RestingStays
<1>2. CASE ~Resting(m)
  <2>1. m.currentPhase \in {"TurnStart", "Attack", "Auction", "TurnEnd", "GameEnd"}
    BY <1>2 DEF Playing, Sound, MatchType, Phase, Resting
  <2>3. CASE m.currentPhase = "TurnStart"
    BY <1>2, <2>3, PhaseMethod, TurnStartSound, UndisputedIsLed
  <2>4. CASE m.currentPhase = "Attack"
    BY <1>2, <2>4, PhaseMethod, AttackSound, UndisputedIsLed
  <2>5. CASE m.currentPhase = "Auction"
    BY <1>2, <2>5, PhaseMethod, AuctionSound, UndisputedIsLed
  <2>6. CASE m.currentPhase = "TurnEnd"
    BY <1>2, <2>6, PhaseMethod, TurnEndSound DEF Led
  <2>7. CASE m.currentPhase = "GameEnd"
    BY <1>2, <2>7, PhaseMethod, GameEndSound DEF Led
  <2>. QED
    BY <2>1, <2>3, <2>4, <2>5, <2>6, <2>7
<1>. QED
  BY <1>1, <1>2

(* Anyone may offer for a card nobody has offered for: nobody has less     *)
(* than no gold.                                                           *)
LEMMA FreshAuctionRests ==
    ASSUME NEW m, Playing(m), Undisputed(m), m.currentPhase = "Auction"
    PROVE  Resting(m)
<1>1. m.players \in Seq(PlayerType) /\ m.players # <<>> /\ m.currentOffer = 0
  BY DEF Playing, Sound, MatchType, Undisputed
<1>2. DOMAIN m.players = 1..Len(m.players) /\ 1 \in 1..Len(m.players)
  BY <1>1
<1>3. m.players[1] \in PlayerType
  BY <1>1, <1>2
<1>4. CanOffer(m.players[1], m.currentOffer)
  BY <1>1, <1>2, <1>3 DEF Undisputed, AllReset, CanOffer, PlayerType
<1>. QED
  BY <1>2, <1>4 DEF Resting, ArePossibleOffers

(* The phases from which one phase method is enough.                       *)
AlmostRests(m) ==
    \/ m.currentPhase \in {"GameEnd", "WaitForStart", "Finished"}
    \/ m.currentPhase \in {"Attack", "Auction"} /\ Undisputed(m)

LEMMA RestsInOne ==
    ASSUME NEW m, Playing(m), AlmostRests(m)
    PROVE  Resting(OnPhase(m))
<1>1. CASE Resting(m)
  BY <1>1, RestingStays
<1>2. CASE ~Resting(m)
  <2>1. CASE m.currentPhase = "GameEnd"
    <3>1. OnPhase(m) = OnGameEndPhase(m)
      BY <1>2, <2>1, PhaseMethod
    <3>. QED
      BY <2>1, <3>1, GameEndSound DEF Resting
  <2>2. CASE m.currentPhase = "Attack"
    <3>1. Undisputed(m)
      BY <2>2 DEF AlmostRests
    <3>2. OnPhase(m) = OnAttackPhase(m)
      BY <1>2, <2>2, PhaseMethod
    <3>. QED
      BY <2>2, <3>1, <3>2, AttackSound, FreshAuctionRests DEF Undisputed
  <2>3. CASE m.currentPhase = "Auction"
    BY <1>2, <2>3, FreshAuctionRests DEF AlmostRests
  <2>. QED
    BY <1>2, <2>1, <2>2, <2>3 DEF AlmostRests, Resting
<1>. QED
  BY <1>1, <1>2

LEMMA TurnStartRestsInTwo ==
    ASSUME NEW m, Playing(m), m.currentPhase = "TurnStart"
    PROVE  Resting(OnPhase(OnPhase(m)))
<1>1. CASE Resting(m)
  BY <1>1, RestingStays
<1>2. CASE ~Resting(m)
  <2>1. OnPhase(m) = OnTurnStartPhase(m)
    BY <1>2, PhaseMethod
  <2>2. Playing(OnPhase(m)) /\ AlmostRests(OnPhase(m))
    BY <2>1, TurnStartSound DEF AlmostRests
  <2>. QED
    BY <2>2, RestsInOne
<1>. QED
  BY <1>1, <1>2

LEMMA TurnEndRestsInThree ==
    ASSUME NEW m, Playing(m), m.currentPhase = "TurnEnd"
    PROVE  Resting(OnPhase(OnPhase(OnPhase(m))))
<1>1. CASE Resting(m)
  BY <1>1, RestingStays
<1>2. CASE ~Resting(m)
  <2>1. OnPhase(m) = OnTurnEndPhase(m)
    BY <1>2, PhaseMethod
  <2>2. Playing(OnPhase(m)) /\ OnPhase(m).currentPhase = "TurnStart"
    BY <2>1, TurnEndSound
  <2>. QED
    BY <2>2, TurnStartRestsInTwo
<1>. QED
  BY <1>1, <1>2

(* The end of a dispute takes the longest chain of phase methods.          *)
LEMMA RestsInFour ==
    ASSUME NEW m, Playing(m)
    PROVE  Resting(OnPhase(OnPhase(OnPhase(OnPhase(m)))))
<1>1. CASE Resting(m)
  BY <1>1, RestingStays
<1>2. CASE AlmostRests(m)
  BY <1>2, RestsInOne, RestingStays
<1>3. CASE m.currentPhase = "TurnStart"
  BY <1>3, TurnStartRestsInTwo, RestingStays
<1>4. CASE m.currentPhase = "TurnEnd"
  BY <1>4, TurnEndRestsInThree, RestingStays
<1>5. CASE m.currentPhase \in {"Attack", "Auction"} /\ ~Resting(m)
  <2>1. OnPhase(m) = IF m.currentPhase = "Attack" THEN OnAttackPhase(m)
                                                  ELSE OnAuctionPhase(m)
    BY <1>5, PhaseMethod
  <2>2. /\ Playing(OnPhase(m))
        /\ AlmostRests(OnPhase(m)) \/ OnPhase(m).currentPhase = "TurnEnd"
    BY <1>5, <2>1, AttackSound, AuctionSound DEF AlmostRests
  <2>. QED
    BY <2>2, RestsInOne, TurnEndRestsInThree, RestingStays
<1>. QED
  BY <1>1, <1>2, <1>3, <1>4, <1>5
     DEF Playing, Sound, MatchType, Phase, AlmostRests

(* A handler leaves a match in which some player has something to do, or   *)
(* that has ended: the chain of phase methods never stops in between.      *)
LEMMA ProcessPhaseSound ==
    ASSUME NEW m, Playing(m)
    PROVE  /\ Playing(ProcessPhase(m)) /\ Resting(ProcessPhase(m))
           /\ Led(m) => Led(ProcessPhase(m))
BY OnPhaseSound, RestsInFour, RestingStays DEF ProcessPhase

-----------------------------------------------------------------------------
(* The handlers.                                                           *)

LEMMA PlayerIndex ==
    ASSUME NEW m, MatchType(m), NEW n, IsPlayer(m, n)
    PROVE  /\ GetPlayerIndex(m, n) \in 1..Len(m.players)
           /\ m.players[GetPlayerIndex(m, n)] \in PlayerType
           /\ m.players # <<>>
           /\ NameAt(m, GetPlayerIndex(m, n)) = n /\ n \in Name
<1>. DEFINE S == {i \in DOMAIN m.players : NameAt(m, i) = n}
<1>1. m.players \in Seq(PlayerType)
  BY DEF MatchType
<1>2. DOMAIN m.players = 1..Len(m.players) /\ Len(m.players) \in Nat
  BY <1>1
<1>3. S # {} /\ S \subseteq Nat
  BY <1>2 DEF IsPlayer
<1>4. PICK i \in S : \A j \in S : i <= j
  BY <1>3, SmallestIndex
<1>5. i \in DOMAIN m.players /\ NameAt(m, i) = n
      /\ \A j \in 1..(i - 1) : NameAt(m, j) # n
  BY <1>2, <1>4
<1>6. GetPlayerIndex(m, n) \in DOMAIN m.players
      /\ NameAt(m, GetPlayerIndex(m, n)) = n
  BY <1>5 DEF GetPlayerIndex
<1>7. m.players # <<>>
  BY <1>1, <1>2, <1>6
<1>. QED
  BY <1>1, <1>2, <1>6, <1>7, ElementOfSeq, NameIsTyped

LEMMA SetErrorSound ==
    ASSUME NEW m, Sound(m)
    PROVE  /\ Sound(SetError(m))
           /\ Resting(m) => Resting(SetError(m))
           /\ Led(m) => Led(SetError(m))
<1>. DEFINE r == SetError(m)
<1>1. MatchType(m) /\ m.fault = "none"
  BY DEF Sound
<1>2. MatchType(r) /\ r.fault = "none" /\ r.players = m.players
      /\ r.currentPhase = m.currentPhase /\ r.currentOffer = m.currentOffer
      /\ r.cardsInAuction = m.cardsInAuction /\ r.currentAttack = m.currentAttack
  <2>1. << Event("Error", NoName, 0) >> \in Seq(Update)
    BY EventIsUpdate DEF EventType
  <2>. QED
    BY <1>1, <2>1 DEF MatchType, SetError, Error
<1>. HIDE DEF r
<1>3. Sound(r)
  BY <1>1, <1>2 DEF Sound, Covered, Undisputed
<1>4. Resting(m) => Resting(r)
  BY <1>1, <1>2 DEF Resting, ArePossibleAttacks, ArePossibleOffers
<1>5. Led(m) => Led(r)
  BY <1>2 DEF Led
<1>. QED
  BY <1>3, <1>4, <1>5 DEF r

LEMMA NewWinnerType ==
    ASSUME NEW ps \in Seq(PlayerType), NEW w \in 1..Len(ps)
    PROVE  /\ SetNewAuctionWinner(ps, w) \in Seq(PlayerType)
           /\ Len(SetNewAuctionWinner(ps, w)) = Len(ps)
           /\ \A i \in 1..Len(ps) :
                /\ SetNewAuctionWinner(ps, w)[i].gold = ps[i].gold
                /\ \/ SetNewAuctionWinner(ps, w)[i].isWinningAuction
                   \/ SetNewAuctionWinner(ps, w)[i].isTyingAuction
                   => i = w
           /\ Leads(SetNewAuctionWinner(ps, w), w)
           /\ SameHands(ps, SetNewAuctionWinner(ps, w))
<1>. DEFINE Outbid(p) == IF p.isWinningAuction \/ p.isTyingAuction
                         THEN ResetAuctionState(p) ELSE p
            Q(i) == IF i = w THEN SetAuctionWinner(Outbid(ps[i]))
                             ELSE Outbid(ps[i])
            r == SetNewAuctionWinner(ps, w)
<1>1. DOMAIN ps = 1..Len(ps) /\ Len(ps) \in Nat
  OBVIOUS
<1>2. ASSUME NEW p \in PlayerType
      PROVE  /\ Outbid(p) \in PlayerType /\ Outbid(p).gold = p.gold
             /\ ~Outbid(p).isWinningAuction /\ ~Outbid(p).isTyingAuction
             /\ SameCards(p, Outbid(p))
  BY ResetType DEF PlayerType, SameCards, ResetAuctionState
<1>3. ASSUME NEW p \in PlayerType
      PROVE  /\ SetAuctionWinner(p) \in PlayerType
             /\ SetAuctionWinner(p).gold = p.gold
             /\ SetAuctionWinner(p).isWinningAuction
             /\ ~SetAuctionWinner(p).isTyingAuction
             /\ SameCards(p, SetAuctionWinner(p))
  BY DEF SetAuctionWinner, PlayerType, SameCards
<1>. HIDE DEF Outbid
<1>4. \A i \in 1..Len(ps) :
        /\ Q(i) \in PlayerType /\ Q(i).gold = ps[i].gold
        /\ Q(i).isWinningAuction <=> i = w
        /\ ~Q(i).isTyingAuction
        /\ SameCards(ps[i], Q(i))
  BY <1>1, <1>2, <1>3 DEF SameCards
<1>5. r = [i \in 1..Len(ps) |-> Q(i)]
  BY <1>1 DEF SetNewAuctionWinner, Outbid
<1>. HIDE DEF Q, r
<1>6. r \in Seq(PlayerType) /\ Len(r) = Len(ps) /\ \A i \in 1..Len(ps) : r[i] = Q(i)
  BY <1>1, <1>4, <1>5, IsASeq
<1>. QED
  BY <1>4, <1>6 DEF r, Leads, SameHands, SameCards

LEMMA NewTieType ==
    ASSUME NEW ps \in Seq(PlayerType), NEW w \in 1..Len(ps)
    PROVE  /\ SetNewAuctionTie(ps, w) \in Seq(PlayerType)
           /\ Len(SetNewAuctionTie(ps, w)) = Len(ps)
           /\ \A i \in 1..Len(ps) :
                /\ SetNewAuctionTie(ps, w)[i].gold = ps[i].gold
                /\ \/ SetNewAuctionTie(ps, w)[i].isWinningAuction
                   \/ SetNewAuctionTie(ps, w)[i].isTyingAuction
                   => i = w \/ ps[i].isWinningAuction \/ ps[i].isTyingAuction
           /\ SameHands(ps, SetNewAuctionTie(ps, w))
           /\ \A i \in 1..Len(ps) :
                ~SetNewAuctionTie(ps, w)[i].isWinningAuction
           /\ \/ Tied(ps)
              \/ SomeoneLeads(ps) /\ ~ps[w].isWinningAuction
              => Tied(SetNewAuctionTie(ps, w))
<1>. DEFINE Q(i) == IF ps[i].isWinningAuction \/ i = w
                    THEN SetInAuctionTie(ps[i]) ELSE ps[i]
            r == SetNewAuctionTie(ps, w)
<1>1. DOMAIN ps = 1..Len(ps) /\ Len(ps) \in Nat
  OBVIOUS
<1>2. ASSUME NEW p \in PlayerType
      PROVE  /\ SetInAuctionTie(p) \in PlayerType
             /\ SetInAuctionTie(p).gold = p.gold
             /\ SetInAuctionTie(p).isTyingAuction
             /\ ~SetInAuctionTie(p).isWinningAuction
             /\ SameCards(p, SetInAuctionTie(p))
  BY DEF SetInAuctionTie, PlayerType, SameCards
<1>3. \A i \in 1..Len(ps) :
        /\ Q(i) \in PlayerType /\ Q(i).gold = ps[i].gold
        /\ SameCards(ps[i], Q(i))
        /\ ~Q(i).isWinningAuction
        /\ Q(i).isTyingAuction
              <=> i = w \/ ps[i].isWinningAuction \/ ps[i].isTyingAuction
        /\ Q(i).isWinningAuction \/ Q(i).isTyingAuction
              => i = w \/ ps[i].isWinningAuction \/ ps[i].isTyingAuction
  BY <1>1, <1>2 DEF SameCards
<1>4. r = [i \in 1..Len(ps) |-> Q(i)]
  BY <1>1 DEF SetNewAuctionTie
<1>. HIDE DEF Q, r
<1>5. r \in Seq(PlayerType) /\ Len(r) = Len(ps) /\ \A i \in 1..Len(ps) : r[i] = Q(i)
  BY <1>1, <1>3, <1>4, IsASeq
<1>6. ASSUME Tied(ps) \/ (SomeoneLeads(ps) /\ ~ps[w].isWinningAuction)
      PROVE  Tied(r)
  <2>1. CASE Tied(ps)
    BY <1>3, <1>5, <2>1 DEF Tied
  <2>2. CASE SomeoneLeads(ps) /\ ~ps[w].isWinningAuction
    <3>1. PICK v \in 1..Len(ps) : ps[v].isWinningAuction
      BY <2>2 DEF SomeoneLeads, Leads
    <3>2. v # w
      BY <2>2, <3>1
    <3>. QED
      BY <1>3, <1>5, <3>1, <3>2 DEF Tied
  <2>. QED
    BY <1>6, <2>1, <2>2
<1>7. \A i \in 1..Len(ps) :
        /\ r[i].gold = ps[i].gold
        /\ ~r[i].isWinningAuction
        /\ r[i].isWinningAuction \/ r[i].isTyingAuction
              => i = w \/ ps[i].isWinningAuction \/ ps[i].isTyingAuction
  BY <1>3, <1>5
<1>8. SameHands(ps, r)
  BY <1>3, <1>5 DEF SameHands, SameCards
<1>9. Tied(ps) \/ (SomeoneLeads(ps) /\ ~ps[w].isWinningAuction) => Tied(r)
  BY <1>6
<1>. QED
  BY <1>5, <1>7, <1>9, <1>8, Zenon DEF r

LEMMA HandleAttackHandled ==
    ASSUME NEW m, Sound(m), NEW n, IsPlayer(m, n)
    PROVE  Handled(m, HandleAttack(m, n))
<1>. DEFINE i == GetPlayerIndex(m, n)
            amount == GetTotalAttack(m.players[i])
            ps == [m.players EXCEPT ![i].hasAttacked = TRUE]
            qs == IF m.currentAttack < amount THEN SetNewAuctionWinner(ps, i)
                                              ELSE SetNewAuctionTie(ps, i)
            force == IF m.currentAttack < amount THEN amount ELSE m.currentAttack
            r == [m EXCEPT !.players = qs, !.currentAttack = force,
                           !.updateEvent = << Event("Attack", n, 0) >>]
<1>1. MatchType(m) /\ m.fault = "none" /\ m.currentPhase # "GameStart"
  BY DEF Sound
<1>2. HandleAttack(m, n) = IF ~IsPlayer(m, n) THEN Panic(m)
                           ELSE IF ~AcceptsAttack(m, i) THEN SetError(m)
                           ELSE ProcessPhase(r)
  BY Zenon DEF HandleAttack
<1>3. CASE ~AcceptsAttack(m, i)
  BY <1>2, <1>3 DEF Handled
<1>4. CASE AcceptsAttack(m, i)
  <2>1. m.players \in Seq(PlayerType) /\ m.currentAttack \in Nat
    BY <1>1 DEF MatchType
  <2>2. i \in 1..Len(m.players) /\ m.players[i] \in PlayerType
        /\ m.players # <<>> /\ NameAt(m, i) = n /\ n \in Name
    BY <1>1, PlayerIndex
  <2>3. amount \in Nat
    BY <2>2, TotalsAssumption DEF GetTotalAttack, PlayerType
  <2>4. [m.players[i] EXCEPT !.hasAttacked = TRUE] \in PlayerType
    BY <2>2 DEF PlayerType
  <2>5. ps \in Seq(PlayerType) /\ Len(ps) = Len(m.players)
    BY <2>1, <2>2, <2>4, ExceptSeq
  <2>6. qs \in Seq(PlayerType) /\ Len(qs) = Len(m.players)
    <3>. HIDE DEF i, ps, amount
    <3>1. CASE m.currentAttack < amount
      BY <2>2, <2>5, <3>1, NewWinnerType
    <3>2. CASE ~(m.currentAttack < amount)
      BY <2>2, <2>5, <3>2, NewTieType
    <3>. QED
      BY <3>1, <3>2
  <2>7. qs # <<>>
    BY <2>1, <2>2, <2>6
  <2>8. force \in Nat
    BY <2>1, <2>3
  <2>9. m.currentPhase = "Attack" /\ m.cardsInAuction # <<>> /\ m.currentOffer = 0
    BY <1>4 DEF AcceptsAttack, Sound
  <2>10. /\ force # 0 /\ SomeoneLeads(qs) /\ Leads(qs, i)
         /\ force = amount /\ m.currentAttack < force
    <3>1. m.currentAttack < amount
      BY <1>4, <2>1, <2>3 DEF AcceptsAttack, CanAttack
    <3>2. force = amount /\ force # 0
      BY <2>1, <2>3, <3>1
    <3>3. qs = SetNewAuctionWinner(ps, i)
      BY <3>1
    <3>. HIDE DEF i, ps, amount, qs
    <3>4. Leads(qs, i)
      BY <2>2, <2>5, <3>3, NewWinnerType
    <3>5. m.currentAttack < force
      BY <3>1, <3>2
    <3>. HIDE DEF force
    <3>. QED
      BY <2>2, <2>5, <2>6, <3>2, <3>4, <3>5 DEF SomeoneLeads
  <2>11. SameHands(m.players, qs) /\ SameGold(m.players, qs)
    <3>1. SameHands(m.players, ps) /\ SameGold(m.players, ps)
      BY <2>1, <2>2, <2>4, ExceptSeq
         DEF SameHands, SameGold, SameCards, PlayerType
    <3>. HIDE DEF i, ps, amount
    <3>2. CASE m.currentAttack < amount
      <4>1. SameHands(ps, qs) /\ SameGold(ps, qs)
        BY <2>2, <2>5, <3>2, NewWinnerType DEF SameGold
      <4>. HIDE DEF qs
      <4>. QED
        BY <2>5, <2>6, <3>1, <4>1 DEF SameHands, SameGold, SameCards
    <3>3. CASE ~(m.currentAttack < amount)
      <4>1. SameHands(ps, qs) /\ SameGold(ps, qs)
        BY <2>2, <2>5, <3>3, NewTieType DEF SameGold
      <4>. HIDE DEF qs
      <4>. QED
        BY <2>5, <2>6, <3>1, <4>1 DEF SameHands, SameGold, SameCards
    <3>. QED
      BY <3>2, <3>3
  <2>. HIDE DEF qs, force
  <2>12. MatchType(r) /\ r.fault = "none" /\ r.players = qs
         /\ r.currentPhase = "Attack" /\ r.cardsInAuction = m.cardsInAuction
         /\ r.currentOffer = 0 /\ r.currentAttack = force
         /\ r.deck = m.deck /\ r.discarded = m.discarded
         /\ r.currentAuctioneer = m.currentAuctioneer
         /\ r.updateEvent = << Event("Attack", n, 0) >>
    <3>1. << Event("Attack", n, 0) >> \in Seq(Update)
      BY <2>2, EventIsUpdate DEF EventType
    <3>. QED
      BY <1>1, <2>6, <2>8, <2>9, <3>1 DEF MatchType
  <2>. HIDE DEF r
  <2>13. Playing(r)
    BY <2>7, <2>9, <2>12 DEF Playing, Sound, Covered
  <2>14. Led(r)
    BY <2>12, <2>10 DEF Led
  <2>15. Raises(m, r, i)
    BY <2>2, <2>9, <2>10, <2>12 DEF Raises, BidOn, GetTotalAttack
  <2>16. Says(m, r, i)
    BY <2>2, <2>9, <2>12, <2>15 DEF Says
  <2>17. Bids(m, r)
    BY <2>2, <2>9, <2>12, <2>13, <2>14, <2>15, <2>16, <2>11 DEF Bids, BidBy
  <2>. QED
    BY <1>2, <1>4, <2>17 DEF Handled
<1>. QED
  BY <1>3, <1>4

LEMMA HandleOfferHandled ==
    ASSUME NEW m, Sound(m), NEW n, IsPlayer(m, n), NEW gold \in Int
    PROVE  Handled(m, HandleOffer(m, n, gold))
<1>. DEFINE i == GetPlayerIndex(m, n)
            qs == IF m.currentOffer < gold THEN SetNewAuctionWinner(m.players, i)
                                           ELSE SetNewAuctionTie(m.players, i)
            r == [m EXCEPT !.players = qs, !.currentOffer = gold,
                           !.updateEvent = << Event("Offer", n, gold) >>]
<1>1. MatchType(m) /\ m.fault = "none" /\ m.currentPhase # "GameStart"
  BY DEF Sound
<1>2. HandleOffer(m, n, gold) = IF ~IsPlayer(m, n) THEN Panic(m)
                                ELSE IF ~AcceptsOffer(m, i, gold) THEN SetError(m)
                                ELSE ProcessPhase(r)
  BY Zenon DEF HandleOffer
<1>3. CASE ~AcceptsOffer(m, i, gold)
  BY <1>2, <1>3 DEF Handled
<1>4. CASE AcceptsOffer(m, i, gold)
  <2>1. m.players \in Seq(PlayerType) /\ m.currentOffer \in Nat
    BY <1>1 DEF MatchType
  <2>2. i \in 1..Len(m.players) /\ m.players # <<>>
        /\ NameAt(m, i) = n /\ n \in Name
    BY <1>1, PlayerIndex
  <2>3. gold \in Nat /\ m.currentOffer <= gold /\ gold <= m.players[i].gold
        /\ m.currentPhase = "Auction"
    BY <1>4 DEF AcceptsOffer, CanOffer
  <2>4. m.cardsInAuction # <<>> /\ Covered(m) /\ m.currentAttack = 0
    BY <2>3 DEF Sound
  <2>5. qs \in Seq(PlayerType) /\ Len(qs) = Len(m.players)
    <3>. HIDE DEF i
    <3>1. CASE m.currentOffer < gold
      BY <2>1, <2>2, <3>1, NewWinnerType
    <3>2. CASE ~(m.currentOffer < gold)
      BY <2>1, <2>2, <3>2, NewTieType
    <3>. QED
      BY <3>1, <3>2
  <2>6. ASSUME NEW j \in 1..Len(qs),
               qs[j].isWinningAuction \/ qs[j].isTyingAuction
        PROVE  gold <= qs[j].gold
    <3>1. CASE m.currentOffer < gold
      BY <2>1, <2>2, <2>3, <2>5, <2>6, <3>1, NewWinnerType
    <3>2. CASE ~(m.currentOffer < gold)
      <4>1. gold = m.currentOffer
        BY <2>1, <2>3, <3>2
      <4>2. j \in 1..Len(m.players) /\ qs[j].gold = m.players[j].gold
            /\ (j = i \/ m.players[j].isWinningAuction
                      \/ m.players[j].isTyingAuction)
        BY <2>1, <2>2, <2>5, <2>6, <3>2, NewTieType
      <4>. QED
        BY <2>3, <2>4, <4>1, <4>2 DEF Covered
    <3>. QED
      BY <3>1, <3>2
  <2>7. qs # <<>>
    BY <2>1, <2>2, <2>5
  <2>8. gold # 0 /\ (Led(m) => SomeoneLeads(qs) \/ Tied(qs))
    <3>1. gold # 0 /\ ~m.players[i].isWinningAuction
      BY <1>4, <2>3 DEF AcceptsOffer, CanOffer
    <3>2. CASE m.currentOffer < gold
      <4>1. Leads(qs, i)
        BY <2>1, <2>2, <3>2, NewWinnerType
      <4>. HIDE DEF qs, i
      <4>. QED
        BY <2>2, <2>5, <3>1, <4>1 DEF SomeoneLeads
    <3>3. CASE ~(m.currentOffer < gold)
      <4>1. m.currentOffer # 0
        BY <2>1, <2>3, <3>1, <3>3
      <4>2. Led(m) => SomeoneLeads(m.players) \/ Tied(m.players)
        BY <2>3, <4>1 DEF Led
      <4>3. qs = SetNewAuctionTie(m.players, i)
        BY <3>3
      <4>. HIDE DEF qs, i
      <4>. QED
        BY <2>1, <2>2, <3>1, <4>2, <4>3, NewTieType
    <3>. QED
      BY <3>2, <3>3
  <2>9. SameHands(m.players, qs) /\ SameGold(m.players, qs)
    <3>. HIDE DEF i
    <3>1. CASE m.currentOffer < gold
      BY <2>1, <2>2, <3>1, NewWinnerType DEF SameGold
    <3>2. CASE ~(m.currentOffer < gold)
      BY <2>1, <2>2, <3>2, NewTieType DEF SameGold
    <3>. QED
      BY <3>1, <3>2
  <2>10. \/ m.currentOffer < gold /\ Leads(qs, i)
         \/ /\ m.currentOffer = gold /\ 0 < gold
            /\ ~m.players[i].isWinningAuction
            /\ \A j \in 1..Len(qs) : ~qs[j].isWinningAuction
    <3>1. 0 < gold /\ ~m.players[i].isWinningAuction
      BY <1>4 DEF AcceptsOffer, CanOffer
    <3>. HIDE DEF i
    <3>2. CASE m.currentOffer < gold
      BY <2>1, <2>2, <3>2, NewWinnerType
    <3>3. CASE ~(m.currentOffer < gold)
      <4>1. m.currentOffer = gold
        BY <2>1, <2>3, <3>3
      <4>2. qs = SetNewAuctionTie(m.players, i)
        BY <3>3
      <4>. HIDE DEF qs
      <4>. QED
        BY <2>1, <2>2, <2>5, <3>1, <4>1, <4>2, NewTieType
    <3>. QED
      BY <3>2, <3>3
  <2>. HIDE DEF qs
  <2>11. MatchType(r) /\ r.fault = "none" /\ r.players = qs
        /\ r.currentPhase = "Auction" /\ r.cardsInAuction = m.cardsInAuction
        /\ r.currentOffer = gold /\ r.currentAttack = 0
        /\ r.deck = m.deck /\ r.discarded = m.discarded
        /\ r.currentAuctioneer = m.currentAuctioneer
        /\ r.updateEvent = << Event("Offer", n, gold) >>
    <3>1. << Event("Offer", n, gold) >> \in Seq(Update)
      BY <2>2, EventIsUpdate DEF EventType
    <3>. QED
      BY <1>1, <2>3, <2>4, <2>5, <3>1 DEF MatchType
  <2>. HIDE DEF r
  <2>12. Playing(r)
    BY <2>4, <2>6, <2>7, <2>11 DEF Playing, Sound, Covered
  <2>13. Led(m) => Led(r)
    BY <2>11, <2>8 DEF Led
  <2>14. BidBy(m, r, i)
    BY <2>3, <2>11, <2>10 DEF BidBy, Raises, Equals, BidOn
  <2>15. Says(m, r, i)
    BY <2>2, <2>3, <2>11 DEF Says
  <2>16. Bids(m, r)
    BY <2>2, <2>3, <2>11, <2>12, <2>13, <2>9, <2>14, <2>15 DEF Bids
  <2>17. HandleOffer(m, n, gold) = ProcessPhase(r)
    BY <1>2, <1>4
  <2>. QED
    BY <2>16, <2>17 DEF Handled
<1>. QED
  BY <1>3, <1>4

LEMMA HandlePassHandled ==
    ASSUME NEW m, Sound(m), NEW n, IsPlayer(m, n)
    PROVE  Handled(m, HandlePass(m, n))
<1>. DEFINE i == GetPlayerIndex(m, n)
            qs == [m.players EXCEPT ![i].hasPassed = TRUE]
            r == [m EXCEPT !.players[i].hasPassed = TRUE,
                           !.updateEvent = << Event("Pass", n, 0) >>]
<1>1. MatchType(m) /\ m.fault = "none" /\ m.currentPhase # "GameStart"
      /\ Covered(m)
  BY DEF Sound
<1>2. HandlePass(m, n) = IF ~IsPlayer(m, n) THEN Panic(m)
                         ELSE IF ~AcceptsPass(m, i) THEN SetError(m)
                         ELSE ProcessPhase(r)
  BY Zenon DEF HandlePass
<1>3. CASE ~AcceptsPass(m, i)
  BY <1>2, <1>3 DEF Handled
<1>4. CASE AcceptsPass(m, i)
  <2>1. m.players \in Seq(PlayerType)
    BY <1>1 DEF MatchType
  <2>2. i \in 1..Len(m.players) /\ m.players[i] \in PlayerType
        /\ m.players # <<>> /\ NameAt(m, i) = n /\ n \in Name
    BY <1>1, PlayerIndex
  <2>3. [m.players[i] EXCEPT !.hasPassed = TRUE] \in PlayerType
    BY <2>2 DEF PlayerType
  <2>4. qs \in Seq(PlayerType) /\ Len(qs) = Len(m.players)
    BY <2>1, <2>2, <2>3, ExceptSeq
  <2>5. qs # <<>>
    BY <2>1, <2>2, <2>4
  <2>6. m.currentPhase \in {"Attack", "Auction"} /\ m.cardsInAuction # <<>>
        /\ (m.currentPhase = "Attack" => m.currentOffer = 0)
        /\ (m.currentPhase = "Auction" => m.currentAttack = 0)
    BY <1>4 DEF AcceptsPass, Sound
  <2>7. \A j \in 1..Len(qs) :
          /\ qs[j].gold = m.players[j].gold
          /\ qs[j].isWinningAuction = m.players[j].isWinningAuction
          /\ qs[j].isTyingAuction = m.players[j].isTyingAuction
    BY <2>1, <2>2, <2>4 DEF PlayerType
  <2>8. SameHands(m.players, qs) /\ SameGold(m.players, qs)
    BY <2>1, <2>2, <2>3, <2>4, <2>7, ExceptSeq
       DEF SameHands, SameGold, SameCards, PlayerType
  <2>9. r = [m EXCEPT !.players = qs,
                      !.updateEvent = << Event("Pass", n, 0) >>]
    BY <1>1 DEF MatchType
  <2>. HIDE DEF qs, r
  <2>10. MatchType(r) /\ r.fault = "none" /\ r.players = qs
        /\ r.currentPhase = m.currentPhase /\ r.currentOffer = m.currentOffer
        /\ r.cardsInAuction = m.cardsInAuction
        /\ r.currentAttack = m.currentAttack
        /\ r.deck = m.deck /\ r.discarded = m.discarded
        /\ r.currentAuctioneer = m.currentAuctioneer
        /\ r.updateEvent = << Event("Pass", n, 0) >>
    <3>1. << Event("Pass", n, 0) >> \in Seq(Update)
      BY <2>2, EventIsUpdate DEF EventType
    <3>. QED
      BY <1>1, <2>4, <2>9, <3>1 DEF MatchType
  <2>11. Playing(r)
    BY <1>1, <2>4, <2>5, <2>6, <2>7, <2>10 DEF Playing, Sound, Covered
  <2>12. Led(m) => Led(r)
    <3>1. Len(qs) = Len(m.players) /\ r.players = qs
      BY <2>4, <2>10
    <3>2. NobodyLeads(m.players) => NobodyLeads(qs)
      BY <2>7, <3>1 DEF NobodyLeads
    <3>3. SomeoneLeads(m.players) => SomeoneLeads(qs)
      <4>1. ASSUME NEW w \in 1..Len(m.players), Leads(m.players, w)
            PROVE  Leads(qs, w)
        BY <2>7, <3>1, <4>1 DEF Leads
      <4>. QED
        BY <3>1, <4>1 DEF SomeoneLeads
    <3>4. Tied(m.players) => Tied(qs)
      BY <2>7, <3>1 DEF Tied
    <3>. QED
      BY <2>10, <3>1, <3>2, <3>3, <3>4 DEF Led
  <2>13. BidBy(m, r, i)
    BY <2>4, <2>7, <2>10 DEF BidBy, Passes, BidOn
  <2>14. Says(m, r, i)
    BY <2>2, <2>10 DEF Says
  <2>15. Bids(m, r)
    BY <2>2, <2>6, <2>10, <2>11, <2>12, <2>8, <2>13, <2>14 DEF Bids
  <2>. QED
    BY <1>2, <1>4, <2>15 DEF Handled, r
<1>. QED
  BY <1>3, <1>4

LEMMA HandledSound ==
    ASSUME NEW m, Sound(m), NEW h, Handled(m, h)
    PROVE  /\ Sound(h)
           /\ Resting(m) => Resting(h)
           /\ Led(m) => Led(h)
<1>1. CASE h = SetError(m)
  BY <1>1, SetErrorSound
<1>2. CASE h # SetError(m)
  <2>1. PICK r : Bids(m, r) /\ h = ProcessPhase(r)
    BY <1>2 DEF Handled
  <2>. QED
    BY <2>1, ProcessPhaseSound DEF Bids, Playing
<1>. QED
  BY <1>1, <1>2

(* Who leaves takes nothing from the others.                               *)
LEMMA RemoveType ==
    ASSUME NEW ps \in Seq(PlayerType), NEW k \in 1..Len(ps)
    PROVE  /\ RemoveAt(ps, k) \in Seq(PlayerType)
           /\ \A j \in 1..Len(RemoveAt(ps, k)) :
                \E i \in 1..Len(ps) : RemoveAt(ps, k)[j] = ps[i]
<1>. DEFINE before == SubSeq(ps, 1, k - 1)
            after  == SubSeq(ps, k + 1, Len(ps))
<1>1. Len(ps) \in Nat /\ k \in Nat
  OBVIOUS
<1>2. before \in Seq(PlayerType) /\ Len(before) = k - 1
      /\ \A j \in 1..(k - 1) : before[j] = ps[j]
  BY <1>1
<1>3. after \in Seq(PlayerType) /\ Len(after) = Len(ps) - k
      /\ \A j \in 1..(Len(ps) - k) : after[j] = ps[k + j]
  BY <1>1
<1>4. RemoveAt(ps, k) = before \o after
  BY DEF RemoveAt
<1>. HIDE DEF before, after
<1>5. before \o after \in Seq(PlayerType)
      /\ Len(before \o after) = Len(ps) - 1
  <2>1. before \o after \in Seq(PlayerType)
        /\ Len(before \o after) = Len(before) + Len(after)
    BY <1>2, <1>3, ConcatProperties
  <2>. QED
    BY <1>1, <1>2, <1>3, <2>1
<1>6. ASSUME NEW j \in 1..(Len(ps) - 1)
      PROVE  \E i \in 1..Len(ps) : (before \o after)[j] = ps[i]
  <2>1. CASE j <= k - 1
    <3>1. (before \o after)[j] = before[j]
      BY <1>1, <1>2, <1>3, <2>1, ConcatProperties
    <3>. QED
      BY <1>1, <1>2, <2>1, <3>1
  <2>2. CASE j > k - 1
    <3>1. (before \o after)[j] = after[j - (k - 1)]
      BY <1>1, <1>2, <1>3, <2>2, ConcatProperties
    <3>2. j - (k - 1) \in 1..(Len(ps) - k)
      BY <1>1, <2>2
    <3>3. after[j - (k - 1)] = ps[k + (j - (k - 1))]
      BY <1>3, <3>2
    <3>4. k + (j - (k - 1)) \in 1..Len(ps)
      BY <1>1, <3>2
    <3>5. (before \o after)[j] = ps[k + (j - (k - 1))]
      BY <3>1, <3>3
    <3>. HIDE DEF before, after
    <3>. QED
      BY <3>4, <3>5, Zenon
  <2>3. j <= k - 1 \/ j > k - 1
    BY <1>1
  <2>. QED
    BY <2>1, <2>2, <2>3, Zenon
<1>. QED
  BY <1>4, <1>5, <1>6

LEMMA RemovePlayerSound ==
    ASSUME NEW m, Sound(m), NEW n, IsPlayer(m, n)
    PROVE  Sound(RemovePlayer(m, n))
<1>. DEFINE k == GetPlayerIndex(m, n)
            r == RemovePlayer(m, n)
<1>1. MatchType(m) /\ m.fault = "none" /\ Covered(m)
  BY DEF Sound
<1>2. m.players \in Seq(PlayerType) /\ k \in 1..Len(m.players)
  BY <1>1, PlayerIndex DEF MatchType
<1>3. r = [m EXCEPT !.players = RemoveAt(m.players, k)]
  BY <1>1 DEF RemovePlayer, MatchType
<1>. HIDE DEF k, r
<1>4. RemoveAt(m.players, k) \in Seq(PlayerType)
  BY <1>2, RemoveType
<1>5. MatchType(r) /\ r.fault = "none" /\ r.players = RemoveAt(m.players, k)
      /\ r.currentPhase = m.currentPhase /\ r.currentOffer = m.currentOffer
      /\ r.cardsInAuction = m.cardsInAuction
      /\ r.currentAttack = m.currentAttack
  BY <1>1, <1>3, <1>4 DEF MatchType
<1>6. Covered(r) /\ (AllReset(m.players) => AllReset(r.players))
  <2>1. \A j \in 1..Len(r.players) :
          \E i \in 1..Len(m.players) : r.players[j] = m.players[i]
    BY <1>2, <1>5, RemoveType
  <2>. QED
    BY <1>1, <1>5, <2>1 DEF Covered, AllReset
<1>7. Sound(r)
  BY <1>5, <1>6 DEF Sound, Undisputed
<1>. QED
  BY <1>7 DEF r

LEMMA NewPlayerType ==
    ASSUME NEW n \in Name
    PROVE  /\ NewPlayer(n) \in PlayerType
           /\ ~NewPlayer(n).isWinningAuction /\ ~NewPlayer(n).isTyingAuction
           /\ ~NewPlayer(n).hasPassed
BY DEF NewPlayer, PlayerType

LEMMA AddPlayerSound ==
    ASSUME NEW m, Sound(m), m.currentPhase \in {"WaitForStart", "Finished"},
           NEW n \in Name
    PROVE  /\ Sound(AddPlayer(m, n)) /\ Undisputed(AddPlayer(m, n))
           /\ AddPlayer(m, n).players # <<>>
<1>. DEFINE ps == Append(m.players, NewPlayer(n))
            r == AddPlayer(m, n)
<1>1. MatchType(m) /\ m.fault = "none" /\ Undisputed(m)
  BY DEF Sound
<1>2. ps \in Seq(PlayerType) /\ ps # <<>> /\ AllReset(ps)
  <2>1. m.players \in Seq(PlayerType)
    BY <1>1 DEF MatchType
  <2>2. NewPlayer(n) \in PlayerType
    BY NewPlayerType
  <2>3. /\ ps \in Seq(PlayerType) /\ ps # <<>>
        /\ Len(ps) = Len(m.players) + 1 /\ Len(m.players) \in Nat
        /\ \A i \in 1..Len(m.players) : ps[i] = m.players[i]
        /\ ps[Len(m.players) + 1] = NewPlayer(n)
    BY <2>1, <2>2, AppendProperties
  <2>. HIDE DEF ps
  <2>. QED
    BY <1>1, <2>3, NewPlayerType DEF AllReset, Undisputed
<1>3. r = [m EXCEPT !.players = ps]
  BY <1>1 DEF AddPlayer, MatchType
<1>. HIDE DEF ps, r
<1>4. MatchType(r) /\ r.fault = "none" /\ r.players = ps
      /\ r.currentPhase = m.currentPhase
      /\ r.currentAttack = m.currentAttack /\ r.currentOffer = m.currentOffer
  BY <1>1, <1>2, <1>3 DEF MatchType
<1>5. Sound(r)
  BY <1>1, <1>2, <1>4 DEF Sound, Covered, Undisputed
<1>. QED
  BY <1>1, <1>2, <1>4, <1>5 DEF r, Undisputed

LEMMA GameStartSound ==
    ASSUME NEW m, Sound(m), m.players # <<>>, Undisputed(m),
           NEW a \in DOMAIN m.players, NEW d \in Seq(Card)
    PROVE  /\ Playing(OnGameStartPhase(m, a, d))
           /\ OnGameStartPhase(m, a, d).currentPhase = "TurnStart"
<1>. DEFINE ps == [i \in DOMAIN m.players |->
                     [m.players[i] EXCEPT !.gold = StartingGold(i, a)]]
            SetGold == [i \in DOMAIN ps |->
                          Event("SetGold", ps[i].name, ps[i].gold)]
            n == AddEvents(m, << Event("IsAuctioneer", NameAt(m, a), 0) >>
                                \o SetGold)
            r == OnGameStartPhase(m, a, d)
<1>1. MatchType(m) /\ m.fault = "none"
  BY DEF Sound
<1>2. m.players \in Seq(PlayerType) /\ DOMAIN m.players = 1..Len(m.players)
      /\ Len(m.players) \in Nat
  BY <1>1 DEF MatchType
<1>3. \A i \in 1..Len(m.players) :
        LET q == [m.players[i] EXCEPT !.gold = StartingGold(i, a)]
        IN  q \in PlayerType /\ ~q.isWinningAuction /\ ~q.isTyingAuction
                             /\ ~q.hasPassed
  <2>1. \A i : StartingGold(i, a) \in Nat
    BY ConfigAssumption DEF StartingGold
  <2>2. \A i \in 1..Len(m.players) : m.players[i] \in PlayerType
    BY <1>2
  <2>. QED
    BY <2>1, <2>2 DEF PlayerType, Undisputed, AllReset
<1>4. ps \in Seq(PlayerType) /\ Len(ps) = Len(m.players) /\ AllReset(ps)
  BY <1>2, <1>3, IsASeq DEF AllReset
<1>5. ps # <<>>
  BY <1>2, <1>4
<1>6. r = [n EXCEPT !.currentAuctioneer = a - 1, !.players = ps, !.deck = d,
                    !.currentPhase = "TurnStart"]
  BY Zenon DEF OnGameStartPhase
<1>7. << Event("IsAuctioneer", NameAt(m, a), 0) >> \o SetGold \in Seq(Update)
  <2>. HIDE DEF ps
  <2>1. Len(ps) \in Nat /\ DOMAIN ps = 1..Len(ps)
    BY <1>4
  <2>2. << Event("IsAuctioneer", NameAt(m, a), 0) >> \in Seq(Update)
    BY <1>1, <1>2, NameIsTyped, EventIsUpdate DEF EventType
  <2>3. ASSUME NEW i \in 1..Len(ps)
        PROVE  Event("SetGold", ps[i].name, ps[i].gold) \in Update
    <3>1. ps[i] \in PlayerType
      BY <1>4, <2>1
    <3>. QED
      BY <3>1, EventIsUpdate DEF EventType, PlayerType
  <2>4. SetGold \in Seq(Update)
    BY <2>1, <2>3, IsASeq
  <2>. HIDE DEF SetGold
  <2>. QED
    BY <2>2, <2>4, ConcatProperties
<1>8. MatchType(n) /\ n.fault = "none" /\ n.currentAttack = 0
      /\ n.currentOffer = 0
  <2>. HIDE DEF SetGold
  <2>. QED
    BY <1>1, <1>7, AddEventsType DEF AddEvents, MatchType, Undisputed
<1>9. a - 1 \in Nat
  BY <1>2
<1>. HIDE DEF ps, n, r
<1>10. MatchType(r) /\ r.fault = "none" /\ r.currentPhase = "TurnStart"
      /\ r.players = ps /\ r.currentAttack = 0 /\ r.currentOffer = 0
  BY <1>4, <1>6, <1>8, <1>9 DEF MatchType, Phase
<1>. QED
  BY <1>4, <1>5, <1>10 DEF Playing, Sound, Covered, Undisputed, r

LEMMA StartSound ==
    ASSUME NEW m, Sound(m), m.players # <<>>, Undisputed(m), NEW r \in Starts(m)
    PROVE  Sound(r) /\ Resting(r) /\ Led(r)
<1>. DEFINE n == [m EXCEPT !.updateEvent = MovedFrom(m.updateEvent)]
<1>1. MatchType(m)
  BY DEF Sound
<1>2. MatchType(n) /\ n.fault = m.fault /\ n.players = m.players
      /\ n.currentPhase = m.currentPhase /\ n.currentOffer = m.currentOffer
      /\ n.cardsInAuction = m.cardsInAuction
      /\ n.currentAttack = m.currentAttack
  <2>1. MovedFrom(m.updateEvent) \in Seq(Update)
    BY <1>1 DEF MatchType, MovedFrom
  <2>. QED
    BY <1>1, <2>1 DEF MatchType
<1>3. PICK a \in DOMAIN m.players, d \in Shuffles(m.deck) :
        r = ProcessPhase(OnGameStartPhase(n, a, d))
  BY DEF Starts
<1>4. d \in Seq(Card)
  BY <1>1, DeckAssumption DEF Shuffles, MatchType
<1>. HIDE DEF n
<1>5. Sound(n) /\ Undisputed(n)
  BY <1>2 DEF Sound, Covered, Undisputed
<1>6. Led(OnGameStartPhase(n, a, d))
  BY <1>2, <1>4, <1>5, GameStartSound DEF Led
<1>. QED
  BY <1>2, <1>3, <1>4, <1>5, <1>6, GameStartSound, ProcessPhaseSound DEF Playing
=============================================================================
