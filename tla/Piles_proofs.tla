---------------------------- MODULE Piles_proofs ----------------------------
(***************************************************************************)
(* What the methods of a match do with its cards and its players: where    *)
(* every card goes, who comes and who leaves.                              *)
(***************************************************************************)
EXTENDS Match_proofs, FiniteSetTheorems

(* The piles of a match, and of a sequence of cards what is in it.         *)

(* The elements of a sequence, by their positions.                         *)
LEMMA InPile ==
    ASSUME NEW S, NEW s \in Seq(S)
    PROVE  /\ DOMAIN s = 1..Len(s) /\ Len(s) \in Nat
           /\ ToSet(s) = {s[i] : i \in 1..Len(s)}
           /\ IsInjective(s) <=> \A i, j \in 1..Len(s) : s[i] = s[j] => i = j
BY DEF ToSet, IsInjective

LEMMA AtPosition ==
    ASSUME NEW S, NEW s \in Seq(S), NEW i \in 1..Len(s)
    PROVE  s[i] \in ToSet(s)
BY InPile

LEMMA PileIn ==
    ASSUME NEW S, NEW s \in Seq(S), NEW T, \A i \in 1..Len(s) : s[i] \in T
    PROVE  ToSet(s) \subseteq T
BY InPile

LEMMA ConcatPile ==
    ASSUME NEW S, NEW a \in Seq(S), NEW b \in Seq(S)
    PROVE  /\ ToSet(a \o b) = ToSet(a) \cup ToSet(b)
           /\ IsInjective(a) /\ IsInjective(b) /\ ToSet(a) \cap ToSet(b) = {}
                => IsInjective(a \o b)
<1>. DEFINE c == a \o b
<1>1. /\ c \in Seq(S) /\ Len(c) = Len(a) + Len(b)
      /\ \A i \in 1..Len(c) : c[i] = IF i <= Len(a) THEN a[i]
                                     ELSE b[i - Len(a)]
  BY ConcatProperties
<1>. HIDE DEF c
<1>2. Len(a) \in Nat /\ Len(b) \in Nat
  BY InPile
<1>3. \A i \in 1..Len(a) : i \in 1..Len(c) /\ c[i] = a[i]
  BY <1>1, <1>2
<1>4. ASSUME NEW i \in 1..Len(b)
      PROVE  Len(a) + i \in 1..Len(c) /\ c[Len(a) + i] = b[i]
  <2>1. /\ Len(a) + i \in 1..Len(c) /\ ~(Len(a) + i <= Len(a))
        /\ (Len(a) + i) - Len(a) = i
    BY <1>1, <1>2
  <2>. QED
    BY <1>1, <2>1
<1>5. ASSUME NEW i \in 1..Len(c)
      PROVE  \/ i \in 1..Len(a) /\ c[i] = a[i]
             \/ i - Len(a) \in 1..Len(b) /\ c[i] = b[i - Len(a)]
  BY <1>1, <1>2
<1>6. ToSet(c) = ToSet(a) \cup ToSet(b)
  <2>1. ToSet(c) \subseteq ToSet(a) \cup ToSet(b)
    BY <1>1, <1>5, InPile
  <2>2. ToSet(a) \subseteq ToSet(c)
    <3>1. \A i \in 1..Len(a) : a[i] \in ToSet(c)
      BY <1>1, <1>3, AtPosition
    <3>. QED
      BY <3>1, PileIn
  <2>3. ASSUME NEW x \in ToSet(b) PROVE x \in ToSet(c)
    <3>1. PICK i \in 1..Len(b) : x = b[i]
      BY InPile
    <3>2. Len(a) + i \in 1..Len(c) /\ x = c[Len(a) + i]
      BY <1>4, <3>1
    <3>. QED
      BY <1>1, <3>2, AtPosition
  <2>. QED
    BY <2>1, <2>2, <2>3
<1>7. ASSUME IsInjective(a), IsInjective(b), ToSet(a) \cap ToSet(b) = {}
      PROVE  IsInjective(c)
  <2>1. ASSUME NEW i \in 1..Len(a), NEW j \in 1..Len(b) PROVE a[i] # b[j]
    <3>1. a[i] \in ToSet(a) /\ b[j] \in ToSet(b)
      BY InPile
    <3>. QED
      BY <1>7, <3>1
  <2>2. /\ \A i, j \in 1..Len(a) : a[i] = a[j] => i = j
        /\ \A i, j \in 1..Len(b) : b[i] = b[j] => i = j
    BY <1>7, InPile
  <2>3. ASSUME NEW i \in 1..Len(c), NEW j \in 1..Len(c), c[i] = c[j]
        PROVE  i = j
    <3>1. CASE i \in 1..Len(a) /\ c[i] = a[i]
      BY <1>5, <2>1, <2>2, <2>3, <3>1
    <3>2. CASE i - Len(a) \in 1..Len(b) /\ c[i] = b[i - Len(a)]
      <4>1. j - Len(a) \in 1..Len(b) /\ c[j] = b[j - Len(a)]
        BY <1>5, <2>1, <2>3, <3>2
      <4>2. i - Len(a) = j - Len(a)
        BY <2>2, <2>3, <3>2, <4>1
      <4>. QED
        BY <1>1, <1>2, <4>2
    <3>. QED
      BY <1>5, <3>1, <3>2
  <2>. QED
    BY <1>1, <2>3, InPile
<1>. QED
  BY <1>6, <1>7 DEF c

LEMMA AppendPile ==
    ASSUME NEW S, NEW s \in Seq(S), NEW x \in S
    PROVE  /\ ToSet(Append(s, x)) = ToSet(s) \cup {x}
           /\ IsInjective(s) /\ x \notin ToSet(s) => IsInjective(Append(s, x))
<1>1. Append(s, x) = s \o << x >> /\ << x >> \in Seq(S)
  BY AppendIsConcat
<1>2. ToSet(<< x >>) = {x} /\ IsInjective(<< x >>)
  BY DEF ToSet, IsInjective
<1>3. /\ ToSet(s \o << x >>) = ToSet(s) \cup ToSet(<< x >>)
      /\ IsInjective(s) /\ IsInjective(<< x >>) /\ ToSet(s) \cap ToSet(<< x >>) = {}
            => IsInjective(s \o << x >>)
  BY <1>1, ConcatPile
<1>. QED
  BY <1>1, <1>2, <1>3

LEMMA TailPile ==
    ASSUME NEW S, NEW s \in Seq(S), s # <<>>
    PROVE  /\ Tail(s) \in Seq(S) /\ Head(s) \in S
           /\ ToSet(s) = {Head(s)} \cup ToSet(Tail(s))
           /\ IsInjective(s) => IsInjective(Tail(s)) /\ Head(s) \notin ToSet(Tail(s))
<1>. DEFINE t == Tail(s)
<1>1. /\ t \in Seq(S) /\ Head(s) \in S /\ Len(t) = Len(s) - 1
      /\ \A i \in 1..Len(t) : t[i] = s[i + 1]
  BY HeadTailProperties
<1>2. Len(s) \in Nat /\ Len(s) # 0 /\ Head(s) = s[1]
  OBVIOUS
<1>. HIDE DEF t
<1>3. \A i \in 1..Len(t) : i + 1 \in 1..Len(s) /\ t[i] = s[i + 1] /\ i + 1 # 1
  BY <1>1, <1>2
<1>4. \A i \in 1..Len(s) : i = 1 \/ (i - 1 \in 1..Len(t) /\ s[i] = t[i - 1])
  BY <1>1, <1>2
<1>5. ToSet(s) = {Head(s)} \cup ToSet(t)
  <2>1. ToSet(s) \subseteq {Head(s)} \cup ToSet(t)
    BY <1>1, <1>2, <1>4, InPile
  <2>2. {Head(s)} \cup ToSet(t) \subseteq ToSet(s)
    BY <1>1, <1>2, <1>3, InPile
  <2>. QED
    BY <2>1, <2>2
<1>6. ASSUME IsInjective(s) PROVE IsInjective(t) /\ Head(s) \notin ToSet(t)
  <2>1. \A i, j \in 1..Len(s) : s[i] = s[j] => i = j
    BY <1>6, InPile
  <2>2. ASSUME NEW i \in 1..Len(t), NEW j \in 1..Len(t), t[i] = t[j]
        PROVE  i = j
    BY <1>3, <2>1, <2>2
  <2>3. \A i \in 1..Len(t) : t[i] # s[1]
    BY <1>2, <1>3, <2>1
  <2>. QED
    BY <1>1, <1>2, <2>2, <2>3, InPile
<1>. QED
  BY <1>1, <1>5, <1>6 DEF t

(* A deck and what is drawn from its end.                                  *)
LEMMA CutPile ==
    ASSUME NEW S, NEW s \in Seq(S), NEW k \in 0..Len(s)
    PROVE  LET rest  == SubSeq(s, 1, k)
               drawn == Reverse(SubSeq(s, k + 1, Len(s)))
           IN  /\ rest \in Seq(S) /\ drawn \in Seq(S)
               /\ ToSet(s) = ToSet(rest) \cup ToSet(drawn)
               /\ IsInjective(s) => /\ IsInjective(rest) /\ IsInjective(drawn)
                                    /\ ToSet(rest) \cap ToSet(drawn) = {}
<1>. DEFINE rest  == SubSeq(s, 1, k)
            tail  == SubSeq(s, k + 1, Len(s))
            drawn == Reverse(tail)
            n     == Len(s) - k
<1>1. Len(s) \in Nat /\ k \in Nat /\ k <= Len(s) /\ n \in Nat
  OBVIOUS
<1>2. rest \in Seq(S) /\ Len(rest) = k /\ \A i \in 1..k : rest[i] = s[i]
  BY <1>1
<1>3. tail \in Seq(S) /\ Len(tail) = n /\ \A i \in 1..n : tail[i] = s[k + i]
  BY <1>1
<1>4. drawn \in Seq(S) /\ Len(drawn) = n
      /\ \A i \in 1..n : drawn[i] = s[(Len(s) - i) + 1]
  <2>1. drawn = [i \in 1..n |-> tail[(n - i) + 1]]
    BY <1>3 DEF Reverse
  <2>. HIDE DEF drawn, tail, n
  <2>2. \A i \in 1..n : (n - i) + 1 \in 1..n
    BY <1>1
  <2>3. \A i \in 1..n : tail[(n - i) + 1] \in S
    BY <1>3, <2>2
  <2>4. drawn \in Seq(S) /\ Len(drawn) = n
    BY <1>1, <2>1, <2>3, IsASeq
  <2>5. ASSUME NEW i \in 1..n PROVE drawn[i] = s[(Len(s) - i) + 1]
    <3>1. drawn[i] = s[k + ((n - i) + 1)]
      BY <1>3, <2>1, <2>2
    <3>2. k + ((n - i) + 1) = (Len(s) - i) + 1
      BY <1>1 DEF n
    <3>. QED
      BY <3>1, <3>2
  <2>. QED
    BY <2>4, <2>5
<1>5. \A i \in 1..n : /\ (Len(s) - i) + 1 \in 1..Len(s)
                      /\ (Len(s) - i) + 1 > k
  BY <1>1
<1>6. ASSUME NEW i \in 1..Len(s)
      PROVE  \/ i \in 1..k
             \/ /\ (Len(s) - i) + 1 \in 1..n
                /\ i = (Len(s) - ((Len(s) - i) + 1)) + 1
  BY <1>1
<1>7. \A i \in 1..k : i \in 1..Len(s)
  BY <1>1
<1>. HIDE DEF rest, tail, drawn, n
<1>8. ToSet(s) = ToSet(rest) \cup ToSet(drawn)
  <2>1. ASSUME NEW i \in 1..Len(s) PROVE s[i] \in ToSet(rest) \cup ToSet(drawn)
    <3>1. CASE i \in 1..k
      BY <1>2, <3>1, AtPosition
    <3>2. CASE /\ (Len(s) - i) + 1 \in 1..n
               /\ i = (Len(s) - ((Len(s) - i) + 1)) + 1
      <4>1. drawn[(Len(s) - i) + 1] = s[i]
        BY <1>4, <3>2
      <4>. QED
        BY <1>4, <3>2, <4>1, AtPosition
    <3>. QED
      BY <1>6, <3>1, <3>2
  <2>2. ASSUME NEW i \in 1..k PROVE rest[i] \in ToSet(s)
    BY <1>2, <1>7, AtPosition
  <2>3. ASSUME NEW i \in 1..n PROVE drawn[i] \in ToSet(s)
    BY <1>4, <1>5, AtPosition
  <2>4. ToSet(s) \subseteq ToSet(rest) \cup ToSet(drawn)
    BY <2>1, PileIn
  <2>5. ToSet(rest) \subseteq ToSet(s)
    BY <1>2, <2>2, PileIn
  <2>6. ToSet(drawn) \subseteq ToSet(s)
    BY <1>4, <2>3, PileIn
  <2>. QED
    BY <2>4, <2>5, <2>6
<1>9. ASSUME IsInjective(s)
      PROVE  /\ IsInjective(rest) /\ IsInjective(drawn)
             /\ ToSet(rest) \cap ToSet(drawn) = {}
  <2>1. \A i, j \in 1..Len(s) : s[i] = s[j] => i = j
    BY <1>9, InPile
  <2>2. \A i, j \in 1..k : rest[i] = rest[j] => i = j
    BY <1>2, <1>7, <2>1
  <2>3. ASSUME NEW i \in 1..n, NEW j \in 1..n, drawn[i] = drawn[j]
        PROVE  i = j
    <3>1. (Len(s) - i) + 1 = (Len(s) - j) + 1
      BY <1>4, <1>5, <2>1, <2>3
    <3>. QED
      BY <1>1, <3>1
  <2>4. ASSUME NEW i \in 1..k, NEW j \in 1..n PROVE rest[i] # drawn[j]
    <3>1. i # (Len(s) - j) + 1
      BY <1>1, <1>5
    <3>2. rest[i] = s[i] /\ i \in 1..Len(s)
      BY <1>2, <1>7
    <3>3. drawn[j] = s[(Len(s) - j) + 1] /\ (Len(s) - j) + 1 \in 1..Len(s)
      BY <1>4, <1>5
    <3>. QED
      BY <2>1, <3>1, <3>2, <3>3, Zenon
  <2>5. IsInjective(rest) /\ IsInjective(drawn)
    BY <1>2, <1>4, <2>2, <2>3, InPile
  <2>6. ASSUME NEW x \in ToSet(rest), x \in ToSet(drawn) PROVE FALSE
    <3>1. PICK i \in 1..k : x = rest[i]
      BY <1>2, InPile
    <3>2. PICK j \in 1..n : x = drawn[j]
      BY <1>4, <2>6, InPile
    <3>. QED
      BY <2>4, <3>1, <3>2
  <2>. QED
    BY <2>5, <2>6
<1>. QED
  BY <1>2, <1>4, <1>8, <1>9 DEF rest, drawn, tail

(* A deck with the cards of another, in another order.                     *)
LEMMA ShuffledPile ==
    ASSUME NEW S, NEW s \in Seq(S), NEW t \in Seq(S), IsInjective(s),
           Len(t) = Len(s), ToSet(t) = ToSet(s)
    PROVE  IsInjective(t)
<1>. DEFINE T == ToSet(s)
            D == 1..Len(s)
<1>1. Len(s) \in Nat /\ IsFiniteSet(D)
  BY InPile, FS_Interval
<1>2. s \in [D -> T] /\ t \in [D -> T]
  <2>1. s \in [D -> S] /\ t \in [D -> S]
    BY LenProperties
  <2>2. \A i \in D : s[i] \in T /\ t[i] \in T
    BY AtPosition
  <2>. QED
    BY <2>1, <2>2
<1>3. s \in Injection(D, T) /\ s \in Surjection(D, T)
  <2>1. \A x \in T : \E i \in D : s[i] = x
    BY InPile
  <2>. QED
    BY <1>2, <2>1 DEF Injection, Surjection
<1>4. t \in Surjection(D, T)
  <2>1. \A x \in T : \E i \in D : t[i] = x
    BY InPile
  <2>. QED
    BY <1>2, <2>1 DEF Surjection
<1>5. Cardinality(D) = Cardinality(T)
  BY <1>1, <1>3, FS_Surjection, FS_Injection
<1>6. t \in Injection(D, T)
  BY <1>1, <1>4, <1>5, FS_SurjSameCardinalityImpliesInj
<1>. QED
  BY <1>6 DEF Injection

-----------------------------------------------------------------------------
(* Where the cards of a match are.                                         *)

Hand(ps, i) == Owned(ps[i])

Hands(ps) == UNION {Hand(ps, i) : i \in 1..Len(ps)}

Piles(m) == ToSet(m.deck) \cup ToSet(m.cardsInAuction) \cup ToSet(m.discarded)

Held(m) == Hands(m.players) \cup Piles(m)

(* No card is twice in a pile, or in two piles.                            *)
PilesApart(m) ==
    /\ IsInjective(m.deck) /\ IsInjective(m.cardsInAuction)
    /\ IsInjective(m.discarded)
    /\ ToSet(m.deck) \cap ToSet(m.cardsInAuction) = {}
    /\ ToSet(m.deck) \cap ToSet(m.discarded) = {}
    /\ ToSet(m.cardsInAuction) \cap ToSet(m.discarded) = {}

(* None is twice in a hand, or in two hands.                               *)
HandsApart(ps) ==
    \A i \in 1..Len(ps) :
        /\ ps[i].activeCards \cap ps[i].purchasedThisTurnCards = {}
        /\ \A j \in 1..Len(ps) : i # j => Hand(ps, i) \cap Hand(ps, j) = {}

Apart(m) ==
    /\ PilesApart(m) /\ HandsApart(m.players)
    /\ Hands(m.players) \cap Piles(m) = {}

Nicknames(ps) == [i \in 1..Len(ps) |-> ps[i].name]

(* What a step of a handler does to cards and players: nobody comes or     *)
(* leaves, no card is lost, and no card gets to a second place.            *)
Keeps(m, r) ==
    /\ Nicknames(r.players) = Nicknames(m.players)
    /\ Held(r) = Held(m)
    /\ Apart(m) => Apart(r)

LEMMA KeepsMore ==
    ASSUME NEW m, NEW n, NEW r, Keeps(m, n), Keeps(n, r)
    PROVE  Keeps(m, r)
BY DEF Keeps

LEMMA KeepsItself == ASSUME NEW m PROVE Keeps(m, m)
BY DEF Keeps

LEMMA SameHandsKeep ==
    ASSUME NEW ps, NEW qs, SameHands(ps, qs)
    PROVE  /\ Nicknames(qs) = Nicknames(ps)
           /\ Hands(qs) = Hands(ps)
           /\ HandsApart(ps) => HandsApart(qs)
<1>1. /\ Len(qs) = Len(ps)
      /\ \A i \in 1..Len(ps) :
          /\ qs[i].name = ps[i].name
          /\ Hand(qs, i) = Hand(ps, i)
          /\ qs[i].activeCards = ps[i].activeCards
          /\ qs[i].purchasedThisTurnCards = ps[i].purchasedThisTurnCards
  BY DEF SameHands, SameCards, Hand, Owned
<1>2. Nicknames(qs) = Nicknames(ps)
  BY <1>1 DEF Nicknames
<1>3. Hands(qs) = Hands(ps)
  BY <1>1 DEF Hands
<1>4. HandsApart(ps) => HandsApart(qs)
  BY <1>1 DEF HandsApart
<1>. QED
  BY <1>2, <1>3, <1>4

(* The players hold the same cards, and none moves between the piles.      *)
LEMMA NothingMoves ==
    ASSUME NEW m, NEW r, SameHands(m.players, r.players), r.deck = m.deck,
           r.cardsInAuction = m.cardsInAuction, r.discarded = m.discarded
    PROVE  Keeps(m, r)
<1>1. Piles(r) = Piles(m) /\ (PilesApart(m) => PilesApart(r))
  BY DEF Piles, PilesApart
<1>. QED
  BY <1>1, SameHandsKeep DEF Keeps, Held, Apart

(* The first card on the table is discarded.                               *)
LEMMA CardIsDiscarded ==
    ASSUME NEW m, MatchType(m), m.cardsInAuction # <<>>,
           NEW r, SameHands(m.players, r.players), r.deck = m.deck,
           r.cardsInAuction = Tail(m.cardsInAuction),
           r.discarded = Append(m.discarded, Head(m.cardsInAuction))
    PROVE  Keeps(m, r)
<1>. DEFINE card == Head(m.cardsInAuction)
<1>1. m.cardsInAuction \in Seq(Card) /\ m.discarded \in Seq(Card)
  BY DEF MatchType
<1>2. /\ card \in Card
      /\ ToSet(m.cardsInAuction) = {card} \cup ToSet(r.cardsInAuction)
      /\ IsInjective(m.cardsInAuction) =>
            IsInjective(r.cardsInAuction) /\ card \notin ToSet(r.cardsInAuction)
  BY <1>1, TailPile
<1>. HIDE DEF card
<1>3. r.discarded = Append(m.discarded, card)
  BY DEF card
<1>4. /\ ToSet(r.discarded) = ToSet(m.discarded) \cup {card}
      /\ IsInjective(m.discarded) /\ card \notin ToSet(m.discarded)
            => IsInjective(r.discarded)
  BY <1>1, <1>2, <1>3, AppendPile
<1>5. Piles(r) = Piles(m)
  BY <1>2, <1>4 DEF Piles
<1>6. ASSUME PilesApart(m) PROVE PilesApart(r)
  <2>1. card \notin ToSet(m.discarded) /\ card \notin ToSet(m.deck)
    BY <1>2, <1>6 DEF PilesApart
  <2>. QED
    BY <1>2, <1>4, <1>6, <2>1 DEF PilesApart
<1>. QED
  BY <1>5, <1>6, SameHandsKeep DEF Keeps, Held, Apart

(* One player gets a card, the others none.                                *)
Gets(ps, qs, w, card) ==
    /\ Len(qs) = Len(ps)
    /\ \A i \in 1..Len(ps) :
        /\ qs[i].name = ps[i].name
        /\ qs[i].activeCards = ps[i].activeCards
        /\ qs[i].purchasedThisTurnCards =
              IF i = w THEN ps[i].purchasedThisTurnCards \cup {card}
                       ELSE ps[i].purchasedThisTurnCards

(* The first card on the table goes to a player.                           *)
LEMMA CardIsWon ==
    ASSUME NEW m, MatchType(m), m.cardsInAuction # <<>>,
           NEW w \in 1..Len(m.players),
           NEW r, Gets(m.players, r.players, w, Head(m.cardsInAuction)),
           r.deck = m.deck, r.cardsInAuction = Tail(m.cardsInAuction),
           r.discarded = m.discarded
    PROVE  Keeps(m, r)
<1>. DEFINE card == Head(m.cardsInAuction)
            ps == m.players
            qs == r.players
<1>1. m.cardsInAuction \in Seq(Card)
  BY DEF MatchType
<1>2. /\ ToSet(m.cardsInAuction) = {card} \cup ToSet(r.cardsInAuction)
      /\ IsInjective(m.cardsInAuction) =>
            IsInjective(r.cardsInAuction) /\ card \notin ToSet(r.cardsInAuction)
  BY <1>1, TailPile
<1>3. Gets(ps, qs, w, card)
  OBVIOUS
<1>. HIDE DEF card
<1>4. Piles(m) = Piles(r) \cup {card}
  BY <1>2 DEF Piles
<1>5. ASSUME PilesApart(m) PROVE PilesApart(r) /\ card \notin Piles(r)
  BY <1>2, <1>5 DEF PilesApart, Piles
<1>. HIDE DEF ps, qs
<1>6. /\ Len(qs) = Len(ps) /\ w \in 1..Len(ps)
      /\ \A i \in 1..Len(ps) :
          /\ qs[i].name = ps[i].name
          /\ Hand(qs, i) = IF i = w THEN Hand(ps, i) \cup {card} ELSE Hand(ps, i)
  BY <1>3 DEF Gets, Hand, Owned, ps
<1>7. Nicknames(qs) = Nicknames(ps)
  BY <1>6 DEF Nicknames
<1>8. Hands(qs) = Hands(ps) \cup {card}
  BY <1>6 DEF Hands
<1>9. ASSUME HandsApart(ps), card \notin Hands(ps) PROVE HandsApart(qs)
  <2>1. \A i \in 1..Len(ps) : card \notin Hand(ps, i)
    BY <1>9 DEF Hands
  <2>2. ASSUME NEW i \in 1..Len(ps)
        PROVE  qs[i].activeCards \cap qs[i].purchasedThisTurnCards = {}
    <3>1. /\ ps[i].activeCards \cap ps[i].purchasedThisTurnCards = {}
          /\ card \notin ps[i].activeCards
      BY <1>9, <2>1 DEF HandsApart, Hand, Owned
    <3>2. /\ qs[i].activeCards = ps[i].activeCards
          /\ \/ qs[i].purchasedThisTurnCards = ps[i].purchasedThisTurnCards
             \/ qs[i].purchasedThisTurnCards
                    = ps[i].purchasedThisTurnCards \cup {card}
      BY <1>3 DEF Gets
    <3>. QED
      BY <3>1, <3>2
  <2>3. \A i, j \in 1..Len(ps) : i # j => Hand(qs, i) \cap Hand(qs, j) = {}
    BY <1>6, <1>9, <2>1 DEF HandsApart
  <2>. QED
    BY <1>6, <2>2, <2>3 DEF HandsApart
<1>10. Held(r) = Held(m)
  BY <1>4, <1>8 DEF Held, ps, qs
<1>11. ASSUME Apart(m) PROVE Apart(r)
  <2>1. PilesApart(r) /\ card \notin Piles(r)
    BY <1>5, <1>11 DEF Apart
  <2>2. HandsApart(ps) /\ Hands(ps) \cap Piles(m) = {}
    BY <1>11 DEF Apart, ps
  <2>3. HandsApart(qs) /\ Hands(qs) \cap Piles(r) = {}
    BY <1>4, <1>8, <1>9, <2>1, <2>2
  <2>. QED
    BY <2>1, <2>3 DEF Apart, qs
<1>. QED
  BY <1>7, <1>10, <1>11 DEF Keeps, ps, qs

-----------------------------------------------------------------------------
(* What the phase methods do with the cards.                               *)

ResetAll(ps) == ApplyToPlayers(ps, ResetAuctionState)

LEMMA ResetHands ==
    ASSUME NEW ps \in Seq(PlayerType)
    PROVE  SameHands(ps, ResetAll(ps))
<1>. DEFINE qs == ResetAll(ps)
<1>1. Len(qs) = Len(ps) /\ \A i \in 1..Len(ps) : qs[i] = ResetAuctionState(ps[i])
  BY ResetAllType DEF ResetAll
<1>2. \A i \in 1..Len(ps) : ps[i] \in PlayerType
  BY ElementOfSeq
<1>. HIDE DEF qs
<1>3. SameHands(ps, qs)
  BY <1>1, <1>2 DEF SameHands, SameCards, ResetAuctionState, PlayerType
<1>. QED
  BY <1>3 DEF qs

LEMMA TurnStartKeeps ==
    ASSUME NEW m, Playing(m), m.currentPhase = "TurnStart"
    PROVE  Keeps(m, OnTurnStartPhase(m))
<1>. DEFINE left  == Len(m.deck) - CardsPerTurn
            drawn == Reverse(SubSeq(m.deck, left + 1, Len(m.deck)))
            rest  == SubSeq(m.deck, 1, left)
            table == m.cardsInAuction \o drawn
            n     == AddEvents(m, [i \in DOMAIN table |->
                                      Event("Draw", NoName, table[i])])
            r     == OnTurnStartPhase(m)
<1>1. MatchType(m)
  BY DEF Playing, Sound
<1>2. m.deck \in Seq(Card) /\ m.cardsInAuction \in Seq(Card)
      /\ m.discarded \in Seq(Card) /\ m.players \in Seq(PlayerType)
  BY <1>1 DEF MatchType
<1>3. r = IF ~CanDraw(m.deck) THEN [m EXCEPT !.currentPhase = "GameEnd"]
          ELSE IF left < 0 THEN Panic(m)
          ELSE [n EXCEPT !.deck = SubSeq(@, 1, left), !.cardsInAuction = table,
                         !.currentPhase = "Attack"]
  BY Zenon DEF OnTurnStartPhase
<1>4. SameHands(m.players, m.players)
  BY DEF SameHands, SameCards
<1>5. CASE ~CanDraw(m.deck)
  <2>1. r.players = m.players /\ r.deck = m.deck
        /\ r.cardsInAuction = m.cardsInAuction /\ r.discarded = m.discarded
    BY <1>1, <1>3, <1>5 DEF MatchType
  <2>. QED
    BY <1>4, <2>1, NothingMoves
<1>6. CASE CanDraw(m.deck)
  <2>1. left \in 0..Len(m.deck)
    BY <1>2, <1>6, ConfigAssumption DEF CanDraw
  <2>2. /\ rest \in Seq(Card) /\ drawn \in Seq(Card)
        /\ ToSet(m.deck) = ToSet(rest) \cup ToSet(drawn)
        /\ IsInjective(m.deck) => /\ IsInjective(rest) /\ IsInjective(drawn)
                                  /\ ToSet(rest) \cap ToSet(drawn) = {}
    BY <1>2, <2>1, CutPile
  <2>3. r = [n EXCEPT !.deck = SubSeq(@, 1, left), !.cardsInAuction = table,
                      !.currentPhase = "Attack"]
    <3>1. ~(left < 0)
      BY <2>1
    <3>. QED
      BY <1>3, <1>6, <3>1
  <2>. HIDE DEF drawn, left
  <2>4. /\ ToSet(table) = ToSet(m.cardsInAuction) \cup ToSet(drawn)
        /\ IsInjective(m.cardsInAuction) /\ IsInjective(drawn)
              /\ ToSet(m.cardsInAuction) \cap ToSet(drawn) = {}
           => IsInjective(table)
    BY <1>2, <2>2, ConcatPile
  <2>. HIDE DEF r, table
  <2>5. r.players = m.players /\ r.deck = rest
        /\ r.cardsInAuction = table /\ r.discarded = m.discarded
    BY <1>1, <2>3 DEF MatchType, AddEvents
  <2>. HIDE DEF rest
  <2>6. Piles(r) = Piles(m)
    BY <2>2, <2>4, <2>5 DEF Piles
  <2>7. ASSUME PilesApart(m) PROVE PilesApart(r)
    <3>1. /\ ToSet(m.cardsInAuction) \cap ToSet(drawn) = {}
          /\ IsInjective(m.cardsInAuction) /\ IsInjective(drawn)
      BY <2>2, <2>7 DEF PilesApart
    <3>. QED
      BY <2>2, <2>4, <2>5, <2>7, <3>1 DEF PilesApart
  <2>8. Keeps(m, r)
    BY <2>5, <2>6, <2>7 DEF Keeps, Held, Apart
  <2>. QED
    BY <2>8 DEF r
<1>. QED
  BY <1>5, <1>6

(* The card goes to the winner w, who pays nothing here.                   *)
LEMMA WinnerGets ==
    ASSUME NEW ps \in Seq(PlayerType), NEW w \in 1..Len(ps),
           NEW card \in Card, NEW p \in PlayerType,
           p.name = ps[w].name, p.activeCards = ps[w].activeCards,
           p.purchasedThisTurnCards = ps[w].purchasedThisTurnCards \cup {card}
    PROVE  Gets(ps, ResetAll([ps EXCEPT ![w] = p]), w, card)
<1>. DEFINE us == [ps EXCEPT ![w] = p]
            qs == ResetAll(us)
<1>1. /\ us \in Seq(PlayerType) /\ Len(us) = Len(ps)
      /\ \A i \in 1..Len(ps) : us[i] = IF i = w THEN p ELSE ps[i]
  BY ExceptSeq
<1>. HIDE DEF us
<1>2. SameHands(us, qs)
  BY <1>1, ResetHands
<1>. HIDE DEF qs
<1>3. Gets(ps, qs, w, card)
  BY <1>1, <1>2 DEF Gets, SameHands, SameCards
<1>. QED
  BY <1>3 DEF qs, us

(* The end of a dispute costs nobody gold.                                 *)
LEMMA ResetGold ==
    ASSUME NEW ps \in Seq(PlayerType)
    PROVE  Len(ResetAll(ps)) = Len(ps) /\ SameGold(ps, ResetAll(ps))
<1>1. Len(ResetAll(ps)) = Len(ps)
      /\ \A i \in 1..Len(ps) : ResetAll(ps)[i] = ResetAuctionState(ps[i])
  BY ResetAllType DEF ResetAll
<1>2. \A i \in 1..Len(ps) : ps[i] \in PlayerType
  BY ElementOfSeq
<1>. QED
  BY <1>1, <1>2, ResetType DEF SameGold

(* One player is replaced, then all are reset.                             *)
LEMMA ReplacedGold ==
    ASSUME NEW ps \in Seq(PlayerType), NEW w \in 1..Len(ps), NEW p \in PlayerType
    PROVE  \A i \in 1..Len(ps) : ResetAll([ps EXCEPT ![w] = p])[i].gold =
              IF i = w THEN p.gold ELSE ps[i].gold
<1>. DEFINE us == [ps EXCEPT ![w] = p]
<1>1. /\ us \in Seq(PlayerType) /\ Len(us) = Len(ps)
      /\ \A i \in 1..Len(ps) : us[i] = IF i = w THEN p ELSE ps[i]
  BY ExceptSeq
<1>. HIDE DEF us
<1>2. \A i \in 1..Len(ps) : ResetAll(us)[i].gold = us[i].gold
  BY <1>1, ResetGold DEF SameGold
<1>3. \A i \in 1..Len(ps) : ResetAll(us)[i].gold =
         IF i = w THEN p.gold ELSE ps[i].gold
  BY <1>1, <1>2
<1>. QED
  BY <1>3 DEF us

(* What is left of the players and the table when a dispute ends.          *)
LEMMA AttackResult ==
    ASSUME NEW m, Playing(m), m.currentPhase = "Attack"
    PROVE  LET w == GetCurrentWinner(m)
               won == IsThereWinner(m) /\ WinnerIndices(m) # {}
               us == IF won
                     THEN [m.players EXCEPT
                             ![w] = AddCard(@, Head(m.cardsInAuction))]
                     ELSE m.players
               table == IF won THEN Tail(m.cardsInAuction)
                               ELSE m.cardsInAuction
               r == OnAttackPhase(m)
           IN  /\ won => w \in 1..Len(m.players) /\ m.players[w] \in PlayerType
               /\ r.deck = m.deck /\ r.discarded = m.discarded
               /\ r.currentAuctioneer = m.currentAuctioneer
               /\ r.updateEvent = IF won
                    THEN Append(m.updateEvent, Event("GetCard", NameAt(m, w), 0))
                    ELSE m.updateEvent
               /\ r.cardsInAuction = table /\ r.players = ResetAll(us)
               /\ r.currentPhase = IF ~won THEN "Auction"
                                   ELSE IF table = <<>> THEN "TurnEnd"
                                   ELSE "Attack"
<1>. DEFINE w == GetCurrentWinner(m)
            won == IsThereWinner(m) /\ WinnerIndices(m) # {}
            us == IF won
                  THEN [m.players EXCEPT
                          ![w] = AddCard(@, Head(m.cardsInAuction))]
                  ELSE m.players
            table == IF won THEN Tail(m.cardsInAuction) ELSE m.cardsInAuction
            r == OnAttackPhase(m)
            qs == ApplyToPlayers(us, ResetAuctionState)
            events == IF won
                  THEN Append(m.updateEvent, Event("GetCard", NameAt(m, w), 0))
                  ELSE m.updateEvent
            phase == IF ~won THEN "Auction"
                     ELSE IF table = <<>> THEN "TurnEnd" ELSE "Attack"
<1>1. MatchType(m) /\ m.cardsInAuction # <<>>
  BY DEF Playing, Sound
<1>5. won => w \in 1..Len(m.players) /\ m.players[w] \in PlayerType
  <2>1. m.players \in Seq(PlayerType)
    BY <1>1 DEF MatchType
  <2>. QED
    BY <1>1, <2>1, WinnerIndex, ElementOfSeq
<1>2. r = IF won /\ m.cardsInAuction = <<>> THEN Undefined(m)
          ELSE [m EXCEPT !.players = qs, !.cardsInAuction = table,
                  !.updateEvent = events, !.currentPhase = phase,
                  !.currentAttack = 0]
  BY Zenon DEF OnAttackPhase
<1>3. qs = ResetAll(us)
  BY DEF ResetAll
<1>. HIDE DEF us, qs, table, events, phase, r
<1>4. r.deck = m.deck /\ r.discarded = m.discarded
      /\ r.currentAuctioneer = m.currentAuctioneer
      /\ r.updateEvent = events
      /\ r.cardsInAuction = table /\ r.players = qs
      /\ r.currentPhase = phase
  BY <1>1, <1>2 DEF MatchType
<1>. QED
  BY <1>3, <1>4, <1>5, Zenon DEF us, table, events, phase, r

LEMMA AuctionResult ==
    ASSUME NEW m, Playing(m), m.currentPhase = "Auction"
    PROVE  LET w == GetCurrentWinner(m)
               card == Head(m.cardsInAuction)
               sold == IsThereWinner(m) /\ WinnerIndices(m) # {}
               us == IF sold THEN [m.players EXCEPT ![w] =
                                     Pay(AddCard(@, card), m.currentOffer)]
                     ELSE m.players
               discarded == IF sold THEN m.discarded
                            ELSE Append(m.discarded, card)
               r == OnAuctionPhase(m)
           IN  /\ sold => /\ w \in 1..Len(m.players)
                          /\ m.players[w] \in PlayerType
                          /\ m.currentOffer <= m.players[w].gold
               /\ r.currentAuctioneer = m.currentAuctioneer
               /\ r.updateEvent = IF sold
                    THEN m.updateEvent \o
                            << Event("Pay", NameAt(m, w), m.currentOffer),
                               Event("GetCard", NameAt(m, w), 0) >>
                    ELSE m.updateEvent
               /\ r.deck = m.deck /\ r.cardsInAuction = Tail(m.cardsInAuction)
               /\ r.discarded = discarded /\ r.players = ResetAll(us)
               /\ r.currentPhase = IF Tail(m.cardsInAuction) = <<>>
                                   THEN "TurnEnd" ELSE "Attack"
<1>. DEFINE w == GetCurrentWinner(m)
            card == Head(m.cardsInAuction)
            sold == IsThereWinner(m) /\ WinnerIndices(m) # {}
            r == OnAuctionPhase(m)
<1>1. MatchType(m) /\ m.cardsInAuction # <<>> /\ Covered(m)
  BY DEF Playing, Sound
<1>2. m.players \in Seq(PlayerType) /\ m.currentOffer \in Nat
  BY <1>1 DEF MatchType
<1>4. ASSUME sold
      PROVE  /\ w \in 1..Len(m.players) /\ m.players[w] \in PlayerType
             /\ m.currentOffer <= m.players[w].gold
  <2>1. w \in 1..Len(m.players) /\ m.players[w].isWinningAuction
    BY <1>1, <1>4, WinnerIndex
  <2>2. m.players[w] \in PlayerType
    BY <1>2, <2>1, ElementOfSeq
  <2>. QED
    BY <1>1, <2>1, <2>2 DEF Covered
<1>. DEFINE us == IF sold THEN [m.players EXCEPT ![w] =
                                  Pay(AddCard(@, card), m.currentOffer)]
                  ELSE m.players
            discarded == IF sold THEN m.discarded
                         ELSE Append(m.discarded, card)
            events == IF sold
                      THEN m.updateEvent \o
                              << Event("Pay", NameAt(m, w), m.currentOffer),
                                 Event("GetCard", NameAt(m, w), 0) >>
                      ELSE m.updateEvent
<1>5. r.deck = m.deck /\ r.cardsInAuction = Tail(m.cardsInAuction)
      /\ r.currentAuctioneer = m.currentAuctioneer
      /\ r.updateEvent = events
      /\ r.discarded = discarded /\ r.players = ResetAll(us)
      /\ r.currentPhase = IF Tail(m.cardsInAuction) = <<>>
                          THEN "TurnEnd" ELSE "Attack"
  <2>. DEFINE qs == ApplyToPlayers(us, ResetAuctionState)
              table == Tail(m.cardsInAuction)
              phase == IF table = <<>> THEN "TurnEnd" ELSE "Attack"
  <2>1. r = IF m.cardsInAuction = <<>> THEN Undefined(m)
            ELSE IF sold /\ m.currentOffer > m.players[w].gold THEN Panic(m)
            ELSE [m EXCEPT !.players = qs, !.cardsInAuction = table,
                    !.discarded = discarded, !.updateEvent = events,
                    !.currentPhase = phase, !.currentOffer = 0]
    BY Zenon DEF OnAuctionPhase
  <2>2. qs = ResetAll(us)
    BY DEF ResetAll
  <2>3. ~(sold /\ m.currentOffer > m.players[w].gold)
    <3>1. ASSUME sold PROVE m.players[w].gold \in Nat
      BY <1>4, <3>1 DEF PlayerType
    <3>. QED
      BY <1>2, <1>4, <3>1
  <2>. HIDE DEF us, qs, table, discarded, events, phase, r
  <2>4. r = [m EXCEPT !.players = qs, !.cardsInAuction = table,
                      !.discarded = discarded, !.updateEvent = events,
                      !.currentPhase = phase, !.currentOffer = 0]
    BY <1>1, <2>1, <2>3
  <2>5. r.deck = m.deck /\ r.discarded = discarded
        /\ r.currentAuctioneer = m.currentAuctioneer
        /\ r.updateEvent = events
        /\ r.cardsInAuction = table /\ r.players = qs
        /\ r.currentPhase = phase
    BY <1>1, <2>4 DEF MatchType
  <2>. QED
    BY <2>2, <2>5 DEF table, phase
<1>. QED
  BY <1>4, <1>5, Zenon

LEMMA AttackKeeps ==
    ASSUME NEW m, Playing(m), m.currentPhase = "Attack"
    PROVE  Keeps(m, OnAttackPhase(m))
<1>. DEFINE w == GetCurrentWinner(m)
            card == Head(m.cardsInAuction)
            p == AddCard(m.players[w], card)
            won == IsThereWinner(m) /\ WinnerIndices(m) # {}
            r == OnAttackPhase(m)
<1>1. MatchType(m) /\ m.cardsInAuction # <<>>
  BY DEF Playing, Sound
<1>2. m.cardsInAuction \in Seq(Card) /\ m.players \in Seq(PlayerType)
  BY <1>1 DEF MatchType
<1>3. card \in Card
  BY <1>1, <1>2, HeadTailProperties
<1>. DEFINE us == IF won THEN [m.players EXCEPT ![w] = AddCard(@, card)]
                  ELSE m.players
            table == IF won THEN Tail(m.cardsInAuction) ELSE m.cardsInAuction
<1>4. r.deck = m.deck /\ r.discarded = m.discarded
      /\ r.cardsInAuction = table /\ r.players = ResetAll(us)
  BY AttackResult, Zenon
<1>. HIDE DEF card, r
<1>5. CASE won
  <2>1. w \in 1..Len(m.players)
    BY <1>1, <1>5, WinnerIndex
  <2>2. m.players[w] \in PlayerType
    BY <1>2, <2>1, ElementOfSeq
  <2>3. /\ p \in PlayerType /\ p.name = m.players[w].name
        /\ p.activeCards = m.players[w].activeCards
        /\ p.purchasedThisTurnCards
                = m.players[w].purchasedThisTurnCards \cup {card}
    BY <1>3, <2>2 DEF AddCard, PlayerType
  <2>4. us = [m.players EXCEPT ![w] = p] /\ table = Tail(m.cardsInAuction)
    BY <1>5, Zenon
  <2>. HIDE DEF w, p, won, us, table
  <2>5. Gets(m.players, r.players, w, card)
    BY <1>2, <1>3, <1>4, <2>1, <2>3, <2>4, WinnerGets
  <2>6. r.cardsInAuction = Tail(m.cardsInAuction)
    BY <1>4, <2>4
  <2>7. Keeps(m, r)
    BY <1>1, <1>4, <2>1, <2>5, <2>6, CardIsWon DEF card
  <2>. QED
    BY <2>7 DEF r
<1>6. CASE ~won
  <2>1. us = m.players /\ table = m.cardsInAuction
    BY <1>6, Zenon
  <2>. HIDE DEF won, us, table
  <2>2. SameHands(m.players, r.players)
    BY <1>2, <1>4, <2>1, ResetHands
  <2>3. r.cardsInAuction = m.cardsInAuction
    BY <1>4, <2>1
  <2>4. Keeps(m, r)
    BY <1>4, <2>2, <2>3, NothingMoves
  <2>. QED
    BY <2>4 DEF r
<1>. QED
  BY <1>5, <1>6

LEMMA AuctionKeeps ==
    ASSUME NEW m, Playing(m), m.currentPhase = "Auction"
    PROVE  Keeps(m, OnAuctionPhase(m))
<1>. DEFINE w == GetCurrentWinner(m)
            card == Head(m.cardsInAuction)
            p == Pay(AddCard(m.players[w], card), m.currentOffer)
            sold == IsThereWinner(m) /\ WinnerIndices(m) # {}
            r == OnAuctionPhase(m)
<1>1. MatchType(m) /\ m.cardsInAuction # <<>> /\ Covered(m)
  BY DEF Playing, Sound
<1>2. m.cardsInAuction \in Seq(Card) /\ m.players \in Seq(PlayerType)
      /\ m.currentOffer \in Nat
  BY <1>1 DEF MatchType
<1>3. card \in Card
  BY <1>1, <1>2, HeadTailProperties
<1>. DEFINE us == IF sold THEN [m.players EXCEPT ![w] =
                                  Pay(AddCard(@, card), m.currentOffer)]
                  ELSE m.players
            discarded == IF sold THEN m.discarded
                         ELSE Append(m.discarded, card)
<1>4. sold => /\ w \in 1..Len(m.players) /\ m.players[w] \in PlayerType
              /\ m.currentOffer <= m.players[w].gold
  BY AuctionResult, Zenon
<1>5. r.deck = m.deck /\ r.cardsInAuction = Tail(m.cardsInAuction)
      /\ r.discarded = discarded /\ r.players = ResetAll(us)
  BY AuctionResult, Zenon
<1>. HIDE DEF card, r
<1>6. CASE sold
  <2>1. /\ p \in PlayerType /\ p.name = m.players[w].name
        /\ p.activeCards = m.players[w].activeCards
        /\ p.purchasedThisTurnCards
                = m.players[w].purchasedThisTurnCards \cup {card}
    <3>1. /\ AddCard(m.players[w], card) \in PlayerType
          /\ AddCard(m.players[w], card).gold = m.players[w].gold
      BY <1>3, <1>4, <1>6, AddCardType
    <3>2. p \in PlayerType
      BY <1>2, <1>4, <1>6, <3>1, PayType
    <3>. QED
      BY <1>3, <1>4, <1>6, <3>2 DEF AddCard, Pay, PlayerType
  <2>2. us = [m.players EXCEPT ![w] = p] /\ discarded = m.discarded
    BY <1>6, Zenon
  <2>3. w \in 1..Len(m.players)
    BY <1>4, <1>6
  <2>. HIDE DEF w, p, sold, us, discarded
  <2>4. Gets(m.players, r.players, w, card)
    BY <1>2, <1>3, <1>5, <2>1, <2>2, <2>3, WinnerGets
  <2>5. r.discarded = m.discarded
    BY <1>5, <2>2
  <2>6. Keeps(m, r)
    BY <1>1, <1>5, <2>4, <2>5, <2>3, CardIsWon DEF card
  <2>. QED
    BY <2>6 DEF r
<1>7. CASE ~sold
  <2>1. us = m.players /\ discarded = Append(m.discarded, card)
    BY <1>7, Zenon
  <2>. HIDE DEF sold, us, discarded
  <2>2. SameHands(m.players, r.players)
    BY <1>2, <1>5, <2>1, ResetHands
  <2>3. r.discarded = Append(m.discarded, card)
    BY <1>5, <2>1
  <2>4. Keeps(m, r)
    BY <1>1, <1>5, <2>2, <2>3, CardIsDiscarded DEF card
  <2>. QED
    BY <2>4 DEF r
<1>. QED
  BY <1>6, <1>7

(* The next auctioneer, from 0, and what all players earn.                 *)
After(m) == IF m.currentAuctioneer + 1 >= Len(m.players) THEN 0
            ELSE m.currentAuctioneer + 1

Produced(ps) ==
    [i \in 1..Len(ps) |->
        Event("Earn", ps[i].name, TotalProduction(Hand(ps, i)))]

(* At the end of a turn all cards become active and all cards produce.     *)
LEMMA TurnEndResult ==
    ASSUME NEW m, Playing(m), m.currentPhase = "TurnEnd"
    PROVE  LET ps == m.players
               r == OnTurnEndPhase(m)
               qs == r.players
           IN  /\ r.currentAuctioneer = After(m)
               /\ r.updateEvent = (m.updateEvent \o Produced(ps))
                    \o << Event("IsAuctioneer", NameAt(m, After(m) + 1), 0) >>
               /\ After(m) + 1 \in 1..Len(ps)
               /\ r.deck = m.deck /\ r.discarded = m.discarded
               /\ r.cardsInAuction = m.cardsInAuction
               /\ Len(qs) = Len(ps)
               /\ \A i \in 1..Len(ps) :
                    /\ qs[i].name = ps[i].name
                    /\ qs[i].activeCards = Hand(ps, i)
                    /\ qs[i].purchasedThisTurnCards = {}
                    /\ Hand(qs, i) = Hand(ps, i)
                    /\ qs[i].gold = ps[i].gold + TotalProduction(Hand(ps, i))
<1>. DEFINE Produce(p) == Earn(OnTurnEnd(p), GetTotalProduction(OnTurnEnd(p)))
            qs == ApplyToPlayers(m.players, Produce)
            earn == [i \in DOMAIN qs |->
                       Event("Earn", qs[i].name, GetTotalProduction(qs[i]))]
            paid == [AddEvents(m, earn) EXCEPT !.players = qs]
            r == OnTurnEndPhase(m)
            ps == m.players
<1>1. MatchType(m) /\ m.players # <<>>
  BY DEF Playing, Sound
<1>2. ps \in Seq(PlayerType) /\ DOMAIN ps = 1..Len(ps) /\ Len(ps) \in Nat
  BY <1>1 DEF MatchType
<1>3. r = [NextAuctioneer(paid) EXCEPT !.currentPhase = "TurnStart"]
  <2>1. r = IF m.players = <<>> THEN Undefined(m)
            ELSE [NextAuctioneer(paid) EXCEPT !.currentPhase = "TurnStart"]
    BY Zenon DEF OnTurnEndPhase
  <2>. QED
    BY <1>1, <2>1
<1>4. qs = [i \in 1..Len(ps) |-> Produce(ps[i])]
  BY <1>2 DEF ApplyToPlayers
<1>. HIDE DEF qs, earn
<1>. DEFINE next == IF paid.currentAuctioneer + 1 >= Len(paid.players) THEN 0
                    ELSE paid.currentAuctioneer + 1
<1>9. NextAuctioneer(paid) =
        [AddEvents(paid, << Event("IsAuctioneer", NameAt(paid, next + 1), 0) >>)
            EXCEPT !.currentAuctioneer = next]
  BY Zenon DEF NextAuctioneer
<1>10. /\ paid.players = qs /\ paid.currentAuctioneer = m.currentAuctioneer
       /\ paid.updateEvent = m.updateEvent \o earn
  BY <1>1 DEF MatchType, AddEvents
<1>14. /\ paid.deck = m.deck /\ paid.discarded = m.discarded
       /\ paid.cardsInAuction = m.cardsInAuction
       /\ DOMAIN paid = DOMAIN m
  BY <1>1 DEF MatchType, AddEvents
<1>15. {"players", "deck", "discarded", "cardsInAuction", "currentAuctioneer",
         "updateEvent", "currentPhase"} \subseteq DOMAIN m
  BY <1>1 DEF MatchType
<1>. HIDE DEF paid
<1>5. r.players = qs /\ r.deck = m.deck /\ r.discarded = m.discarded
      /\ r.cardsInAuction = m.cardsInAuction /\ r.currentAuctioneer = next
      /\ r.updateEvent = paid.updateEvent
            \o << Event("IsAuctioneer", NameAt(paid, next + 1), 0) >>
  <2>. DEFINE told == << Event("IsAuctioneer", NameAt(paid, next + 1), 0) >>
             more == paid.updateEvent \o told
  <2>1. r = [[[paid EXCEPT !.updateEvent = more]
                EXCEPT !.currentAuctioneer = next]
                EXCEPT !.currentPhase = "TurnStart"]
    BY <1>3, <1>9, Zenon DEF AddEvents
  <2>. HIDE DEF next, more, r
  <2>2. r.players = qs /\ r.deck = m.deck /\ r.discarded = m.discarded
        /\ r.cardsInAuction = m.cardsInAuction /\ r.currentAuctioneer = next
        /\ r.updateEvent = more
    BY <1>10, <1>14, <1>15, <2>1
  <2>. QED
    BY <2>2 DEF more
<1>. HIDE DEF r
<1>6. ASSUME NEW p \in PlayerType
      PROVE  /\ Produce(p).name = p.name /\ Produce(p).activeCards = Owned(p)
             /\ Produce(p).purchasedThisTurnCards = {}
             /\ Produce(p).gold = p.gold + TotalProduction(Owned(p))
             /\ Owned(Produce(p)) = Owned(p)
  <2>1. /\ OnTurnEnd(p).name = p.name /\ OnTurnEnd(p).activeCards = Owned(p)
        /\ OnTurnEnd(p).purchasedThisTurnCards = {}
        /\ OnTurnEnd(p) \in PlayerType /\ OnTurnEnd(p).gold = p.gold
        /\ Owned(OnTurnEnd(p)) = Owned(p)
    BY DEF OnTurnEnd, Owned, PlayerType
  <2>2. /\ Produce(p).name = p.name /\ Produce(p).activeCards = Owned(p)
        /\ Produce(p).purchasedThisTurnCards = {}
        /\ Produce(p).gold = p.gold + TotalProduction(Owned(p))
    BY <2>1 DEF Earn, PlayerType, GetTotalProduction
  <2>. QED
    BY <2>2 DEF Owned
<1>. HIDE DEF Produce
<1>7. Len(qs) = Len(ps)
  BY <1>2, <1>4
<1>8. \A i \in 1..Len(ps) :
        /\ qs[i].name = ps[i].name /\ qs[i].activeCards = Hand(ps, i)
        /\ qs[i].purchasedThisTurnCards = {} /\ Hand(qs, i) = Hand(ps, i)
        /\ qs[i].gold = ps[i].gold + TotalProduction(Hand(ps, i))
  <2>1. \A i \in 1..Len(ps) : qs[i] = Produce(ps[i]) /\ ps[i] \in PlayerType
    BY <1>2, <1>4, ElementOfSeq
  <2>. QED
    BY <1>6, <2>1 DEF Hand
<1>11. next = After(m) /\ next + 1 \in 1..Len(ps)
  <2>1. m.currentAuctioneer \in Nat \cup {-1} /\ Len(ps) # 0
    BY <1>1, <1>2 DEF MatchType
  <2>. QED
    BY <1>2, <1>7, <1>10, <2>1 DEF After
<1>12. NameAt(paid, next + 1) = NameAt(m, After(m) + 1)
  BY <1>8, <1>10, <1>11 DEF NameAt
<1>13. earn = Produced(ps)
  <2>1. \A i \in 1..Len(ps) :
           Event("Earn", qs[i].name, GetTotalProduction(qs[i]))
              = Event("Earn", ps[i].name, TotalProduction(Hand(ps, i)))
    BY <1>8 DEF GetTotalProduction, Hand
  <2>2. DOMAIN qs = 1..Len(ps)
    BY <1>4
  <2>. HIDE DEF ps
  <2>. QED
    BY <2>1, <2>2, Zenon DEF earn, Produced
<1>. HIDE DEF ps, next
<1>. QED
  BY <1>5, <1>7, <1>8, <1>10, <1>11, <1>12, <1>13 DEF r, ps

LEMMA TurnEndKeeps ==
    ASSUME NEW m, Playing(m), m.currentPhase = "TurnEnd"
    PROVE  Keeps(m, OnTurnEndPhase(m))
<1>. DEFINE ps == m.players
            r == OnTurnEndPhase(m)
            qs == r.players
<1>1. /\ r.deck = m.deck /\ r.discarded = m.discarded
      /\ r.cardsInAuction = m.cardsInAuction
      /\ Len(qs) = Len(ps)
      /\ \A i \in 1..Len(ps) :
           /\ qs[i].name = ps[i].name /\ qs[i].activeCards = Hand(ps, i)
           /\ qs[i].purchasedThisTurnCards = {} /\ Hand(qs, i) = Hand(ps, i)
  BY TurnEndResult
<1>. HIDE DEF ps, r
<1>2. Nicknames(qs) = Nicknames(ps)
  BY <1>1 DEF Nicknames
<1>3. Hands(qs) = Hands(ps)
  BY <1>1 DEF Hands
<1>4. HandsApart(ps) => HandsApart(qs)
  BY <1>1 DEF HandsApart
<1>5. Piles(r) = Piles(m) /\ (PilesApart(m) => PilesApart(r))
  BY <1>1 DEF Piles, PilesApart
<1>6. Keeps(m, r)
  BY <1>1, <1>2, <1>3, <1>4, <1>5 DEF Keeps, Held, Apart, ps
<1>. QED
  BY <1>6 DEF r

LEMMA GameEndKeeps ==
    ASSUME NEW m, Playing(m), m.currentPhase = "GameEnd"
    PROVE  Keeps(m, OnGameEndPhase(m))
<1>. DEFINE winners == WinnersOf(m.players)
            events == [k \in DOMAIN winners |->
                          Event("Winner", NameAt(m, winners[k]), 0)]
            n == AddEvents(m, events)
            r == OnGameEndPhase(m)
<1>1. MatchType(m) /\ m.players # <<>>
  BY DEF Playing, Sound
<1>2. r = [n EXCEPT !.currentPhase = "Finished"]
  <2>1. r = IF m.players = <<>> THEN Undefined(m)
            ELSE [n EXCEPT !.currentPhase = "Finished"]
    BY Zenon DEF OnGameEndPhase
  <2>. QED
    BY <1>1, <2>1
<1>. HIDE DEF events, r
<1>3. r.players = m.players /\ r.deck = m.deck /\ r.discarded = m.discarded
      /\ r.cardsInAuction = m.cardsInAuction
  BY <1>1, <1>2 DEF MatchType, AddEvents
<1>4. SameHands(m.players, r.players)
  BY <1>3 DEF SameHands, SameCards
<1>5. Keeps(m, r)
  BY <1>3, <1>4, NothingMoves
<1>. QED
  BY <1>5 DEF r

(* What a turn draws is shown, with what is on the table already.          *)
Drawn(table) == [i \in DOMAIN table |-> Event("Draw", NoName, table[i])]

LEMMA TurnStartResult ==
    ASSUME NEW m, Playing(m), m.currentPhase = "TurnStart"
    PROVE  LET r == OnTurnStartPhase(m)
           IN  /\ r.players = m.players /\ r.discarded = m.discarded
               /\ r.currentAuctioneer = m.currentAuctioneer
               /\ \/ /\ r.currentPhase = "GameEnd" /\ ~CanDraw(m.deck)
                     /\ r.cardsInAuction = m.cardsInAuction
                     /\ r.deck = m.deck /\ r.updateEvent = m.updateEvent
                  \/ /\ r.currentPhase = "Attack" /\ CanDraw(m.deck)
                     /\ r.deck = SubSeq(m.deck, 1, Len(m.deck) - CardsPerTurn)
                     /\ r.updateEvent = m.updateEvent \o Drawn(r.cardsInAuction)
                     /\ r.cardsInAuction = m.cardsInAuction
                            \o Reverse(SubSeq(m.deck,
                                   Len(m.deck) - CardsPerTurn + 1, Len(m.deck)))
<1>. DEFINE left  == Len(m.deck) - CardsPerTurn
            drawn == Reverse(SubSeq(m.deck, left + 1, Len(m.deck)))
            table == m.cardsInAuction \o drawn
            n     == AddEvents(m, [i \in DOMAIN table |->
                                     Event("Draw", NoName, table[i])])
            r     == OnTurnStartPhase(m)
<1>1. MatchType(m)
  BY DEF Playing, Sound
<1>2. r = IF ~CanDraw(m.deck) THEN [m EXCEPT !.currentPhase = "GameEnd"]
          ELSE IF left < 0 THEN Panic(m)
          ELSE [n EXCEPT !.deck = SubSeq(n.deck, 1, left),
                         !.cardsInAuction = table, !.currentPhase = "Attack"]
  BY Zenon DEF OnTurnStartPhase
<1>3. /\ n.players = m.players /\ n.deck = m.deck
      /\ n.updateEvent = m.updateEvent \o Drawn(table)
      /\ n = [m EXCEPT !.updateEvent = n.updateEvent]
  <2>. HIDE DEF table
  <2>. QED
    BY <1>1 DEF MatchType, AddEvents, Drawn
<1>4. CanDraw(m.deck) => ~(left < 0)
  <2>1. Len(m.deck) \in Nat
    BY <1>1 DEF MatchType
  <2>. QED
    BY <2>1, ConfigAssumption DEF CanDraw
<1>. HIDE DEF left, table, n, r
<1>5. CASE ~CanDraw(m.deck)
  <2>1. r = [m EXCEPT !.currentPhase = "GameEnd"]
    BY <1>2, <1>5
  <2>2. r.players = m.players /\ r.discarded = m.discarded
        /\ r.currentAuctioneer = m.currentAuctioneer
        /\ r.currentPhase = "GameEnd" /\ r.cardsInAuction = m.cardsInAuction
        /\ r.deck = m.deck /\ r.updateEvent = m.updateEvent
    BY <1>1, <2>1 DEF MatchType
  <2>. QED
    BY <1>5, <2>2, Zenon DEF r
<1>6. CASE CanDraw(m.deck)
  <2>1. r = [n EXCEPT !.deck = SubSeq(n.deck, 1, left),
                      !.cardsInAuction = table, !.currentPhase = "Attack"]
    BY <1>2, <1>4, <1>6
  <2>2. r.players = m.players /\ r.discarded = m.discarded
        /\ r.currentAuctioneer = m.currentAuctioneer
        /\ r.currentPhase = "Attack" /\ r.cardsInAuction = table
        /\ r.deck = SubSeq(m.deck, 1, left)
        /\ r.updateEvent = m.updateEvent \o Drawn(table)
    BY <1>1, <1>3, <2>1 DEF MatchType
  <2>. QED
    BY <1>6, <2>2, Zenon DEF r, table, left
<1>. QED
  BY <1>5, <1>6

(* The winners are told.                                                   *)
Won(m) == [k \in DOMAIN WinnersOf(m.players) |->
              Event("Winner", NameAt(m, WinnersOf(m.players)[k]), 0)]

LEMMA GameEndResult ==
    ASSUME NEW m, Playing(m), m.currentPhase = "GameEnd"
    PROVE  LET r == OnGameEndPhase(m)
           IN  /\ r.players = m.players /\ r.cardsInAuction = m.cardsInAuction
               /\ r.deck = m.deck /\ r.discarded = m.discarded
               /\ r.currentAuctioneer = m.currentAuctioneer
               /\ r.currentPhase = "Finished"
               /\ r.updateEvent = m.updateEvent \o Won(m)
<1>. DEFINE winners == WinnersOf(m.players)
            n == AddEvents(m, [k \in DOMAIN winners |->
                                 Event("Winner", NameAt(m, winners[k]), 0)])
            r == OnGameEndPhase(m)
<1>1. MatchType(m) /\ m.players # <<>>
  BY DEF Playing, Sound
<1>2. r = IF m.players = <<>> THEN Undefined(m)
          ELSE [n EXCEPT !.currentPhase = "Finished"]
  BY Zenon DEF OnGameEndPhase
<1>3. n = [m EXCEPT !.updateEvent = m.updateEvent \o Won(m)]
  BY Zenon DEF AddEvents, Won
<1>. HIDE DEF winners, n, r
<1>4. r.players = m.players /\ r.cardsInAuction = m.cardsInAuction
      /\ r.deck = m.deck /\ r.discarded = m.discarded
      /\ r.currentAuctioneer = m.currentAuctioneer
      /\ r.currentPhase = "Finished"
      /\ r.updateEvent = m.updateEvent \o Won(m)
  BY <1>1, <1>2, <1>3 DEF MatchType
<1>. QED
  BY <1>4 DEF r

LEMMA OnPhaseKeeps ==
    ASSUME NEW m, Playing(m)
    PROVE  Keeps(m, OnPhase(m))
<1>1. CASE Resting(m)
  BY <1>1, RestingStays, KeepsItself
<1>2. CASE ~Resting(m)
  <2>1. m.currentPhase \in {"TurnStart", "Attack", "Auction", "TurnEnd", "GameEnd"}
    BY <1>2 DEF Playing, Sound, MatchType, Phase, Resting
  <2>. QED
    BY <1>2, <2>1, PhaseMethod, TurnStartKeeps, AttackKeeps, AuctionKeeps,
       TurnEndKeeps, GameEndKeeps
<1>. QED
  BY <1>1, <1>2

LEMMA ProcessPhaseKeeps ==
    ASSUME NEW m, Playing(m)
    PROVE  Keeps(m, ProcessPhase(m))
<1>. DEFINE m1 == OnPhase(m)
            m2 == OnPhase(m1)
            m3 == OnPhase(m2)
            m4 == OnPhase(m3)
<1>1. Playing(m1) /\ Keeps(m, m1)
  BY OnPhaseSound, OnPhaseKeeps
<1>. HIDE DEF m1
<1>2. Playing(m2) /\ Keeps(m, m2)
  BY <1>1, OnPhaseSound, OnPhaseKeeps, KeepsMore
<1>. HIDE DEF m2
<1>3. Playing(m3) /\ Keeps(m, m3)
  BY <1>2, OnPhaseSound, OnPhaseKeeps, KeepsMore
<1>. HIDE DEF m3
<1>4. Playing(m4) /\ Keeps(m, m4)
  BY <1>3, OnPhaseSound, OnPhaseKeeps, KeepsMore
<1>. HIDE DEF m4
<1>5. Keeps(m, OnPhase(m4))
  BY <1>4, OnPhaseKeeps, KeepsMore
<1>. QED
  BY <1>5 DEF ProcessPhase, m1, m2, m3, m4

-----------------------------------------------------------------------------
(* What the handlers do with the cards.                                    *)

LEMMA HandledKeeps ==
    ASSUME NEW m, Sound(m), NEW h, Handled(m, h)
    PROVE  Keeps(m, h)
<1>1. CASE h = SetError(m)
  <2>1. MatchType(m)
    BY DEF Sound
  <2>2. h.players = m.players /\ h.deck = m.deck /\ h.discarded = m.discarded
        /\ h.cardsInAuction = m.cardsInAuction
    BY <1>1, <2>1 DEF SetError, MatchType
  <2>3. SameHands(m.players, h.players)
    BY <2>2 DEF SameHands, SameCards
  <2>. QED
    BY <2>2, <2>3, NothingMoves
<1>2. CASE h # SetError(m)
  <2>1. PICK r : Bids(m, r) /\ h = ProcessPhase(r)
    BY <1>2 DEF Handled
  <2>2. Keeps(m, r) /\ Keeps(r, h)
    BY <2>1, NothingMoves, ProcessPhaseKeeps DEF Bids
  <2>. QED
    BY <2>2, KeepsMore
<1>. QED
  BY <1>1, <1>2

(* The gold that all players are given.                                    *)
Granted(ps, a) ==
    [i \in 1..Len(ps) |-> Event("SetGold", ps[i].name, StartingGold(i, a))]

Opening(m, a) ==
    << Event("IsAuctioneer", NameAt(m, a), 0) >> \o Granted(m.players, a)

LEMMA GameStartResult ==
    ASSUME NEW m, MatchType(m), NEW a, NEW d
    PROVE  LET r == OnGameStartPhase(m, a, d)
           IN  /\ SameHands(m.players, r.players)
               /\ r.deck = d /\ r.discarded = m.discarded
               /\ r.cardsInAuction = m.cardsInAuction
               /\ r.currentAuctioneer = a - 1
               /\ r.currentPhase = "TurnStart"
               /\ \A i \in 1..Len(m.players) :
                    r.players[i].gold = StartingGold(i, a)
               /\ r.updateEvent = m.updateEvent \o Opening(m, a)
<1>. DEFINE ps == m.players
            qs == [i \in DOMAIN ps |-> [ps[i] EXCEPT !.gold = StartingGold(i, a)]]
            events == << Event("IsAuctioneer", NameAt(m, a), 0) >>
                        \o [i \in DOMAIN qs |->
                               Event("SetGold", qs[i].name, qs[i].gold)]
            n == AddEvents(m, events)
            r == OnGameStartPhase(m, a, d)
<1>1. r = [n EXCEPT !.currentAuctioneer = a - 1, !.players = qs, !.deck = d,
                    !.currentPhase = "TurnStart"]
  BY Zenon DEF OnGameStartPhase
<1>2. ps \in Seq(PlayerType) /\ m.deck \in Seq(Card)
  BY DEF MatchType
<1>. HIDE DEF ps
<1>3. SameHands(ps, qs)
  <2>1. DOMAIN ps = 1..Len(ps) /\ Len(ps) \in Nat
    BY <1>2
  <2>2. Len(qs) = Len(ps)
    BY <2>1
  <2>3. ASSUME NEW i \in 1..Len(ps) PROVE SameCards(ps[i], qs[i])
    <3>1. ps[i] \in PlayerType
      BY <1>2, ElementOfSeq
    <3>. QED
      BY <2>1, <3>1 DEF SameCards, PlayerType
  <2>. QED
    BY <2>2, <2>3 DEF SameHands
<1>4. \A i \in 1..Len(ps) : /\ qs[i].gold = StartingGold(i, a)
                            /\ qs[i].name = ps[i].name
  <2>1. \A i \in 1..Len(ps) : ps[i] \in PlayerType /\ i \in DOMAIN ps
    BY <1>2, ElementOfSeq
  <2>. QED
    BY <2>1 DEF PlayerType
<1>5. events = Opening(m, a)
  <2>1. DOMAIN qs = 1..Len(ps)
    BY <1>2
  <2>. HIDE DEF qs
  <2>2. [i \in DOMAIN qs |-> Event("SetGold", qs[i].name, qs[i].gold)]
            = Granted(ps, a)
    BY <1>4, <2>1, Zenon DEF Granted
  <2>. QED
    BY <2>2 DEF Opening, ps
<1>. HIDE DEF qs, events, r
<1>6. r.players = qs /\ r.deck = d /\ r.discarded = m.discarded
      /\ r.cardsInAuction = m.cardsInAuction
      /\ r.currentAuctioneer = a - 1 /\ r.currentPhase = "TurnStart"
      /\ r.updateEvent = m.updateEvent \o events
  BY <1>1 DEF MatchType, AddEvents
<1>. QED
  BY <1>3, <1>4, <1>5, <1>6 DEF r, ps

LEMMA GameStartSays ==
    ASSUME NEW m, MatchType(m), NEW a, NEW d
    PROVE  OnGameStartPhase(m, a, d).updateEvent = m.updateEvent \o Opening(m, a)
BY GameStartResult

LEMMA GameStartKeeps ==
    ASSUME NEW m, MatchType(m), NEW a, NEW d \in Shuffles(m.deck)
    PROVE  Keeps(m, OnGameStartPhase(m, a, d))
<1>. DEFINE r == OnGameStartPhase(m, a, d)
<1>1. /\ SameHands(m.players, r.players)
      /\ r.deck = d /\ r.discarded = m.discarded
      /\ r.cardsInAuction = m.cardsInAuction
  BY GameStartResult
<1>2. m.deck \in Seq(Card)
  BY DEF MatchType
<1>. HIDE DEF r
<1>3. /\ ToSet(d) = ToSet(m.deck)
      /\ IsInjective(m.deck) => IsInjective(d)
  <2>1. CASE d = m.deck
    BY <2>1
  <2>2. CASE d \in Deals /\ Len(d) = Len(m.deck) /\ ToSet(d) = ToSet(m.deck)
    <3>1. d \in Seq(Card)
      BY <2>2, DeckAssumption
    <3>. QED
      BY <1>2, <2>2, <3>1, ShuffledPile
  <2>. QED
    BY <2>1, <2>2 DEF Shuffles
<1>4. Piles(r) = Piles(m) /\ (PilesApart(m) => PilesApart(r))
  BY <1>1, <1>3 DEF Piles, PilesApart
<1>5. Keeps(m, r)
  BY <1>1, <1>4, SameHandsKeep DEF Keeps, Held, Apart
<1>. QED
  BY <1>5 DEF r

LEMMA StartKeeps ==
    ASSUME NEW m, Sound(m), m.players # <<>>, Undisputed(m), NEW r \in Starts(m)
    PROVE  Keeps(m, r)
<1>. DEFINE n == [m EXCEPT !.updateEvent = MovedFrom(m.updateEvent)]
<1>1. MatchType(m)
  BY DEF Sound
<1>2. MatchType(n) /\ n.fault = m.fault /\ n.players = m.players
      /\ n.currentPhase = m.currentPhase /\ n.currentOffer = m.currentOffer
      /\ n.cardsInAuction = m.cardsInAuction
      /\ n.currentAttack = m.currentAttack
      /\ n.deck = m.deck /\ n.discarded = m.discarded
  <2>1. MovedFrom(m.updateEvent) \in Seq(Update)
    BY <1>1 DEF MatchType, MovedFrom
  <2>. QED
    BY <1>1, <2>1 DEF MatchType
<1>3. PICK a \in DOMAIN m.players, d \in Shuffles(m.deck) :
        r = ProcessPhase(OnGameStartPhase(n, a, d))
  BY DEF Starts
<1>4. d \in Seq(Card)
  BY <1>1, DeckAssumption DEF Shuffles, MatchType
<1>. HIDE DEF n
<1>5. Sound(n) /\ Undisputed(n)
  BY <1>2 DEF Sound, Covered, Undisputed
<1>6. Keeps(m, n)
  BY <1>2, NothingMoves DEF SameHands, SameCards
<1>7. Keeps(n, OnGameStartPhase(n, a, d))
  BY <1>2, GameStartKeeps
<1>8. Keeps(OnGameStartPhase(n, a, d), r)
  BY <1>2, <1>3, <1>4, <1>5, GameStartSound, ProcessPhaseKeeps
<1>. QED
  BY <1>6, <1>7, <1>8, KeepsMore

-----------------------------------------------------------------------------
(* Players who come and leave.                                             *)

Distinct(ps) ==
    \A i, j \in 1..Len(ps) : ps[i].name = ps[j].name => i = j

LEMMA SameNamesDistinct ==
    ASSUME NEW ps \in Seq(PlayerType), NEW qs \in Seq(PlayerType),
           Nicknames(qs) = Nicknames(ps)
    PROVE  /\ Distinct(ps) => Distinct(qs)
           /\ {ps[i].name : i \in 1..Len(ps)} = {qs[i].name : i \in 1..Len(qs)}
<1>1. DOMAIN Nicknames(ps) = 1..Len(ps) /\ DOMAIN Nicknames(qs) = 1..Len(qs)
  BY DEF Nicknames
<1>2. Len(ps) \in Nat /\ Len(qs) \in Nat
  OBVIOUS
<1>3. Len(ps) = Len(qs)
  <2>1. 1..Len(ps) = 1..Len(qs)
    BY <1>1
  <2>. QED
    BY <1>2, <2>1
<1>4. \A i \in 1..Len(ps) : ps[i].name = qs[i].name
  BY <1>3 DEF Nicknames
<1>. QED
  BY <1>3, <1>4 DEF Distinct

LEMMA AddPlayerKeeps ==
    ASSUME NEW m, MatchType(m), NEW n \in Name,
           \A i \in 1..Len(m.players) : m.players[i].name # n
    PROVE  LET r == AddPlayer(m, n)
           IN  /\ Held(r) = Held(m) /\ (Apart(m) => Apart(r))
               /\ Distinct(m.players) => Distinct(r.players)
<1>. DEFINE ps == m.players
            qs == Append(ps, NewPlayer(n))
            r == AddPlayer(m, n)
<1>1. ps \in Seq(PlayerType) /\ Len(ps) \in Nat
  BY DEF MatchType
<1>2. r.players = qs /\ r.deck = m.deck /\ r.discarded = m.discarded
      /\ r.cardsInAuction = m.cardsInAuction
  BY DEF MatchType, AddPlayer
<1>. HIDE DEF r, ps
<1>3. /\ Len(qs) = Len(ps) + 1
      /\ \A i \in 1..Len(ps) : qs[i] = ps[i]
      /\ qs[Len(ps) + 1] = NewPlayer(n)
  BY <1>1, NewPlayerType, AppendProperties
<1>. HIDE DEF qs
<1>4. \A i \in 1..Len(qs) : i \in 1..Len(ps) \/ i = Len(ps) + 1
  BY <1>1, <1>3
<1>5. \A i \in 1..Len(ps) : i \in 1..Len(qs) /\ i # Len(ps) + 1
  BY <1>1, <1>3
<1>6. /\ NewPlayer(n).activeCards = {} /\ NewPlayer(n).name = n
      /\ NewPlayer(n).purchasedThisTurnCards = {}
      /\ Hand(qs, Len(ps) + 1) = {}
  BY <1>3 DEF NewPlayer, Hand, Owned
<1>7. \A i \in 1..Len(ps) : Hand(qs, i) = Hand(ps, i)
  BY <1>3 DEF Hand
<1>8. Hands(qs) = Hands(ps)
  <2>1. Hands(qs) \subseteq Hands(ps)
    BY <1>4, <1>6, <1>7 DEF Hands
  <2>2. Hands(ps) \subseteq Hands(qs)
    BY <1>5, <1>7 DEF Hands
  <2>. QED
    BY <2>1, <2>2
<1>9. ASSUME HandsApart(ps) PROVE HandsApart(qs)
  BY <1>3, <1>4, <1>6, <1>7, <1>9 DEF HandsApart
<1>10. Piles(r) = Piles(m) /\ (PilesApart(m) => PilesApart(r))
  BY <1>2 DEF Piles, PilesApart
<1>11. Distinct(ps) => Distinct(qs)
  BY <1>3, <1>4, <1>6 DEF Distinct, ps
<1>. QED
  BY <1>2, <1>8, <1>9, <1>10, <1>11 DEF Held, Apart, r, ps

LEMMA RemovedAt ==
    ASSUME NEW ps \in Seq(PlayerType), NEW k \in 1..Len(ps)
    PROVE  LET qs == RemoveAt(ps, k)
               From(j) == IF j < k THEN j ELSE j + 1
           IN  /\ Len(qs) = Len(ps) - 1
               /\ \A j \in 1..Len(qs) : /\ From(j) \in 1..Len(ps)
                                        /\ From(j) # k
                                        /\ qs[j] = ps[From(j)]
<1>. DEFINE before == SubSeq(ps, 1, k - 1)
            after  == SubSeq(ps, k + 1, Len(ps))
            qs     == before \o after
            From(j) == IF j < k THEN j ELSE j + 1
<1>1. Len(ps) \in Nat /\ k \in Nat /\ 1 <= k /\ k <= Len(ps)
  OBVIOUS
<1>2. before \in Seq(PlayerType) /\ Len(before) = k - 1
      /\ \A j \in 1..(k - 1) : before[j] = ps[j]
  BY <1>1
<1>3. after \in Seq(PlayerType) /\ Len(after) = Len(ps) - k
      /\ \A j \in 1..(Len(ps) - k) : after[j] = ps[k + j]
  BY <1>1
<1>. HIDE DEF before, after
<1>4. /\ Len(qs) = Len(ps) - 1
      /\ \A j \in 1..(Len(ps) - 1) :
            qs[j] = IF j <= k - 1 THEN before[j] ELSE after[j - (k - 1)]
  <2>1. /\ Len(qs) = Len(before) + Len(after)
        /\ \A j \in 1..(Len(before) + Len(after)) :
             qs[j] = IF j <= Len(before) THEN before[j]
                     ELSE after[j - Len(before)]
    BY <1>2, <1>3, ConcatProperties
  <2>2. Len(before) + Len(after) = Len(ps) - 1
    BY <1>1, <1>2, <1>3
  <2>. QED
    BY <1>2, <2>1, <2>2
<1>5. ASSUME NEW j \in 1..(Len(ps) - 1)
      PROVE  From(j) \in 1..Len(ps) /\ From(j) # k /\ qs[j] = ps[From(j)]
  <2>1. CASE j < k
    <3>1. j <= k - 1 /\ j \in 1..(k - 1)
      BY <1>1, <2>1
    <3>. QED
      BY <1>1, <1>2, <1>4, <2>1, <3>1
  <2>2. CASE ~(j < k)
    <3>1. /\ ~(j <= k - 1) /\ j - (k - 1) \in 1..(Len(ps) - k)
          /\ k + (j - (k - 1)) = j + 1 /\ j + 1 \in 1..Len(ps) /\ j + 1 # k
      BY <1>1, <2>2
    <3>2. qs[j] = after[j - (k - 1)] /\ after[j - (k - 1)] = ps[j + 1]
      BY <1>3, <1>4, <3>1
    <3>. QED
      BY <2>2, <3>1, <3>2
  <2>. QED
    BY <2>1, <2>2
<1>6. RemoveAt(ps, k) = qs
  BY DEF RemoveAt, before, after
<1>. HIDE DEF qs
<1>. QED
  BY <1>4, <1>5, <1>6

LEMMA RemovePlayerKeeps ==
    ASSUME NEW m, Sound(m), NEW n, IsPlayer(m, n)
    PROVE  LET r == RemovePlayer(m, n)
           IN  /\ Apart(m) => Apart(r)
               /\ Distinct(m.players) => Distinct(r.players)
               /\ Distinct(m.players) =>
                    \A j \in 1..Len(r.players) : r.players[j].name # n
<1>. DEFINE k == GetPlayerIndex(m, n)
            ps == m.players
            qs == RemoveAt(ps, k)
            r == RemovePlayer(m, n)
            From(j) == IF j < k THEN j ELSE j + 1
<1>1. MatchType(m)
  BY DEF Sound
<1>2. ps \in Seq(PlayerType) /\ k \in 1..Len(ps) /\ ps[k].name = n
  BY <1>1, PlayerIndex DEF MatchType, NameAt
<1>3. r.players = qs /\ r.deck = m.deck /\ r.discarded = m.discarded
      /\ r.cardsInAuction = m.cardsInAuction
  BY <1>1 DEF RemovePlayer, MatchType
<1>. HIDE DEF r, k, ps
<1>4. /\ Len(qs) = Len(ps) - 1
      /\ \A j \in 1..Len(qs) : /\ From(j) \in 1..Len(ps) /\ From(j) # k
                               /\ qs[j] = ps[From(j)]
  BY <1>2, RemovedAt, SMTT(60)
<1>5. \A i, j \in 1..Len(qs) : From(i) = From(j) => i = j
  BY <1>2, <1>4
<1>. HIDE DEF qs, From
<1>6. \A j \in 1..Len(qs) : Hand(qs, j) = Hand(ps, From(j))
  BY <1>4 DEF Hand
<1>7. Hands(qs) \subseteq Hands(ps)
  BY <1>4, <1>6 DEF Hands
<1>8. ASSUME HandsApart(ps) PROVE HandsApart(qs)
  <2>1. ASSUME NEW j \in 1..Len(qs)
        PROVE  qs[j].activeCards \cap qs[j].purchasedThisTurnCards = {}
    BY <1>4, <1>8 DEF HandsApart
  <2>2. ASSUME NEW i \in 1..Len(qs), NEW j \in 1..Len(qs), i # j
        PROVE  Hand(qs, i) \cap Hand(qs, j) = {}
    <3>1. From(i) # From(j)
      BY <1>5, <2>2
    <3>. QED
      BY <1>4, <1>6, <1>8, <3>1 DEF HandsApart
  <2>. QED
    BY <2>1, <2>2 DEF HandsApart
<1>9. Piles(r) = Piles(m) /\ (PilesApart(m) => PilesApart(r))
  BY <1>3 DEF Piles, PilesApart
<1>10. ASSUME Distinct(ps)
       PROVE  Distinct(qs) /\ \A j \in 1..Len(qs) : qs[j].name # n
  <2>1. \A i, j \in 1..Len(ps) : ps[i].name = ps[j].name => i = j
    BY <1>10 DEF Distinct
  <2>2. ASSUME NEW i \in 1..Len(qs), NEW j \in 1..Len(qs),
               qs[i].name = qs[j].name
        PROVE  i = j
    BY <1>4, <1>5, <2>1, <2>2
  <2>3. ASSUME NEW j \in 1..Len(qs) PROVE qs[j].name # n
    BY <1>2, <1>4, <2>1
  <2>. QED
    BY <2>2, <2>3 DEF Distinct
<1>11. Apart(m) => Apart(r)
  BY <1>3, <1>7, <1>8, <1>9 DEF Apart, ps
<1>. QED
  BY <1>3, <1>10, <1>11 DEF ps, r

LEMMA NamesByPosition ==
    ASSUME NEW m, MatchType(m)
    PROVE  NamesOf(m) = {m.players[i].name : i \in 1..Len(m.players)}
<1>1. DOMAIN m.players = 1..Len(m.players)
  BY DEF MatchType
<1>. QED
  BY <1>1 DEF NamesOf, NameAt

(* A step in which nobody comes or leaves.                                 *)
LEMMA KeepsNames ==
    ASSUME NEW m, MatchType(m), NEW r, MatchType(r), Keeps(m, r)
    PROVE  /\ NamesOf(r) = NamesOf(m)
           /\ Distinct(m.players) => Distinct(r.players)
<1>1. m.players \in Seq(PlayerType) /\ r.players \in Seq(PlayerType)
  BY DEF MatchType
<1>. QED
  BY <1>1, NamesByPosition, SameNamesDistinct DEF Keeps

LEMMA AddPlayerNames ==
    ASSUME NEW m, MatchType(m), NEW n \in Name
    PROVE  NamesOf(AddPlayer(m, n)) = NamesOf(m) \cup {n}
<1>. DEFINE ps == m.players
            qs == Append(ps, NewPlayer(n))
<1>1. ps \in Seq(PlayerType) /\ Len(ps) \in Nat
  BY DEF MatchType
<1>2. AddPlayer(m, n).players = qs
  BY DEF MatchType, AddPlayer
<1>. HIDE DEF ps
<1>3. /\ Len(qs) = Len(ps) + 1 /\ DOMAIN qs = 1..(Len(ps) + 1)
      /\ \A i \in 1..Len(ps) : qs[i] = ps[i]
      /\ qs[Len(ps) + 1] = NewPlayer(n)
  BY <1>1, NewPlayerType, AppendProperties
<1>. HIDE DEF qs
<1>4. NewPlayer(n).name = n
  BY DEF NewPlayer
<1>5. \A i : i \in 1..(Len(ps) + 1) <=> i \in 1..Len(ps) \/ i = Len(ps) + 1
  BY <1>1
<1>6. {qs[i].name : i \in DOMAIN qs} = {ps[i].name : i \in 1..Len(ps)} \cup {n}
  BY <1>3, <1>4, <1>5
<1>. QED
  BY <1>2, <1>6, NamesByPosition DEF NamesOf, NameAt, ps

(* Whoever is at another position stays.                                   *)
LEMMA OthersStay ==
    ASSUME NEW ps \in Seq(PlayerType), NEW k \in 1..Len(ps),
           NEW i \in 1..Len(ps), i # k
    PROVE  \E j \in 1..Len(RemoveAt(ps, k)) : RemoveAt(ps, k)[j] = ps[i]
<1>. DEFINE qs == RemoveAt(ps, k)
            j  == IF i < k THEN i ELSE i - 1
            From(x) == IF x < k THEN x ELSE x + 1
<1>1. /\ Len(qs) = Len(ps) - 1
      /\ \A x \in 1..Len(qs) : qs[x] = ps[From(x)]
  BY RemovedAt
<1>. HIDE DEF qs
<1>2. Len(ps) \in Nat /\ k \in Nat /\ i \in Nat
  OBVIOUS
<1>3. j \in 1..Len(qs) /\ From(j) = i
  BY <1>1, <1>2
<1>. HIDE DEF j, From
<1>4. qs[j] = ps[i]
  BY <1>1, <1>3
<1>. QED
  BY <1>3, <1>4 DEF qs

LEMMA RemovePlayerNames ==
    ASSUME NEW m, Sound(m), Distinct(m.players), NEW n, IsPlayer(m, n)
    PROVE  NamesOf(RemovePlayer(m, n)) = NamesOf(m) \ {n}
<1>. DEFINE k == GetPlayerIndex(m, n)
            ps == m.players
            qs == RemoveAt(ps, k)
            r == RemovePlayer(m, n)
<1>1. MatchType(m) /\ MatchType(r)
  BY RemovePlayerSound DEF Sound
<1>2. ps \in Seq(PlayerType) /\ k \in 1..Len(ps) /\ ps[k].name = n
  BY <1>1, PlayerIndex DEF MatchType, NameAt
<1>3. r.players = qs
  BY <1>1 DEF RemovePlayer, MatchType
<1>4. \A j \in 1..Len(qs) : qs[j].name # n
  BY <1>3, RemovePlayerKeeps
<1>5. NamesOf(m) = {ps[i].name : i \in 1..Len(ps)}
      /\ NamesOf(r) = {qs[i].name : i \in 1..Len(qs)}
  BY <1>1, <1>3, NamesByPosition
<1>. HIDE DEF k, ps, r
<1>6. ASSUME NEW j \in 1..Len(qs) PROVE \E i \in 1..Len(ps) : qs[j] = ps[i]
  BY <1>2, RemovedAt, SMTT(60)
<1>7. ASSUME NEW i \in 1..Len(ps), ps[i].name # n
      PROVE  \E j \in 1..Len(qs) : qs[j] = ps[i]
  BY <1>2, <1>7, OthersStay
<1>. HIDE DEF qs
<1>8. NamesOf(r) \subseteq NamesOf(m) \ {n}
  BY <1>4, <1>5, <1>6
<1>9. NamesOf(m) \ {n} \subseteq NamesOf(r)
  BY <1>5, <1>7
<1>. QED
  BY <1>8, <1>9 DEF r
-----------------------------------------------------------------------------
(* What the update says.                                                   *)

LEMMA DrawnType ==
    ASSUME NEW table \in Seq(Card)
    PROVE  /\ Drawn(table) \in Seq(Update) /\ Len(Drawn(table)) = Len(table)
           /\ \A k \in 1..Len(table) :
                Drawn(table)[k] = Event("Draw", NoName, table[k])
<1>1. DOMAIN table = 1..Len(table) /\ Len(table) \in Nat
  OBVIOUS
<1>2. \A k \in 1..Len(table) : Event("Draw", NoName, table[k]) \in Update
  BY <1>1, CardIsInt, ElementOfSeq, EventIsUpdate DEF EventType
<1>. QED
  BY <1>1, <1>2, IsASeq DEF Drawn

LEMMA ProducedType ==
    ASSUME NEW ps \in Seq(PlayerType)
    PROVE  /\ Produced(ps) \in Seq(Update) /\ Len(Produced(ps)) = Len(ps)
           /\ \A k \in 1..Len(ps) :
                Produced(ps)[k] = Event("Earn", ps[k].name,
                                        TotalProduction(Hand(ps, k)))
<1>1. Len(ps) \in Nat
  OBVIOUS
<1>2. ASSUME NEW k \in 1..Len(ps)
      PROVE  Event("Earn", ps[k].name, TotalProduction(Hand(ps, k))) \in Update
  <2>1. ps[k] \in PlayerType
    BY ElementOfSeq
  <2>2. TotalProduction(Hand(ps, k)) \in Nat
    BY <2>1, TotalsAssumption DEF Hand, Owned, PlayerType
  <2>3. ps[k].name \in Name
    BY <2>1 DEF PlayerType
  <2>. QED
    BY <2>2, <2>3, EventIsUpdate DEF EventType
<1>. QED
  BY <1>1, <1>2, IsASeq DEF Produced

LEMMA GrantedType ==
    ASSUME NEW ps \in Seq(PlayerType), NEW a
    PROVE  /\ Granted(ps, a) \in Seq(Update) /\ Len(Granted(ps, a)) = Len(ps)
           /\ \A k \in 1..Len(ps) :
                Granted(ps, a)[k] = Event("SetGold", ps[k].name,
                                          StartingGold(k, a))
<1>1. Len(ps) \in Nat
  OBVIOUS
<1>2. ASSUME NEW k \in 1..Len(ps)
      PROVE  Event("SetGold", ps[k].name, StartingGold(k, a)) \in Update
  <2>3. ps[k] \in PlayerType
    BY ElementOfSeq
  <2>1. ps[k].name \in Name
    BY <2>3 DEF PlayerType
  <2>2. StartingGold(k, a) \in Int
    BY ConfigAssumption DEF StartingGold
  <2>. QED
    BY <2>1, <2>2, EventIsUpdate DEF EventType
<1>. QED
  BY <1>1, <1>2, IsASeq DEF Granted

LEMMA OpeningType ==
    ASSUME NEW m, MatchType(m), NEW a \in 1..Len(m.players)
    PROVE  /\ << Event("IsAuctioneer", NameAt(m, a), 0) >> \in Seq(Update)
           /\ Opening(m, a) \in Seq(Update) /\ Opening(m, a) # <<>>
<1>1. << Event("IsAuctioneer", NameAt(m, a), 0) >> \in Seq(Update)
  BY NameIsTyped, EventIsUpdate DEF EventType
<1>2. Granted(m.players, a) \in Seq(Update)
  BY GrantedType DEF MatchType
<1>. HIDE DEF Granted
<1>. QED
  BY <1>1, <1>2, ConcatProperties DEF Opening

LEMMA WonType ==
    ASSUME NEW m, MatchType(m)
    PROVE  /\ Won(m) \in Seq(Update)
           /\ \A k \in 1..Len(Won(m)) :
                /\ WinnersOf(m.players)[k] \in 1..Len(m.players)
                /\ Won(m)[k] = Event("Winner",
                                     NameAt(m, WinnersOf(m.players)[k]), 0)
           /\ Len(Won(m)) = Len(WinnersOf(m.players))
<1>. DEFINE winners == WinnersOf(m.players)
<1>1. winners \in Seq(1..Len(m.players))
  BY WinnersType DEF MatchType
<1>. HIDE DEF winners
<1>2. /\ DOMAIN winners = 1..Len(winners) /\ Len(winners) \in Nat
      /\ \A k \in 1..Len(winners) : winners[k] \in 1..Len(m.players)
  BY <1>1
<1>3. \A k \in 1..Len(winners) : Event("Winner", NameAt(m, winners[k]), 0) \in Update
  BY <1>2, NameIsTyped, EventIsUpdate DEF EventType
<1>4. Won(m) = [k \in 1..Len(winners) |-> Event("Winner", NameAt(m, winners[k]), 0)]
  BY <1>2 DEF Won, winners
<1>. QED
  BY <1>2, <1>3, <1>4, IsASeq DEF winners

(* processPhase() in its steps.                                            *)
LEMMA FivePhases ==
    ASSUME NEW m, Playing(m)
    PROVE  \E m1, m2, m3, m4 :
              /\ m1 = OnPhase(m) /\ Playing(m1)
              /\ m2 = OnPhase(m1) /\ Playing(m2)
              /\ m3 = OnPhase(m2) /\ Playing(m3)
              /\ m4 = OnPhase(m3) /\ Playing(m4)
              /\ ProcessPhase(m) = OnPhase(m4)
<1>. DEFINE m1 == OnPhase(m)
            m2 == OnPhase(m1)
            m3 == OnPhase(m2)
            m4 == OnPhase(m3)
<1>1. Playing(m1)
  BY OnPhaseSound
<1>. HIDE DEF m1
<1>2. Playing(m2)
  BY <1>1, OnPhaseSound
<1>. HIDE DEF m2
<1>3. Playing(m3)
  BY <1>2, OnPhaseSound
<1>. HIDE DEF m3
<1>4. Playing(m4)
  BY <1>3, OnPhaseSound
<1>. HIDE DEF m4
<1>5. ProcessPhase(m) = OnPhase(m4)
  BY DEF ProcessPhase, m1, m2, m3, m4
<1>6. m1 = OnPhase(m) /\ m2 = OnPhase(m1) /\ m3 = OnPhase(m2) /\ m4 = OnPhase(m3)
  BY DEF m1, m2, m3, m4
<1>. QED
  BY <1>1, <1>2, <1>3, <1>4, <1>5, <1>6

LEMMA ThreeParts ==
    ASSUME NEW s \in Seq(Update), NEW t \in Seq(Update), NEW u \in Seq(Update)
    PROVE  /\ (s \o t) \o u = s \o (t \o u)
           /\ s \o t \in Seq(Update) /\ t \o u \in Seq(Update)
<1>1. (s \o t) \o u = s \o (t \o u)
  OBVIOUS
<1>. QED
  BY <1>1, ConcatProperties

(* The phase methods only add events to the update.                        *)
Adds(m, r) == \E es \in Seq(Update) : r.updateEvent = m.updateEvent \o es

LEMMA AddsMore ==
    ASSUME NEW m, MatchType(m), NEW n, NEW r, Adds(m, n), Adds(n, r)
    PROVE  Adds(m, r)
<1>1. PICK s \in Seq(Update) : n.updateEvent = m.updateEvent \o s
  BY DEF Adds
<1>2. PICK t \in Seq(Update) : r.updateEvent = n.updateEvent \o t
  BY DEF Adds
<1>3. m.updateEvent \in Seq(Update)
  BY DEF MatchType
<1>4. (m.updateEvent \o s) \o t = m.updateEvent \o (s \o t)
      /\ s \o t \in Seq(Update)
  BY <1>3, ThreeParts
<1>. QED
  BY <1>1, <1>2, <1>4 DEF Adds

(* Only the end of the game announces winners.                             *)
AddsPlain(m, r) ==
    \E es \in Seq(Update) :
        /\ r.updateEvent = m.updateEvent \o es
        /\ \A k \in 1..Len(es) : es[k].type # "Winner"

LEMMA AddsPlainNothing ==
    ASSUME NEW m, MatchType(m), NEW r, r.updateEvent = m.updateEvent
    PROVE  AddsPlain(m, r)
<1>1. m.updateEvent \o <<>> = m.updateEvent /\ <<>> \in Seq(Update)
  BY ConcatEmptySeq DEF MatchType
<1>2. \A k \in 1..Len(<<>>) : <<>>[k].type # "Winner"
  OBVIOUS
<1>. QED
  BY <1>1, <1>2 DEF AddsPlain

LEMMA OnPhaseAddsPlain ==
    ASSUME NEW m, Playing(m), m.currentPhase # "GameEnd"
    PROVE  AddsPlain(m, OnPhase(m))
<1>0. MatchType(m) /\ m.updateEvent \in Seq(Update) /\ m.players \in Seq(PlayerType)
  BY DEF Playing, Sound, MatchType
<1>1. CASE Resting(m)
  BY <1>0, <1>1, RestingStays, AddsPlainNothing
<1>2. CASE ~Resting(m)
  <2>1. m.currentPhase \in {"TurnStart", "Attack", "Auction", "TurnEnd"}
    BY <1>2 DEF Playing, Sound, MatchType, Phase, Resting
  <2>2. CASE m.currentPhase = "TurnStart"
    <3>. DEFINE r == OnTurnStartPhase(m)
                es == Drawn(r.cardsInAuction)
    <3>1. MatchType(r)
      BY <2>2, TurnStartSound DEF Playing, Sound
    <3>2. es \in Seq(Update) /\ \A k \in 1..Len(es) : es[k].type # "Winner"
      <4>1. r.cardsInAuction \in Seq(Card)
        BY <3>1 DEF MatchType
      <4>. HIDE DEF r
      <4>. QED
        BY <4>1, DrawnType, EventSays
    <3>3. \/ r.updateEvent = m.updateEvent
          \/ r.updateEvent = m.updateEvent \o es
      BY <2>2, TurnStartResult
    <3>. HIDE DEF r, es
    <3>4. AddsPlain(m, r)
      BY <1>0, <3>2, <3>3, AddsPlainNothing DEF AddsPlain
    <3>. QED
      BY <1>2, <2>2, <3>4, PhaseMethod DEF r
  <2>3. CASE m.currentPhase = "Attack"
    <3>. DEFINE r == OnAttackPhase(m)
                w == GetCurrentWinner(m)
                event == Event("GetCard", NameAt(m, w), 0)
    <3>1. \/ r.updateEvent = m.updateEvent
          \/ /\ r.updateEvent = Append(m.updateEvent, event)
             /\ w \in 1..Len(m.players)
      BY <2>3, AttackResult
    <3>. HIDE DEF r, w
    <3>2. CASE w \in 1..Len(m.players)
      <4>1. event \in Update /\ event.type = "GetCard"
        BY <1>0, <3>2, NameIsTyped, EventIsUpdate, EventSays DEF EventType
      <4>. HIDE DEF event
      <4>2. /\ Append(m.updateEvent, event) = m.updateEvent \o << event >>
            /\ << event >> \in Seq(Update)
            /\ \A k \in 1..Len(<< event >>) : << event >>[k].type # "Winner"
        BY <1>0, <4>1
      <4>3. AddsPlain(m, r)
        <5>1. CASE r.updateEvent = m.updateEvent
          BY <1>0, <5>1, AddsPlainNothing
        <5>2. CASE r.updateEvent = m.updateEvent \o << event >>
          BY <4>2, <5>2 DEF AddsPlain
        <5>. QED
          BY <3>1, <4>2, <5>1, <5>2
      <4>. QED
        BY <1>2, <2>3, <4>3, PhaseMethod DEF r
    <3>3. CASE w \notin 1..Len(m.players)
      BY <1>0, <1>2, <2>3, <3>1, <3>3, PhaseMethod, AddsPlainNothing DEF r
    <3>. QED
      BY <3>2, <3>3
  <2>4. CASE m.currentPhase = "Auction"
    <3>. DEFINE r == OnAuctionPhase(m)
                w == GetCurrentWinner(m)
                pay == Event("Pay", NameAt(m, w), m.currentOffer)
                get == Event("GetCard", NameAt(m, w), 0)
                events == << pay, get >>
    <3>1. \/ r.updateEvent = m.updateEvent
          \/ /\ r.updateEvent = m.updateEvent \o events
             /\ w \in 1..Len(m.players)
      BY <2>4, AuctionResult
    <3>. HIDE DEF r, w
    <3>2. CASE w \in 1..Len(m.players)
      <4>1. /\ events \in Seq(Update)
            /\ \A k \in 1..Len(events) : events[k].type # "Winner"
        <5>1. m.currentOffer \in Int
          BY <1>0 DEF MatchType
        <5>2. /\ pay \in Update /\ pay.type = "Pay"
              /\ get \in Update /\ get.type = "GetCard"
          BY <1>0, <3>2, <5>1, NameIsTyped, EventIsUpdate, EventSays DEF EventType
        <5>. HIDE DEF pay, get
        <5>. QED
          BY <5>2
      <4>. HIDE DEF events
      <4>3. AddsPlain(m, r)
        BY <1>0, <3>1, <4>1, AddsPlainNothing DEF AddsPlain
      <4>. QED
        BY <1>2, <2>4, <4>3, PhaseMethod DEF r
    <3>3. CASE w \notin 1..Len(m.players)
      BY <1>0, <1>2, <2>4, <3>1, <3>3, PhaseMethod, AddsPlainNothing DEF r
    <3>. QED
      BY <3>2, <3>3
  <2>5. CASE m.currentPhase = "TurnEnd"
    <3>. DEFINE r == OnTurnEndPhase(m)
                event == Event("IsAuctioneer", NameAt(m, After(m) + 1), 0)
                a == Produced(m.players)
                es == a \o << event >>
    <3>1. /\ r.updateEvent = (m.updateEvent \o a) \o << event >>
          /\ After(m) + 1 \in 1..Len(m.players)
      BY <2>5, TurnEndResult, Zenon
    <3>2. event \in Update /\ event.type = "IsAuctioneer"
      BY <1>0, <3>1, NameIsTyped, EventIsUpdate, EventSays DEF EventType
    <3>3. /\ a \in Seq(Update)
          /\ \A k \in 1..Len(a) : a[k].type = "Earn"
      BY <1>0, ProducedType, EventSays
    <3>. HIDE DEF r, event, a
    <3>4. << event >> \in Seq(Update)
      BY <3>2
    <3>5. (m.updateEvent \o a) \o << event >> = m.updateEvent \o es
          /\ es \in Seq(Update)
      BY <1>0, <3>3, <3>4, ThreeParts
    <3>6. \A k \in 1..Len(es) : es[k] = IF k <= Len(a) THEN a[k] ELSE event
      BY <3>2, <3>3
    <3>7. \A k \in 1..Len(es) : es[k].type # "Winner"
      <4>1. \A k \in 1..Len(es) : k <= Len(a) => k \in 1..Len(a)
        BY <3>3
      <4>. QED
        BY <3>2, <3>3, <3>6, <4>1
    <3>8. AddsPlain(m, r)
      BY <3>1, <3>5, <3>7 DEF AddsPlain
    <3>. QED
      BY <1>2, <2>5, <3>8, PhaseMethod DEF r
  <2>. QED
    BY <2>1, <2>2, <2>3, <2>4, <2>5
<1>. QED
  BY <1>1, <1>2

LEMMA OnPhaseAdds ==
    ASSUME NEW m, Playing(m)
    PROVE  Adds(m, OnPhase(m))
<1>1. CASE m.currentPhase # "GameEnd"
  BY <1>1, OnPhaseAddsPlain DEF AddsPlain, Adds
<1>2. CASE m.currentPhase = "GameEnd"
  <2>1. OnGameEndPhase(m).updateEvent = m.updateEvent \o Won(m)
    BY <1>2, GameEndResult
  <2>2. Won(m) \in Seq(Update)
    BY WonType DEF Playing, Sound
  <2>3. ~Resting(m)
    BY <1>2 DEF Resting, Playing, Sound
  <2>. QED
    BY <1>2, <2>1, <2>2, <2>3, PhaseMethod DEF Adds
<1>. QED
  BY <1>1, <1>2

LEMMA ProcessPhaseAdds ==
    ASSUME NEW m, Playing(m)
    PROVE  Adds(m, ProcessPhase(m))
<1>1. PICK m1, m2, m3, m4 :
         /\ m1 = OnPhase(m) /\ Playing(m1)
         /\ m2 = OnPhase(m1) /\ Playing(m2)
         /\ m3 = OnPhase(m2) /\ Playing(m3)
         /\ m4 = OnPhase(m3) /\ Playing(m4)
         /\ ProcessPhase(m) = OnPhase(m4)
  BY FivePhases
<1>2. MatchType(m)
  BY DEF Playing, Sound
<1>3. Adds(m, m1) /\ Adds(m1, m2) /\ Adds(m2, m3) /\ Adds(m3, m4)
      /\ Adds(m4, ProcessPhase(m))
  BY <1>1, OnPhaseAdds
<1>4. Adds(m, m2)
  BY <1>2, <1>3, AddsMore
<1>5. Adds(m, m3)
  BY <1>2, <1>3, <1>4, AddsMore
<1>6. Adds(m, m4)
  BY <1>2, <1>3, <1>5, AddsMore
<1>. QED
  BY <1>2, <1>3, <1>6, AddsMore
=============================================================================
