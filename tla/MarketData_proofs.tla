-------------------------- MODULE MarketData_proofs --------------------------
(* The callback loop of src/src/python/websocket.rs for every sequence of    *)
(* frames: what its pieces show is what the frame shows, the book is that of *)
(* one frame, the quote comes before the deltas, an answer to a request is   *)
(* whole, order events arrive in order and deals are told apart. First the   *)
(* lemmas about the parsers of websocket/parse.rs, then what the loop makes  *)
(* of one frame (Fair), then the inductive invariant MarketInv of the queue  *)
(* between the loop and the engines, and EventInv of the order events in it. *)
EXTENDS MarketData, FiniteSetTheorems, TLAPS

-----------------------------------------------------------------------------
(* Values the library holds. *)

\* Rounding a price keeps the order of prices.
LEMMA RoundedMonotone ==
  ASSUME NEW a \in Int, NEW b \in Int, a <= b, NEW precision \in 0 .. 2
  PROVE  Rounded(a, precision) \in Int /\ Rounded(b, precision) \in Int
         /\ Rounded(a, precision) <= Rounded(b, precision)
<1>1. CASE precision = 0
  BY <1>1 DEF Rounded, Unit
<1>2. CASE precision = 1
  BY <1>2 DEF Rounded, Unit
<1>3. CASE precision = 2
  BY <1>3 DEF Rounded, Unit
<1>4. QED
  BY <1>1, <1>2, <1>3

\* A checked constructor that returns keeps its argument, rounded.
LEMMA CheckedValues ==
  ASSUME NEW value \in Int, NEW precision \in 0 .. 2
  PROVE  /\ try_price(value, precision) # Err =>
              try_price(value, precision) = Rounded(value, precision)
         /\ try_qty(value) # Err => try_qty(value) = value /\ value >= 0
         /\ value <= ValueMax => try_price(value, precision) # Err
         /\ value \in 0 .. ValueMax => try_qty(value) # Err
<1>1. ValueMax \in Int /\ Err \notin Int
  BY ErrAssumption
<1>2. Rounded(value, precision) \in Int
  <2>1. value <= value
    OBVIOUS
  <2>2. QED
    BY <2>1, RoundedMonotone
<1>3. QED
  BY <1>1, <1>2 DEF try_price, try_qty

-----------------------------------------------------------------------------
(* The zip of prices and volumes. *)

\* Every position that is kept has a place among them, and every place one.
LEMMA Positions ==
  ASSUME NEW kept \in SUBSET Int, IsFiniteSet(kept)
  PROVE  /\ Cardinality(kept) \in Nat
         /\ \A k \in 1 .. Cardinality(kept) :
              /\ Position(kept, k) \in kept
              /\ Cardinality({j \in kept : j <= Position(kept, k)}) = k
         /\ \A i \in kept : \E k \in 1 .. Cardinality(kept) : Position(kept, k) = i
<1> DEFINE upto(i) == {j \in kept : j <= i}
           place   == [i \in kept |-> Cardinality(upto(i))]
           places  == 1 .. Cardinality(kept)
<1>1. Cardinality(kept) \in Nat
  BY FS_CardinalityType
<1>2. ASSUME NEW i \in kept
      PROVE  IsFiniteSet(upto(i)) /\ Cardinality(upto(i)) \in places
  <2>1. IsFiniteSet(upto(i)) /\ Cardinality(upto(i)) <= Cardinality(kept)
    <3>1. upto(i) \in SUBSET kept
      OBVIOUS
    <3>2. QED
      BY <3>1, FS_Subset
  <2>2. i \in upto(i)
    OBVIOUS
  <2>3. Cardinality(upto(i)) # 0
    BY <2>1, <2>2, FS_EmptySet
  <2>4. QED
    BY <1>1, <2>1, <2>3, FS_CardinalityType
<1>3. ASSUME NEW i \in kept, NEW j \in kept, i < j
      PROVE  place[i] # place[j]
  <2>1. upto(i) \in SUBSET upto(j) /\ j \notin upto(i) /\ j \in upto(j)
    <3>1. i \in Int /\ j \in Int /\ \A l \in kept : l \in Int
      OBVIOUS
    <3>2. \A l \in kept : l <= i => l <= j
      BY <1>3, <3>1
    <3>3. ~(j <= i) /\ j <= j
      BY <1>3, <3>1
    <3>4. QED
      BY <3>2, <3>3
  <2>2. Cardinality(upto(i)) # Cardinality(upto(j))
    BY <1>2, <2>1, FS_Subset
  <2>3. QED
    BY <2>2
<1>4. place \in Injection(kept, places)
  <2>1. place \in [kept -> places]
    BY <1>2
  <2>2. \A i, j \in kept : i # j => place[i] # place[j]
    BY <1>3
  <2>3. QED
    BY <2>1, <2>2 DEF Injection, IsInjective
<1>5. IsFiniteSet(places) /\ Cardinality(places) = Cardinality(kept)
  BY <1>1, FS_Interval
<1>6. place \in Surjection(kept, places)
  BY <1>4, <1>5, FS_Injection
<1>7. \A k \in places : \E i \in kept : Cardinality(upto(i)) = k
  BY <1>6 DEF Surjection
<1>8. ASSUME NEW k \in places
      PROVE  Position(kept, k) \in kept /\ Cardinality(upto(Position(kept, k))) = k
  BY <1>7 DEF Position
<1>9. ASSUME NEW i \in kept
      PROVE  \E k \in places : Position(kept, k) = i
  <2>1. PICK k \in places : k = Cardinality(upto(i))
    BY <1>2
  <2>2. Position(kept, k) \in kept /\ place[Position(kept, k)] = place[i]
    BY <1>8, <2>1
  <2>3. i \in Int /\ Position(kept, k) \in Int
    BY <2>2
  <2>4. i = Position(kept, k) \/ i < Position(kept, k) \/ Position(kept, k) < i
    BY <2>3
  <2>5. QED
    BY <1>3, <2>2, <2>4
<1>10. QED
  BY <1>1, <1>8, <1>9

\* A level of each position that is kept and of no other, in their order.
LEMMA LevelsKept ==
  ASSUME NEW prices \in Seq(Int), NEW volumes \in Seq(Int)
  PROVE  /\ Kept(prices, volumes) \in SUBSET Int /\ IsFiniteSet(Kept(prices, volumes))
         /\ \A i \in Kept(prices, volumes) : prices[i] \in Int /\ volumes[i] \in Int
         /\ Levels(prices, volumes) \in Seq(Int \X Int)
         /\ Len(Levels(prices, volumes)) = Cardinality(Kept(prices, volumes))
         /\ \A k \in 1 .. Len(Levels(prices, volumes)) : \E i \in Kept(prices, volumes) :
              /\ Levels(prices, volumes)[k] = <<prices[i], volumes[i]>>
              /\ k = 1 => \A j \in Kept(prices, volumes) : i <= j
         /\ \A i \in Kept(prices, volumes) : \E k \in 1 .. Len(Levels(prices, volumes)) :
              Levels(prices, volumes)[k] = <<prices[i], volumes[i]>>
<1> DEFINE kept   == Kept(prices, volumes)
           levels == Levels(prices, volumes)
<1>1. kept \subseteq 1 .. Len(prices) /\ kept \in SUBSET Int
      /\ \A i \in kept : prices[i] \in Int /\ volumes[i] \in Int
  BY DEF Kept
<1>2. IsFiniteSet(kept)
  <2>1. IsFiniteSet(1 .. Len(prices)) /\ kept \in SUBSET (1 .. Len(prices))
    BY <1>1, FS_Interval
  <2>2. QED
    BY <2>1, FS_Subset
<1> DEFINE at(k) == Position(kept, k)
<1> HIDE DEF kept
<1>3. /\ Cardinality(kept) \in Nat
      /\ \A k \in 1 .. Cardinality(kept) : at(k) \in kept
      /\ \A i \in kept : \E k \in 1 .. Cardinality(kept) : at(k) = i
  BY <1>1, <1>2, Positions
<1>4. levels = [k \in 1 .. Cardinality(kept) |-> <<prices[at(k)], volumes[at(k)]>>]
  BY DEF Levels, kept
<1> HIDE DEF levels, at
<1>5. levels \in Seq(Int \X Int) /\ Len(levels) = Cardinality(kept)
  <2>1. \A k \in 1 .. Cardinality(kept) : <<prices[at(k)], volumes[at(k)]>> \in Int \X Int
    BY <1>1, <1>3
  <2>2. QED
    BY <1>3, <1>4, <2>1
<1>6. \A k \in 1 .. Len(levels) : at(k) \in kept /\ levels[k] = <<prices[at(k)], volumes[at(k)]>>
  BY <1>3, <1>4, <1>5
<1>7. ASSUME 1 \in 1 .. Len(levels), NEW j \in kept
      PROVE  at(1) <= j
  <2> DEFINE upto(i) == {l \in kept : l <= i}
  <2>1. at(1) \in kept /\ Cardinality(upto(at(1))) = 1
    BY <1>1, <1>2, <1>5, <1>7, Positions DEF at
  <2>2. IsFiniteSet(upto(at(1)))
    BY <1>2, FS_Subset
  <2>3. PICK x : upto(at(1)) = {x}
    BY <2>1, <2>2, FS_Singleton
  <2>4. at(1) \in upto(at(1)) /\ (~(at(1) <= j) => j \in upto(at(1)))
    <3>1. PICK a \in kept : a = at(1)
      BY <2>1
    <3>2. a \in upto(a) /\ (~(a <= j) => j \in upto(a))
      BY <1>1
    <3>3. QED
      BY <3>1, <3>2
  <2>5. ~(at(1) <= j) => j = at(1)
    BY <2>3, <2>4
  <2>6. QED
    BY <1>1, <2>1, <2>5
<1>8. \A i \in kept : \E k \in 1 .. Len(levels) : levels[k] = <<prices[i], volumes[i]>>
  BY <1>3, <1>5, <1>6
<1>9. \A k \in 1 .. Len(levels) : \E i \in kept :
        levels[k] = <<prices[i], volumes[i]>> /\ (k = 1 => \A j \in kept : i <= j)
  BY <1>6, <1>7
<1>10. QED
  BY <1>1, <1>2, <1>5, <1>8, <1>9 DEF kept, levels

\* What fits the library is held, level by level.
LEMMA CheckedLevels ==
  ASSUME NEW levels \in Seq(Int \X Int), NEW precision \in 0 .. 2,
         Checked(levels, precision) # Err
  PROVE  /\ Checked(levels, precision) \in Seq(Int \X Int)
         /\ Len(Checked(levels, precision)) = Len(levels)
         /\ \A k \in 1 .. Len(levels) :
              /\ Checked(levels, precision)[k] = <<Rounded(levels[k][1], precision), levels[k][2]>>
              /\ try_price(levels[k][1], precision) # Err /\ try_qty(levels[k][2]) # Err
<1> DEFINE held == [i \in DOMAIN levels |-> <<try_price(levels[i][1], precision),
                                             try_qty(levels[i][2])>>]
<1>1. Checked(levels, precision) = held
      /\ \A i \in DOMAIN levels : held[i][1] # Err /\ held[i][2] # Err
  BY DEF Checked
<1>2. ASSUME NEW i \in 1 .. Len(levels)
      PROVE  /\ held[i] = <<Rounded(levels[i][1], precision), levels[i][2]>>
             /\ held[i] \in Int \X Int
             /\ try_price(levels[i][1], precision) # Err /\ try_qty(levels[i][2]) # Err
  <2>1. levels[i][1] \in Int /\ levels[i][2] \in Int /\ i \in DOMAIN levels
    OBVIOUS
  <2>2. try_price(levels[i][1], precision) # Err /\ try_qty(levels[i][2]) # Err
    BY <1>1, <2>1
  <2>3. /\ try_price(levels[i][1], precision) = Rounded(levels[i][1], precision)
        /\ try_qty(levels[i][2]) = levels[i][2]
    BY <2>1, <2>2, CheckedValues
  <2>4. Rounded(levels[i][1], precision) \in Int
    <3>1. levels[i][1] <= levels[i][1]
      BY <2>1
    <3>2. QED
      BY <2>1, <3>1, RoundedMonotone
  <2>5. QED
    BY <2>1, <2>2, <2>3, <2>4
<1> HIDE DEF held
<1>3. DOMAIN held = 1 .. Len(levels) /\ Len(levels) \in Nat
  BY DEF held
<1>4. held = [i \in 1 .. Len(levels) |-> held[i]]
  BY DEF held
<1>5. held \in Seq(Int \X Int) /\ Len(held) = Len(levels)
  BY <1>2, <1>3, <1>4
<1>6. QED
  BY <1>1, <1>2, <1>5

\* One side of a book as the library holds it.
Held(prices, volumes, precision) ==
  {<<Rounded(prices[i], precision), volumes[i]>> : i \in Kept(prices, volumes)}

\* The deltas have every level of a side.
LEMMA WholeSide ==
  ASSUME NEW prices \in Seq(Int), NEW volumes \in Seq(Int), NEW precision \in 0 .. 2,
         Checked(Levels(prices, volumes), precision) # Err
  PROVE  /\ Checked(Levels(prices, volumes), precision) \in Seq(Int \X Int)
         /\ {Checked(Levels(prices, volumes), precision)[k] :
               k \in 1 .. Len(Checked(Levels(prices, volumes), precision))}
              = Held(prices, volumes, precision)
         /\ \A i \in Kept(prices, volumes) :
              try_price(prices[i], precision) # Err /\ try_qty(volumes[i]) # Err
<1> DEFINE kept   == Kept(prices, volumes)
           levels == Levels(prices, volumes)
           held   == Checked(levels, precision)
<1>1. /\ levels \in Seq(Int \X Int)
      /\ \A i \in kept : prices[i] \in Int /\ volumes[i] \in Int
      /\ \A k \in 1 .. Len(levels) : \E i \in kept :
           levels[k] = <<prices[i], volumes[i]>> /\ (k = 1 => \A j \in kept : i <= j)
      /\ \A i \in kept : \E k \in 1 .. Len(levels) : levels[k] = <<prices[i], volumes[i]>>
  BY LevelsKept
<1> HIDE DEF levels
<1>2. /\ held \in Seq(Int \X Int) /\ Len(held) = Len(levels)
      /\ \A k \in 1 .. Len(levels) :
           /\ held[k] = <<Rounded(levels[k][1], precision), levels[k][2]>>
           /\ try_price(levels[k][1], precision) # Err /\ try_qty(levels[k][2]) # Err
  BY <1>1, CheckedLevels DEF levels
<1> HIDE DEF held
<1>3. ASSUME NEW k \in 1 .. Len(held)
      PROVE  held[k] \in Held(prices, volumes, precision)
  <2>1. PICK i \in kept : levels[k] = <<prices[i], volumes[i]>>
    BY <1>1, <1>2
  <2>2. levels[k][1] = prices[i] /\ levels[k][2] = volumes[i] /\ k \in 1 .. Len(levels)
    BY <1>2, <2>1
  <2>3. held[k] = <<Rounded(prices[i], precision), volumes[i]>>
    BY <1>2, <2>2
  <2>4. QED
    BY <2>3 DEF Held
<1>4. ASSUME NEW i \in kept
      PROVE  /\ \E k \in 1 .. Len(held) : held[k] = <<Rounded(prices[i], precision), volumes[i]>>
             /\ try_price(prices[i], precision) # Err /\ try_qty(volumes[i]) # Err
  <2>1. PICK k \in 1 .. Len(levels) : levels[k] = <<prices[i], volumes[i]>>
    BY <1>1
  <2>2. levels[k][1] = prices[i] /\ levels[k][2] = volumes[i]
    BY <2>1
  <2>3. k \in 1 .. Len(held) /\ held[k] = <<Rounded(prices[i], precision), volumes[i]>>
    <3>1. /\ k \in 1 .. Len(held)
          /\ held[k] = <<Rounded(levels[k][1], precision), levels[k][2]>>
      BY <1>2
    <3>2. QED
      BY <2>2, <3>1
  <2>4. try_price(prices[i], precision) # Err /\ try_qty(volumes[i]) # Err
    <3>1. try_price(levels[k][1], precision) # Err /\ try_qty(levels[k][2]) # Err
      BY <1>2
    <3>2. QED
      BY <2>2, <3>1
  <2>5. QED
    BY <2>3, <2>4
<1>5. {held[k] : k \in 1 .. Len(held)} = Held(prices, volumes, precision)
  <2>1. {held[k] : k \in 1 .. Len(held)} \subseteq Held(prices, volumes, precision)
    BY <1>3
  <2>2. Held(prices, volumes, precision) \subseteq {held[k] : k \in 1 .. Len(held)}
    BY <1>4 DEF Held
  <2>3. QED
    BY <2>1, <2>2
<1>6. QED
  BY <1>2, <1>4, <1>5 DEF held, levels

\* The first levels of a sequence.
LEMMA FirstPart ==
  ASSUME NEW S, NEW levels \in Seq(S), NEW n \in 0 .. Len(levels)
  PROVE  /\ SubSeq(levels, 1, n) \in Seq(S) /\ Len(SubSeq(levels, 1, n)) = n
         /\ \A k \in 1 .. n : k \in 1 .. Len(levels) /\ SubSeq(levels, 1, n)[k] = levels[k]
  OBVIOUS

\* Levels of a side, the best one first, that miss one only for want of room.
FirstOf(shown, prices, volumes, precision) ==
  /\ shown \in Seq(Int \X Int)
  /\ \A k \in 1 .. Len(shown) : shown[k] \in Held(prices, volumes, precision)
  /\ Len(shown) < Cardinality(Held(prices, volumes, precision)) => Len(shown) = DepthLen
  /\ Held(prices, volumes, precision) # {} =>
       \E i \in Kept(prices, volumes) :
         /\ shown[1] = <<Rounded(prices[i], precision), volumes[i]>>
         /\ \A j \in Kept(prices, volumes) : i <= j

\* The depth snapshot has them.
LEMMA FirstOfSide ==
  ASSUME NEW prices \in Seq(Int), NEW volumes \in Seq(Int), NEW precision \in 0 .. 2,
         NEW shown, shown = Checked(FirstLevels(Levels(prices, volumes)), precision), shown # Err
  PROVE  FirstOf(shown, prices, volumes, precision)
<1> DEFINE kept   == Kept(prices, volumes)
           levels == Levels(prices, volumes)
           first  == FirstLevels(levels)
           held   == Held(prices, volumes, precision)
           count  == IF Len(levels) < DepthLen THEN Len(levels) ELSE DepthLen
<1>1. /\ levels \in Seq(Int \X Int) /\ Len(levels) = Cardinality(kept) /\ IsFiniteSet(kept)
      /\ \A k \in 1 .. Len(levels) : \E i \in kept :
           levels[k] = <<prices[i], volumes[i]>> /\ (k = 1 => \A j \in kept : i <= j)
      /\ \A i \in kept : \E k \in 1 .. Len(levels) : levels[k] = <<prices[i], volumes[i]>>
  BY LevelsKept
<1> HIDE DEF kept, levels
<1>2. DepthLen \in Nat \ {0}
  BY MarketAssumption
<1>3. /\ first \in Seq(Int \X Int) /\ Len(first) = count
      /\ \A k \in 1 .. Len(first) : k \in 1 .. Len(levels) /\ first[k] = levels[k]
  <2>1. levels \in Seq(Int \X Int)
    BY <1>1
  <2>2. count \in 0 .. Len(levels) /\ first = SubSeq(levels, 1, count)
    BY <1>2, <2>1 DEF FirstLevels
  <2>. HIDE DEF count, first
  <2>3. QED
    BY <2>1, <2>2, FirstPart
<1> HIDE DEF first
<1>4. /\ shown \in Seq(Int \X Int) /\ Len(shown) = Len(first)
      /\ \A k \in 1 .. Len(first) : shown[k] = <<Rounded(first[k][1], precision), first[k][2]>>
  BY <1>3, CheckedLevels DEF first, levels
<1>5. \A k \in 1 .. Len(shown) : \E i \in kept :
        /\ shown[k] = <<Rounded(prices[i], precision), volumes[i]>>
        /\ k = 1 => \A j \in kept : i <= j
  <2> SUFFICES ASSUME NEW k \in 1 .. Len(shown)
               PROVE  \E i \in kept : /\ shown[k] = <<Rounded(prices[i], precision), volumes[i]>>
                                      /\ k = 1 => \A j \in kept : i <= j
    OBVIOUS
  <2>1. k \in 1 .. Len(levels) /\ first[k] = levels[k]
    BY <1>3, <1>4
  <2>2. PICK i \in kept : levels[k] = <<prices[i], volumes[i]>> /\ (k = 1 => \A j \in kept : i <= j)
    BY <1>1, <2>1
  <2>3. first[k][1] = prices[i] /\ first[k][2] = volumes[i]
    BY <2>1, <2>2
  <2>4. k \in 1 .. Len(first)
    BY <1>4
  <2>5. shown[k] = <<Rounded(first[k][1], precision), first[k][2]>>
    BY <1>4, <2>4
  <2>6. shown[k] = <<Rounded(prices[i], precision), volumes[i]>>
    BY <2>3, <2>5
  <2>7. QED
    BY <2>2, <2>6
<1>6. \A k \in 1 .. Len(shown) : shown[k] \in held
  BY <1>5 DEF Held, kept
<1>7. IsFiniteSet(held) /\ Cardinality(held) <= Len(levels) /\ Cardinality(held) \in Nat
  <2> DEFINE f == [i \in kept |-> <<Rounded(prices[i], precision), volumes[i]>>]
  <2>1. f \in Surjection(kept, held)
    BY DEF Surjection, Held, kept
  <2>2. QED
    BY <1>1, <2>1, FS_Surjection, FS_CardinalityType
<1>8. ASSUME Len(shown) < Cardinality(held)
      PROVE  Len(shown) = DepthLen
  BY <1>1, <1>2, <1>3, <1>4, <1>7, <1>8
<1>9. ASSUME held # {}
      PROVE  \E i \in kept : /\ shown[1] = <<Rounded(prices[i], precision), volumes[i]>>
                             /\ \A j \in kept : i <= j
  <2>1. kept # {}
    BY <1>9 DEF Held, kept
  <2>2. 1 \in 1 .. Len(levels)
    BY <1>1, <2>1
  <2>3. 1 \in 1 .. Len(shown)
    BY <1>1, <1>2, <1>3, <1>4, <2>2
  <2>4. QED
    BY <1>5, <2>3
<1>10. QED
  BY <1>4, <1>6, <1>8, <1>9 DEF FirstOf, kept

-----------------------------------------------------------------------------
(* What the parsers make of a book. *)

\* A frame that reaches the three parsers.
BookFrame(frame) == frame.type = "bidask" /\ IncomingDecodes(frame) /\ Usable(frame)

\* The levels of its two sides that have a volume.
Bids(frame) == Held(frame.data.bid_price, frame.data.bid_volume, Precisions[frame.code])
Asks(frame) == Held(frame.data.ask_price, frame.data.ask_volume, Precisions[frame.code])

\* The best of them.
TopBid(level, frame) == level \in Bids(frame) /\ \A l \in Bids(frame) : l[1] <= level[1]
TopAsk(level, frame) == level \in Asks(frame) /\ \A l \in Asks(frame) : l[1] >= level[1]

\* A part of a side that misses a level only because it is full.
Top(shown, side) ==
  /\ Range(shown) \subseteq side
  /\ Len(shown) < Cardinality(side) => Len(shown) = DepthLen

\* What a quote, a depth snapshot and the book show of a frame.
Quoted(piece, frame) ==
  piece \in QuoteTick /\ TopBid(piece.bid, frame) /\ TopAsk(piece.ask, frame)

Pictured(piece, frame) ==
  /\ Top(piece.bids, Bids(frame)) /\ Top(piece.asks, Asks(frame))
  /\ Bids(frame) # {} => TopBid(piece.bids[1], frame)
  /\ Asks(frame) # {} => TopAsk(piece.asks[1], frame)

Book(frame) == [side \in {"Buy", "Sell"} |-> IF side = "Buy" THEN Bids(frame) ELSE Asks(frame)]

\* Whatever the book was before, it is the frame's afterwards.
Replaced(piece, frame) ==
  \A old : DOMAIN old = {"Buy", "Sell"} => Applied(old, piece.deltas) = Book(frame)

\* The columns of such a frame.
LEMMA BookColumns ==
  ASSUME NEW f \in DOMAIN Frames, BookFrame(Frames[f])
  PROVE  LET data == Frames[f].data
         IN /\ data.bid_price \in Seq(Int) /\ data.bid_volume \in Seq(Int)
            /\ data.ask_price \in Seq(Int) /\ data.ask_volume \in Seq(Int)
            /\ Precisions[Frames[f].code] \in 0 .. 2
            /\ \A i, j \in Kept(data.bid_price, data.bid_volume) :
                 i <= j => data.bid_price[j] <= data.bid_price[i]
            /\ \A i, j \in Kept(data.ask_price, data.ask_volume) :
                 i <= j => data.ask_price[i] <= data.ask_price[j]
<1> DEFINE data == Frames[f].data
<1>1. Frames[f].type = "bidask" /\ Decodes(data, WsBidAskData)
      /\ Frames[f].code \in DOMAIN Precisions
  BY DEF BookFrame, IncomingDecodes, Usable
<1>2. \A column \in {"bid_price", "bid_volume", "ask_price", "ask_volume"} :
        column \in WsBidAskData \ {"timestamp"}
  BY DEF WsBidAskData
<1>3. \A column \in WsBidAskData \ {"timestamp"} : data[column] \in Seq(Int)
  BY <1>1, FrameAssumption
<1>4. /\ \A i, j \in Kept(data.bid_price, data.bid_volume) :
           i <= j => data.bid_price[j] <= data.bid_price[i]
      /\ \A i, j \in Kept(data.ask_price, data.ask_volume) :
           i <= j => data.ask_price[i] <= data.ask_price[j]
  BY <1>1, FrameAssumption
<1>5. QED
  BY <1>1, <1>2, <1>3, <1>4, MarketAssumption

\* The first position that is kept has the best price of its side.
LEMMA FirstIsTop ==
  ASSUME NEW f \in DOMAIN Frames, BookFrame(Frames[f])
  PROVE  LET frame == Frames[f]
             data  == frame.data
             p     == Precisions[frame.code]
         IN /\ \A i \in Kept(data.bid_price, data.bid_volume) :
                 (\A j \in Kept(data.bid_price, data.bid_volume) : i <= j)
                   => TopBid(<<Rounded(data.bid_price[i], p), data.bid_volume[i]>>, frame)
            /\ \A i \in Kept(data.ask_price, data.ask_volume) :
                 (\A j \in Kept(data.ask_price, data.ask_volume) : i <= j)
                   => TopAsk(<<Rounded(data.ask_price[i], p), data.ask_volume[i]>>, frame)
<1> DEFINE frame == Frames[f]
           data  == frame.data
           p     == Precisions[frame.code]
<1>1. /\ data.bid_price \in Seq(Int) /\ data.bid_volume \in Seq(Int)
      /\ data.ask_price \in Seq(Int) /\ data.ask_volume \in Seq(Int) /\ p \in 0 .. 2
  BY BookColumns
<1>2. ASSUME NEW i \in Kept(data.bid_price, data.bid_volume),
             \A j \in Kept(data.bid_price, data.bid_volume) : i <= j
      PROVE  TopBid(<<Rounded(data.bid_price[i], p), data.bid_volume[i]>>, frame)
  <2>1. ASSUME NEW j \in Kept(data.bid_price, data.bid_volume)
        PROVE  Rounded(data.bid_price[j], p) <= Rounded(data.bid_price[i], p)
    <3>1. data.bid_price[j] <= data.bid_price[i]
      BY <1>2, BookColumns
    <3>2. data.bid_price[j] \in Int /\ data.bid_price[i] \in Int
      BY <1>1, LevelsKept
    <3>3. QED
      BY <1>1, <3>1, <3>2, RoundedMonotone
  <2>2. QED
    BY <1>2, <2>1 DEF TopBid, Bids, Held
<1>3. ASSUME NEW i \in Kept(data.ask_price, data.ask_volume),
             \A j \in Kept(data.ask_price, data.ask_volume) : i <= j
      PROVE  TopAsk(<<Rounded(data.ask_price[i], p), data.ask_volume[i]>>, frame)
  <2>1. ASSUME NEW j \in Kept(data.ask_price, data.ask_volume)
        PROVE  Rounded(data.ask_price[j], p) >= Rounded(data.ask_price[i], p)
    <3>1. data.ask_price[i] <= data.ask_price[j]
      BY <1>3, BookColumns
    <3>2. data.ask_price[j] \in Int /\ data.ask_price[i] \in Int
      BY <1>1, LevelsKept
    <3>3. Rounded(data.ask_price[i], p) <= Rounded(data.ask_price[j], p)
          /\ Rounded(data.ask_price[i], p) \in Int /\ Rounded(data.ask_price[j], p) \in Int
      BY <1>1, <3>1, <3>2, RoundedMonotone
    <3>4. QED
      BY <3>3
  <2>2. QED
    BY <1>3, <2>1 DEF TopAsk, Asks, Held
<1>4. QED
  BY <1>2, <1>3

\* The quote has the top of the book.
LEMMA QuoteRight ==
  ASSUME NEW f \in DOMAIN Frames, BookFrame(Frames[f]), NEW piece,
         piece = parse_ws_bidask_to_quote_tick(Frames[f].data, Precisions[Frames[f].code]),
         piece # Err
  PROVE  piece.kind = "quote" /\ Quoted(piece, Frames[f])
<1> DEFINE frame == Frames[f]
           data  == frame.data
           p     == Precisions[frame.code]
           bid   == <<try_price(data.bid_price[1], p), try_qty(data.bid_volume[1])>>
           ask   == <<try_price(data.ask_price[1], p), try_qty(data.ask_volume[1])>>
<1>1. /\ data.bid_price \in Seq(Int) /\ data.bid_volume \in Seq(Int)
      /\ data.ask_price \in Seq(Int) /\ data.ask_volume \in Seq(Int) /\ p \in 0 .. 2
  BY BookColumns
<1>2. /\ \A column \in WsBidAskData \ {"timestamp"} : data[column] # <<>>
      /\ ~NoTop(data) /\ Err \notin {bid[1], bid[2], ask[1], ask[2]}
      /\ piece = [kind |-> "quote", bid |-> bid, ask |-> ask]
  BY DEF parse_ws_bidask_to_quote_tick
<1>3. data.bid_price # <<>> /\ data.bid_volume # <<>> /\ data.ask_price # <<>>
      /\ data.ask_volume # <<>>
  BY <1>2 DEF WsBidAskData
<1>4. /\ 1 \in DOMAIN data.bid_price /\ 1 \in DOMAIN data.bid_volume
      /\ 1 \in DOMAIN data.ask_price /\ 1 \in DOMAIN data.ask_volume
  <2>1. \A s \in Seq(Int) : s # <<>> => 1 \in DOMAIN s
    OBVIOUS
  <2>2. QED
    BY <1>1, <1>3, <2>1
<1>5. /\ data.bid_price[1] \in Int /\ data.bid_volume[1] \in Int
      /\ data.ask_price[1] \in Int /\ data.ask_volume[1] \in Int
  <2>1. \A s \in Seq(Int) : 1 \in DOMAIN s => s[1] \in Int
    OBVIOUS
  <2>2. QED
    BY <1>1, <1>4, <2>1
<1>6. data.bid_volume[1] > 0 /\ data.ask_volume[1] > 0
  BY <1>2, <1>5 DEF NoTop
<1>7. /\ bid = <<Rounded(data.bid_price[1], p), data.bid_volume[1]>>
      /\ ask = <<Rounded(data.ask_price[1], p), data.ask_volume[1]>>
  <2>1. /\ try_price(data.bid_price[1], p) # Err /\ try_qty(data.bid_volume[1]) # Err
        /\ try_price(data.ask_price[1], p) # Err /\ try_qty(data.ask_volume[1]) # Err
    BY <1>2
  <2>2. QED
    BY <1>1, <1>5, <2>1, CheckedValues
<1>8. /\ 1 \in Kept(data.bid_price, data.bid_volume)
      /\ 1 \in Kept(data.ask_price, data.ask_volume)
  BY <1>4, <1>6 DEF Kept
<1>9. /\ \A j \in Kept(data.bid_price, data.bid_volume) : 1 <= j
      /\ \A j \in Kept(data.ask_price, data.ask_volume) : 1 <= j
  BY <1>1 DEF Kept
<1>10. TopBid(bid, frame) /\ TopAsk(ask, frame)
  BY <1>7, <1>8, <1>9, FirstIsTop
<1>11. piece.bid = bid /\ piece.ask = ask /\ piece.kind = "quote"
  BY <1>2
<1>12. piece \in QuoteTick
  <2>1. \A v \in Int : Rounded(v, p) \in Int
    <3>1. \A v \in Int : v <= v
      OBVIOUS
    <3>2. QED
      BY <1>1, <3>1, RoundedMonotone
  <2>2. bid \in Int \X Int /\ ask \in Int \X Int
    BY <1>5, <1>7, <2>1
  <2>3. QED
    BY <1>2, <2>2 DEF QuoteTick
<1>13. QED
  BY <1>10, <1>11, <1>12 DEF Quoted

\* The depth snapshot has the levels next to it.
LEMMA DepthRight ==
  ASSUME NEW f \in DOMAIN Frames, BookFrame(Frames[f]), NEW piece,
         piece = parse_ws_bidask_to_order_book_depth10(Frames[f].data, Precisions[Frames[f].code]),
         piece # Err
  PROVE  piece.kind = "depth" /\ Pictured(piece, Frames[f])
<1> DEFINE frame == Frames[f]
           data  == frame.data
           p     == Precisions[frame.code]
           bids  == Checked(FirstLevels(Levels(data.bid_price, data.bid_volume)), p)
           asks  == Checked(FirstLevels(Levels(data.ask_price, data.ask_volume)), p)
<1>1. /\ data.bid_price \in Seq(Int) /\ data.bid_volume \in Seq(Int)
      /\ data.ask_price \in Seq(Int) /\ data.ask_volume \in Seq(Int) /\ p \in 0 .. 2
  BY BookColumns
<1>2. bids # Err /\ asks # Err /\ piece = [kind |-> "depth", bids |-> bids, asks |-> asks]
  BY DEF parse_ws_bidask_to_order_book_depth10
<1>3. piece.kind = "depth" /\ piece.bids = bids /\ piece.asks = asks
  BY <1>2
<1>4. Top(bids, Bids(frame)) /\ (Bids(frame) # {} => TopBid(bids[1], frame))
  <2>1. PICK shown : shown = bids
    OBVIOUS
  <2>2. FirstOf(shown, data.bid_price, data.bid_volume, p)
    BY <1>1, <1>2, <2>1, FirstOfSide
  <2>3. Bids(frame) # {} => TopBid(shown[1], frame)
    BY <2>2, FirstIsTop DEF FirstOf, Bids
  <2>4. Top(shown, Bids(frame))
    <3>1. /\ shown \in Seq(Int \X Int) /\ \A k \in 1 .. Len(shown) : shown[k] \in Bids(frame)
          /\ Len(shown) < Cardinality(Bids(frame)) => Len(shown) = DepthLen
      BY <2>2 DEF FirstOf, Bids
    <3>2. DOMAIN shown = 1 .. Len(shown)
      BY <3>1
    <3>3. Range(shown) \subseteq Bids(frame)
      BY <3>1, <3>2 DEF Range
    <3>4. QED
      BY <3>1, <3>3 DEF Top
  <2>5. QED
    BY <2>1, <2>3, <2>4
<1>5. Top(asks, Asks(frame)) /\ (Asks(frame) # {} => TopAsk(asks[1], frame))
  <2>1. PICK shown : shown = asks
    OBVIOUS
  <2>2. FirstOf(shown, data.ask_price, data.ask_volume, p)
    BY <1>1, <1>2, <2>1, FirstOfSide
  <2>3. Asks(frame) # {} => TopAsk(shown[1], frame)
    BY <2>2, FirstIsTop DEF FirstOf, Asks
  <2>4. Top(shown, Asks(frame))
    <3>1. /\ shown \in Seq(Int \X Int) /\ \A k \in 1 .. Len(shown) : shown[k] \in Asks(frame)
          /\ Len(shown) < Cardinality(Asks(frame)) => Len(shown) = DepthLen
      BY <2>2 DEF FirstOf, Asks
    <3>2. DOMAIN shown = 1 .. Len(shown)
      BY <3>1
    <3>3. Range(shown) \subseteq Asks(frame)
      BY <3>1, <3>2 DEF Range
    <3>4. QED
      BY <3>1, <3>3 DEF Top
  <2>5. QED
    BY <2>1, <2>3, <2>4
<1>6. QED
  BY <1>3, <1>4, <1>5 DEF Pictured

\* u is s, then t, position by position.
Parts(u, s, t) ==
  /\ Len(u) = Len(s) + Len(t)
  /\ \A i \in 1 .. Len(u) :
       \/ i \in 1 .. Len(s) /\ u[i] = s[i]
       \/ \E k \in 1 .. Len(t) : i = Len(s) + k /\ u[i] = t[k]
  /\ \A i \in 1 .. Len(s) : i \in 1 .. Len(u) /\ u[i] = s[i]
  /\ \A k \in 1 .. Len(t) : Len(s) + k \in 1 .. Len(u) /\ u[Len(s) + k] = t[k]

\* Where the elements of a concatenation come from and go to.
LEMMA ConcatParts ==
  ASSUME NEW S, NEW s \in Seq(S), NEW t \in Seq(S)
  PROVE  s \o t \in Seq(S) /\ Parts(s \o t, s, t)
<1>1. \A i \in 1 .. Len(s \o t) :
        i \in 1 .. Len(s) \/ (i - Len(s) \in 1 .. Len(t) /\ i = Len(s) + (i - Len(s)))
  OBVIOUS
<1>2. \A i \in 1 .. Len(s) : i \in 1 .. Len(s \o t) /\ (s \o t)[i] = s[i]
  OBVIOUS
<1>3. \A k \in 1 .. Len(t) : Len(s) + k \in 1 .. Len(s \o t) /\ (s \o t)[Len(s) + k] = t[k]
  OBVIOUS
<1>4. s \o t \in Seq(S) /\ Len(s \o t) = Len(s) + Len(t)
  OBVIOUS
<1>5. \A i \in 1 .. Len(s \o t) :
        \/ i \in 1 .. Len(s) /\ (s \o t)[i] = s[i]
        \/ \E k \in 1 .. Len(t) : i = Len(s) + k /\ (s \o t)[i] = t[k]
  BY <1>1, <1>2, <1>3
<1>6. QED
  BY <1>2, <1>3, <1>4, <1>5 DEF Parts

\* Deltas and the sides they name.
Delta == [action : {"Clear", "Add"}, side : {"None", "Buy", "Sell"}, level : Int \X Int]

\* The deltas that add the levels of one side.
LEMMA AddsOf ==
  ASSUME NEW side \in {"Buy", "Sell"}, NEW levels \in Seq(Int \X Int)
  PROVE  /\ Adds(side, levels) \in Seq(Delta) /\ Len(Adds(side, levels)) = Len(levels)
         /\ \A k \in 1 .. Len(levels) : /\ Adds(side, levels)[k].action = "Add"
                                       /\ Adds(side, levels)[k].side = side
                                       /\ Adds(side, levels)[k].level = levels[k]
<1>1. Len(levels) \in Nat /\ DOMAIN levels = 1 .. Len(levels)
  OBVIOUS
<1>2. \A k \in 1 .. Len(levels) : [action |-> "Add", side |-> side, level |-> levels[k]] \in Delta
  BY DEF Delta
<1>3. QED
  BY <1>1, <1>2 DEF Adds

\* Deltas that clear the book, then add the levels of both sides.
Rebuilds(deltas, bids, asks) ==
  /\ 1 \in DOMAIN deltas /\ deltas[1].action = "Clear"
  /\ \A i \in DOMAIN deltas :
       \/ i = 1
       \/ \E k \in 1 .. Len(bids) : /\ deltas[i].action = "Add" /\ deltas[i].side = "Buy"
                                    /\ deltas[i].level = bids[k]
       \/ \E k \in 1 .. Len(asks) : /\ deltas[i].action = "Add" /\ deltas[i].side = "Sell"
                                    /\ deltas[i].level = asks[k]
  /\ \A k \in 1 .. Len(bids) : \E i \in DOMAIN deltas :
       1 < i /\ deltas[i].action = "Add" /\ deltas[i].side = "Buy" /\ deltas[i].level = bids[k]
  /\ \A k \in 1 .. Len(asks) : \E i \in DOMAIN deltas :
       1 < i /\ deltas[i].action = "Add" /\ deltas[i].side = "Sell" /\ deltas[i].level = asks[k]

\* A CLEAR in front, then each level of each side, and nothing else.
LEMMA DeltasOf ==
  ASSUME NEW bids \in Seq(Int \X Int), NEW asks \in Seq(Int \X Int),
         NEW deltas, deltas = Deltas(bids, asks)
  PROVE  Rebuilds(deltas, bids, asks)
<1> DEFINE buys  == Adds("Buy", bids)
           sells == Adds("Sell", asks)
           front == <<Clear>> \o buys
<1>1. /\ buys \in Seq(Delta) /\ Len(buys) = Len(bids)
      /\ \A k \in 1 .. Len(bids) : /\ buys[k].action = "Add" /\ buys[k].side = "Buy"
                                   /\ buys[k].level = bids[k]
  BY AddsOf
<1>2. /\ sells \in Seq(Delta) /\ Len(sells) = Len(asks)
      /\ \A k \in 1 .. Len(asks) : /\ sells[k].action = "Add" /\ sells[k].side = "Sell"
                                   /\ sells[k].level = asks[k]
  BY AddsOf
<1>3. deltas = front \o sells
  BY DEF Deltas
<1> HIDE DEF buys, sells
<1>4. Clear \in Delta /\ Clear.action = "Clear"
  BY DEF Clear, Delta
<1>5. <<Clear>> \in Seq(Delta) /\ Len(<<Clear>>) = 1 /\ <<Clear>>[1] = Clear
  BY <1>4
<1>6. /\ front \in Seq(Delta) /\ Len(front) = 1 + Len(buys)
      /\ \A i \in 1 .. Len(front) : i = 1 \/ \E k \in 1 .. Len(buys) : front[i] = buys[k]
      /\ 1 \in 1 .. Len(front) /\ front[1] = Clear
      /\ \A k \in 1 .. Len(buys) : 1 + k \in 1 .. Len(front) /\ front[1 + k] = buys[k]
  BY <1>1, <1>5, ConcatParts DEF Parts
<1> HIDE DEF front
<1>7. /\ DOMAIN deltas = 1 .. Len(front) + Len(sells)
      /\ \A i \in DOMAIN deltas : \/ i \in 1 .. Len(front) /\ deltas[i] = front[i]
                                 \/ \E k \in 1 .. Len(sells) : deltas[i] = sells[k]
      /\ \A i \in 1 .. Len(front) : i \in DOMAIN deltas /\ deltas[i] = front[i]
      /\ \A k \in 1 .. Len(sells) :
           Len(front) + k \in DOMAIN deltas /\ deltas[Len(front) + k] = sells[k]
  <2>1. front \in Seq(Delta) /\ sells \in Seq(Delta)
    BY <1>2, <1>6
  <2>2. deltas \in Seq(Delta) /\ Parts(deltas, front, sells)
    BY <1>3, <2>1, ConcatParts
  <2>3. DOMAIN deltas = 1 .. Len(deltas)
    BY <2>2
  <2>4. QED
    BY <2>2, <2>3 DEF Parts
<1>8. 1 \in DOMAIN deltas /\ deltas[1].action = "Clear"
  BY <1>4, <1>6, <1>7
<1>9. ASSUME NEW i \in DOMAIN deltas, i # 1
      PROVE  \/ \E k \in 1 .. Len(bids) : /\ deltas[i].action = "Add" /\ deltas[i].side = "Buy"
                                          /\ deltas[i].level = bids[k]
             \/ \E k \in 1 .. Len(asks) : /\ deltas[i].action = "Add" /\ deltas[i].side = "Sell"
                                          /\ deltas[i].level = asks[k]
  <2>1. \/ \E k \in 1 .. Len(bids) : deltas[i] = buys[k]
        \/ \E k \in 1 .. Len(asks) : deltas[i] = sells[k]
    <3>1. CASE i \in 1 .. Len(front) /\ deltas[i] = front[i]
      <4>1. PICK k \in 1 .. Len(buys) : front[i] = buys[k]
        BY <1>6, <1>9, <3>1
      <4>2. k \in 1 .. Len(bids) /\ deltas[i] = buys[k]
        BY <1>1, <3>1, <4>1
      <4>3. QED
        BY <4>2
    <3>2. CASE \E k \in 1 .. Len(sells) : deltas[i] = sells[k]
      BY <1>2, <3>2
    <3>3. QED
      BY <1>7, <3>1, <3>2
  <2>2. CASE \E k \in 1 .. Len(bids) : deltas[i] = buys[k]
    <3>1. PICK k \in 1 .. Len(bids) : deltas[i] = buys[k]
      BY <2>2
    <3>2. deltas[i].action = "Add" /\ deltas[i].side = "Buy" /\ deltas[i].level = bids[k]
      BY <1>1, <3>1
    <3>3. QED
      BY <3>2
  <2>3. CASE \E k \in 1 .. Len(asks) : deltas[i] = sells[k]
    <3>1. PICK k \in 1 .. Len(asks) : deltas[i] = sells[k]
      BY <2>3
    <3>2. deltas[i].action = "Add" /\ deltas[i].side = "Sell" /\ deltas[i].level = asks[k]
      BY <1>2, <3>1
    <3>3. QED
      BY <3>2
  <2>4. QED
    BY <2>1, <2>2, <2>3
<1>10. ASSUME NEW k \in 1 .. Len(bids)
       PROVE  \E i \in DOMAIN deltas : /\ 1 < i /\ deltas[i].action = "Add"
                                     /\ deltas[i].side = "Buy" /\ deltas[i].level = bids[k]
  <2>1. 1 + k \in DOMAIN deltas /\ deltas[1 + k] = buys[k] /\ 1 < 1 + k
    <3>1. 1 + k \in 1 .. Len(front) /\ front[1 + k] = buys[k]
      BY <1>1, <1>6
    <3>2. QED
      BY <1>7, <3>1
  <2>2. QED
    BY <1>1, <2>1
<1>11. ASSUME NEW k \in 1 .. Len(asks)
       PROVE  \E i \in DOMAIN deltas : /\ 1 < i /\ deltas[i].action = "Add"
                                     /\ deltas[i].side = "Sell" /\ deltas[i].level = asks[k]
  <2>1. /\ Len(front) + k \in DOMAIN deltas /\ deltas[Len(front) + k] = sells[k]
        /\ 1 < Len(front) + k
    BY <1>1, <1>2, <1>6, <1>7
  <2>2. QED
    BY <1>2, <2>1
<1>12. QED
  BY <1>8, <1>9, <1>10, <1>11 DEF Rebuilds

\* They leave nothing of the book before.
LEMMA DeltasApplied ==
  ASSUME NEW bids \in Seq(Int \X Int), NEW asks \in Seq(Int \X Int),
         NEW old, DOMAIN old = {"Buy", "Sell"}
  PROVE  Applied(old, Deltas(bids, asks))
           = [side \in {"Buy", "Sell"} |->
                IF side = "Buy" THEN {bids[k] : k \in 1 .. Len(bids)}
                                ELSE {asks[k] : k \in 1 .. Len(asks)}]
<1> DEFINE deltas       == Deltas(bids, asks)
           cleared      == {i \in DOMAIN deltas : deltas[i].action = "Clear"}
           added(side)  == {i \in DOMAIN deltas : deltas[i].action = "Add" /\ deltas[i].side = side}
           levels(side) == {deltas[i].level : i \in {j \in added(side) : \A c \in cleared : c < j}}
<1>0. Rebuilds(deltas, bids, asks)
  BY DeltasOf
<1>1. Applied(old, deltas)
        = [side \in DOMAIN old |-> (IF cleared = {} THEN old[side] ELSE {}) \cup levels(side)]
  BY DEF Applied
<1> HIDE DEF deltas
<1>2. /\ 1 \in DOMAIN deltas /\ deltas[1].action = "Clear"
      /\ \A i \in DOMAIN deltas :
           \/ i = 1
           \/ \E k \in 1 .. Len(bids) : /\ deltas[i].action = "Add" /\ deltas[i].side = "Buy"
                                        /\ deltas[i].level = bids[k]
           \/ \E k \in 1 .. Len(asks) : /\ deltas[i].action = "Add" /\ deltas[i].side = "Sell"
                                        /\ deltas[i].level = asks[k]
      /\ \A k \in 1 .. Len(bids) : \E i \in DOMAIN deltas :
           1 < i /\ deltas[i].action = "Add" /\ deltas[i].side = "Buy" /\ deltas[i].level = bids[k]
      /\ \A k \in 1 .. Len(asks) : \E i \in DOMAIN deltas :
           1 < i /\ deltas[i].action = "Add" /\ deltas[i].side = "Sell" /\ deltas[i].level = asks[k]
  BY <1>0 DEF Rebuilds
<1>3. cleared = {1}
  BY <1>2
<1>4. levels("Buy") = {bids[k] : k \in 1 .. Len(bids)}
  <2>1. ASSUME NEW i \in added("Buy")
        PROVE  \E k \in 1 .. Len(bids) : deltas[i].level = bids[k]
    BY <1>2
  <2>2. ASSUME NEW k \in 1 .. Len(bids)
        PROVE  \E i \in added("Buy") : 1 < i /\ deltas[i].level = bids[k]
    BY <1>2
  <2>3. levels("Buy") \subseteq {bids[k] : k \in 1 .. Len(bids)}
    BY <2>1
  <2>4. ASSUME NEW k \in 1 .. Len(bids)
        PROVE  bids[k] \in levels("Buy")
    <3>1. PICK i \in added("Buy") : 1 < i /\ deltas[i].level = bids[k]
      BY <2>2
    <3>2. \A c \in cleared : c < i
      BY <1>3, <3>1
    <3>3. QED
      BY <3>1, <3>2
  <2>5. QED
    BY <2>3, <2>4
<1>5. levels("Sell") = {asks[k] : k \in 1 .. Len(asks)}
  <2>1. ASSUME NEW i \in added("Sell")
        PROVE  \E k \in 1 .. Len(asks) : deltas[i].level = asks[k]
    BY <1>2
  <2>2. ASSUME NEW k \in 1 .. Len(asks)
        PROVE  \E i \in added("Sell") : 1 < i /\ deltas[i].level = asks[k]
    BY <1>2
  <2>3. levels("Sell") \subseteq {asks[k] : k \in 1 .. Len(asks)}
    BY <2>1
  <2>4. ASSUME NEW k \in 1 .. Len(asks)
        PROVE  asks[k] \in levels("Sell")
    <3>1. PICK i \in added("Sell") : 1 < i /\ deltas[i].level = asks[k]
      BY <2>2
    <3>2. \A c \in cleared : c < i
      BY <1>3, <3>1
    <3>3. QED
      BY <3>1, <3>2
  <2>5. QED
    BY <2>3, <2>4
<1> HIDE DEF cleared, levels
<1>6. \A side \in {"Buy", "Sell"} :
        (IF cleared = {} THEN old[side] ELSE {}) \cup levels(side)
          = IF side = "Buy" THEN {bids[k] : k \in 1 .. Len(bids)}
                            ELSE {asks[k] : k \in 1 .. Len(asks)}
  BY <1>3, <1>4, <1>5
<1>7. QED
  BY <1>1, <1>6 DEF deltas

\* The deltas make the book that of their frame.
LEMMA DeltasRight ==
  ASSUME NEW f \in DOMAIN Frames, BookFrame(Frames[f]), NEW piece,
         piece = parse_ws_bidask_to_order_book_deltas(Frames[f].data, Precisions[Frames[f].code]),
         piece # Err
  PROVE  piece.kind = "deltas" /\ Replaced(piece, Frames[f])
<1> DEFINE frame == Frames[f]
           data  == frame.data
           p     == Precisions[frame.code]
           bids  == Checked(Levels(data.bid_price, data.bid_volume), p)
           asks  == Checked(Levels(data.ask_price, data.ask_volume), p)
<1>1. /\ data.bid_price \in Seq(Int) /\ data.bid_volume \in Seq(Int)
      /\ data.ask_price \in Seq(Int) /\ data.ask_volume \in Seq(Int) /\ p \in 0 .. 2
  BY BookColumns
<1>2. bids # Err /\ asks # Err /\ piece = [kind |-> "deltas", deltas |-> Deltas(bids, asks)]
  BY DEF parse_ws_bidask_to_order_book_deltas
<1>3. /\ bids \in Seq(Int \X Int) /\ {bids[k] : k \in 1 .. Len(bids)} = Bids(frame)
      /\ asks \in Seq(Int \X Int) /\ {asks[k] : k \in 1 .. Len(asks)} = Asks(frame)
  BY <1>1, <1>2, WholeSide DEF Bids, Asks
<1> HIDE DEF bids, asks
<1>4. piece.kind = "deltas" /\ piece.deltas = Deltas(bids, asks)
  BY <1>2
<1>5. ASSUME NEW old, DOMAIN old = {"Buy", "Sell"}
      PROVE  Applied(old, piece.deltas) = Book(frame)
  <2>1. PICK b \in Seq(Int \X Int), a \in Seq(Int \X Int) : b = bids /\ a = asks
    BY <1>3
  <2>2. Applied(old, Deltas(b, a))
          = [side \in {"Buy", "Sell"} |->
               IF side = "Buy" THEN {b[k] : k \in 1 .. Len(b)} ELSE {a[k] : k \in 1 .. Len(a)}]
    BY <1>5, DeltasApplied
  <2>3. QED
    BY <1>3, <1>4, <2>1, <2>2 DEF Book
<1>6. QED
  BY <1>4, <1>5 DEF Replaced

\* A book whose levels fit and whose two tops have a volume gives a quote.
LEMMA QuoteDue ==
  ASSUME NEW f \in DOMAIN Frames, BookFrame(Frames[f]),
         parse_ws_bidask_to_order_book_deltas(Frames[f].data, Precisions[Frames[f].code]) # Err,
         1 \in Kept(Frames[f].data.bid_price, Frames[f].data.bid_volume),
         1 \in Kept(Frames[f].data.ask_price, Frames[f].data.ask_volume)
  PROVE  parse_ws_bidask_to_quote_tick(Frames[f].data, Precisions[Frames[f].code]) # Err
<1> DEFINE data == Frames[f].data
           p    == Precisions[Frames[f].code]
           bid  == <<try_price(data.bid_price[1], p), try_qty(data.bid_volume[1])>>
           ask  == <<try_price(data.ask_price[1], p), try_qty(data.ask_volume[1])>>
<1>1. /\ data.bid_price \in Seq(Int) /\ data.bid_volume \in Seq(Int)
      /\ data.ask_price \in Seq(Int) /\ data.ask_volume \in Seq(Int) /\ p \in 0 .. 2
  BY BookColumns
<1>2. /\ Checked(Levels(data.bid_price, data.bid_volume), p) # Err
      /\ Checked(Levels(data.ask_price, data.ask_volume), p) # Err
  BY DEF parse_ws_bidask_to_order_book_deltas
<1>3. /\ try_price(data.bid_price[1], p) # Err /\ try_qty(data.bid_volume[1]) # Err
      /\ try_price(data.ask_price[1], p) # Err /\ try_qty(data.ask_volume[1]) # Err
  BY <1>1, <1>2, WholeSide
<1>4. /\ 1 \in DOMAIN data.bid_price /\ 1 \in DOMAIN data.bid_volume /\ data.bid_volume[1] > 0
      /\ 1 \in DOMAIN data.ask_price /\ 1 \in DOMAIN data.ask_volume /\ data.ask_volume[1] > 0
  BY DEF Kept
<1>5. /\ data.bid_price[1] \in Int /\ data.bid_volume[1] \in Int
      /\ data.ask_price[1] \in Int /\ data.ask_volume[1] \in Int
  <2>1. \A s \in Seq(Int) : 1 \in DOMAIN s => s[1] \in Int
    OBVIOUS
  <2>2. QED
    BY <1>1, <1>4, <2>1
<1>6. \A column \in WsBidAskData \ {"timestamp"} : data[column] # <<>>
  BY <1>4 DEF WsBidAskData
<1>7. ~NoTop(data) /\ Err \notin {bid[1], bid[2], ask[1], ask[2]}
  BY <1>3, <1>4, <1>5 DEF NoTop
<1>8. [kind |-> "quote", bid |-> bid, ask |-> ask] # Err
  <2>1. /\ bid = <<Rounded(data.bid_price[1], p), data.bid_volume[1]>>
        /\ ask = <<Rounded(data.ask_price[1], p), data.ask_volume[1]>>
    BY <1>1, <1>3, <1>5, CheckedValues
  <2>2. \A v \in Int : Rounded(v, p) \in Int
    <3>1. \A v \in Int : v <= v
      OBVIOUS
    <3>2. QED
      BY <1>1, <3>1, RoundedMonotone
  <2>3. bid \in Int \X Int /\ ask \in Int \X Int
    BY <1>5, <2>1, <2>2
  <2>4. QED
    BY <2>3, QuoteAssumption DEF QuoteTick
<1>9. QED
  BY <1>6, <1>7, <1>8 DEF parse_ws_bidask_to_quote_tick

-----------------------------------------------------------------------------
(* What the loop makes of a frame. *)

\* A sequence, of whatever.
IsSeq(s) == \E S : s \in Seq(S)

\* A piece shows its frame.
Right(piece, frame) ==
  /\ piece.kind \in Outputs \cup {"trade", "event"}
  /\ piece.kind = "quote"  => Quoted(piece, frame)
  /\ piece.kind = "depth"  => Pictured(piece, frame)
  /\ piece.kind = "deltas" => BookFrame(frame) /\ Replaced(piece, frame)
  /\ piece.kind = "event"  => OrderEvent(frame) /\ piece = EventOf(frame)

\* Both sides of the frame show a level at the top.
TwoSided(frame) ==
  /\ 1 \in Kept(frame.data.bid_price, frame.data.bid_volume)
  /\ 1 \in Kept(frame.data.ask_price, frame.data.ask_volume)

\* The pieces of a frame are its views, and the quote, if there is one to give,
\* comes before the deltas.
Fair(pieces, frame) ==
  /\ IsSeq(pieces)
  /\ \A i \in DOMAIN pieces : Right(pieces[i], frame)
  /\ \A i \in DOMAIN pieces :
       pieces[i].kind = "deltas" /\ "quote" \in emit /\ TwoSided(frame)
         => \E j \in 1 .. i - 1 : pieces[j].kind = "quote"

\* One piece that is no view of a book: a trade, or the event of its frame.
LEMMA FairOne ==
  ASSUME NEW piece, NEW frame, piece.kind \in {"trade", "event"},
         piece.kind = "event" => OrderEvent(frame) /\ piece = EventOf(frame)
  PROVE  Fair(<<piece>>, frame)
<1>1. <<piece>> \in Seq({piece})
  OBVIOUS
<1>2. DOMAIN <<piece>> = {1} /\ <<piece>>[1] = piece
  OBVIOUS
<1>3. QED
  BY <1>1, <1>2 DEF Fair, IsSeq, Right

\* And none, whatever the frame.
LEMMA FairNone ==
  ASSUME NEW frame
  PROVE  Fair(<<>>, frame)
<1>1. <<>> \in Seq({}) /\ DOMAIN <<>> = {}
  OBVIOUS
<1>2. QED
  BY <1>1 DEF Fair, IsSeq

\* Every element of u is one of s or one of t.
FromEither(u, s, t) ==
  \A i \in 1 .. Len(u) : \/ i \in 1 .. Len(s) /\ u[i] = s[i]
                        \/ \E k \in 1 .. Len(t) : u[i] = t[k]

\* So it is when u is s, then t.
LEMMA ConcatFrom ==
  ASSUME NEW S, NEW s \in Seq(S), NEW t \in Seq(S), NEW u, u = s \o t
  PROVE  FromEither(u, s, t)
BY ConcatParts DEF FromEither, Parts

\* The three views of a book, each of them asked for and given or not.
LEMMA FairBook ==
  ASSUME NEW f \in DOMAIN Frames, BookFrame(Frames[f]), NEW pieces, pieces = Pieces(Frames[f])
  PROVE  Fair(pieces, Frames[f])
<1> DEFINE frame  == Frames[f]
           p      == Precisions[frame.code]
           quote  == parse_ws_bidask_to_quote_tick(frame.data, p)
           depth  == parse_ws_bidask_to_order_book_depth10(frame.data, p)
           deltas == parse_ws_bidask_to_order_book_deltas(frame.data, p)
           first  == IF "quote" \in emit THEN Some(quote) ELSE <<>>
           second == IF "depth" \in emit THEN Some(depth) ELSE <<>>
           third  == IF "deltas" \in emit THEN Some(deltas) ELSE <<>>
           S      == {quote, depth, deltas}
<1>1. pieces = first \o second \o third
  <2>1. frame.type = "bidask" /\ Usable(frame)
    BY DEF BookFrame
  <2>2. /\ Emitted("quote", frame.data, p) = Some(quote)
        /\ Emitted("depth", frame.data, p) = Some(depth)
        /\ Emitted("deltas", frame.data, p) = Some(deltas)
    BY DEF Emitted
  <2>3. QED
    BY <2>1, <2>2 DEF Pieces, OrderEvent
<1>2. /\ quote # Err => quote.kind = "quote" /\ Quoted(quote, frame)
      /\ depth # Err => depth.kind = "depth" /\ Pictured(depth, frame)
      /\ deltas # Err => deltas.kind = "deltas" /\ Replaced(deltas, frame)
      /\ deltas # Err /\ TwoSided(frame) => quote # Err
  BY QuoteRight, DepthRight, DeltasRight, QuoteDue DEF TwoSided
<1> HIDE DEF quote, depth, deltas, p, frame
<1>3. /\ first  = IF "quote" \in emit /\ quote # Err THEN <<quote>> ELSE <<>>
      /\ second = IF "depth" \in emit /\ depth # Err THEN <<depth>> ELSE <<>>
      /\ third  = IF "deltas" \in emit /\ deltas # Err THEN <<deltas>> ELSE <<>>
  BY DEF Some
<1> HIDE DEF first, second, third
<1>4. first \in Seq(S) /\ second \in Seq(S) /\ third \in Seq(S)
  <2>1. <<quote>> \in Seq(S) /\ <<depth>> \in Seq(S) /\ <<deltas>> \in Seq(S) /\ <<>> \in Seq(S)
    OBVIOUS
  <2>2. QED
    BY <1>3, <2>1
<1> HIDE DEF S
<1>5. /\ \A i \in 1 .. Len(first) : first[i] = quote /\ quote # Err /\ i = 1
      /\ \A i \in 1 .. Len(second) : second[i] = depth /\ depth # Err
      /\ \A i \in 1 .. Len(third) : third[i] = deltas /\ deltas # Err
      /\ "quote" \in emit /\ quote # Err => 1 \in 1 .. Len(first) /\ first[1] = quote
  <2>1. Len(<<quote>>) = 1 /\ <<quote>>[1] = quote
    OBVIOUS
  <2>2. Len(<<depth>>) = 1 /\ <<depth>>[1] = depth
    OBVIOUS
  <2>3. Len(<<deltas>>) = 1 /\ <<deltas>>[1] = deltas
    OBVIOUS
  <2>4. \A i \in 1 .. 1 : i = 1
    OBVIOUS
  <2>5. 1 .. Len(<<>>) = {} /\ 1 \in 1 .. 1
    OBVIOUS
  <2>6. /\ \A i \in 1 .. Len(first) : first[i] = quote /\ quote # Err /\ i = 1
        /\ "quote" \in emit /\ quote # Err => 1 \in 1 .. Len(first) /\ first[1] = quote
    <3>1. \/ first = <<quote>> /\ quote # Err
          \/ first = <<>> /\ ~("quote" \in emit /\ quote # Err)
      BY <1>3
    <3>2. CASE first = <<quote>> /\ quote # Err
      BY <2>1, <2>4, <2>5, <3>2
    <3>3. CASE first = <<>> /\ ~("quote" \in emit /\ quote # Err)
      BY <2>5, <3>3
    <3>4. QED
      BY <3>1, <3>2, <3>3
  <2>7. \A i \in 1 .. Len(second) : second[i] = depth /\ depth # Err
    <3>1. \/ second = <<depth>> /\ depth # Err
          \/ second = <<>>
      BY <1>3
    <3>2. CASE second = <<depth>> /\ depth # Err
      BY <2>2, <2>4, <3>2
    <3>3. CASE second = <<>>
      BY <2>5, <3>3
    <3>4. QED
      BY <3>1, <3>2, <3>3
  <2>8. \A i \in 1 .. Len(third) : third[i] = deltas /\ deltas # Err
    <3>1. \/ third = <<deltas>> /\ deltas # Err
          \/ third = <<>>
      BY <1>3
    <3>2. CASE third = <<deltas>> /\ deltas # Err
      BY <2>3, <2>4, <3>2
    <3>3. CASE third = <<>>
      BY <2>5, <3>3
    <3>4. QED
      BY <3>1, <3>2, <3>3
  <2>9. QED
    BY <2>6, <2>7, <2>8
<1> DEFINE front == first \o second
<1>6. /\ front \in Seq(S) /\ pieces \in Seq(S)
      /\ DOMAIN pieces = 1 .. Len(front) + Len(third)
  <2>1. front \in Seq(S)
    BY <1>4, ConcatParts DEF Parts
  <2>2. front \o third \in Seq(S) /\ Len(front \o third) = Len(front) + Len(third)
    BY <1>4, <2>1, ConcatParts DEF Parts
  <2>3. pieces = front \o third
    BY <1>1
  <2>4. QED
    BY <2>1, <2>2, <2>3
<1>7. ASSUME NEW i \in DOMAIN pieces
      PROVE  \/ pieces[i] = quote /\ quote # Err
             \/ pieces[i] = depth /\ depth # Err
             \/ pieces[i] = deltas /\ deltas # Err
  <2> DEFINE all == front \o third
  <2>0. pieces = all /\ i \in 1 .. Len(all)
    <3>1. pieces = all
      BY <1>1
    <3>2. DOMAIN pieces = 1 .. Len(pieces)
      BY <1>6
    <3>3. QED
      BY <3>1, <3>2
  <2>a. FromEither(all, front, third) /\ FromEither(front, first, second)
    BY <1>4, <1>6, ConcatFrom
  <2> HIDE DEF all, front
  <2>1. \/ i \in 1 .. Len(front) /\ pieces[i] = front[i]
        \/ \E k \in 1 .. Len(third) : pieces[i] = third[k]
    BY <2>0, <2>a DEF FromEither
  <2>2. ASSUME i \in 1 .. Len(front)
        PROVE  \/ front[i] \in {first[k] : k \in 1 .. Len(first)}
               \/ front[i] \in {second[k] : k \in 1 .. Len(second)}
    BY <2>2, <2>a DEF FromEither
  <2>3. QED
    BY <1>5, <2>1, <2>2
<1>8. ASSUME "quote" \in emit, quote # Err
      PROVE  1 \in DOMAIN pieces /\ pieces[1] = quote
  <2>1. 1 \in 1 .. Len(front) /\ front[1] = quote
    BY <1>4, <1>5, <1>8, ConcatParts DEF Parts
  <2>2. QED
    BY <1>1, <1>4, <1>6, <2>1, ConcatParts DEF Parts
<1>9. \A i \in DOMAIN pieces : Right(pieces[i], frame)
  BY <1>2, <1>7 DEF Right, Outputs, frame
<1>10. ASSUME NEW i \in DOMAIN pieces, pieces[i].kind = "deltas", "quote" \in emit, TwoSided(frame)
       PROVE  \E j \in 1 .. i - 1 : pieces[j].kind = "quote"
  <2>1. quote # Err
    BY <1>2, <1>7, <1>10
  <2>2. pieces[1] = quote /\ quote.kind = "quote"
    BY <1>2, <1>8, <1>10, <2>1
  <2>3. i # 1 /\ i \in Nat /\ i >= 1
    BY <1>6, <1>10, <2>2
  <2>4. 1 \in 1 .. i - 1
    BY <2>3
  <2>5. QED
    BY <2>2, <2>4
<1>11. QED
  BY <1>6, <1>9, <1>10 DEF Fair, IsSeq, frame

\* Whatever the frame is.
LEMMA PiecesFair ==
  ASSUME NEW f \in DOMAIN Frames, NEW pieces,
         pieces = IF IncomingDecodes(Frames[f]) THEN Pieces(Frames[f]) ELSE <<>>,
         pieces # Panic
  PROVE  Fair(pieces, Frames[f])
<1> DEFINE frame == Frames[f]
           trade == parse_ws_tick_to_trade_tick(frame.code, frame.data, Precisions[frame.code])
<1>1. CASE ~IncomingDecodes(frame)
  BY <1>1, FairNone
<1>2. CASE IncomingDecodes(frame) /\ frame.type = "tick" /\ Usable(frame)
  <2>1. pieces = IF trade = Panic THEN Panic ELSE Some(trade)
    BY <1>2 DEF Pieces, OrderEvent
  <2>2. trade \notin {Panic, Err} => trade.kind = "trade"
    BY DEF parse_ws_tick_to_trade_tick
  <2> HIDE DEF trade
  <2>3. pieces = <<>> \/ (trade \notin {Panic, Err} /\ pieces = <<trade>>)
    BY <2>1 DEF Some
  <2>4. ASSUME trade \notin {Panic, Err}
        PROVE  Fair(<<trade>>, frame)
    <3>1. trade.kind = "trade"
      BY <2>2, <2>4
    <3>2. QED
      BY <3>1, FairOne
  <2>5. QED
    BY <2>3, <2>4, FairNone
<1>3. CASE IncomingDecodes(frame) /\ frame.type = "bidask" /\ Usable(frame)
  <2>1. BookFrame(Frames[f]) /\ pieces = Pieces(Frames[f])
    BY <1>3 DEF BookFrame
  <2>2. QED
    BY <2>1, FairBook
<1>4. CASE IncomingDecodes(frame) /\ OrderEvent(frame)
  <2>1. pieces = <<EventOf(frame)>> /\ EventOf(frame).kind = "event"
    BY <1>4 DEF Pieces, OrderEvent, EventOf
  <2>2. PICK event : event = EventOf(frame)
    OBVIOUS
  <2>3. Fair(<<event>>, frame)
    BY <1>4, <2>1, <2>2, FairOne
  <2>4. QED
    BY <2>1, <2>2, <2>3
<1>5. CASE /\ IncomingDecodes(frame)
           /\ ~(frame.type = "tick" /\ Usable(frame))
           /\ ~(frame.type = "bidask" /\ Usable(frame))
           /\ ~OrderEvent(frame)
  <2>1. pieces = <<>>
    BY <1>5 DEF Pieces
  <2>2. QED
    BY <2>1, FairNone
<1>6. QED
  BY <1>1, <1>2, <1>3, <1>4, <1>5

-----------------------------------------------------------------------------
(* The inductive invariant. *)

\* A piece on its way, or already taken, is a view of the frame it names.
Made(x, s) ==
  /\ x = [piece |-> x.piece, frame |-> x.frame, with |-> x.with]
  /\ x.frame \in DOMAIN s /\ x.with \subseteq Outputs
  /\ Right(x.piece, Frames[s[x.frame]])

\* Deltas with a quote to come before them.
Due(x, s) ==
  x.piece.kind = "deltas" /\ "quote" \in x.with /\ TwoSided(Frames[s[x.frame]])

\* What waits is made of frames that were sent.
Queued == IsSeq(out) /\ \A i \in DOMAIN out : Made(out[i], sent)

\* So is what was taken.
Seen ==
  \A kind \in DOMAIN latest : latest[kind] # Err =>
    Made(latest[kind], sent) /\ latest[kind].piece.kind = kind

\* The book is that of the last deltas.
Mirrored ==
  latest["deltas"] # Err => book = Book(Frames[sent[latest["deltas"].frame]])

\* Pieces wait in the order of their frames.
InOrder ==
  /\ \A i, j \in DOMAIN out : i <= j => out[i].frame <= out[j].frame
  /\ latest["quote"] # Err => \A i \in DOMAIN out : latest["quote"].frame <= out[i].frame

\* The quote of the same frame waits in front, or was the last one taken.
Led ==
  \A i \in DOMAIN out : Due(out[i], sent) =>
    \/ \E j \in DOMAIN out : j < i /\ out[j].piece.kind = "quote" /\ out[j].frame = out[i].frame
    \/ latest["quote"] # Err /\ latest["quote"].frame = out[i].frame

MarketInv == TypeOK /\ Queued /\ Seen /\ Mirrored /\ InOrder /\ Led

-----------------------------------------------------------------------------
(* Sequences. *)

\* u is s, then t.
Joined(u, s, t) ==
  /\ IsSeq(u) /\ Len(s) \in Nat /\ Len(t) \in Nat
  /\ DOMAIN s = 1 .. Len(s) /\ DOMAIN t = 1 .. Len(t) /\ DOMAIN u = 1 .. Len(s) + Len(t)
  /\ \A i \in DOMAIN u :
       \/ i \in DOMAIN s /\ u[i] = s[i]
       \/ \E k \in DOMAIN t : i = Len(s) + k /\ u[i] = t[k]
  /\ \A i \in DOMAIN s : i \in DOMAIN u /\ u[i] = s[i]
  /\ \A k \in DOMAIN t : Len(s) + k \in DOMAIN u /\ u[Len(s) + k] = t[k]

\* A sequence over a set is one over any larger set.
LEMMA Wider ==
  ASSUME NEW S, NEW T, S \subseteq T, NEW s \in Seq(S)
  PROVE  s \in Seq(T)
<1>1. Len(s) \in Nat /\ DOMAIN s = 1 .. Len(s) /\ s = [i \in 1 .. Len(s) |-> s[i]]
  OBVIOUS
<1>2. \A i \in 1 .. Len(s) : s[i] \in T
  OBVIOUS
<1>3. QED
  BY <1>1, <1>2

\* Concatenation gives just that, whatever the two are made of.
LEMMA Join ==
  ASSUME NEW s, NEW t, IsSeq(s), IsSeq(t), NEW u, u = s \o t
  PROVE  Joined(u, s, t)
<1>1. PICK S : s \in Seq(S)
  BY DEF IsSeq
<1>2. PICK T : t \in Seq(T)
  BY DEF IsSeq
<1> DEFINE U == S \cup T
<1>3. s \in Seq(U) /\ t \in Seq(U)
  <2>1. S \subseteq U /\ T \subseteq U
    OBVIOUS
  <2>2. QED
    BY <1>1, <1>2, <2>1, Wider
<1> HIDE DEF U
<1>4. u \in Seq(U) /\ Parts(u, s, t)
  BY <1>3, ConcatParts
<1>5. /\ Len(s) \in Nat /\ DOMAIN s = 1 .. Len(s)
      /\ Len(t) \in Nat /\ DOMAIN t = 1 .. Len(t) /\ DOMAIN u = 1 .. Len(u)
  BY <1>3, <1>4
<1>6. IsSeq(u)
  BY <1>4 DEF IsSeq
<1>7. DOMAIN u = 1 .. Len(s) + Len(t)
  BY <1>4, <1>5, Zenon DEF Parts
<1>8. \A i \in DOMAIN u : \/ i \in DOMAIN s /\ u[i] = s[i]
                         \/ \E k \in DOMAIN t : i = Len(s) + k /\ u[i] = t[k]
  <2>1. \A i \in 1 .. Len(u) : \/ i \in 1 .. Len(s) /\ u[i] = s[i]
                               \/ \E k \in 1 .. Len(t) : i = Len(s) + k /\ u[i] = t[k]
    BY <1>4, Zenon DEF Parts
  <2>2. QED
    BY <1>5, <2>1, Zenon
<1>9. /\ \A i \in DOMAIN s : i \in DOMAIN u /\ u[i] = s[i]
      /\ \A k \in DOMAIN t : Len(s) + k \in DOMAIN u /\ u[Len(s) + k] = t[k]
  BY <1>4, <1>5, Zenon DEF Parts
<1>10. QED
  BY <1>5, <1>6, <1>7, <1>8, <1>9, Zenon DEF Joined

\* What is left when the first is taken.
LEMMA Rest ==
  ASSUME NEW s, IsSeq(s), s # <<>>
  PROVE  /\ IsSeq(Tail(s)) /\ 1 \in DOMAIN s /\ Head(s) = s[1]
         /\ \A i \in DOMAIN Tail(s) : /\ i \in Nat /\ i >= 1 /\ i + 1 \in DOMAIN s
                                      /\ Tail(s)[i] = s[i + 1]
         /\ \A i \in DOMAIN s : i \in Nat /\ i >= 1 /\ (i = 1 \/ i - 1 \in DOMAIN Tail(s))
<1>1. PICK S : s \in Seq(S)
  BY DEF IsSeq
<1>2. Tail(s) \in Seq(S) /\ Len(Tail(s)) = Len(s) - 1 /\ Len(s) \in Nat /\ Len(s) >= 1
  BY <1>1
<1>3. \A i \in 1 .. Len(s) - 1 : Tail(s)[i] = s[i + 1]
  BY <1>1
<1>4. DOMAIN s = 1 .. Len(s) /\ DOMAIN Tail(s) = 1 .. Len(s) - 1
  BY <1>1, <1>2
<1>5. Head(s) = s[1]
  BY <1>1
<1>6. QED
  BY <1>2, <1>3, <1>4, <1>5 DEF IsSeq

\* A frame more leaves the others where they are.
LEMMA SentGrows ==
  ASSUME sent \in Seq(DOMAIN Frames), NEW f \in DOMAIN Frames, NEW s, s = Append(sent, f)
  PROVE  /\ s \in Seq(DOMAIN Frames) /\ Len(sent) \in Nat /\ Len(s) = Len(sent) + 1
         /\ DOMAIN sent = 1 .. Len(sent) /\ DOMAIN s = 1 .. Len(s)
         /\ s[Len(s)] = f
         /\ \A n \in DOMAIN sent : n \in DOMAIN s /\ s[n] = sent[n] /\ n < Len(s)
OBVIOUS

\* So a piece stays what it was.
LEMMA MadeStays ==
  ASSUME NEW s, NEW t, \A n \in DOMAIN s : n \in DOMAIN t /\ t[n] = s[n],
         NEW x, Made(x, s)
  PROVE  Made(x, t) /\ (Due(x, t) <=> Due(x, s))
BY DEF Made, Due

-----------------------------------------------------------------------------
(* Its steps. *)

\* Nothing is queued, nothing seen.
LEMMA MarketInit ==
  Init => MarketInv
<1> SUFFICES ASSUME Init PROVE MarketInv
  OBVIOUS
<1>1. IsSeq(<<>>) /\ DOMAIN <<>> = {} /\ <<>> \in Seq(DOMAIN Frames)
  <2>1. <<>> \in Seq({}) /\ <<>> \in Seq(DOMAIN Frames) /\ DOMAIN <<>> = {}
    OBVIOUS
  <2>2. QED
    BY <2>1 DEF IsSeq
<1>2. \A kind \in DOMAIN latest : latest[kind] = Err
  BY DEF Init
<1>3. TypeOK
  <2>1. inputs \in 0 .. MaxInputs
    BY MarketAssumption DEF Init
  <2>2. orders \in Seq(DOMAIN sent)
    BY DEF Init
  <2>3. \A side \in DOMAIN book : book[side] = {}
    BY DEF Init, NoBook
  <2>4. QED
    BY <1>1, <1>2, <2>1, <2>2, <2>3 DEF TypeOK, Init, NoBook
<1>4. latest["deltas"] = Err /\ latest["quote"] = Err
  BY DEF Init, Outputs
<1>5. QED
  BY <1>1, <1>2, <1>3, <1>4 DEF MarketInv, Queued, Seen, Mirrored, InOrder, Led, Init

\* A frame is sent: its pieces go to the end of the queue.
LEMMA MarketHandleFrame ==
  ASSUME MarketInv, NEW f \in DOMAIN Frames, HandleFrame(f)
  PROVE  MarketInv'
<1> USE DEF MarketInv
<1> DEFINE pieces == IF IncomingDecodes(Frames[f]) THEN Pieces(Frames[f]) ELSE <<>>
           items  == [i \in DOMAIN pieces |->
                        [piece |-> pieces[i], frame |-> Len(sent'), with |-> emit]]
<1>0. /\ sent' = Append(sent, f) /\ sent \in Seq(DOMAIN Frames)
      /\ UNCHANGED <<emit, latest, book, deals, orders, answer>>
      /\ inputs < MaxInputs /\ inputs' = inputs + 1
      /\ emit \subseteq Outputs /\ IsSeq(out) /\ running \in BOOLEAN
  BY DEF HandleFrame, Input, TypeOK, Queued, consumed
<1>1. /\ sent' \in Seq(DOMAIN Frames) /\ Len(sent) \in Nat /\ Len(sent') = Len(sent) + 1
      /\ DOMAIN sent = 1 .. Len(sent) /\ DOMAIN sent' = 1 .. Len(sent') /\ sent'[Len(sent')] = f
      /\ \A n \in DOMAIN sent : n \in DOMAIN sent' /\ sent'[n] = sent[n] /\ n < Len(sent')
  BY <1>0, SentGrows
<1>2. ASSUME NEW x, Made(x, sent)
      PROVE  Made(x, sent') /\ (Due(x, sent') <=> Due(x, sent))
  BY <1>1, <1>2, MadeStays
<1>3. \/ out' = out /\ running' \in BOOLEAN
      \/ pieces # Panic /\ out' = out \o items /\ running' \in BOOLEAN
  BY <1>0 DEF HandleFrame, Survives
<1>4. ASSUME pieces # Panic
      PROVE  /\ IsSeq(items) /\ DOMAIN items = DOMAIN pieces
             /\ \A i \in DOMAIN items : /\ Made(items[i], sent') /\ items[i].frame = Len(sent')
                                        /\ items[i].piece = pieces[i]
             /\ \A i \in DOMAIN items : Due(items[i], sent') =>
                  \E j \in DOMAIN items : j < i /\ items[j].piece.kind = "quote"
  <2>1. Fair(pieces, Frames[f])
    BY <1>4, PiecesFair
  <2> HIDE DEF pieces
  <2>2. PICK S : pieces \in Seq(S)
    BY <2>1 DEF Fair, IsSeq
  <2>3. Len(pieces) \in Nat /\ DOMAIN pieces = 1 .. Len(pieces)
    BY <2>2
  <2>4. IsSeq(items) /\ DOMAIN items = DOMAIN pieces
    <3>1. items \in Seq({items[i] : i \in 1 .. Len(pieces)})
      BY <2>3
    <3>2. QED
      BY <3>1 DEF IsSeq
  <2>5. \A i \in DOMAIN items :
          items[i] = [piece |-> pieces[i], frame |-> Len(sent'), with |-> emit]
    OBVIOUS
  <2> HIDE DEF items
  <2>6. \A i \in DOMAIN items : /\ items[i].frame = Len(sent') /\ items[i].piece = pieces[i]
                                /\ items[i].with = emit
    BY <2>5
  <2>7. Len(sent') \in DOMAIN sent'
    BY <1>1
  <2>8. ASSUME NEW i \in DOMAIN items
        PROVE  Made(items[i], sent')
    <3>1. Right(pieces[i], Frames[f])
      BY <2>1, <2>4 DEF Fair
    <3>2. QED
      BY <1>0, <1>1, <2>5, <2>6, <2>7, <3>1 DEF Made
  <2>9. ASSUME NEW i \in DOMAIN items, Due(items[i], sent')
        PROVE  \E j \in DOMAIN items : j < i /\ items[j].piece.kind = "quote"
    <3>1. pieces[i].kind = "deltas" /\ "quote" \in emit /\ TwoSided(Frames[f]) /\ i \in DOMAIN pieces
      BY <1>1, <2>4, <2>6, <2>9 DEF Due
    <3>2. PICK j \in 1 .. i - 1 : pieces[j].kind = "quote"
      BY <2>1, <3>1 DEF Fair
    <3>3. j \in DOMAIN items /\ j < i
      BY <2>3, <2>4, <3>1
    <3>4. QED
      BY <2>6, <3>2, <3>3
  <2>10. QED
    BY <2>4, <2>6, <2>8, <2>9
<1> HIDE DEF pieces, items
<1>5. ASSUME UNCHANGED out
      PROVE  (Queued /\ Led /\ InOrder)'
  <2>1. Queued'
    BY <1>0, <1>2, <1>5 DEF Queued
  <2>2. Led'
    BY <1>0, <1>2, <1>5 DEF Led, Queued
  <2>3. InOrder'
    BY <1>0, <1>5 DEF InOrder
  <2>4. QED
    BY <2>1, <2>2, <2>3
<1>6. ASSUME pieces # Panic, out' = out \o items
      PROVE  (Queued /\ Led /\ InOrder)'
  <2>1. Joined(out', out, items)
    BY <1>0, <1>4, <1>6, Join
  <2>2. /\ IsSeq(out') /\ Len(out) \in Nat
        /\ \A i \in DOMAIN out : i \in Nat /\ i <= Len(out)
        /\ \A k \in DOMAIN items : k \in Nat /\ k >= 1
        /\ \A i \in DOMAIN out' :
             \/ i \in DOMAIN out /\ out'[i] = out[i]
             \/ \E k \in DOMAIN items : i = Len(out) + k /\ out'[i] = items[k]
        /\ \A i \in DOMAIN out : i \in DOMAIN out' /\ out'[i] = out[i]
        /\ \A k \in DOMAIN items : Len(out) + k \in DOMAIN out' /\ out'[Len(out) + k] = items[k]
    BY <2>1 DEF Joined
  <2>3. Queued'
    BY <1>2, <1>4, <1>6, <2>2 DEF Queued
  <2>4. /\ \A i \in DOMAIN out : out[i].frame \in Nat /\ out[i].frame < Len(sent')
        /\ latest["quote"] # Err =>
             latest["quote"].frame \in Nat /\ latest["quote"].frame < Len(sent')
    BY <1>1 DEF Queued, Made, TypeOK, Outputs
  <2>5. ASSUME NEW i \in DOMAIN out', NEW j \in DOMAIN out', i <= j
        PROVE  out'[i].frame <= out'[j].frame
    <3>1. CASE i \in DOMAIN out /\ j \in DOMAIN out
      BY <2>2, <2>5, <3>1 DEF InOrder
    <3>2. CASE j \notin DOMAIN out
      <4>1. PICK k \in DOMAIN items : out'[j] = items[k]
        BY <2>2, <3>2
      <4>2. out'[j].frame = Len(sent')
        BY <1>4, <1>6, <4>1
      <4>3. out'[i].frame \in Nat /\ out'[i].frame <= Len(sent')
        <5>1. CASE i \in DOMAIN out
          BY <1>1, <2>2, <2>4, <5>1
        <5>2. CASE i \notin DOMAIN out
          <6>1. PICK l \in DOMAIN items : out'[i] = items[l]
            BY <2>2, <5>2
          <6>2. QED
            BY <1>1, <1>4, <1>6, <6>1
        <5>3. QED
          BY <5>1, <5>2
      <4>4. QED
        BY <4>2, <4>3
    <3>3. CASE i \notin DOMAIN out /\ j \in DOMAIN out
      <4>1. PICK k \in DOMAIN items : i = Len(out) + k
        BY <2>2, <3>3
      <4>2. k \in Nat /\ k >= 1 /\ j \in Nat /\ j <= Len(out) /\ Len(out) \in Nat
        BY <2>2, <3>3
      <4>3. QED
        BY <2>5, <4>1, <4>2
    <3>4. QED
      BY <3>1, <3>2, <3>3
  <2>6. ASSUME latest["quote"] # Err, NEW i \in DOMAIN out'
        PROVE  latest["quote"].frame <= out'[i].frame
    <3>1. CASE i \in DOMAIN out
      BY <2>2, <2>6, <3>1 DEF InOrder
    <3>2. CASE i \notin DOMAIN out
      <4>1. PICK k \in DOMAIN items : out'[i] = items[k]
        BY <2>2, <3>2
      <4>2. QED
        BY <1>1, <1>4, <1>6, <2>4, <2>6, <4>1
    <3>3. QED
      BY <3>1, <3>2
  <2>7. InOrder'
    BY <1>0, <2>5, <2>6 DEF InOrder
  <2>8. ASSUME NEW i \in DOMAIN out', Due(out'[i], sent')
        PROVE  \/ \E j \in DOMAIN out' : /\ j < i /\ out'[j].piece.kind = "quote"
                                         /\ out'[j].frame = out'[i].frame
               \/ latest["quote"] # Err /\ latest["quote"].frame = out'[i].frame
    <3>1. CASE i \in DOMAIN out
      <4>1. Due(out[i], sent) /\ out'[i] = out[i]
        BY <1>2, <2>2, <2>8, <3>1 DEF Queued
      <4>2. QED
        BY <2>2, <3>1, <4>1 DEF Led
    <3>2. CASE i \notin DOMAIN out
      <4>1. PICK k \in DOMAIN items : i = Len(out) + k /\ out'[i] = items[k]
        BY <2>2, <3>2
      <4>2. PICK l \in DOMAIN items : l < k /\ items[l].piece.kind = "quote"
        BY <1>4, <1>6, <2>8, <4>1
      <4>3. /\ Len(out) + l \in DOMAIN out' /\ out'[Len(out) + l] = items[l]
            /\ items[l].frame = items[k].frame
        BY <1>4, <1>6, <2>2
      <4>4. Len(out) + l < i
        BY <2>2, <4>1, <4>2
      <4>5. QED
        BY <4>1, <4>2, <4>3, <4>4
    <3>3. QED
      BY <3>1, <3>2
  <2>9. Led'
    BY <1>0, <2>8 DEF Led
  <2>10. QED
    BY <2>3, <2>7, <2>9
<1>7. (Queued /\ Led /\ InOrder)'
  BY <1>3, <1>5, <1>6
<1>8. Seen'
  BY <1>0, <1>2 DEF Seen
<1>9. Mirrored'
  <2>1. "deltas" \in DOMAIN latest
    BY DEF TypeOK, Outputs
  <2>2. latest["deltas"] # Err => latest["deltas"].frame \in DOMAIN sent
    BY <2>1 DEF Seen, Made
  <2>3. QED
    BY <1>0, <1>1, <2>2 DEF Mirrored
<1>10. TypeOK'
  <2>1. \A i \in DOMAIN out' : /\ out'[i].piece.kind \in Outputs \cup {"trade", "event"}
                               /\ out'[i].frame \in DOMAIN sent'
                               /\ out'[i].with \subseteq Outputs
    BY <1>7 DEF Queued, Made, Right
  <2>2. /\ \A kind \in DOMAIN latest : latest[kind] # Err =>
             latest[kind].piece.kind = kind /\ latest[kind].frame \in DOMAIN sent'
        /\ \A d \in deals : d[1] \in DOMAIN sent'
    BY <1>1 DEF TypeOK
  <2>3. orders \in Seq(DOMAIN sent')
    <3>1. DOMAIN sent \subseteq DOMAIN sent' /\ orders \in Seq(DOMAIN sent)
      BY <1>1 DEF TypeOK
    <3>2. QED
      BY <3>1, Wider
  <2>4. inputs' \in 0 .. MaxInputs
    BY <1>0, MarketAssumption DEF TypeOK
  <2>5. running' \in BOOLEAN
    BY <1>3
  <2>6. QED
    BY <1>0, <1>1, <2>1, <2>2, <2>3, <2>4, <2>5 DEF TypeOK
<1>11. QED
  BY <1>7, <1>8, <1>9, <1>10

\* The flags change or a request is answered: neither touches the queue.
LEMMA MarketInput ==
  ASSUME MarketInv, Input, UNCHANGED <<sent, running, out, consumed>>, emit' \subseteq Outputs
  PROVE  MarketInv'
<1> USE DEF MarketInv
<1>1. UNCHANGED <<sent, running, out, latest, book, deals, orders>>
  BY DEF consumed
<1>2. inputs' \in 0 .. MaxInputs
  BY MarketAssumption DEF Input, TypeOK
<1>3. TypeOK'
  BY <1>1, <1>2 DEF TypeOK
<1>4. (Queued /\ Seen /\ Mirrored)'
  BY <1>1 DEF Queued, Seen, Mirrored
<1>5. (InOrder /\ Led)'
  BY <1>1 DEF InOrder, Led
<1>6. QED
  BY <1>3, <1>4, <1>5

\* What the engine has seen after a piece, and its book.
LEMMA Taken ==
  ASSUME MarketInv, Deliver, NEW head, head = Head(out)
  PROVE  /\ Made(head, sent) /\ UNCHANGED <<sent, running, emit, answer, inputs>>
         /\ latest' = IF head.piece.kind \in DOMAIN latest
                        THEN [latest EXCEPT ![head.piece.kind] = head] ELSE latest
         /\ DOMAIN latest' = Outputs \cup {"trade"}
         /\ \A kind \in DOMAIN latest :
              latest'[kind] = IF kind = head.piece.kind THEN head ELSE latest[kind]
         /\ head.piece.kind = "deltas" =>
              /\ BookFrame(Frames[sent[head.frame]])
              /\ book' = Book(Frames[sent[head.frame]])
         /\ head.piece.kind # "deltas" => UNCHANGED book
         /\ \A d \in deals' : d \in deals \/ d[1] = head.frame
         /\ orders' = orders \/ orders' = Append(orders, head.frame)
<1>1. Made(head, sent)
  BY Rest DEF MarketInv, Queued, Deliver
<1>2. DOMAIN latest = Outputs \cup {"trade"} /\ DOMAIN book = {"Buy", "Sell"}
  BY DEF MarketInv, TypeOK
<1>3. /\ latest' = IF head.piece.kind \in DOMAIN latest
                     THEN [latest EXCEPT ![head.piece.kind] = head] ELSE latest
      /\ UNCHANGED <<sent, running, emit, answer, inputs>>
      /\ book' = IF head.piece.kind = "deltas" THEN Applied(book, head.piece.deltas) ELSE book
      /\ orders' = IF head.piece.kind = "event" THEN Append(orders, head.frame) ELSE orders
  BY DEF Deliver
<1>4. \A d \in deals' : d \in deals \/ d[1] = head.frame
  <2>1. \/ deals' = deals
        \/ deals' = deals \cup {<<head.frame, DealTradeId(head.piece.dict)>>}
    BY DEF Deliver
  <2>2. <<head.frame, DealTradeId(head.piece.dict)>>[1] = head.frame
    OBVIOUS
  <2>3. QED
    BY <2>1, <2>2
<1>5. ASSUME head.piece.kind = "deltas"
      PROVE  /\ BookFrame(Frames[sent[head.frame]])
             /\ book' = Book(Frames[sent[head.frame]])
  <2>1. BookFrame(Frames[sent[head.frame]]) /\ Replaced(head.piece, Frames[sent[head.frame]])
    BY <1>1, <1>5 DEF Made, Right
  <2>2. QED
    BY <1>2, <1>3, <1>5, <2>1 DEF Replaced
<1>6. DOMAIN latest' = Outputs \cup {"trade"}
  BY <1>2, <1>3
<1>7. \A kind \in DOMAIN latest :
        latest'[kind] = IF kind = head.piece.kind THEN head ELSE latest[kind]
  BY <1>3
<1>8. QED
  BY <1>1, <1>3, <1>4, <1>5, <1>6, <1>7

\* The levels of a frame's book are prices with volumes.
LEMMA BookLevels ==
  ASSUME NEW f \in DOMAIN Frames, BookFrame(Frames[f])
  PROVE  /\ DOMAIN Book(Frames[f]) = {"Buy", "Sell"}
         /\ \A side \in {"Buy", "Sell"} : \A level \in Book(Frames[f])[side] :
              level[1] \in Int /\ level[2] > 0
<1> DEFINE data == Frames[f].data
           p    == Precisions[Frames[f].code]
<1>1. /\ data.bid_price \in Seq(Int) /\ data.bid_volume \in Seq(Int)
      /\ data.ask_price \in Seq(Int) /\ data.ask_volume \in Seq(Int) /\ p \in 0 .. 2
  BY BookColumns
<1> HIDE DEF data, p
<1>2. ASSUME NEW prices \in Seq(Int), NEW volumes \in Seq(Int),
             NEW level \in Held(prices, volumes, p)
      PROVE  level[1] \in Int /\ level[2] > 0
  <2>1. PICK i \in Kept(prices, volumes) : level = <<Rounded(prices[i], p), volumes[i]>>
    BY DEF Held
  <2>2. i \in DOMAIN prices /\ volumes[i] > 0
    BY DEF Kept
  <2>3. prices[i] \in Int
    BY <2>2
  <2>4. prices[i] <= prices[i]
    BY <2>3
  <2>5. Rounded(prices[i], p) \in Int
    BY <1>1, <2>3, <2>4, RoundedMonotone
  <2>6. level[1] = Rounded(prices[i], p) /\ level[2] = volumes[i]
    BY <2>1
  <2>7. QED
    BY <2>2, <2>5, <2>6
<1>3. /\ \A level \in Bids(Frames[f]) : level[1] \in Int /\ level[2] > 0
      /\ \A level \in Asks(Frames[f]) : level[1] \in Int /\ level[2] > 0
  BY <1>1, <1>2 DEF Bids, Asks, data, p
<1>4. QED
  BY <1>3 DEF Book

\* The engine takes the first piece of the queue.
LEMMA MarketDeliver ==
  ASSUME MarketInv, Deliver
  PROVE  MarketInv'
<1> USE DEF MarketInv
<1>0. PICK head : head = Head(out)
  OBVIOUS
<1>1. /\ Made(head, sent) /\ UNCHANGED <<sent, running, emit, answer, inputs>>
      /\ DOMAIN latest' = Outputs \cup {"trade"}
      /\ \A kind \in DOMAIN latest :
           latest'[kind] = IF kind = head.piece.kind THEN head ELSE latest[kind]
      /\ head.piece.kind = "deltas" =>
           /\ BookFrame(Frames[sent[head.frame]])
           /\ book' = Book(Frames[sent[head.frame]])
      /\ head.piece.kind # "deltas" => UNCHANGED book
      /\ \A d \in deals' : d \in deals \/ d[1] = head.frame
      /\ orders' = orders \/ orders' = Append(orders, head.frame)
  BY <1>0, Taken
<1>2. DOMAIN latest = Outputs \cup {"trade"} /\ sent \in Seq(DOMAIN Frames)
  BY DEF TypeOK
<1>3. /\ IsSeq(out') /\ 1 \in DOMAIN out /\ head = out[1]
      /\ \A i \in DOMAIN out' : /\ i \in Nat /\ i >= 1 /\ i + 1 \in DOMAIN out
                                /\ out'[i] = out[i + 1]
      /\ \A i \in DOMAIN out : i \in Nat /\ i >= 1 /\ (i = 1 \/ i - 1 \in DOMAIN out')
  <2>1. IsSeq(out) /\ out # <<>> /\ out' = Tail(out)
    BY DEF Queued, Deliver
  <2>2. QED
    BY <1>0, <2>1, Rest
<1>4. head.frame \in DOMAIN sent /\ head.frame \in Nat /\ sent[head.frame] \in DOMAIN Frames
  <2>1. head.frame \in DOMAIN sent
    BY <1>1 DEF Made
  <2>2. QED
    BY <1>2, <2>1
<1>5. Queued'
  BY <1>1, <1>3 DEF Queued
<1>6. Seen'
  BY <1>1, <1>2 DEF Seen
<1>7. Mirrored'
  <2>1. CASE head.piece.kind = "deltas"
    <3>1. latest'["deltas"] = head
      BY <1>1, <1>2, <2>1 DEF Outputs
    <3>2. QED
      BY <1>1, <2>1, <3>1 DEF Mirrored
  <2>2. CASE head.piece.kind # "deltas"
    <3>1. latest'["deltas"] = latest["deltas"]
      BY <1>1, <1>2, <2>2 DEF Outputs
    <3>2. QED
      BY <1>1, <2>2, <3>1 DEF Mirrored
  <2>3. QED
    BY <2>1, <2>2
<1>8. \/ latest'["quote"] = latest["quote"] /\ head.piece.kind # "quote"
      \/ latest'["quote"] = head /\ head.piece.kind = "quote"
  BY <1>1, <1>2 DEF Outputs
<1>9. \A i \in DOMAIN out : out[i].frame \in Nat
  BY <1>2 DEF Queued, Made
<1>10. latest["quote"] # Err => latest["quote"].frame \in Nat
  BY <1>2 DEF Seen, Made, Outputs
<1>11. InOrder'
  <2>1. ASSUME NEW i \in DOMAIN out', NEW j \in DOMAIN out', i <= j
        PROVE  out'[i].frame <= out'[j].frame
    <3>1. i + 1 <= j + 1
      BY <1>3, <2>1
    <3>2. QED
      BY <1>3, <3>1 DEF InOrder
  <2>2. ASSUME latest'["quote"] # Err, NEW i \in DOMAIN out'
        PROVE  latest'["quote"].frame <= out'[i].frame
    <3>1. i + 1 \in DOMAIN out /\ out'[i] = out[i + 1] /\ 1 <= i + 1
      BY <1>3
    <3>2. CASE latest'["quote"] = latest["quote"]
      BY <2>2, <3>1, <3>2 DEF InOrder
    <3>3. CASE latest'["quote"] = head
      BY <1>3, <3>1, <3>3 DEF InOrder
    <3>4. QED
      BY <1>8, <3>2, <3>3
  <2>3. QED
    BY <2>1, <2>2 DEF InOrder
<1>12. ASSUME head.piece.kind = "quote"
       PROVE  head # Err
  <2>1. head.piece \in QuoteTick /\ head.with \in SUBSET Outputs
    BY <1>1, <1>12 DEF Made, Right, Quoted
  <2>2. head \in [piece : QuoteTick, frame : Nat, with : SUBSET Outputs]
    BY <1>1, <1>4, <2>1 DEF Made
  <2>3. QED
    BY <2>2, QuoteAssumption
<1>13. ASSUME NEW i \in DOMAIN out', Due(out'[i], sent')
       PROVE  \/ \E j \in DOMAIN out' : /\ j < i /\ out'[j].piece.kind = "quote"
                                        /\ out'[j].frame = out'[i].frame
              \/ latest'["quote"] # Err /\ latest'["quote"].frame = out'[i].frame
  <2>1. i + 1 \in DOMAIN out /\ out'[i] = out[i + 1] /\ Due(out[i + 1], sent)
    BY <1>1, <1>3, <1>13
  <2>2. ASSUME NEW j \in DOMAIN out, j < i + 1, out[j].piece.kind = "quote",
               out[j].frame = out[i + 1].frame
        PROVE  \/ \E k \in DOMAIN out' : /\ k < i /\ out'[k].piece.kind = "quote"
                                         /\ out'[k].frame = out'[i].frame
               \/ latest'["quote"] # Err /\ latest'["quote"].frame = out'[i].frame
    <3>1. CASE j = 1
      BY <1>1, <1>3, <1>8, <1>12, <2>1, <2>2, <3>1
    <3>2. CASE j # 1
      <4>1. j - 1 \in DOMAIN out' /\ j - 1 < i /\ (j - 1) + 1 = j
        BY <1>3, <2>2, <3>2
      <4>2. out'[j - 1] = out[j]
        BY <1>3, <4>1
      <4>3. QED
        BY <2>1, <2>2, <4>1, <4>2
    <3>3. QED
      BY <3>1, <3>2
  <2>3. ASSUME latest["quote"] # Err, latest["quote"].frame = out[i + 1].frame
        PROVE  latest'["quote"] # Err /\ latest'["quote"].frame = out'[i].frame
    <3>1. CASE latest'["quote"] = latest["quote"]
      BY <2>1, <2>3, <3>1
    <3>2. CASE latest'["quote"] = head /\ head.piece.kind = "quote"
      <4>1. 1 <= i + 1 /\ out[1].frame \in Nat /\ out[i + 1].frame \in Nat
        BY <1>3, <1>9, <2>1
      <4>2. out[1].frame <= out[i + 1].frame /\ latest["quote"].frame <= out[1].frame
        BY <1>3, <2>1, <2>3, <4>1 DEF InOrder
      <4>3. head.frame = out[i + 1].frame
        BY <1>3, <2>3, <4>1, <4>2
      <4>4. QED
        BY <1>12, <2>1, <3>2, <4>3
    <3>3. QED
      BY <1>8, <3>1, <3>2
  <2>4. QED
    BY <2>1, <2>2, <2>3 DEF Led
<1>14. Led'
  BY <1>13 DEF Led
<1>15. TypeOK'
  <2>1. \A i \in DOMAIN out' : /\ out'[i].piece.kind \in Outputs \cup {"trade", "event"}
                               /\ out'[i].frame \in DOMAIN sent'
                               /\ out'[i].with \subseteq Outputs
    BY <1>5 DEF Queued, Made, Right
  <2>2. \A kind \in DOMAIN latest' : latest'[kind] # Err =>
          latest'[kind].piece.kind = kind /\ latest'[kind].frame \in DOMAIN sent'
    BY <1>6 DEF Seen, Made
  <2>3. \A d \in deals' : d[1] \in DOMAIN sent'
    BY <1>1, <1>4 DEF TypeOK
  <2>4. orders' \in Seq(DOMAIN sent')
    <3>1. orders \in Seq(DOMAIN sent)
      BY DEF TypeOK
    <3>2. Append(orders, head.frame) \in Seq(DOMAIN sent)
      BY <1>4, <3>1
    <3>3. QED
      BY <1>1, <3>1, <3>2
  <2>5. /\ DOMAIN book' = {"Buy", "Sell"}
        /\ \A side \in DOMAIN book' : \A level \in book'[side] : level[1] \in Int /\ level[2] > 0
    <3>1. CASE head.piece.kind = "deltas"
      BY <1>1, <1>4, <3>1, BookLevels
    <3>2. CASE head.piece.kind # "deltas"
      BY <1>1, <3>2 DEF TypeOK
    <3>3. QED
      BY <3>1, <3>2
  <2>6. QED
    BY <1>1, <1>2, <2>1, <2>2, <2>3, <2>4, <2>5 DEF TypeOK
<1>16. QED
  BY <1>5, <1>6, <1>7, <1>11, <1>14, <1>15

\* Every step keeps it.
LEMMA MarketSteps ==
  MarketInv /\ [Next]_vars => MarketInv'
<1> SUFFICES ASSUME MarketInv, [Next]_vars PROVE MarketInv'
  OBVIOUS
<1>1. ASSUME NEW f \in DOMAIN Frames, HandleFrame(f)
      PROVE  MarketInv'
  BY <1>1, MarketHandleFrame
<1>2. ASSUME NEW flags \in SUBSET Outputs, SetOutputs(flags)
      PROVE  MarketInv'
  <2>1. Input /\ UNCHANGED <<sent, running, out, consumed>> /\ emit' \subseteq Outputs
    BY <1>2 DEF SetOutputs
  <2>2. QED
    BY <2>1, MarketInput
<1>3. CASE Deliver
  BY <1>3, MarketDeliver
<1>4. ASSUME NEW code \in DOMAIN Precisions, NEW r \in DOMAIN Replies,
             RequestBars(code, r) \/ RequestTradeTicks(code, r)
      PROVE  MarketInv'
  <2>1. Input /\ UNCHANGED <<sent, running, emit, out, consumed>>
    BY <1>4 DEF RequestBars, RequestTradeTicks, Request
  <2>2. emit' \subseteq Outputs
    BY <2>1 DEF MarketInv, TypeOK
  <2>3. QED
    BY <2>1, <2>2, MarketInput
<1>5. CASE UNCHANGED vars
  <2>1. UNCHANGED <<sent, running, emit, out, latest, book, deals, orders, inputs>>
    BY <1>5 DEF vars, consumed
  <2>2. TypeOK'
    BY <2>1 DEF MarketInv, TypeOK
  <2>3. (Queued /\ Seen /\ Mirrored)'
    BY <2>1 DEF MarketInv, Queued, Seen, Mirrored
  <2>4. (InOrder /\ Led)'
    BY <2>1 DEF MarketInv, InOrder, Led
  <2>5. QED
    BY <2>2, <2>3, <2>4 DEF MarketInv
<1>6. QED
  BY <1>1, <1>2, <1>3, <1>4, <1>5 DEF Next

-----------------------------------------------------------------------------
(* What follows from it. *)

\* So it always holds.
LEMMA MarketAlways ==
  Spec => []MarketInv
<1>1. Init => MarketInv
  BY MarketInit
<1>2. MarketInv /\ [Next]_vars => MarketInv'
  BY MarketSteps
<1>3. QED
  BY <1>1, <1>2, PTL DEF Spec

\* The levels the properties speak of are those of the lemmas.
LEMMA SidesOf ==
  ASSUME NEW n
  PROVE  BidsOf(n) = Bids(Frames[sent[n]]) /\ AsksOf(n) = Asks(Frames[sent[n]])
BY DEF BidsOf, AsksOf, LevelsOf, Standing, Bids, Asks, Held, Kept

(* Whatever frames arrive and whichever flags are set, a piece on its way or  *)
(* last seen is of a known kind and names a frame that was sent, the book has *)
(* two sides of levels with a volume, and every deal and order event handed   *)
(* on names its frame (websocket.rs 146-318).                                 *)
THEOREM TypeCorrect ==
  Spec => []TypeOK
<1>1. MarketInv => TypeOK
  BY DEF MarketInv
<1>2. QED
  BY <1>1, MarketAlways, PTL

(* The book is never a mixture of frames: it holds the standing levels of the *)
(* one frame the last deltas were made of. The CLEAR in front of the deltas   *)
(* makes it so for any book before, and the queue keeps each piece with the   *)
(* frame it was made of (parse.rs 187-246).                                   *)
THEOREM BookCorrect ==
  Spec => []BookIsOneFrame
<1>1. MarketInv => BookIsOneFrame
  BY SidesOf DEF MarketInv, Mirrored, Book, BookIsOneFrame
<1>2. QED
  BY <1>1, MarketAlways, PTL

(* A quote is the best standing level of each side of its frame, a depth      *)
(* snapshot the first levels of it and all of them where there is room        *)
(* (parse.rs 76-180): skipping the levels without volume keeps the order of   *)
(* the others, and rounding a price keeps the order of prices.                *)
THEOREM ViewsCorrect ==
  Spec => []ViewsAgree
<1>1. MarketInv => ViewsAgree
  <2> SUFFICES ASSUME MarketInv PROVE ViewsAgree
    OBVIOUS
  <2>1. DOMAIN latest = Outputs \cup {"trade"}
    BY DEF MarketInv, TypeOK
  <2>2. latest["quote"] # Err => Quoted(latest["quote"].piece, Frames[sent[latest["quote"].frame]])
    BY <2>1 DEF MarketInv, Seen, Made, Right, Outputs
  <2>3. latest["depth"] # Err => Pictured(latest["depth"].piece, Frames[sent[latest["depth"].frame]])
    BY <2>1 DEF MarketInv, Seen, Made, Right, Outputs
  <2>4. PICK quote, depth : quote = latest["quote"] /\ depth = latest["depth"]
    OBVIOUS
  <2>5. /\ BidsOf(quote.frame) = Bids(Frames[sent[quote.frame]])
        /\ AsksOf(quote.frame) = Asks(Frames[sent[quote.frame]])
        /\ BidsOf(depth.frame) = Bids(Frames[sent[depth.frame]])
        /\ AsksOf(depth.frame) = Asks(Frames[sent[depth.frame]])
    BY SidesOf
  <2>6. QED
    BY <2>2, <2>3, <2>4, <2>5 DEF ViewsAgree, Quoted, Pictured, Top, TopBid, TopAsk
<1>2. QED
  BY <1>1, MarketAlways, PTL

(* When deltas are taken that were made with the quote flag on, the quote of  *)
(* the same frame was taken before, unless a side showed no level at the top: *)
(* the loop calls back with the quote first, and the queue never lets a later *)
(* frame in between (websocket.rs 206-262, parse.rs 99-101).                  *)
THEOREM QuoteCorrect ==
  Spec => QuoteKeepsUp
<1>1. MarketInv /\ [Next]_vars =>
        (latest'["deltas"] # latest["deltas"] =>
           LET new == latest'["deltas"]
           IN \/ "quote" \notin new.with
              \/ latest["quote"] # Err /\ latest["quote"].frame = new.frame
              \/ 1 \notin Standing(Frames[sent[new.frame]].data, "bid_price", "bid_volume")
              \/ 1 \notin Standing(Frames[sent[new.frame]].data, "ask_price", "ask_volume"))
  <2> SUFFICES ASSUME MarketInv, [Next]_vars, latest'["deltas"] # latest["deltas"],
                      NEW new, new = latest'["deltas"], "quote" \in new.with,
                      1 \in Standing(Frames[sent[new.frame]].data, "bid_price", "bid_volume"),
                      1 \in Standing(Frames[sent[new.frame]].data, "ask_price", "ask_volume")
               PROVE  latest["quote"] # Err /\ latest["quote"].frame = new.frame
    OBVIOUS
  <2>1. Deliver
    BY DEF Next, vars, consumed, HandleFrame, SetOutputs, RequestBars, RequestTradeTicks, Request
  <2>2. PICK head : head = Head(out)
    OBVIOUS
  <2>3. "deltas" \in DOMAIN latest
    BY DEF MarketInv, TypeOK, Outputs
  <2>4. latest'["deltas"] = IF "deltas" = head.piece.kind THEN head ELSE latest["deltas"]
    BY <2>1, <2>2, <2>3, Taken
  <2>5. new = head /\ head.piece.kind = "deltas"
    BY <2>4
  <2>6. TwoSided(Frames[sent[head.frame]])
    BY <2>5 DEF TwoSided, Standing, Kept
  <2>7. Due(head, sent)
    BY <2>5, <2>6 DEF Due
  <2>8. /\ 1 \in DOMAIN out /\ head = out[1]
        /\ \A i \in DOMAIN out : i \in Nat /\ i >= 1
    <3>1. IsSeq(out) /\ out # <<>>
      BY <2>1 DEF Deliver, MarketInv, Queued
    <3>2. QED
      BY <2>2, <3>1, Rest
  <2>9. \A j \in DOMAIN out : ~(j < 1)
    BY <2>8
  <2>10. QED
    BY <2>5, <2>7, <2>8, <2>9 DEF MarketInv, Led
<1>2. QED
  BY <1>1, MarketAlways, PTL DEF Spec, QuoteKeepsUp

-----------------------------------------------------------------------------
(* Requests for history. *)

\* The rows of an answer.
Whole(kind, body, rows) ==
  /\ \A i \in DOMAIN rows : rows[i].ts = body.ts[i]
  /\ kind = "ticks" =>
       /\ \A f \in {"ts", "close", "volume", "tick_type"} : Len(body[f]) = Len(rows)
       /\ \A i \in DOMAIN rows : rows[i].size > 0
  /\ kind = "bars" =>
       /\ \A f \in KBarsResponse \ {"code"} : Len(body[f]) = Len(rows)
       /\ \A i \in DOMAIN rows :
            LET bar == rows[i]
            IN bar.low <= bar.open /\ bar.open <= bar.high
                 /\ bar.low <= bar.close /\ bar.close <= bar.high

\* A row for every entry of a column makes a list as long as the column.
LEMMA RowsAlong ==
  ASSUME NEW column \in Seq(Int), NEW rows,
         rows = [i \in DOMAIN column |-> rows[i]]
  PROVE  Len(rows) = Len(column)
<1>1. /\ Len(column) \in Nat /\ DOMAIN column = 1 .. Len(column)
      /\ rows = [i \in 1 .. Len(column) |-> rows[i]]
  OBVIOUS
<1>2. rows \in Seq({rows[i] : i \in 1 .. Len(column)})
  BY <1>1
<1>3. QED
  BY <1>1, <1>2

\* parse_kbars_response.
LEMMA BarsWhole ==
  ASSUME NEW reply, \A f \in KBarsResponse \ {"code"} : reply[f] \in Seq(Int),
         NEW precision \in 0 .. 2,
         NEW rows, rows = parse_kbars_response(reply, precision), rows # Err
  PROVE  Whole("bars", reply, rows)
<1> DEFINE px(f, i) == try_price(reply[f][i], precision)
           bar(i)   == [ts |-> reply.ts[i], open |-> px("open", i), high |-> px("high", i),
                        low |-> px("low", i), close |-> px("close", i),
                        volume |-> try_qty(reply.volume[i])]
           sound(b) == /\ \A f \in DOMAIN b \ {"ts"} : b[f] # Err
                       /\ b.high >= b.open /\ b.high >= b.low /\ b.high >= b.close
                       /\ b.low <= b.open /\ b.low <= b.close
<1>1. /\ Aligned(reply, {"open", "high", "low", "close", "volume"})
      /\ \A i \in DOMAIN reply.ts : sound(bar(i))
      /\ rows = [i \in DOMAIN reply.ts |-> bar(i)]
  BY DEF parse_kbars_response
<1>2. /\ reply.ts \in Seq(Int) /\ reply.open \in Seq(Int) /\ reply.high \in Seq(Int)
      /\ reply.low \in Seq(Int) /\ reply.close \in Seq(Int) /\ reply.volume \in Seq(Int)
  BY DEF KBarsResponse
<1>3. \A f \in {"open", "high", "low", "close", "volume", "ts"} : Len(reply[f]) = Len(reply.ts)
  BY <1>1 DEF Aligned
<1>4. /\ Len(rows) = Len(reply.ts) /\ DOMAIN rows = DOMAIN reply.ts
      /\ \A i \in DOMAIN rows : rows[i] = bar(i)
  <2>1. rows = [i \in DOMAIN reply.ts |-> rows[i]]
    BY <1>1
  <2>2. QED
    BY <1>1, <1>2, <2>1, RowsAlong
<1>5. ASSUME NEW i \in DOMAIN rows
      PROVE  /\ rows[i].ts = reply.ts[i]
             /\ rows[i].low <= rows[i].open /\ rows[i].open <= rows[i].high
             /\ rows[i].low <= rows[i].close /\ rows[i].close <= rows[i].high
  <2>1. DOMAIN bar(i) = {"ts", "open", "high", "low", "close", "volume"}
    OBVIOUS
  <2>2. sound(bar(i)) /\ rows[i] = bar(i)
    BY <1>1, <1>4
  <2>3. /\ bar(i).open = px("open", i) /\ bar(i).high = px("high", i)
        /\ bar(i).low = px("low", i) /\ bar(i).close = px("close", i)
        /\ bar(i).ts = reply.ts[i]
    OBVIOUS
  <2>4. \A f \in {"open", "high", "low", "close"} : bar(i)[f] # Err
    BY <2>1, <2>2
  <2>5. \A f \in {"open", "high", "low", "close"} : reply[f][i] \in Int
    <3>1. ASSUME NEW column \in Seq(Int), Len(column) = Len(reply.ts)
          PROVE  column[i] \in Int
      <4>1. DOMAIN column = 1 .. Len(column) /\ DOMAIN reply.ts = 1 .. Len(reply.ts)
        BY <1>2
      <4>2. i \in DOMAIN column
        BY <1>4, <3>1, <4>1
      <4>3. QED
        BY <4>2
    <3>2. QED
      BY <1>2, <1>3, <3>1
  <2> HIDE DEF bar
  <2>6. /\ px("open", i) # Err /\ px("high", i) # Err /\ px("low", i) # Err /\ px("close", i) # Err
    BY <2>3, <2>4
  <2>7. ASSUME NEW value \in Int, try_price(value, precision) # Err
        PROVE  try_price(value, precision) \in Int
    <3>1. value <= value
      OBVIOUS
    <3>2. Rounded(value, precision) \in Int
      BY <3>1, RoundedMonotone
    <3>3. QED
      BY <2>7, <3>2, CheckedValues
  <2>8. px("open", i) \in Int /\ px("high", i) \in Int /\ px("low", i) \in Int /\ px("close", i) \in Int
    BY <2>5, <2>6, <2>7
  <2>9. bar(i).high >= bar(i).open /\ bar(i).high >= bar(i).close
        /\ bar(i).low <= bar(i).open /\ bar(i).low <= bar(i).close
    BY <2>2
  <2> HIDE DEF px
  <2>10. px("high", i) >= px("open", i) /\ px("high", i) >= px("close", i)
         /\ px("low", i) <= px("open", i) /\ px("low", i) <= px("close", i)
    BY <2>3, <2>9
  <2>11. px("open", i) <= px("high", i) /\ px("close", i) <= px("high", i)
    BY <2>8, <2>10
  <2>12. QED
    BY <2>2, <2>3, <2>10, <2>11
<1>6. QED
  BY <1>3, <1>4, <1>5 DEF Whole, KBarsResponse

\* parse_ticks_response.
LEMMA TicksWhole ==
  ASSUME NEW reply, \A f \in TicksResponse \ {"code"} : reply[f] \in Seq(Int),
         NEW precision \in 0 .. 2,
         NEW rows, rows = parse_ticks_response(reply, precision), rows # Err
  PROVE  Whole("ticks", reply, rows)
<1> DEFINE trade(i) == [price |-> try_price(reply.close[i], precision),
                        size |-> try_qty(reply.volume[i]),
                        side |-> AggressorSide(reply.tick_type[i]), ts |-> reply.ts[i],
                        id |-> <<reply.code, reply.ts[i]>>]
<1>1. /\ Aligned(reply, {"close", "volume", "tick_type"})
      /\ \A i \in DOMAIN reply.ts : trade(i).size \notin {Err, 0}
      /\ rows = [i \in DOMAIN reply.ts |-> trade(i)]
  BY DEF parse_ticks_response
<1>2. reply.ts \in Seq(Int) /\ reply.volume \in Seq(Int)
  BY DEF TicksResponse
<1>3. \A f \in {"ts", "close", "volume", "tick_type"} : Len(reply[f]) = Len(reply.ts)
  BY <1>1 DEF Aligned
<1>4. /\ Len(rows) = Len(reply.ts) /\ DOMAIN rows = DOMAIN reply.ts
      /\ \A i \in DOMAIN rows : rows[i] = trade(i)
  <2>1. rows = [i \in DOMAIN reply.ts |-> rows[i]]
    BY <1>1
  <2>2. QED
    BY <1>1, <1>2, <2>1, RowsAlong
<1>5. ASSUME NEW i \in DOMAIN rows
      PROVE  rows[i].ts = reply.ts[i] /\ rows[i].size > 0
  <2>1. rows[i].ts = reply.ts[i] /\ rows[i].size = try_qty(reply.volume[i])
    <3>1. trade(i).ts = reply.ts[i] /\ trade(i).size = try_qty(reply.volume[i])
      OBVIOUS
    <3>2. rows[i] = trade(i)
      BY <1>4
    <3> HIDE DEF trade
    <3>3. QED
      BY <3>1, <3>2
  <2>2. try_qty(reply.volume[i]) \notin {Err, 0}
    BY <1>1, <1>4
  <2>3. i \in DOMAIN reply.volume /\ reply.volume[i] \in Int
    BY <1>2, <1>3, <1>4
  <2>4. 0 \in 0 .. 2
    OBVIOUS
  <2>5. try_qty(reply.volume[i]) = reply.volume[i] /\ reply.volume[i] >= 0
    BY <2>2, <2>3, <2>4, CheckedValues
  <2>6. QED
    BY <2>1, <2>2, <2>3, <2>5
<1>6. QED
  BY <1>3, <1>4, <1>5 DEF Whole

\* What a request answers with.
LEMMA RequestWhole ==
  ASSUME NEW code \in DOMAIN Precisions, NEW r \in DOMAIN Replies,
         RequestBars(code, r) \/ RequestTradeTicks(code, r)
  PROVE  HistoryWhole'
<1>1. PICK object \in Replies[r].body :
        /\ Replies[r].body = {object}
        /\ \A column \in DOMAIN object \cap (KBarsResponse \cup TicksResponse) :
             column # "code" => object[column] \in Seq(Int)
  BY ReplyAssumption
<1>2. (CHOOSE b \in Replies[r].body : TRUE) = object
  BY <1>1
<1>3. Precisions[code] \in 0 .. 2
  BY MarketAssumption
<1>4. PICK rows, kind : answer' = [kind |-> kind, reply |-> r, rows |-> rows]
                        /\ (rows # Err => Whole(kind, object, rows))
  <2>1. CASE RequestBars(code, r)
    <3> DEFINE body == Answer(Replies[r], KBarsResponse)
               bars == IF body = Err THEN Err
                       ELSE parse_kbars_response(CHOOSE b \in body : TRUE, Precisions[code])
    <3>1. answer' = [kind |-> "bars", reply |-> r, rows |-> bars]
      BY <2>1 DEF RequestBars, Request
    <3>2. ASSUME bars # Err
          PROVE  Whole("bars", object, bars)
      <4>1. body = Replies[r].body /\ KBarsResponse \subseteq DOMAIN object
        BY <1>1, <3>2 DEF Answer, Decodes
      <4>2. \A f \in KBarsResponse \ {"code"} : object[f] \in Seq(Int)
        BY <1>1, <4>1
      <4>3. bars = parse_kbars_response(object, Precisions[code])
        BY <1>2, <3>2, <4>1
      <4>4. QED
        BY <1>3, <3>2, <4>2, <4>3, BarsWhole
    <3>3. QED
      BY <3>1, <3>2
  <2>2. CASE RequestTradeTicks(code, r)
    <3> DEFINE body   == Answer(Replies[r], TicksResponse)
               trades == IF body = Err THEN Err
                         ELSE parse_ticks_response(CHOOSE b \in body : TRUE, Precisions[code])
    <3>1. answer' = [kind |-> "ticks", reply |-> r, rows |-> trades]
      BY <2>2 DEF RequestTradeTicks, Request
    <3>2. ASSUME trades # Err
          PROVE  Whole("ticks", object, trades)
      <4>1. body = Replies[r].body /\ TicksResponse \subseteq DOMAIN object
        BY <1>1, <3>2 DEF Answer, Decodes
      <4>2. \A f \in TicksResponse \ {"code"} : object[f] \in Seq(Int)
        BY <1>1, <4>1
      <4>3. trades = parse_ticks_response(object, Precisions[code])
        BY <1>2, <3>2, <4>1
      <4>4. QED
        BY <1>3, <3>2, <4>2, <4>3, TicksWhole
    <3>3. QED
      BY <3>1, <3>2
  <2>3. QED
    BY <2>1, <2>2
<1>5. answer'.rows = rows /\ answer'.kind = kind /\ answer'.reply = r
  BY <1>4
<1>6. rows # Err => \A body \in Replies[r].body : Whole(kind, body, rows)
  BY <1>1, <1>4
<1>7. QED
  BY <1>5, <1>6 DEF HistoryWhole, Whole

(* An answer to a request for bars or ticks has a row for every entry of the  *)
(* columns it is made of, and no bar outside its own range: the columns are   *)
(* compared in length before any is read, and a row that does not pass takes  *)
(* the answer with it (http/parse.rs 85-169).                                 *)
THEOREM HistoryCorrect ==
  Spec => []HistoryWhole
<1>1. Init => HistoryWhole
  BY DEF Init, HistoryWhole
<1>2. HistoryWhole /\ [Next]_vars => HistoryWhole'
  <2> SUFFICES ASSUME HistoryWhole, [Next]_vars PROVE HistoryWhole'
    OBVIOUS
  <2>1. ASSUME UNCHANGED answer PROVE HistoryWhole'
    BY <2>1 DEF HistoryWhole
  <2>2. \/ UNCHANGED answer
        \/ \E code \in DOMAIN Precisions, r \in DOMAIN Replies :
             RequestBars(code, r) \/ RequestTradeTicks(code, r)
    BY DEF Next, vars, HandleFrame, SetOutputs, Deliver
  <2>3. QED
    BY <2>1, <2>2, RequestWhole
<1>3. QED
  BY <1>1, <1>2, PTL DEF Spec

-----------------------------------------------------------------------------
(* Order events. *)

\* Those that wait, by their frames; those that were handed on are orders.
Waiting(x) == x.piece.kind = "event"

\* The loop runs, and an event is taken in its turn: none of those that wait was
\* sent before one that was handed on, or twice.
EventsQueued ==
  /\ running = TRUE
  /\ \A i, j \in DOMAIN out :
       i < j /\ Waiting(out[i]) /\ Waiting(out[j]) => out[i].frame < out[j].frame
  /\ \A i \in DOMAIN out, j \in DOMAIN orders : Waiting(out[i]) => orders[j] < out[i].frame
  /\ \A i, j \in DOMAIN orders : i < j => orders[i] < orders[j]

\* An event that was sent is one or the other, and nothing else is.
EventsKept ==
  /\ \A n \in DOMAIN sent : IsEvent(n) =>
       \/ \E i \in DOMAIN orders : orders[i] = n
       \/ \E i \in DOMAIN out : Waiting(out[i]) /\ out[i].frame = n
  /\ \A j \in DOMAIN orders : IsEvent(orders[j])

\* A TradeId is that of the deal its frame shows.
DealsMade ==
  \A d \in deals :
    /\ d[1] \in DOMAIN sent /\ IsEvent(d[1])
    /\ LET dict == EventOf(Frames[sent[d[1]]]).dict
       IN dict.event_type \in Deals /\ d[2] = DealTradeId(dict)

EventInv == EventsQueued /\ EventsKept /\ DealsMade

\* What comes next is put behind what is there.
LEMMA AppendNext ==
  ASSUME NEW S, NEW s \in Seq(S), NEW x, NEW u, u = Append(s, x)
  PROVE  /\ Len(s) \in Nat /\ DOMAIN s = 1 .. Len(s) /\ DOMAIN u = 1 .. Len(s) + 1
         /\ \A i \in DOMAIN s : i \in DOMAIN u /\ u[i] = s[i]
         /\ u[Len(s) + 1] = x /\ Len(s) + 1 \in DOMAIN u
         /\ \A i \in DOMAIN u : i \in DOMAIN s \/ i = Len(s) + 1
<1>1. Len(s) \in Nat /\ DOMAIN s = 1 .. Len(s) /\ DOMAIN u = 1 .. Len(s) + 1
  OBVIOUS
<1>2. \A i \in 1 .. Len(s) : u[i] = s[i]
  OBVIOUS
<1>3. u[Len(s) + 1] = x
  OBVIOUS
<1>4. QED
  BY <1>1, <1>2, <1>3

\* What is appended to the queue for a frame: its event alone, or no event.
LEMMA FrameEvents ==
  ASSUME NEW f \in DOMAIN Frames, NEW pieces,
         pieces = IF IncomingDecodes(Frames[f]) THEN Pieces(Frames[f]) ELSE <<>>
  PROVE  /\ OrderEvent(Frames[f]) => pieces = <<EventOf(Frames[f])>> /\ pieces # Panic
         /\ ~OrderEvent(Frames[f]) /\ pieces # Panic =>
              \A i \in DOMAIN pieces : pieces[i].kind # "event"
<1>1. ASSUME OrderEvent(Frames[f])
      PROVE  pieces = <<EventOf(Frames[f])>> /\ pieces # Panic
  <2>1. IncomingDecodes(Frames[f])
    BY <1>1 DEF OrderEvent, IncomingDecodes
  <2>2. Pieces(Frames[f]) = <<EventOf(Frames[f])>>
    BY <1>1 DEF OrderEvent, Pieces
  <2>3. QED
    BY <1>1, <2>1, <2>2, EventAssumption
<1>2. ASSUME ~OrderEvent(Frames[f]), pieces # Panic, NEW i \in DOMAIN pieces
      PROVE  pieces[i].kind # "event"
  <2>1. Right(pieces[i], Frames[f])
    BY <1>2, PiecesFair DEF Fair
  <2>2. QED
    BY <1>2, <2>1 DEF Right
<1>3. QED
  BY <1>1, <1>2

\* A frame is sent.
LEMMA EventHandleFrame ==
  ASSUME MarketInv, EventInv, NEW f \in DOMAIN Frames, HandleFrame(f)
  PROVE  EventInv'
<1> DEFINE pieces == IF IncomingDecodes(Frames[f]) THEN Pieces(Frames[f]) ELSE <<>>
           items  == [i \in DOMAIN pieces |->
                        [piece |-> pieces[i], frame |-> Len(sent'), with |-> emit]]
           old(i) == i \in DOMAIN out /\ out'[i] = out[i]
           new(i) == /\ OrderEvent(Frames[f]) /\ Waiting(out'[i]) /\ out'[i].frame = Len(sent')
                     /\ i \notin DOMAIN out
<1>0. /\ sent' = Append(sent, f) /\ sent \in Seq(DOMAIN Frames)
      /\ orders' = orders /\ deals' = deals /\ orders \in Seq(DOMAIN sent)
      /\ IsSeq(out) /\ running = TRUE
  BY DEF HandleFrame, MarketInv, TypeOK, Queued, consumed, EventInv, EventsQueued
<1>1. /\ Len(sent) \in Nat /\ Len(sent') = Len(sent) + 1
      /\ DOMAIN sent = 1 .. Len(sent) /\ DOMAIN sent' = 1 .. Len(sent') /\ sent'[Len(sent')] = f
      /\ \A n \in DOMAIN sent : n \in DOMAIN sent' /\ sent'[n] = sent[n] /\ n < Len(sent')
  BY <1>0, SentGrows
<1>2. /\ running' = TRUE
      /\ \/ out' = out /\ pieces = Panic
         \/ pieces # Panic /\ out' = out \o items
  BY <1>0 DEF HandleFrame, Survives
<1>3. /\ OrderEvent(Frames[f]) => pieces = <<EventOf(Frames[f])>> /\ pieces # Panic
      /\ ~OrderEvent(Frames[f]) /\ pieces # Panic =>
           \A i \in DOMAIN pieces : pieces[i].kind # "event"
  BY FrameEvents
<1>4. pieces # Panic => IsSeq(pieces)
  BY PiecesFair DEF Fair
<1> HIDE DEF pieces
<1>5. ASSUME pieces # Panic
      PROVE  IsSeq(items) /\ DOMAIN items = DOMAIN pieces
  <2>1. PICK S : pieces \in Seq(S)
    BY <1>4, <1>5 DEF IsSeq
  <2>2. Len(pieces) \in Nat /\ DOMAIN pieces = 1 .. Len(pieces)
    BY <2>1
  <2>3. items \in Seq({items[i] : i \in 1 .. Len(pieces)})
    BY <2>2
  <2>4. QED
    BY <2>3 DEF IsSeq
<1>6. \A i \in DOMAIN items : items[i].piece = pieces[i] /\ items[i].frame = Len(sent')
  OBVIOUS
<1> HIDE DEF items
<1>7. /\ \A i \in DOMAIN out : i \in Nat /\ i <= Len(out) /\ i \in DOMAIN out' /\ out'[i] = out[i]
      /\ \A i \in DOMAIN out' : i \in DOMAIN out \/ i > Len(out)
      /\ Len(out) \in Nat
      /\ \A i \in DOMAIN out' : i \in Nat
      /\ \A i \in DOMAIN out' : Waiting(out'[i]) =>
           \/ i \in DOMAIN out
           \/ /\ OrderEvent(Frames[f]) /\ i = Len(out) + 1 /\ out'[i].frame = Len(sent')
      /\ OrderEvent(Frames[f]) =>
           \E i \in DOMAIN out' : Waiting(out'[i]) /\ out'[i].frame = Len(sent')
  <2>1. CASE out' = out /\ pieces = Panic
    <3>1. ~OrderEvent(Frames[f])
      BY <1>3, <2>1
    <3>2. PICK S : out \in Seq(S)
      BY <1>0 DEF IsSeq
    <3>3. Len(out) \in Nat /\ DOMAIN out = 1 .. Len(out)
      BY <3>2
    <3>4. QED
      BY <2>1, <3>1, <3>3
  <2>2. CASE pieces # Panic /\ out' = out \o items
    <3>1. Joined(out', out, items)
      BY <1>0, <1>5, <2>2, Join
    <3>2. /\ Len(out) \in Nat
          /\ \A i \in DOMAIN out : i \in Nat /\ i <= Len(out) /\ i \in DOMAIN out' /\ out'[i] = out[i]
          /\ \A i \in DOMAIN out' :
               \/ i \in DOMAIN out /\ out'[i] = out[i]
               \/ \E k \in DOMAIN items : i = Len(out) + k /\ out'[i] = items[k]
          /\ \A k \in DOMAIN items : /\ k \in Nat /\ k >= 1
                                     /\ Len(out) + k \in DOMAIN out' /\ out'[Len(out) + k] = items[k]
      BY <3>1 DEF Joined
    <3>3. ASSUME OrderEvent(Frames[f])
          PROVE  DOMAIN items = {1} /\ items[1].piece.kind = "event"
      <4>1. pieces = <<EventOf(Frames[f])>>
        BY <1>3, <3>3
      <4>2. DOMAIN pieces = {1} /\ pieces[1] = EventOf(Frames[f])
        BY <4>1
      <4>3. EventOf(Frames[f]).kind = "event"
        BY DEF EventOf
      <4>4. QED
        BY <1>5, <1>6, <2>2, <4>2, <4>3
    <3>4. \A i \in DOMAIN out' : i \in Nat /\ (i \in DOMAIN out \/ i > Len(out))
      BY <3>2
    <3>5. ASSUME NEW i \in DOMAIN out', Waiting(out'[i]), i \notin DOMAIN out
          PROVE  OrderEvent(Frames[f]) /\ i = Len(out) + 1 /\ out'[i].frame = Len(sent')
      <4>1. PICK k \in DOMAIN items : i = Len(out) + k /\ out'[i] = items[k]
        BY <3>2, <3>5
      <4>2. pieces[k].kind = "event" /\ k \in DOMAIN pieces
        BY <1>5, <1>6, <2>2, <3>5, <4>1 DEF Waiting
      <4>3. OrderEvent(Frames[f])
        BY <1>3, <2>2, <4>2
      <4>4. QED
        BY <1>6, <3>3, <4>1, <4>3
    <3>6. ASSUME OrderEvent(Frames[f])
          PROVE  \E i \in DOMAIN out' : Waiting(out'[i]) /\ out'[i].frame = Len(sent')
      <4>1. Len(out) + 1 \in DOMAIN out' /\ out'[Len(out) + 1] = items[1]
        BY <3>2, <3>3, <3>6
      <4>2. Waiting(items[1]) /\ items[1].frame = Len(sent')
        BY <1>6, <3>3, <3>6 DEF Waiting
      <4>3. QED
        BY <4>1, <4>2
    <3>7. QED
      BY <3>2, <3>4, <3>5, <3>6
  <2>3. QED
    BY <1>2, <2>1, <2>2
<1>8. /\ \A i \in DOMAIN out : out[i].frame \in Nat /\ out[i].frame < Len(sent')
      /\ \A j \in DOMAIN orders :
           orders[j] \in DOMAIN sent /\ orders[j] \in Nat /\ orders[j] < Len(sent')
  <2>1. \A i \in DOMAIN out : out[i].frame \in DOMAIN sent
    BY DEF MarketInv, TypeOK
  <2>2. \A j \in DOMAIN orders : orders[j] \in DOMAIN sent
    BY <1>0
  <2>3. QED
    BY <1>1, <2>1, <2>2
<1>9. EventsQueued'
  <2>1. ASSUME NEW i \in DOMAIN out', NEW j \in DOMAIN out', i < j,
               Waiting(out'[i]), Waiting(out'[j])
        PROVE  out'[i].frame < out'[j].frame
    <3>1. CASE j \in DOMAIN out
      <4>1. i \in DOMAIN out
        BY <1>7, <2>1, <3>1
      <4>2. QED
        BY <1>7, <2>1, <3>1, <4>1 DEF EventInv, EventsQueued
    <3>2. CASE j \notin DOMAIN out
      <4>1. j = Len(out) + 1 /\ out'[j].frame = Len(sent')
        BY <1>7, <2>1, <3>2
      <4>2. i \in DOMAIN out
        BY <1>7, <2>1, <4>1
      <4>3. QED
        BY <1>7, <1>8, <4>1, <4>2
    <3>3. QED
      BY <3>1, <3>2
  <2>2. ASSUME NEW i \in DOMAIN out', NEW j \in DOMAIN orders, Waiting(out'[i])
        PROVE  orders[j] < out'[i].frame
    <3>1. CASE i \in DOMAIN out
      BY <1>7, <2>2, <3>1 DEF EventInv, EventsQueued
    <3>2. CASE i \notin DOMAIN out
      BY <1>7, <1>8, <2>2, <3>2
    <3>3. QED
      BY <3>1, <3>2
  <2>3. QED
    BY <1>0, <1>2, <2>1, <2>2 DEF EventInv, EventsQueued
<1>10. \A n \in DOMAIN sent : IsEvent(n) <=> OrderEvent(Frames[sent'[n]])
  BY <1>1 DEF IsEvent
<1>11. EventsKept'
  <2>1. ASSUME NEW n \in DOMAIN sent', OrderEvent(Frames[sent'[n]])
        PROVE  \/ \E i \in DOMAIN orders : orders[i] = n
               \/ \E i \in DOMAIN out' : Waiting(out'[i]) /\ out'[i].frame = n
    <3>1. CASE n \in DOMAIN sent
      <4>1. \/ \E i \in DOMAIN orders : orders[i] = n
            \/ \E i \in DOMAIN out : Waiting(out[i]) /\ out[i].frame = n
        BY <1>10, <2>1, <3>1 DEF EventInv, EventsKept
      <4>2. QED
        BY <1>7, <4>1
    <3>2. CASE n \notin DOMAIN sent
      <4>1. n = Len(sent')
        BY <1>1, <3>2
      <4>2. QED
        BY <1>1, <1>7, <2>1, <4>1
    <3>3. QED
      BY <3>1, <3>2
  <2>2. \A j \in DOMAIN orders : OrderEvent(Frames[sent'[orders[j]]])
    BY <1>8, <1>10 DEF EventInv, EventsKept
  <2>3. QED
    BY <1>0, <2>1, <2>2 DEF EventsKept, IsEvent
<1>12. DealsMade'
  BY <1>0, <1>1 DEF EventInv, DealsMade, IsEvent
<1>13. QED
  BY <1>9, <1>11, <1>12 DEF EventInv

\* The first piece of the queue is taken.
LEMMA EventDeliver ==
  ASSUME MarketInv, EventInv, Deliver
  PROVE  EventInv'
<1>1. PICK head : head = Head(out)
  OBVIOUS
<1>2. /\ Made(head, sent) /\ sent' = sent /\ running' = running
      /\ orders \in Seq(DOMAIN sent) /\ sent \in Seq(DOMAIN Frames)
      /\ orders' = IF head.piece.kind = "event" THEN Append(orders, head.frame) ELSE orders
      /\ deals' = IF /\ head.piece.kind = "event"
                     /\ head.piece.dict.event_type \in Deals
                    THEN deals \cup {<<head.frame, DealTradeId(head.piece.dict)>>} ELSE deals
  BY <1>1, Taken DEF Deliver, MarketInv, TypeOK
<1>3. /\ 1 \in DOMAIN out /\ head = out[1]
      /\ \A i \in DOMAIN out' : /\ i \in Nat /\ i >= 1 /\ i + 1 \in DOMAIN out
                                /\ out'[i] = out[i + 1]
      /\ \A i \in DOMAIN out : i \in Nat /\ i >= 1 /\ (i = 1 \/ i - 1 \in DOMAIN out')
  <2>1. IsSeq(out) /\ out # <<>> /\ out' = Tail(out)
    BY DEF Deliver, MarketInv, Queued
  <2>2. QED
    BY <1>1, <2>1, Rest
<1>4. Waiting(head) => /\ OrderEvent(Frames[sent[head.frame]]) /\ IsEvent(head.frame)
                       /\ head.piece = EventOf(Frames[sent[head.frame]])
                       /\ head.frame \in DOMAIN sent
  BY <1>2 DEF Made, Right, Waiting, IsEvent
<1>5. \A i \in DOMAIN out' : Waiting(head) /\ Waiting(out'[i]) => head.frame < out'[i].frame
  <2> SUFFICES ASSUME NEW i \in DOMAIN out', Waiting(head), Waiting(out'[i])
               PROVE  head.frame < out'[i].frame
    OBVIOUS
  <2>1. 1 < i + 1 /\ i + 1 \in DOMAIN out /\ out'[i] = out[i + 1]
    BY <1>3
  <2>2. QED
    BY <1>3, <2>1 DEF EventInv, EventsQueued
<1>6. \A j \in DOMAIN orders : Waiting(head) => orders[j] < head.frame
  BY <1>3 DEF EventInv, EventsQueued
<1>7. \/ ~Waiting(head) /\ orders' = orders
      \/ /\ Waiting(head) /\ Len(orders) \in Nat
         /\ DOMAIN orders = 1 .. Len(orders)
         /\ \A j \in DOMAIN orders : j \in DOMAIN orders' /\ orders'[j] = orders[j]
         /\ orders'[Len(orders) + 1] = head.frame /\ Len(orders) + 1 \in DOMAIN orders'
         /\ \A j \in DOMAIN orders' : j \in DOMAIN orders \/ j = Len(orders) + 1
  <2>1. CASE ~Waiting(head)
    BY <1>2, <2>1 DEF Waiting
  <2>2. CASE Waiting(head)
    <3>1. orders' = Append(orders, head.frame) /\ head.frame \in DOMAIN sent
      BY <1>2, <1>4, <2>2 DEF Waiting
    <3>2. QED
      BY <1>2, <2>2, <3>1, AppendNext
  <2>3. QED
    BY <2>1, <2>2
<1>8. \A j \in DOMAIN orders' :
        \/ j \in DOMAIN orders /\ orders'[j] = orders[j]
        \/ Waiting(head) /\ orders'[j] = head.frame /\ j = Len(orders) + 1
  BY <1>7
<1>9. EventsQueued'
  <2>1. ASSUME NEW i \in DOMAIN out', NEW j \in DOMAIN out', i < j,
               Waiting(out'[i]), Waiting(out'[j])
        PROVE  out'[i].frame < out'[j].frame
    <3>1. /\ i + 1 \in DOMAIN out /\ j + 1 \in DOMAIN out /\ i + 1 < j + 1
          /\ out'[i] = out[i + 1] /\ out'[j] = out[j + 1]
      BY <1>3, <2>1
    <3>2. QED
      BY <2>1, <3>1 DEF EventInv, EventsQueued
  <2>2. ASSUME NEW i \in DOMAIN out', NEW j \in DOMAIN orders', Waiting(out'[i])
        PROVE  orders'[j] < out'[i].frame
    <3>1. i + 1 \in DOMAIN out /\ out'[i] = out[i + 1]
      BY <1>3
    <3>2. CASE j \in DOMAIN orders /\ orders'[j] = orders[j]
      BY <2>2, <3>1, <3>2 DEF EventInv, EventsQueued
    <3>3. CASE Waiting(head) /\ orders'[j] = head.frame
      BY <1>5, <2>2, <3>3
    <3>4. QED
      BY <1>8, <3>2, <3>3
  <2>3. ASSUME NEW i \in DOMAIN orders', NEW j \in DOMAIN orders', i < j
        PROVE  orders'[i] < orders'[j]
    <3>1. CASE ~Waiting(head)
      BY <1>7, <2>3, <3>1 DEF EventInv, EventsQueued
    <3>2. CASE Waiting(head)
      <4>1. Len(orders) \in Nat /\ DOMAIN orders = 1 .. Len(orders)
        BY <1>2
      <4>2. CASE j \in DOMAIN orders
        <5>1. i \in DOMAIN orders
          BY <1>8, <2>3, <4>1, <4>2
        <5>2. QED
          BY <1>7, <2>3, <3>2, <4>2, <5>1 DEF EventInv, EventsQueued
      <4>3. CASE j \notin DOMAIN orders
        <5>1. orders'[j] = head.frame /\ j = Len(orders) + 1
          BY <1>8, <4>3
        <5>2. i \in DOMAIN orders /\ orders'[i] = orders[i]
          BY <1>8, <2>3, <4>1, <5>1
        <5>3. QED
          BY <1>6, <3>2, <5>1, <5>2
      <4>4. QED
        BY <4>2, <4>3
    <3>3. QED
      BY <3>1, <3>2
  <2>4. running' = TRUE
    BY <1>2 DEF EventInv, EventsQueued
  <2>5. QED
    BY <2>1, <2>2, <2>3, <2>4 DEF EventsQueued
<1>10. EventsKept'
  <2>1. ASSUME NEW n \in DOMAIN sent, IsEvent(n)
        PROVE  \/ \E i \in DOMAIN orders' : orders'[i] = n
               \/ \E i \in DOMAIN out' : Waiting(out'[i]) /\ out'[i].frame = n
    <3>1. CASE \E i \in DOMAIN orders : orders[i] = n
      BY <1>7, <3>1
    <3>2. CASE \E i \in DOMAIN out : Waiting(out[i]) /\ out[i].frame = n
      <4>1. PICK i \in DOMAIN out : Waiting(out[i]) /\ out[i].frame = n
        BY <3>2
      <4>2. CASE i = 1
        BY <1>3, <1>7, <4>1, <4>2
      <4>3. CASE i # 1
        <5>1. i - 1 \in DOMAIN out' /\ out'[i - 1] = out[(i - 1) + 1] /\ (i - 1) + 1 = i
          BY <1>3, <4>3
        <5>2. QED
          BY <4>1, <5>1
      <4>4. QED
        BY <4>2, <4>3
    <3>3. QED
      BY <2>1, <3>1, <3>2 DEF EventInv, EventsKept
  <2>2. ASSUME NEW j \in DOMAIN orders'
        PROVE  IsEvent(orders'[j])
    BY <1>4, <1>8 DEF EventInv, EventsKept
  <2>3. QED
    BY <1>2, <2>1, <2>2 DEF EventsKept, IsEvent
<1>11. DealsMade'
  <2>1. ASSUME NEW d \in deals'
        PROVE  /\ d[1] \in DOMAIN sent /\ OrderEvent(Frames[sent[d[1]]])
               /\ EventOf(Frames[sent[d[1]]]).dict.event_type \in Deals
               /\ d[2] = DealTradeId(EventOf(Frames[sent[d[1]]]).dict)
    <3>1. CASE d \in deals
      BY <3>1 DEF EventInv, DealsMade, IsEvent
    <3>2. CASE d \notin deals
      <4>1. /\ Waiting(head) /\ head.piece.dict.event_type \in Deals
            /\ d = <<head.frame, DealTradeId(head.piece.dict)>>
        BY <1>2, <2>1, <3>2 DEF Waiting
      <4>2. d[1] = head.frame /\ d[2] = DealTradeId(head.piece.dict)
        BY <4>1
      <4>3. QED
        BY <1>4, <4>1, <4>2
    <3>3. QED
      BY <3>1, <3>2
  <2>2. QED
    BY <1>2, <2>1 DEF DealsMade, IsEvent
<1>12. QED
  BY <1>9, <1>10, <1>11 DEF EventInv

\* Every step keeps it.
LEMMA EventSteps ==
  MarketInv /\ EventInv /\ [Next]_vars => EventInv'
<1> SUFFICES ASSUME MarketInv, EventInv, [Next]_vars PROVE EventInv'
  OBVIOUS
<1>1. ASSUME UNCHANGED <<sent, running, out, deals, orders>>
      PROVE  EventInv'
  BY <1>1 DEF EventInv, EventsQueued, EventsKept, DealsMade, IsEvent
<1>2. \/ \E f \in DOMAIN Frames : HandleFrame(f)
      \/ Deliver
      \/ UNCHANGED <<sent, running, out, deals, orders>>
  BY DEF Next, vars, consumed, SetOutputs, RequestBars, RequestTradeTicks, Request
<1>3. QED
  BY <1>1, <1>2, EventHandleFrame, EventDeliver

LEMMA EventAlways ==
  Spec => [](MarketInv /\ EventInv)
<1>1. Init => MarketInv /\ EventInv
  BY MarketInit DEF Init, EventInv, EventsQueued, EventsKept, DealsMade
<1>2. MarketInv /\ EventInv /\ [Next]_vars => MarketInv' /\ EventInv'
  BY MarketSteps, EventSteps
<1>3. QED
  BY <1>1, <1>2, PTL DEF Spec

(* No order event that decodes is lost, made up, repeated or overtaken        *)
(* between the socket and the execution client, whatever frames come in       *)
(* between, a poisoned one included: the loop survives every message, and     *)
(* what it appends for a frame is that frame's event alone, or none           *)
(* (websocket.rs 146-151, 263-290).                                           *)
THEOREM EventsCorrect ==
  Spec => []EventsInOrder
<1>1. MarketInv /\ EventInv => EventsInOrder
  <2> SUFFICES ASSUME MarketInv, EventInv PROVE EventsInOrder
    OBVIOUS
  <2> DEFINE waiting == {out[i].frame : i \in {j \in DOMAIN out : out[j].piece.kind = "event"}}
             events  == {n \in DOMAIN sent : IsEvent(n)}
  <2>1. \A w : w \in waiting <=> \E i \in DOMAIN out : Waiting(out[i]) /\ out[i].frame = w
    BY DEF Waiting
  <2> HIDE DEF waiting
  <2>2. \A n : n \in Range(orders) <=> \E i \in DOMAIN orders : orders[i] = n
    BY DEF Range
  <2>3. \A i \in DOMAIN orders : orders[i] \in DOMAIN sent /\ IsEvent(orders[i])
    BY DEF MarketInv, TypeOK, EventInv, EventsKept
  <2>4. \A i \in DOMAIN out : Waiting(out[i]) => out[i].frame \in DOMAIN sent /\ IsEvent(out[i].frame)
    BY DEF MarketInv, Queued, Made, Right, Waiting, IsEvent
  <2>5. events \subseteq Range(orders) \cup waiting
    BY <2>1, <2>2 DEF EventInv, EventsKept
  <2>6. Range(orders) \cup waiting \subseteq events
    BY <2>1, <2>2, <2>3, <2>4
  <2>7. \A w \in waiting, i \in DOMAIN orders : orders[i] < w
    BY <2>1 DEF EventInv, EventsQueued
  <2>8. events = Range(orders) \cup waiting
    BY <2>5, <2>6
  <2>9. QED
    BY <2>7, <2>8 DEF EventsInOrder, EventInv, EventsQueued, waiting
<1>2. QED
  BY <1>1, EventAlways, PTL

(* Two fills have one TradeId exactly when they are one deal, however many of *)
(* the deals of a trade carry the exchange's sequence number, if numbers are  *)
(* given out as order_parse.rs 76-87 says: the TradeId is made of the fields  *)
(* of the frame the deal came in (execution.py 783-827).                      *)
THEOREM ApartCorrect ==
  Spec => []DealsToldApart
<1>1. ASSUME NEW f \in DOMAIN Frames, OrderEvent(Frames[f]), EventOf(Frames[f]).dict.event_type \in Deals
      PROVE  LET data == Frames[f].data
                 seq  == Sequence(data)
             IN DealTradeId(EventOf(Frames[f]).dict)
                  = <<data.trade_id, IF seq = Err THEN data.ordno ELSE seq>>
  <2> DEFINE frame == Frames[f]
             dict  == order_event_to_pydict(frame.event, frame.data)
  <2>1. EventOf(frame).dict = dict
    BY DEF EventOf
  <2>2. frame.event \in {"OrderState.StockOrder", "OrderState.FuturesOrder",
                         "OrderState.StockDeal", "OrderState.FuturesDeal"}
    BY <1>1 DEF OrderEvent, parse_event
  <2>3. frame.event \notin {"OrderState.StockOrder", "OrderState.FuturesOrder"}
    <3>1. ASSUME frame.event \in {"OrderState.StockOrder", "OrderState.FuturesOrder"}
          PROVE  FALSE
      <4>1. dict.event_type = EventType(frame.event)
        BY <3>1 DEF order_event_to_pydict, OrderDict
      <4>2. EventType(frame.event) \in {"stock_order", "futures_order"}
        BY <3>1 DEF EventType
      <4>3. QED
        BY <1>1, <2>1, <4>1, <4>2 DEF Deals
    <3>2. QED
      BY <3>1
  <2>4. dict = DealDict(frame.event, frame.data)
    BY <2>3 DEF order_event_to_pydict
  <2>5. /\ dict.trade_id = frame.data.trade_id /\ dict.ordno = frame.data.ordno
        /\ dict.exchange_seq = Field(frame.data, "exchange_seq", Err)
    BY <2>4 DEF DealDict
  <2> HIDE DEF dict
  <2>6. QED
    BY <2>1, <2>5 DEF DealTradeId, Sequence
<1>2. MarketInv /\ EventInv => DealsToldApart
  <2> SUFFICES ASSUME MarketInv, EventInv, NEW d \in deals, NEW e \in deals
               PROVE  d[2] = e[2] <=> /\ Frames[sent[d[1]]].data.trade_id = Frames[sent[e[1]]].data.trade_id
                                      /\ Frames[sent[d[1]]].data.ordno = Frames[sent[e[1]]].data.ordno
    BY DEF DealsToldApart
  <2>1. PICK f \in DOMAIN Frames, g \in DOMAIN Frames : f = sent[d[1]] /\ g = sent[e[1]]
    BY DEF MarketInv, TypeOK, EventInv, DealsMade
  <2>2. /\ OrderEvent(Frames[f]) /\ EventOf(Frames[f]).dict.event_type \in Deals
        /\ OrderEvent(Frames[g]) /\ EventOf(Frames[g]).dict.event_type \in Deals
        /\ d[2] = DealTradeId(EventOf(Frames[f]).dict)
        /\ e[2] = DealTradeId(EventOf(Frames[g]).dict)
    BY <2>1 DEF EventInv, DealsMade, IsEvent
  <2>3. PICK x, y : x = Frames[f].data /\ y = Frames[g].data
    OBVIOUS
  <2>4. /\ d[2] = <<x.trade_id, IF Sequence(x) = Err THEN x.ordno ELSE Sequence(x)>>
        /\ e[2] = <<y.trade_id, IF Sequence(y) = Err THEN y.ordno ELSE Sequence(y)>>
    BY <1>1, <2>2, <2>3
  <2>5. x.trade_id = y.trade_id =>
          /\ x.ordno = y.ordno => Sequence(x) = Sequence(y)
          /\ Sequence(x) # Err =>
               Sequence(x) # y.ordno /\ (Sequence(x) = Sequence(y) => x.ordno = y.ordno)
          /\ Sequence(y) # Err => Sequence(y) # x.ordno
    BY <2>2, <2>3, NumberingAssumption
  <2>6. QED
    BY <2>1, <2>3, <2>4, <2>5
<1>3. QED
  BY <1>2, EventAlways, PTL
=============================================================================
