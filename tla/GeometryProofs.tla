---------------------------- MODULE GeometryProofs ----------------------------
(***************************************************************************)
(* Proofs about the geometry of a crossing, for screens of every size: the *)
(* cursor enters on the border it came over, at the same fraction of it,   *)
(* and does not drift when it goes back.                                   *)
(***************************************************************************)
EXTENDS MCGeometry, TLAPS

-----------------------------------------------------------------------------
\* Rounding.

\* A number is a multiple of the divisor and a remainder.
LEMMA Division ==
  ASSUME NEW a \in Int, NEW b \in Int, b > 0
  PROVE  a = b * (a \div b) + (a % b)
BY SMT

\* The remainder is less than the divisor.
LEMMA Remainder ==
  ASSUME NEW a \in Int, NEW b \in Int, b > 0
  PROVE  a \div b \in Int /\ a % b \in 0..(b - 1)
<1>1. a \div b \in Int
  BY SMT
<1>2. a % b \in 0..(b - 1)
  BY SMT
<1> QED BY <1>1, <1>2

\* A product with a positive number keeps the order.
LEMMA ProductOrder ==
  ASSUME NEW s \in Int, s > 0, NEW x \in Int, NEW y \in Int
  PROVE  /\ s * x \in Int /\ s * y \in Int
         /\ x <= y => s * x <= s * y
         /\ s * x < s * y => x < y
BY SMT

\* The quotient of a number by s, to the nearest integer, is within s / 2.
LEMMA RoundedFacts ==
  ASSUME NEW a \in Nat, NEW s \in Nat, s > 0, NEW n \in Nat, a <= s * n
  PROVE  LET q == RoundedQuotient(a, s)
         IN q \in 0..n /\ s * q \in Int /\ 2 * (s * q - a) <= s /\ 2 * (a - s * q) <= s
<1> DEFINE q == RoundedQuotient(a, s)
           r == (2 * a + s) % (2 * s)
<1>1. /\ q \in Int /\ r \in 0..(2 * s - 1)
      /\ 2 * a + s = (2 * s) * q + r
  <2>1. 2 * a + s \in Nat /\ 2 * s \in Nat /\ 2 * s > 0
    OBVIOUS
  <2> QED BY <2>1, Division, Remainder DEF RoundedQuotient
<1> HIDE DEF q, r
<1> DEFINE sq == s * q
           sn == s * n
<1>2. sq \in Int /\ (2 * s) * q = 2 * sq /\ sn \in Int
  BY <1>1
<1>3. s * (n + 1) = sn + s /\ s * (0 - 1) = 0 - s
  OBVIOUS
<1>4. 2 * (sq - a) <= s /\ 2 * (a - sq) <= s
  <2> HIDE DEF sq
  <2> QED BY <1>1, <1>2
<1>5. sq < sn + s /\ 0 - s < sq
  <2>1. a <= sn
    OBVIOUS
  <2> HIDE DEF sq, sn
  <2> QED BY <1>1, <1>2, <1>4, <2>1
<1>6. q < n + 1
  BY <1>1, <1>3, <1>5, ProductOrder
<1>7. 0 - 1 < q
  BY <1>1, <1>3, <1>5, ProductOrder
<1> QED BY <1>1, <1>2, <1>4, <1>6, <1>7 DEF q

\* A number brought between two others.
LEMMA ClampedFacts ==
  ASSUME NEW v \in Int, NEW n \in Nat
  PROVE  Clamp(v, 0, n) \in 0..n /\ (v \in 0..n => Clamp(v, 0, n) = v)
BY DEF Clamp

\* A coordinate on a border of s + 1 pixels, taken to one of n + 1 pixels.
LEMMA ScaledFacts ==
  ASSUME NEW s \in Nat, NEW n \in Nat, s > 0, n > 0, NEW v \in Int
  PROVE  LET c == Clamp(v, 0, s)
             e == EntryCoordinate(v, s + 1, n + 1)
         IN /\ c \in 0..s /\ e \in 0..n
            /\ c * n \in Int /\ e * s \in Int
            /\ 2 * (e * s - c * n) <= s /\ 2 * (c * n - e * s) <= s
<1> DEFINE c == Clamp(v, 0, s)
           e == EntryCoordinate(v, s + 1, n + 1)
           q == RoundedQuotient(c * n, s)
<1>1. c \in 0..s
  BY ClampedFacts
<1>2. e = Clamp(q, 0, n)
  BY DEF EntryCoordinate
<1> HIDE DEF c, e
<1>3. c * n \in Nat /\ c * n <= s * n
  <2>1. n * c <= n * s /\ n * 0 <= n * c
    BY <1>1, ProductOrder
  <2> QED BY <1>1, <2>1
<1>4. q \in 0..n /\ s * q \in Int /\ 2 * (s * q - c * n) <= s /\ 2 * (c * n - s * q) <= s
  BY <1>3, RoundedFacts
<1> HIDE DEF q
<1>5. e = q
  BY <1>2, <1>4, ClampedFacts
<1>6. e * s = s * q
  BY <1>4, <1>5
<1> QED BY <1>1, <1>3, <1>4, <1>5, <1>6 DEF c, e

\* To a border at least as long and back: the same coordinate.
LEMMA ScaledBack ==
  ASSUME NEW s \in Nat, NEW n \in Nat, s > 0, s <= n, NEW v \in Int
  PROVE  EntryCoordinate(EntryCoordinate(v, s + 1, n + 1), n + 1, s + 1) = Clamp(v, 0, s)
<1> DEFINE c == Clamp(v, 0, s)
           e == EntryCoordinate(v, s + 1, n + 1)
           b == EntryCoordinate(e, n + 1, s + 1)
<1>0. n > 0
  OBVIOUS
<1>1. /\ c \in 0..s /\ e \in 0..n
      /\ c * n \in Int /\ e * s \in Int
      /\ 2 * (e * s - c * n) <= s /\ 2 * (c * n - e * s) <= s
  BY <1>0, ScaledFacts
<1> HIDE DEF c, e
<1>2. Clamp(e, 0, n) = e
  BY <1>1, ClampedFacts
<1>3. /\ b \in 0..s /\ b * n \in Int
      /\ 2 * (b * n - e * s) <= n /\ 2 * (e * s - b * n) <= n
  <2> DEFINE d == Clamp(e, 0, n)
  <2>1. /\ b \in 0..s /\ b * n \in Int
        /\ 2 * (b * n - d * s) <= n /\ 2 * (d * s - b * n) <= n
    BY <1>0, <1>1, ScaledFacts
  <2> HIDE DEF b, d
  <2>2. d = e
    BY <1>2 DEF d
  <2> QED BY <2>1, <2>2
<1> HIDE DEF b
<1>4. CASE s = n
  <2>1. e = c
    <3>1. n * (e + 1) = e * s + n /\ n * (c + 1) = c * n + n /\ n * e = e * s /\ n * c = c * n
      BY <1>1, <1>4
    <3>2. n * e < n * (c + 1) /\ n * c < n * (e + 1)
      BY <1>0, <1>1, <1>4, <3>1
    <3>3. e < c + 1 /\ c < e + 1
      BY <1>0, <1>1, <3>2, ProductOrder
    <3> QED BY <1>1, <3>3
  <2>2. b = e
    <3>1. n * (e + 1) = e * s + n /\ n * (b + 1) = b * n + n /\ n * e = e * s /\ n * b = b * n
      BY <1>1, <1>3, <1>4
    <3>2. n * e < n * (b + 1) /\ n * b < n * (e + 1)
      BY <1>0, <1>1, <1>3, <3>1
    <3>3. e < b + 1 /\ b < e + 1
      BY <1>0, <1>1, <1>3, <3>2, ProductOrder
    <3> QED BY <1>1, <1>3, <3>3
  <2> QED BY <2>1, <2>2 DEF b, c, e
<1>5. CASE s < n
  <2>1. n * (c + 1) = c * n + n /\ n * (b + 1) = b * n + n /\ n * b = b * n /\ n * c = c * n
    BY <1>1, <1>3
  <2>2. n * b < n * (c + 1) /\ n * c < n * (b + 1)
    BY <1>0, <1>1, <1>3, <1>5, <2>1
  <2>3. b < c + 1 /\ c < b + 1
    BY <1>0, <1>1, <1>3, <2>2, ProductOrder
  <2>4. b = c
    BY <1>1, <1>3, <2>3
  <2> QED BY <2>4 DEF b, c, e
<1> QED BY <1>4, <1>5

-----------------------------------------------------------------------------
\* Two screens.

Keys == {KeyOf("here"), KeyOf("there")}

\* The screens are two that touch, and the point is one of either.
GeometryInv ==
  /\ \E here \in Sizes, there \in Sizes, edge \in Edges : t = TwoScreens(here, there, edge)
  /\ point \in [key : Keys, x : Int, y : Int]

\* Who is whose neighbour.
LEMMA NeighborFacts ==
  ASSUME NEW edge \in Edges, NEW e \in Edges
  PROVE  /\ Opposite[edge] \in Edges
         /\ NeighborCell(Origin, e) # Origin
         /\ NeighborCell(Origin, e) = NeighborCell(Origin, edge) <=> e = edge
         /\ NeighborCell(NeighborCell(Origin, edge), e) # NeighborCell(Origin, edge)
         /\ NeighborCell(NeighborCell(Origin, edge), e) = Origin <=> e = Opposite[edge]
BY DEF Edges, Opposite, NeighborCell, Origin

\* The maps of the topology of two screens.
LEMMA TwoScreensFacts ==
  ASSUME NEW here \in Sizes, NEW there \in Sizes, NEW edge \in Edges
  PROVE  LET two  == TwoScreens(here, there, edge)
             next == NeighborCell(Origin, edge)
         IN /\ KeyOf("here") # KeyOf("there")
            /\ DOMAIN two.screens = Keys
            /\ two.screens[KeyOf("here")] = [cell |-> Origin, info |-> here, local |-> TRUE]
            /\ two.screens[KeyOf("there")] = [cell |-> next, info |-> there, local |-> FALSE]
            /\ DOMAIN two.cells = {Origin, next}
            /\ two.cells[Origin] = KeyOf("here") /\ two.cells[next] = KeyOf("there")
<1> DEFINE two  == TwoScreens(here, there, edge)
           next == NeighborCell(Origin, edge)
           H    == KeyOf("here")
           T    == KeyOf("there")
           new  == [k \in {H, T} |-> IF k = H
                                     THEN [cell |-> Origin, info |-> here, local |-> TRUE]
                                     ELSE [cell |-> next, info |-> there, local |-> FALSE]]
           C    == {new[k].cell : k \in {H, T}}
<1>1. H # T
  BY DEF KeyOf
<1>2. next # Origin
  BY NeighborFacts
<1> HIDE DEF H, T, next
<1>3. /\ new[H] = [cell |-> Origin, info |-> here, local |-> TRUE]
      /\ new[T] = [cell |-> next, info |-> there, local |-> FALSE]
      /\ DOMAIN new = {H, T}
  BY <1>1
<1> HIDE DEF new
<1>4. C = {Origin, next}
  BY <1>3
<1>5. two.screens = [k \in {} \cup {H, T} |->
                         IF k \in {H, T} THEN new[k] ELSE EmptyTopology.screens[k]]
  BY <1>3 DEF TwoScreens, AddScreens, EmptyTopology, new, H, T, next
<1>6. two.cells = [c \in {} \cup C |-> IF c \in {} THEN EmptyTopology.cells[c]
                                       ELSE CHOOSE k \in {H, T} : new[k].cell = c]
  BY <1>3, ZenonT(40) DEF TwoScreens, AddScreens, EmptyTopology, new, H, T, next
<1> HIDE DEF two, C
<1>7. DOMAIN two.screens = {H, T} /\ two.screens[H] = new[H] /\ two.screens[T] = new[T]
  BY <1>5
<1>8. (CHOOSE k \in {H, T} : new[k].cell = Origin) = H
  BY <1>2, <1>3
<1>9. (CHOOSE k \in {H, T} : new[k].cell = next) = T
  BY <1>2, <1>3
<1>10. DOMAIN two.cells = {Origin, next} /\ two.cells[Origin] = H /\ two.cells[next] = T
  BY <1>4, <1>6, <1>8, <1>9
<1> QED BY <1>1, <1>3, <1>7, <1>10 DEF two, H, T, next, Keys

\* A crossing leads from the one screen to the other, and the opposite border
\* leads back.
LEMMA ExitFacts ==
  ASSUME GeometryInv, NEW edge \in Edges, Exits(edge)
  PROVE  LET near == InfoOf(point.key)
             next == FindNeighbor(t, point.key, edge)
             far  == InfoOf(next)
         IN /\ near \in Sizes /\ far \in Sizes /\ next \in Keys
            /\ FindNeighbor(t, next, Opposite[edge]) = point.key
            /\ Entry(edge) =
                 [key |-> next,
                  x   |-> CASE edge = "Left"  -> far.width - 1
                            [] edge = "Right" -> 0
                            [] OTHER -> EntryCoordinate(point.x, near.width, far.width),
                  y   |-> CASE edge = "Top"    -> far.height - 1
                            [] edge = "Bottom" -> 0
                            [] OTHER -> EntryCoordinate(point.y, near.height, far.height)]
<1> DEFINE H == KeyOf("here")
           T == KeyOf("there")
           next == FindNeighbor(t, point.key, edge)
<1>1. PICK here \in Sizes, there \in Sizes, side \in Edges : t = TwoScreens(here, there, side)
  BY DEF GeometryInv
<1>2. point.key \in {H, T}
  BY DEF GeometryInv, Keys
<1> DEFINE N == NeighborCell(Origin, side)
<1>3. /\ H # T /\ DOMAIN t.screens = {H, T}
      /\ t.screens[H].cell = Origin /\ t.screens[H].info = here
      /\ t.screens[T].cell = N /\ t.screens[T].info = there
      /\ DOMAIN t.cells = {Origin, N}
      /\ t.cells[Origin] = H /\ t.cells[N] = T
  <2> DEFINE two == TwoScreens(here, there, side)
  <2>1. /\ H # T /\ DOMAIN two.screens = {H, T}
        /\ two.screens[H] = [cell |-> Origin, info |-> here, local |-> TRUE]
        /\ two.screens[T] = [cell |-> N, info |-> there, local |-> FALSE]
        /\ DOMAIN two.cells = {Origin, N}
        /\ two.cells[Origin] = H /\ two.cells[N] = T
    BY TwoScreensFacts DEF Keys
  <2>2. t = two
    BY <1>1
  <2> HIDE DEF two, H, T, N
  <2> QED BY <2>1, <2>2
<1>4. NeighborCell(t.screens[point.key].cell, edge) \in DOMAIN t.cells
  BY DEF Exits, CanMapEntryPoint, HasNeighbor
<1> HIDE DEF H, T
<1>5. CASE point.key = H
  <2>1. edge = side
    BY <1>3, <1>4, <1>5, NeighborFacts
  <2>2. next = T
    BY <1>3, <1>5, <2>1 DEF FindNeighbor
  <2>3. NeighborCell(N, Opposite[edge]) = Origin
    BY <2>1, NeighborFacts
  <2>4. FindNeighbor(t, T, Opposite[edge]) = H
    BY <1>3, <2>3 DEF FindNeighbor
  <2> QED BY <1>3, <1>5, <2>2, <2>4 DEF Entry, MapEntryPoint, InfoOf, Keys, H, T
<1>6. CASE point.key = T
  <2>1. edge = Opposite[side]
    BY <1>3, <1>4, <1>6, NeighborFacts
  <2>2. NeighborCell(N, edge) = Origin
    BY <2>1, NeighborFacts
  <2>3. next = H
    BY <1>3, <1>6, <2>2 DEF FindNeighbor
  <2>4. Opposite[edge] = side
    BY <2>1 DEF Opposite, Edges
  <2>5. FindNeighbor(t, H, Opposite[edge]) = T
    BY <1>3, <2>4 DEF FindNeighbor
  <2> QED BY <1>3, <1>6, <2>3, <2>5 DEF Entry, MapEntryPoint, InfoOf, Keys, H, T
<1> QED BY <1>2, <1>5, <1>6

-----------------------------------------------------------------------------
\* The sizes of a screen, along a border and across.
LEMMA SizeFacts ==
  ASSUME NEW info \in Sizes
  PROVE  info.width \in Nat /\ info.height \in Nat /\ info.width > 0 /\ info.height > 0
BY ExtentAssumption DEF Sizes

\* What the coordinate along the border becomes.
LEMMA AlongFacts ==
  ASSUME GeometryInv, NEW edge \in Edges, Exits(edge)
  PROVE  LET p    == Entry(edge)
             near == ExtentAlong(edge, point.key)
             far  == ExtentAlong(edge, p.key)
             back == MapEntryPoint(t, p.key, p.x, p.y, Opposite[edge])
         IN /\ near \in Nat /\ far \in Nat /\ near > 0 /\ far > 0
            /\ Along(edge, point) \in Int
            /\ Along(edge, p) = EntryCoordinate(Along(edge, point), near, far)
            /\ Along(edge, back) = EntryCoordinate(Along(edge, p), far, near)
<1> DEFINE near == InfoOf(point.key)
           next == FindNeighbor(t, point.key, edge)
           far  == InfoOf(next)
           p    == Entry(edge)
           q    == MapEntryPoint(t, next, p.x, p.y, Opposite[edge])
<1>1. /\ near \in Sizes /\ far \in Sizes
      /\ FindNeighbor(t, next, Opposite[edge]) = point.key
      /\ p = [key |-> next,
              x   |-> CASE edge = "Left"  -> far.width - 1
                        [] edge = "Right" -> 0
                        [] OTHER -> EntryCoordinate(point.x, near.width, far.width),
              y   |-> CASE edge = "Top"    -> far.height - 1
                        [] edge = "Bottom" -> 0
                        [] OTHER -> EntryCoordinate(point.y, near.height, far.height)]
  BY ExitFacts
<1>2. point.x \in Int /\ point.y \in Int
  BY DEF GeometryInv
<1>3. q = [key |-> point.key,
           x   |-> CASE Opposite[edge] = "Left"  -> near.width - 1
                     [] Opposite[edge] = "Right" -> 0
                     [] OTHER -> EntryCoordinate(p.x, far.width, near.width),
           y   |-> CASE Opposite[edge] = "Top"    -> near.height - 1
                     [] Opposite[edge] = "Bottom" -> 0
                     [] OTHER -> EntryCoordinate(p.y, far.height, near.height)]
  BY <1>1 DEF MapEntryPoint, InfoOf
<1>4. /\ near.width \in Nat /\ near.height \in Nat /\ near.width > 0 /\ near.height > 0
      /\ far.width \in Nat /\ far.height \in Nat /\ far.width > 0 /\ far.height > 0
  BY <1>1, SizeFacts
<1>5. p.key = next
  BY <1>1
<1> HIDE DEF p, q
<1>6. Along(edge, q) = EntryCoordinate(Along(edge, p), ExtentAlong(edge, next),
                                         ExtentAlong(edge, point.key))
  BY <1>3 DEF Along, ExtentAlong, Edges, Opposite, near, far
<1>7. Along(edge, p) = EntryCoordinate(Along(edge, point), ExtentAlong(edge, point.key),
                                         ExtentAlong(edge, next))
  BY <1>1 DEF Along, ExtentAlong, Edges, near, far
<1>8. /\ ExtentAlong(edge, point.key) \in Nat /\ ExtentAlong(edge, point.key) > 0
      /\ ExtentAlong(edge, next) \in Nat /\ ExtentAlong(edge, next) > 0
      /\ Along(edge, point) \in Int
  BY <1>2, <1>4 DEF ExtentAlong, Along, near, far
<1> QED BY <1>5, <1>6, <1>7, <1>8 DEF p, q

\* The coordinate is one of the border's pixels.
LEMMA OnBorder ==
  ASSUME NEW v \in Int, NEW near \in Nat, near > 0, NEW far \in Nat, far > 0
  PROVE  EntryCoordinate(v, near, far) \in 0..(far - 1)
<1>1. CASE near = 1 \/ far = 1
  BY <1>1 DEF EntryCoordinate
<1>2. CASE near > 1 /\ far > 1
  <2> DEFINE s == near - 1
             n == far - 1
  <2>1. s \in Nat /\ n \in Nat /\ s > 0 /\ n > 0 /\ near = s + 1 /\ far = n + 1
    BY <1>2
  <2> HIDE DEF s
  <2>2. EntryCoordinate(v, s + 1, n + 1) \in 0..n
    BY <2>1, ScaledFacts
  <2> QED BY <2>1, <2>2
<1> QED BY <1>1, <1>2

\* On the border, and on one of its pixels.
LEMMA EntersInv == GeometryInv => EntersOnTheBorder
<1> SUFFICES ASSUME GeometryInv, NEW edge \in Edges, Exits(edge)
             PROVE  LET p == Entry(edge) IN
                      /\ p.x \in 0..(InfoOf(p.key).width - 1)
                      /\ p.y \in 0..(InfoOf(p.key).height - 1)
                      /\ OnEdge(InfoOf(p.key), p.x, p.y, Opposite[edge])
  BY DEF EntersOnTheBorder
<1> DEFINE near == InfoOf(point.key)
           next == FindNeighbor(t, point.key, edge)
           far  == InfoOf(next)
           p    == Entry(edge)
           across == EntryCoordinate(point.x, near.width, far.width)
           along  == EntryCoordinate(point.y, near.height, far.height)
<1>1. /\ near \in Sizes /\ far \in Sizes
      /\ p = [key |-> next,
              x   |-> CASE edge = "Left"  -> far.width - 1
                        [] edge = "Right" -> 0
                        [] OTHER -> across,
              y   |-> CASE edge = "Top"    -> far.height - 1
                        [] edge = "Bottom" -> 0
                        [] OTHER -> along]
  BY ExitFacts
<1>2. point.x \in Int /\ point.y \in Int
  BY DEF GeometryInv
<1>3. /\ near.width \in Nat /\ near.height \in Nat /\ near.width > 0 /\ near.height > 0
      /\ far.width \in Nat /\ far.height \in Nat /\ far.width > 0 /\ far.height > 0
  BY <1>1, SizeFacts
<1> HIDE DEF near, next, far, p
<1>4. across \in 0..(far.width - 1) /\ along \in 0..(far.height - 1)
  BY <1>2, <1>3, OnBorder
<1> HIDE DEF across, along
<1>5. p.key = next /\ p.x \in 0..(far.width - 1) /\ p.y \in 0..(far.height - 1)
  BY <1>1, <1>3, <1>4 DEF Edges
<1>6. OnEdge(far, p.x, p.y, Opposite[edge])
  <2>1. CASE edge = "Left"
    BY <1>1, <1>3, <2>1 DEF OnEdge, Opposite
  <2>2. CASE edge = "Right"
    BY <1>1, <1>3, <2>2 DEF OnEdge, Opposite
  <2>3. CASE edge = "Top"
    BY <1>1, <1>3, <2>3 DEF OnEdge, Opposite
  <2>4. CASE edge = "Bottom"
    BY <1>1, <1>3, <2>4 DEF OnEdge, Opposite
  <2> QED BY <2>1, <2>2, <2>3, <2>4 DEF Edges
<1> QED BY <1>5, <1>6 DEF p, far

\* In proportion.
LEMMA ProportionInv == GeometryInv => EntryIsProportional
<1> SUFFICES ASSUME GeometryInv, NEW edge \in Edges, Exits(edge)
             PROVE  LET p          == Entry(edge)
                        sourceSpan == ExtentAlong(edge, point.key) - 1
                        targetSpan == ExtentAlong(edge, p.key) - 1
                        source     == Clamp(Along(edge, point), 0, sourceSpan)
                    IN sourceSpan > 0 /\ targetSpan > 0 =>
                         2 * Abs(Along(edge, p) * sourceSpan - source * targetSpan) <= sourceSpan
  BY DEF EntryIsProportional
<1> DEFINE p  == Entry(edge)
           s  == ExtentAlong(edge, point.key) - 1
           n  == ExtentAlong(edge, p.key) - 1
           v  == Along(edge, point)
           c  == Clamp(v, 0, s)
           e  == Along(edge, p)
<1>1. /\ s + 1 = ExtentAlong(edge, point.key) /\ n + 1 = ExtentAlong(edge, p.key)
      /\ s \in Nat /\ n \in Nat /\ v \in Int
      /\ e = EntryCoordinate(v, ExtentAlong(edge, point.key), ExtentAlong(edge, p.key))
  BY AlongFacts
<1> SUFFICES ASSUME s > 0, n > 0
             PROVE  2 * Abs(e * s - c * n) <= s
  OBVIOUS
<1> HIDE DEF s, n, v, e
<1>2. e = EntryCoordinate(v, s + 1, n + 1)
  BY <1>1
<1>3. /\ c * n \in Int /\ e * s \in Int
      /\ 2 * (e * s - c * n) <= s /\ 2 * (c * n - e * s) <= s
  BY <1>1, <1>2, ScaledFacts
<1> DEFINE a == e * s
           b == c * n
<1>4. a \in Int /\ b \in Int /\ 2 * (a - b) <= s /\ 2 * (b - a) <= s
  BY <1>3
<1> HIDE DEF a, b
<1>5. 2 * Abs(a - b) <= s
  BY <1>1, <1>4 DEF Abs
<1> QED BY <1>5 DEF a, b

\* There and back.
LEMMA BackInv == GeometryInv => CrossingBackIsExact
<1> SUFFICES ASSUME GeometryInv, NEW edge \in Edges, Exits(edge)
             PROVE  LET p      == Entry(edge)
                        extent == ExtentAlong(edge, point.key)
                        back   == MapEntryPoint(t, p.key, p.x, p.y, Opposite[edge])
                    IN extent > 1 /\ ExtentAlong(edge, p.key) >= extent =>
                         Along(edge, back) = Clamp(Along(edge, point), 0, extent - 1)
  BY DEF CrossingBackIsExact
<1> DEFINE p    == Entry(edge)
           near == ExtentAlong(edge, point.key)
           far  == ExtentAlong(edge, p.key)
           back == MapEntryPoint(t, p.key, p.x, p.y, Opposite[edge])
           v    == Along(edge, point)
<1>1. /\ near \in Nat /\ far \in Nat /\ near > 0 /\ far > 0 /\ v \in Int
      /\ Along(edge, p) = EntryCoordinate(v, near, far)
      /\ Along(edge, back) = EntryCoordinate(Along(edge, p), far, near)
  BY AlongFacts
<1> HIDE DEF p, near, far, back, v
<1> SUFFICES ASSUME near > 1, far >= near
             PROVE  Along(edge, back) = Clamp(v, 0, near - 1)
  BY DEF p, near, far, back, v
<1> DEFINE s == near - 1
           n == far - 1
<1>2. s \in Nat /\ n \in Nat /\ s > 0 /\ s <= n /\ near = s + 1 /\ far = n + 1
  BY <1>1
<1> HIDE DEF n
<1>3. EntryCoordinate(EntryCoordinate(v, s + 1, n + 1), n + 1, s + 1) = Clamp(v, 0, s)
  BY <1>1, <1>2, ScaledBack
<1> QED BY <1>1, <1>2, <1>3

\* The cursor is about to leave the screen at the origin.
LEMMA InitGeometry == Init => GeometryInv
<1> SUFFICES ASSUME Init  PROVE GeometryInv
  OBVIOUS
<1>1. PICK here \in Sizes, there \in Sizes, edge \in Edges :
        /\ t = TwoScreens(here, there, edge)
        /\ \E a \in -1..here.width, b \in -1..here.height :
             point = [key |-> KeyOf("here"), x |-> a, y |-> b]
  BY DEF Init
<1>2. here.width \in Nat /\ here.height \in Nat
  BY SizeFacts
<1> QED BY <1>1, <1>2 DEF GeometryInv, Keys

\* A crossing ends on the other screen.
LEMMA CrossKeepsGeometry == GeometryInv /\ [Next]_<<t, point>> => GeometryInv'
<1> SUFFICES ASSUME GeometryInv, [Next]_<<t, point>>  PROVE GeometryInv'
  OBVIOUS
<1>1. CASE Next
  <2>1. PICK edge \in Edges : Exits(edge) /\ point' = Entry(edge) /\ t' = t
    BY <1>1 DEF Next, Cross
  <2> DEFINE near == InfoOf(point.key)
             next == FindNeighbor(t, point.key, edge)
             far  == InfoOf(next)
             across == EntryCoordinate(point.x, near.width, far.width)
             along  == EntryCoordinate(point.y, near.height, far.height)
  <2>2. /\ near \in Sizes /\ far \in Sizes /\ next \in Keys
        /\ point' = [key |-> next,
                     x   |-> CASE edge = "Left"  -> far.width - 1
                               [] edge = "Right" -> 0
                               [] OTHER -> across,
                     y   |-> CASE edge = "Top"    -> far.height - 1
                               [] edge = "Bottom" -> 0
                               [] OTHER -> along]
    BY <2>1, ExitFacts
  <2>3. point.x \in Int /\ point.y \in Int
    BY DEF GeometryInv
  <2>4. /\ near.width \in Nat /\ near.height \in Nat /\ near.width > 0 /\ near.height > 0
        /\ far.width \in Nat /\ far.height \in Nat /\ far.width > 0 /\ far.height > 0
    BY <2>2, SizeFacts
  <2> HIDE DEF near, next, far
  <2>5. across \in 0..(far.width - 1) /\ along \in 0..(far.height - 1)
    BY <2>3, <2>4, OnBorder
  <2> HIDE DEF across, along
  <2>6. point' \in [key : Keys, x : Int, y : Int]
    BY <2>2, <2>4, <2>5 DEF Edges
  <2> QED BY <2>1, <2>6 DEF GeometryInv
<1>2. CASE UNCHANGED <<t, point>>
  BY <1>2 DEF GeometryInv
<1> QED BY <1>1, <1>2

\* The screens touch and the point is one of theirs, after any crossings.
THEOREM GeometryInvariant == Spec => []GeometryInv
BY InitGeometry, CrossKeepsGeometry, PTL DEF Spec

\* Wherever the cursor leaves a screen, it enters the next on one of its pixels,
\* on the border it came over.
THEOREM CursorEntersOnTheBorder == Spec => []EntersOnTheBorder
BY GeometryInvariant, EntersInv, PTL

\* It enters at the same fraction of the border, to the nearest pixel.
THEOREM CursorEntersInProportion == Spec => []EntryIsProportional
BY GeometryInvariant, ProportionInv, PTL

\* From a screen to one at least as large and back, it does not drift.
THEOREM CursorDoesNotDrift == Spec => []CrossingBackIsExact
BY GeometryInvariant, BackInv, PTL

=============================================================================
