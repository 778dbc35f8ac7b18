-------------------------- MODULE Algorithms_proofs --------------------------
(***************************************************************************)
(* What the pure algorithms compute, for every input: which captures are   *)
(* kept, and what a stay costs.                                            *)
(***************************************************************************)
EXTENDS MCAlgorithms, FiniteSetTheorems, WellFoundedInduction, TLAPS

LEMMA BetterIsCapture ==
  ASSUME NEW x, NEW y \in Sighted(x)
  PROVE  y \in Capture /\ Better(x, y)
BY DEF Sighted

(* A camera's own vehicle stays one when it is seen better. *)
LEMMA NativeStaysNative ==
  ASSUME NEW x \in Capture, NEW y \in Capture, Better(x, y), NativeVehicle(x)
  PROVE  NativeVehicle(y)
BY DEF Better, NativeVehicle, Capture, Boxes

LEMMA PlausibleStays ==
  ASSUME NEW x \in Capture, NEW y \in Capture, Better(x, y), Read(x) # "none"
  PROVE  y.plate = x.plate /\ Read(y) = Read(x) /\ (Plausible(y) <=> Plausible(x))
BY DEF Better, Read, Plausible, Capture, Plates

LEMMA NewReadIsPlausible ==
  ASSUME NEW x \in Capture, NEW y \in Capture, Better(x, y), Read(x) = "none", Read(y) # "none"
  PROVE  y.plate = "good" /\ Plausible(y)
BY DEF Better, Read, Plausible, Capture, Plates

LEMMA NativeKept ==
  ASSUME NEW x \in Capture, NEW y \in Capture, Better(x, y), KeepsNative(x)
  PROVE  KeepsNative(y)
<1>1. CASE Read(x) # "none"
  <2>1. Read(y) # "none" /\ (Plausible(y) <=> Plausible(x))
    BY <1>1, PlausibleStays
  <2>2. y.confidence >= x.confidence /\ x.confidence \in 0 .. 4 /\ y.confidence \in 0 .. 4
    BY DEF Better, Capture
  <2>3. Plausible(x) \/ x.confidence >= 4
    BY <1>1 DEF KeepsNative
  <2>4. Plausible(y) \/ y.confidence >= 4
    BY <2>1, <2>2, <2>3
  <2> QED BY <2>1, <2>4 DEF KeepsNative
<1>2. CASE Read(x) = "none" /\ Read(y) # "none"
  BY <1>2, NewReadIsPlausible DEF KeepsNative
<1>3. CASE Read(x) = "none" /\ Read(y) = "none"
  BY <1>3 DEF KeepsNative, Better, HasAspect
<1> QED BY <1>1, <1>2, <1>3

LEMMA ReadingKept ==
  ASSUME NEW x \in Capture, NEW y \in Capture, Better(x, y), KeepsReading(x)
  PROVE  KeepsReading(y)
<1>1. Read(x) # "none"
  BY DEF KeepsReading, Plausible
<1>2. y.plate = x.plate /\ Plausible(y) /\ MinConfidence(y) = MinConfidence(x)
  BY <1>1, PlausibleStays DEF KeepsReading, MinConfidence
<1>3. y.confidence >= x.confidence /\ x.confidence \in 0 .. 4 /\ y.confidence \in 0 .. 4
  BY DEF Better, Capture
<1>4. y.confidence >= MinConfidence(y)
  BY <1>2, <1>3 DEF KeepsReading, MinConfidence
<1>5. CASE x.coil \/ ~x.local
  BY <1>2, <1>4, <1>5 DEF KeepsReading, Better
<1>6. CASE HasAspect(x) /\ x.box = "plate"
  BY <1>2, <1>4, <1>6 DEF KeepsReading, Better, HasAspect
<1>7. CASE ~HasAspect(x) /\ x.plate = "tz" /\ x.confidence >= 3
  BY <1>2, <1>3, <1>4, <1>7 DEF KeepsReading, Better, HasAspect
<1> QED BY <1>5, <1>6, <1>7 DEF KeepsReading

(* A reading kept without a camera's vehicle is kept when the camera sees  *)
(* one: its plate is likely.                                               *)
LEMMA ReadingIsEnoughForNative ==
  ASSUME NEW y \in Capture, KeepsReading(y)
  PROVE  KeepsNative(y)
BY DEF KeepsReading, KeepsNative, Plausible

LEMMA BetterIsKept ==
  ASSUME NEW x \in Capture, NEW y \in Capture, Better(x, y), ShouldPersist(x)
  PROVE  ShouldPersist(y)
<1>1. CASE NativeVehicle(x)
  BY <1>1, NativeStaysNative, NativeKept DEF ShouldPersist
<1>2. CASE ~NativeVehicle(x)
  BY <1>2, ReadingKept, ReadingIsEnoughForNative DEF ShouldPersist
<1> QED BY <1>1, <1>2

(* Every input that is a capture is one of the captures of the gate. *)
InputOK == input.what = "capture" => input.capture \in Capture

(* No evidence counts against a vehicle: whatever capture is kept, the     *)
(* same scene seen better is kept too (should_persist_vehicle_capture).    *)
THEOREM NoEvidenceAgainst == AlgorithmsSpec => []BetterViewIsKept
<1>1. Init => InputOK
  BY DEF Init, InputOK, StaysAt
<1>2. InputOK /\ [Next]_input => InputOK'
  <2> SUFFICES ASSUME InputOK, [Next]_input PROVE InputOK'
    OBVIOUS
  <2>1. CASE Next
    <3>1. input' = [input EXCEPT !.exit = input.exit + 1] /\ input.what = "stay"
      BY <2>1, Zenon DEF Next
    <3>2. input'.what = "stay"
      BY <3>1
    <3> QED BY <3>2 DEF InputOK
  <2>2. CASE input' = input
    BY <2>2 DEF InputOK
  <2> QED BY <2>1, <2>2
<1>3. InputOK => BetterViewIsKept
  BY BetterIsCapture, BetterIsKept DEF InputOK, BetterViewIsKept
<1> QED BY <1>1, <1>2, <1>3, PTL DEF AlgorithmsSpec

-----------------------------------------------------------------------------
(* Division *)

LEMMA DivMod ==
  ASSUME NEW a \in Nat, NEW d \in Nat \ {0}
  PROVE  /\ a \div d \in Nat
         /\ a % d \in 0 .. d - 1
         /\ a = d * (a \div d) + (a % d)
OBVIOUS

LEMMA ProductGrows ==
  ASSUME NEW d \in Nat \ {0}, NEW q \in Int, NEW p \in Int, q < p
  PROVE  d * q + d <= d * p
<1>1. d * (p - q) >= d
  <2>1. p - q >= 1
    OBVIOUS
  <2> QED BY <2>1
<1>2. d * (p - q) = d * p - d * q
  OBVIOUS
<1>3. d * p \in Int /\ d * q \in Int
  OBVIOUS
<1> QED BY <1>1, <1>2, <1>3

LEMMA DivModUnique ==
  ASSUME NEW d \in Nat \ {0}, NEW q \in Nat, NEW r \in 0 .. d - 1
  PROVE  (d * q + r) \div d = q /\ (d * q + r) % d = r
<1> DEFINE a == d * q + r
           p == a \div d
           s == a % d
<1>0. d * q \in Nat
  OBVIOUS
<1>1. a \in Nat
  BY <1>0
<1> HIDE DEF a
<1>2. p \in Nat /\ s \in 0 .. d - 1 /\ a = d * p + s
  BY <1>1, DivMod
<1>3. d * p \in Nat
  BY <1>2
<1>4. d * q + r = d * p + s
  BY <1>2 DEF a
<1> HIDE DEF p, s
<1>5. ~(q < p)
  <2>1. q < p => d * q + d <= d * p
    BY <1>2, ProductGrows
  <2> QED BY <1>0, <1>2, <1>3, <1>4, <2>1
<1>6. ~(p < q)
  <2>1. p < q => d * p + d <= d * q
    BY <1>2, ProductGrows
  <2> QED BY <1>0, <1>2, <1>3, <1>4, <2>1
<1>7. p = q
  BY <1>2, <1>5, <1>6
<1>8. r = s
  BY <1>0, <1>2, <1>4, <1>7
<1> QED BY <1>7, <1>8 DEF p, s, a

-----------------------------------------------------------------------------
(* The clock *)

(* A tariff without a time zone. *)
NoTimeZone == Offset = 0

LEMMA TariffFacts ==
  /\ DayLength \in Nat \ {0} /\ DayStart \in Nat /\ DayEnd \in Nat
  /\ DayStart < DayEnd /\ DayEnd < DayLength
  /\ DayBlock \in Nat \ {0} /\ NightBlock \in Nat \ {0}
  /\ DayFee \in Nat /\ NightFee \in Nat /\ DailyFee \in Nat
  /\ FreeDay \in Nat /\ FreeNight \in Nat
BY TariffAssumption

(* What the clock shows at some time of the day that begins at m. *)
LEMMA ClockShows ==
  ASSUME NoTimeZone, NEW q \in Nat, NEW r \in 0 .. DayLength - 1
  PROVE  /\ DayLength * q + r \in Nat
         /\ (DayLength * q + r) % DayLength = r
         /\ IsDaytime(DayLength * q + r) <=> DayStart <= r /\ r < DayEnd
<1>1. (DayLength * q + r) % DayLength = r
  BY TariffFacts, DivModUnique
<1>2. DayLength * q \in Nat
  BY TariffFacts
<1>3. DayLength * q + r + Offset = DayLength * q + r
  BY <1>2, TariffFacts DEF NoTimeZone
<1> QED BY <1>1, <1>2, <1>3, TariffFacts DEF IsDaytime

(* Between a time and its next boundary nothing changes, and at the boundary
   day turns to night or night to day. *)
LEMMA BoundaryIsNext ==
  ASSUME NoTimeZone, NEW t \in Nat
  PROVE  /\ NextBoundary(t) \in Nat /\ t < NextBoundary(t)
         /\ \A s \in t .. NextBoundary(t) - 1 : IsDaytime(s) <=> IsDaytime(t)
         /\ IsDaytime(NextBoundary(t)) <=> ~IsDaytime(t)
<1> DEFINE q == t \div DayLength
           c == t % DayLength
           m == DayLength * q
           n == NextBoundary(t)
<1>1. q \in Nat /\ c \in 0 .. DayLength - 1 /\ t = m + c
  BY TariffFacts, DivMod
<1>2. m \in Nat /\ m + DayLength = DayLength * (q + 1) /\ q + 1 \in Nat
  BY <1>1, TariffFacts
<1>3. n = m + (CASE c < DayStart -> DayStart
                 [] DayStart <= c /\ c < DayEnd -> DayEnd
                 [] OTHER -> DayStart + DayLength)
  <2>1. Midnight(t) = m
    BY <1>1, <1>2, TariffFacts DEF Midnight
  <2> QED BY <2>1 DEF NextBoundary
<1>4. \A r \in 0 .. DayLength - 1 : IsDaytime(m + r) <=> DayStart <= r /\ r < DayEnd
  BY <1>1, ClockShows
<1>5. \A r \in 0 .. DayLength - 1 :
        IsDaytime(m + DayLength + r) <=> DayStart <= r /\ r < DayEnd
  <2>1. \A r \in 0 .. DayLength - 1 :
          IsDaytime(DayLength * (q + 1) + r) <=> DayStart <= r /\ r < DayEnd
    BY <1>2, ClockShows
  <2> QED BY <1>2, <2>1
<1> HIDE DEF q, c, m, n
<1>6. CASE c < DayStart
  <2>1. n = m + DayStart
    BY <1>1, <1>3, <1>6, TariffFacts
  <2>2. n \in Nat /\ t < n
    BY <1>1, <1>2, <1>6, <2>1, TariffFacts
  <2>3. \A s \in t .. n - 1 : s - m \in 0 .. DayStart - 1 /\ s = m + (s - m)
    BY <1>1, <1>2, <1>6, <2>1, <2>2, TariffFacts
  <2>4. \A s \in t .. n - 1 : ~IsDaytime(s)
    BY <1>4, <2>3, TariffFacts
  <2>5. IsDaytime(n) /\ ~IsDaytime(t)
    BY <1>1, <1>4, <1>6, <2>1, TariffFacts
  <2> QED BY <2>2, <2>4, <2>5 DEF n
<1>7. CASE DayStart <= c /\ c < DayEnd
  <2>1. n = m + DayEnd
    BY <1>1, <1>3, <1>7, TariffFacts
  <2>2. n \in Nat /\ t < n
    BY <1>1, <1>2, <1>7, <2>1, TariffFacts
  <2>3. \A s \in t .. n - 1 : s - m \in DayStart .. DayEnd - 1 /\ s = m + (s - m)
    BY <1>1, <1>2, <1>7, <2>1, <2>2, TariffFacts
  <2>4. \A s \in t .. n - 1 : IsDaytime(s)
    BY <1>4, <2>3, TariffFacts
  <2>5. ~IsDaytime(n) /\ IsDaytime(t)
    BY <1>1, <1>4, <1>7, <2>1, TariffFacts
  <2> QED BY <2>2, <2>4, <2>5 DEF n
<1>8. CASE DayEnd <= c
  <2>1. n = m + DayLength + DayStart
    BY <1>1, <1>2, <1>3, <1>8, TariffFacts
  <2>2. n \in Nat /\ t < n
    BY <1>1, <1>2, <1>8, <2>1, TariffFacts
  <2>3. ASSUME NEW s \in t .. n - 1 PROVE ~IsDaytime(s)
    <3>1. CASE s < m + DayLength
      <4>1. s - m \in DayEnd .. DayLength - 1 /\ s = m + (s - m)
        BY <1>1, <1>2, <1>8, <2>2, <3>1, TariffFacts
      <4> QED BY <1>4, <4>1, TariffFacts
    <3>2. CASE m + DayLength <= s
      <4> DEFINE r == s - (m + DayLength)
      <4>1. r \in 0 .. DayStart - 1 /\ s = m + DayLength + r
        BY <1>1, <1>2, <2>1, <2>2, <3>2, TariffFacts
      <4> HIDE DEF r
      <4> QED BY <1>5, <4>1, TariffFacts
    <3> QED BY <1>2, <2>2, <3>1, <3>2, TariffFacts
  <2>4. IsDaytime(n) /\ ~IsDaytime(t)
    BY <1>1, <1>4, <1>5, <1>8, <2>1, TariffFacts
  <2> QED BY <2>2, <2>3, <2>4 DEF n
<1> QED BY <1>1, <1>6, <1>7, <1>8, TariffFacts

-----------------------------------------------------------------------------
(* Blocks *)

(* From 0 to a length there are as many multiples of a block as the code
   charges for blocks. *)
LEMMA MultiplesUpTo ==
  ASSUME NEW length \in Nat, NEW d \in Nat \ {0}
  PROVE  Quantify(0 .. length, LAMBDA n : n % d = 0) = 1 + (length \div d)
<1> DEFINE q == length \div d
           T == {n \in 0 .. length : n % d = 0}
           f == [k \in 0 .. q |-> d * k]
<1>1. q \in Nat /\ length % d \in 0 .. d - 1 /\ length = d * q + (length % d)
  BY DivMod
<1>2. ASSUME NEW k \in 0 .. q
      PROVE  /\ d * k \in Nat /\ d * k <= d * q
             /\ (d * k) % d = 0
  <2>1. d * k \in Nat /\ d * q \in Nat
    BY <1>1
  <2>2. d * k <= d * q
    <3>1. CASE k = q
      BY <2>1, <3>1
    <3>2. CASE k < q
      <4>1. d * k + d <= d * q
        BY <1>1, <3>2, ProductGrows
      <4> QED BY <2>1, <4>1
    <3> QED BY <1>1, <3>1, <3>2
  <2>3. d * k + 0 = d * k
    BY <2>1
  <2>4. (d * k) % d = 0
    <3>1. k \in Nat /\ 0 \in 0 .. d - 1
      BY <1>1
    <3>2. (d * k + 0) % d = 0
      BY <3>1, DivModUnique
    <3> QED BY <2>3, <3>2
  <2> QED BY <2>1, <2>2, <2>4
<1>3. ASSUME NEW n \in T
      PROVE  \E k \in 0 .. q : n = d * k
  <2> DEFINE k == n \div d
  <2>1. n \in Nat /\ n <= length /\ n % d = 0
    OBVIOUS
  <2>2. k \in Nat /\ n = d * k
    BY <2>1, DivMod
  <2> HIDE DEF k
  <2>3. ~(q < k)
    <3>1. q < k => d * q + d <= d * k
      BY <1>1, <2>2, ProductGrows
    <3>2. d * q \in Nat
      BY <1>1
    <3> QED BY <1>1, <2>1, <2>2, <3>1, <3>2
  <2>4. k \in 0 .. q
    BY <1>1, <2>2, <2>3
  <2> QED BY <2>2, <2>4
<1>4. ASSUME NEW k \in 0 .. q, NEW l \in 0 .. q, d * k = d * l
      PROVE  k = l
  <2>1. ~(k < l)
    <3>1. k < l => d * k + d <= d * l
      BY <1>1, ProductGrows
    <3> QED BY <1>2, <1>4, <3>1
  <2>2. ~(l < k)
    <3>1. l < k => d * l + d <= d * k
      BY <1>1, ProductGrows
    <3> QED BY <1>2, <1>4, <3>1
  <2> QED BY <1>1, <2>1, <2>2
<1>5. f \in [0 .. q -> T]
  <2>1. ASSUME NEW k \in 0 .. q PROVE d * k \in T
    <3>1. d * q \in Nat
      BY <1>1
    <3>2. d * k \in Nat /\ d * k <= d * q /\ (d * k) % d = 0
      BY <1>2
    <3>3. d * k <= length
      BY <1>1, <3>1, <3>2
    <3> QED BY <3>2, <3>3
  <2> HIDE DEF T, q
  <2> QED BY <2>1
<1>6. f \in Injection(0 .. q, T)
  <2> HIDE DEF T, q
  <2>1. \A k, l \in 0 .. q : f[k] = f[l] => k = l
    BY <1>4
  <2> HIDE DEF f
  <2> QED BY <1>5, <2>1 DEF Injection, IsInjective
<1>7. f \in Surjection(0 .. q, T)
  <2> HIDE DEF T, q
  <2>1. \A n \in T : \E k \in 0 .. q : f[k] = n
    BY <1>3
  <2> HIDE DEF f
  <2> QED BY <1>5, <2>1 DEF Surjection
<1>8. IsFiniteSet(0 .. q) /\ Cardinality(0 .. q) = q + 1
  <2>1. q \in Int /\ 0 \in Int /\ ~(0 > q) /\ q - 0 + 1 = q + 1
    BY <1>1
  <2> HIDE DEF q
  <2> QED BY <2>1, FS_Interval
<1>9. Cardinality(T) = q + 1
  <2> HIDE DEF T, q, f
  <2>1. ExistsBijection(0 .. q, T)
    BY <1>6, <1>7 DEF ExistsBijection, Bijection
  <2> QED BY <1>8, <2>1, FS_Bijection
<1>10. Quantify(0 .. length, LAMBDA n : n % d = 0) = Cardinality(T)
  BY DEF Quantify
<1> QED BY <1>1, <1>9, <1>10

-----------------------------------------------------------------------------
(* The prices of runs, added up *)

Some(s) == CHOOSE x \in s : TRUE

(* The function by which MapThenFoldSet adds up, run after run. *)
PricesUp(g, s) == IF s = {} THEN 0 ELSE RunPrice(Some(s)) + g[s \ {Some(s)}]
Prices(R) == CHOOSE g : g = [s \in SUBSET R |-> PricesUp(g, s)]

LEMMA SumIsPrices ==
  ASSUME NEW R
  PROVE  MapThenSumSet(RunPrice, R) = Prices(R)[R]
BY DEF MapThenSumSet, MapThenFoldSet, Prices, PricesUp, Some

(* A set of natural numbers that is not empty has a least element. *)
LEMMA LeastNumber ==
  ASSUME NEW T \in SUBSET Nat, T # {}
  PROVE  \E n \in T : \A m \in T : n <= m
<1> DEFINE R == OpToRel(<, Nat)
<1>1. \A j, k \in Nat : j < k => <<j, k>> \in R
  BY DEF OpToRel
<1>2. IsWellFoundedOn(R, Nat)
  BY NatLessThanWellFounded
<1> HIDE DEF R
<1>3. PICK n \in T : \A m \in T : ~(<<m, n>> \in R)
  BY <1>2, WFMin
<1>4. ASSUME NEW m \in T PROVE n <= m
  <2>1. m \in Nat /\ n \in Nat
    OBVIOUS
  <2>2. ~(m < n)
    BY <1>1, <1>3, <2>1
  <2> QED BY <2>1, <2>2
<1> QED BY <1>4

LEMMA OneFewer ==
  ASSUME NEW R, IsFiniteSet(R), NEW s \in SUBSET R
  PROVE  /\ Cardinality(s) \in Nat /\ Cardinality(s) <= Cardinality(R)
         /\ Cardinality(R) \in Nat
         /\ Cardinality(s) = 0 <=> s = {}
         /\ s # {} => Some(s) \in s
         /\ \A x \in s : /\ s \ {x} \in SUBSET R
                         /\ Cardinality(s \ {x}) = Cardinality(s) - 1
<1>1. IsFiniteSet(s) /\ Cardinality(s) <= Cardinality(R)
  BY FS_Subset
<1>2. Cardinality(s) \in Nat /\ Cardinality(R) \in Nat
  BY <1>1, FS_CardinalityType
<1>3. Cardinality(s) = 0 <=> s = {}
  BY <1>1, FS_EmptySet
<1>4. s # {} => Some(s) \in s
  BY DEF Some
<1>5. ASSUME NEW x \in s PROVE Cardinality(s \ {x}) = Cardinality(s) - 1
  BY <1>1, FS_RemoveElement
<1> QED BY <1>1, <1>2, <1>3, <1>4, <1>5

(* There is such a function: it exists for the sets of at most n runs, for
   every n. *)
LEMMA PricesExist ==
  ASSUME NEW R, IsFiniteSet(R), \A r \in R : RunPrice(r) \in Int
  PROVE  /\ Prices(R) \in [SUBSET R -> Int]
         /\ \A s \in SUBSET R : Prices(R)[s] = PricesUp(Prices(R), s)
<1> DEFINE UpTo(g, n) == \A s \in SUBSET R : Cardinality(s) <= n => g[s] = PricesUp(g, s)
           Maps == [SUBSET R -> Int]
           Bad == {n \in Nat : ~ \E g \in Maps : UpTo(g, n)}
<1>1. 0 \notin Bad
  <2> DEFINE g == [s \in SUBSET R |-> 0]
  <2>1. g \in Maps
    OBVIOUS
  <2>2. UpTo(g, 0)
    <3>1. ASSUME NEW s \in SUBSET R, Cardinality(s) <= 0 PROVE g[s] = PricesUp(g, s)
      <4>1. s = {}
        <5>1. Cardinality(s) \in Nat /\ (Cardinality(s) = 0 <=> s = {})
          BY OneFewer
        <5> QED BY <3>1, <5>1
      <4> QED BY <4>1 DEF PricesUp
    <3> QED BY <3>1
  <2> HIDE DEF g, UpTo, Maps
  <2> QED BY <2>1, <2>2
<1>2. ASSUME NEW n \in Nat, NEW g \in Maps, UpTo(g, n)
      PROVE  \E h \in Maps : UpTo(h, n + 1)
  <2> DEFINE h == [s \in SUBSET R |-> IF Cardinality(s) <= n THEN g[s] ELSE PricesUp(g, s)]
  <2>1. ASSUME NEW s \in SUBSET R PROVE PricesUp(g, s) \in Int
    <3>1. s # {} => Some(s) \in R /\ s \ {Some(s)} \in SUBSET R
      BY OneFewer
    <3> QED BY <3>1 DEF PricesUp
  <2>2. h \in Maps
    BY <2>1
  <2>3. ASSUME NEW s \in SUBSET R, Cardinality(s) <= n + 1
        PROVE  h[s] = PricesUp(h, s)
    <3>1. h[s] = PricesUp(g, s)
      BY <1>2
    <3>2. s # {} => h[s \ {Some(s)}] = g[s \ {Some(s)}]
      <4>1. s # {} => /\ s \ {Some(s)} \in SUBSET R
                      /\ Cardinality(s \ {Some(s)}) <= n
        BY <2>3, OneFewer
      <4> QED BY <4>1
    <3> HIDE DEF h
    <3> QED BY <3>1, <3>2 DEF PricesUp
  <2>4. UpTo(h, n + 1)
    BY <2>3
  <2> HIDE DEF h, UpTo, Maps
  <2> QED BY <2>2, <2>4
<1>3. Bad = {}
  <2> SUFFICES ASSUME Bad # {} PROVE FALSE
    OBVIOUS
  <2> HIDE DEF Bad
  <2>1. Bad \in SUBSET Nat
    BY DEF Bad
  <2>2. PICK n \in Bad : \A m \in Bad : n <= m
    BY <2>1, LeastNumber
  <2>3. n \in Nat /\ n # 0 /\ n - 1 \in Nat
    BY <1>1, <2>1, <2>2
  <2>4. n - 1 \notin Bad
    BY <2>2, <2>3
  <2> HIDE DEF UpTo, Maps
  <2>5. \E g \in Maps : UpTo(g, n - 1)
    BY <2>3, <2>4 DEF Bad
  <2>6. \E h \in Maps : UpTo(h, n - 1 + 1)
    BY <1>2, <2>3, <2>5
  <2>7. n - 1 + 1 = n
    BY <2>3
  <2> QED BY <2>2, <2>6, <2>7 DEF Bad
<1>4. Cardinality(R) \in Nat
  BY FS_CardinalityType
<1>5. PICK g \in Maps : UpTo(g, Cardinality(R))
  <2> HIDE DEF UpTo, Maps
  <2> QED BY <1>3, <1>4
<1>6. g = [s \in SUBSET R |-> PricesUp(g, s)]
  <2>1. \A s \in SUBSET R : g[s] = PricesUp(g, s)
    BY <1>5, OneFewer
  <2> QED BY <2>1
<1> DEFINE F == Prices(R)
<1>7. F = [s \in SUBSET R |-> PricesUp(F, s)]
  BY <1>6 DEF Prices
<1>8. \A s \in SUBSET R : F[s] = PricesUp(F, s)
  <2> HIDE DEF F
  <2> QED BY <1>7
<1>9. F \in [SUBSET R -> Int]
  <2> DEFINE Out == {n \in Nat : \E s \in SUBSET R : Cardinality(s) = n /\ F[s] \notin Int}
  <2> HIDE DEF F
  <2>1. Out \in SUBSET Nat
    OBVIOUS
  <2> HIDE DEF Out
  <2>2. Out = {}
    <3> SUFFICES ASSUME Out # {} PROVE FALSE
      OBVIOUS
    <3>1. PICK n \in Out : \A m \in Out : n <= m
      BY <2>1, LeastNumber
    <3>2. PICK s \in SUBSET R : Cardinality(s) = n /\ F[s] \notin Int
      BY <3>1 DEF Out
    <3>3. s # {}
      <4>1. F[s] = PricesUp(F, s)
        BY <1>8
      <4>2. s = {} => PricesUp(F, s) = 0
        BY DEF PricesUp
      <4> QED BY <3>2, <4>1, <4>2
    <3> DEFINE u == s \ {Some(s)}
    <3>4. Some(s) \in R /\ u \in SUBSET R /\ Cardinality(u) = n - 1 /\ n \in Nat /\ n # 0
      BY <3>2, <3>3, OneFewer
    <3>5. F[s] = RunPrice(Some(s)) + F[u]
      BY <1>8, <3>3 DEF PricesUp
    <3> HIDE DEF u
    <3>6. F[u] \notin Int
      BY <3>2, <3>4, <3>5
    <3>7. n - 1 \in Out
      BY <3>4, <3>6 DEF Out
    <3> QED BY <3>1, <3>4, <3>7
  <2>3. ASSUME NEW s \in SUBSET R PROVE F[s] \in Int
    <3>1. Cardinality(s) \in Nat
      BY OneFewer
    <3> QED BY <2>2, <3>1 DEF Out
  <2>4. F = [s \in SUBSET R |-> F[s]]
    BY <1>7
  <2> QED BY <2>3, <2>4
<1> QED BY <1>8, <1>9

(* A set of runs has the same sum within every set that holds it. *)
LEMMA PricesAgree ==
  ASSUME NEW R, IsFiniteSet(R), \A r \in R : RunPrice(r) \in Int,
         NEW S \in SUBSET R
  PROVE  Prices(S)[S] = Prices(R)[S]
<1> DEFINE F == Prices(R)
           G == Prices(S)
           Bad == {n \in Nat : \E s \in SUBSET S : Cardinality(s) = n /\ G[s] # F[s]}
<1>0. IsFiniteSet(S)
  BY FS_Subset
<1>1. /\ \A s \in SUBSET R : F[s] = PricesUp(F, s)
      /\ \A s \in SUBSET S : G[s] = PricesUp(G, s)
  BY <1>0, PricesExist
<1> HIDE DEF F, G
<1>2. Bad \in SUBSET Nat
  OBVIOUS
<1> HIDE DEF Bad
<1>3. Bad = {}
  <2> SUFFICES ASSUME Bad # {} PROVE FALSE
    OBVIOUS
  <2>1. PICK n \in Bad : \A m \in Bad : n <= m
    BY <1>2, LeastNumber
  <2>2. PICK s \in SUBSET S : Cardinality(s) = n /\ G[s] # F[s]
    BY <2>1 DEF Bad
  <2>3. s \in SUBSET R
    OBVIOUS
  <2>4. G[s] = PricesUp(G, s) /\ F[s] = PricesUp(F, s)
    BY <1>1, <2>3
  <2>5. s # {}
    BY <2>2, <2>4 DEF PricesUp
  <2> DEFINE u == s \ {Some(s)}
  <2>6. u \in SUBSET S /\ Cardinality(u) = n - 1 /\ n \in Nat /\ n - 1 \in Nat
    <3>1. Some(s) \in s /\ u \in SUBSET S /\ Cardinality(u) = n - 1
      BY <1>0, <2>2, <2>5, OneFewer
    <3>2. Cardinality(u) \in Nat
      BY <1>0, <3>1, OneFewer
    <3>3. n \in Nat
      BY <1>2, <2>1
    <3> QED BY <3>1, <3>2, <3>3
  <2>7. G[s] = RunPrice(Some(s)) + G[u] /\ F[s] = RunPrice(Some(s)) + F[u]
    BY <2>4, <2>5 DEF PricesUp
  <2> HIDE DEF u
  <2>8. G[u] # F[u]
    BY <2>2, <2>7
  <2>9. n - 1 \in Bad
    BY <2>6, <2>8 DEF Bad
  <2> QED BY <2>1, <2>6, <2>9
<1>4. Cardinality(S) \in Nat /\ S \in SUBSET S
  BY <1>0, FS_CardinalityType
<1>5. G[S] = F[S]
  BY <1>3, <1>4 DEF Bad
<1> QED BY <1>5 DEF F, G

(* It does not matter which run is counted first. *)
LEMMA AnyFirst ==
  ASSUME NEW R, IsFiniteSet(R), \A r \in R : RunPrice(r) \in Int,
         NEW x \in R
  PROVE  Prices(R)[R] = RunPrice(x) + Prices(R)[R \ {x}]
<1> DEFINE F == Prices(R)
           Good(s, y) == F[s] = RunPrice(y) + F[s \ {y}]
           Bad == {n \in Nat : \E s \in SUBSET R : \E y \in s : Cardinality(s) = n /\ ~Good(s, y)}
<1>1. F \in [SUBSET R -> Int] /\ \A s \in SUBSET R : F[s] = PricesUp(F, s)
  BY PricesExist
<1> HIDE DEF F
<1>2. Bad \in SUBSET Nat
  OBVIOUS
<1>3. ASSUME NEW s \in SUBSET R, NEW y \in s,
             \A z \in s : \A k \in s \ {z} : Good(s \ {z}, k)
      PROVE  Good(s, y)
  <2> DEFINE z == Some(s)
  <2>1. z \in s /\ F[s] = RunPrice(z) + F[s \ {z}]
    <3>1. s # {} /\ F[s] = PricesUp(F, s)
      BY <1>1
    <3> QED BY <3>1, OneFewer DEF PricesUp
  <2> HIDE DEF z
  <2>2. CASE y = z
    BY <2>1, <2>2
  <2>3. CASE y # z
    <3> DEFINE u == (s \ {y}) \ {z}
    <3>1. F[s \ {z}] = RunPrice(y) + F[u]
      <4>1. y \in s \ {z} /\ (s \ {z}) \ {y} = u
        BY <2>3
      <4> QED BY <1>3, <2>1, <4>1
    <3>2. F[s \ {y}] = RunPrice(z) + F[u]
      <4>1. z \in s \ {y}
        BY <2>1, <2>3
      <4> QED BY <1>3, <4>1
    <3>3. RunPrice(y) \in Int /\ RunPrice(z) \in Int /\ u \in SUBSET R
      BY <2>1
    <3> HIDE DEF u
    <3>4. F[u] \in Int
      BY <1>1, <3>3
    <3>5. F[s] = RunPrice(z) + (RunPrice(y) + F[u])
      BY <2>1, <3>1
    <3>6. F[s] = RunPrice(y) + (RunPrice(z) + F[u])
      BY <3>3, <3>4, <3>5
    <3> QED BY <3>2, <3>6
  <2> QED BY <2>2, <2>3
<1> HIDE DEF Good, Bad
<1>4. Bad = {}
  <2> SUFFICES ASSUME Bad # {} PROVE FALSE
    OBVIOUS
  <2>1. PICK n \in Bad : \A m \in Bad : n <= m
    BY <1>2, LeastNumber
  <2>2. PICK s \in SUBSET R : \E y \in s : Cardinality(s) = n /\ ~Good(s, y)
    BY <2>1 DEF Bad
  <2>3. PICK y \in s : Cardinality(s) = n /\ ~Good(s, y)
    BY <2>2
  <2>4. PICK z \in s : \E k \in s \ {z} : ~Good(s \ {z}, k)
    BY <1>3, <2>3
  <2>5. s \ {z} \in SUBSET R /\ Cardinality(s \ {z}) = n - 1 /\ n \in Nat
    BY <2>3, OneFewer
  <2>6. Cardinality(s \ {z}) \in Nat
    BY <2>5, OneFewer
  <2>7. n - 1 \in Bad
    BY <2>4, <2>5, <2>6 DEF Bad
  <2> QED BY <2>1, <2>5, <2>7
<1>5. Good(R, x)
  <2>1. Cardinality(R) \in Nat /\ R \in SUBSET R
    BY FS_CardinalityType
  <2> QED BY <1>4, <2>1 DEF Bad
<1> QED BY <1>5 DEF Good, F

(* A run more adds its price. *)
LEMMA RunAdds ==
  ASSUME NEW S, IsFiniteSet(S), NEW x, x \notin S,
         RunPrice(x) \in Int, \A r \in S : RunPrice(r) \in Int
  PROVE  MapThenSumSet(RunPrice, S \cup {x}) = RunPrice(x) + MapThenSumSet(RunPrice, S)
<1> DEFINE R == S \cup {x}
<1>1. IsFiniteSet(R)
  BY FS_AddElement
<1>2. S \in SUBSET R /\ R \ {x} = S /\ x \in R /\ \A r \in R : RunPrice(r) \in Int
  OBVIOUS
<1> HIDE DEF R
<1>3. Prices(R)[R] = RunPrice(x) + Prices(R)[S]
  BY <1>1, <1>2, AnyFirst
<1>4. Prices(S)[S] = Prices(R)[S]
  BY <1>1, <1>2, PricesAgree
<1>5. MapThenSumSet(RunPrice, R) = Prices(R)[R] /\ MapThenSumSet(RunPrice, S) = Prices(S)[S]
  BY SumIsPrices
<1>6. MapThenSumSet(RunPrice, R) = RunPrice(x) + MapThenSumSet(RunPrice, S)
  BY <1>3, <1>4, <1>5
<1> QED BY <1>6 DEF R

LEMMA NoRuns == MapThenSumSet(RunPrice, {}) = 0
<1>1. IsFiniteSet({})
  BY FS_EmptySet
<1>2. Prices({})[{}] = PricesUp(Prices({}), {})
  BY <1>1, PricesExist
<1>3. MapThenSumSet(RunPrice, {}) = Prices({})[{}]
  BY SumIsPrices
<1> QED BY <1>2, <1>3 DEF PricesUp

-----------------------------------------------------------------------------
(* The walk along a stay, and the runs it charges *)

LEMMA DayOrNight == \A t : IsDaytime(t) \in BOOLEAN
BY DEF IsDaytime

(* Where the walk stops after t. *)
Stop(t, end) == Smaller(end, NextBoundary(t))

LEMMA StopIsNext ==
  ASSUME NoTimeZone, NEW t \in Nat, NEW end \in Nat, t < end
  PROVE  /\ Stop(t, end) \in t + 1 .. end /\ Stop(t, end) \in Nat
         /\ \A s \in t .. Stop(t, end) - 1 : IsDaytime(s) <=> IsDaytime(t)
         /\ Stop(t, end) # end => (IsDaytime(Stop(t, end)) <=> ~IsDaytime(t))
<1> DEFINE n == NextBoundary(t)
           stop == Stop(t, end)
<1>1. /\ n \in Nat /\ t < n
      /\ \A s \in t .. n - 1 : IsDaytime(s) <=> IsDaytime(t)
      /\ IsDaytime(n) <=> ~IsDaytime(t)
  BY BoundaryIsNext
<1>2. stop = IF end < n THEN end ELSE n
  BY DEF Stop, Smaller
<1> HIDE DEF n, stop
<1>3. stop \in t + 1 .. end /\ stop \in Nat /\ stop <= n /\ (stop # end => stop = n)
  BY <1>1, <1>2
<1>4. \A s \in t .. stop - 1 : s \in t .. n - 1
  BY <1>1, <1>3
<1> QED BY <1>1, <1>3, <1>4 DEF stop

LEMMA RunsFinite ==
  ASSUME NEW start \in Nat, NEW end \in Nat
  PROVE  IsFiniteSet(Runs(start, end))
<1>1. IsFiniteSet(start .. end)
  BY FS_Interval
<1>2. IsFiniteSet((start .. end) \X (start .. end))
  BY <1>1, FS_Product
<1>3. Runs(start, end) \in SUBSET ((start .. end) \X (start .. end))
  BY DEF Runs
<1> QED BY <1>2, <1>3, FS_Subset

(* A run pays what the walk charges for it. *)
LEMMA RunIsPart ==
  ASSUME NEW a \in Nat, NEW b \in Nat, a < b
  PROVE  RunPrice(<<a, b>>) = Part(a, b - a) /\ Part(a, b - a) \in Int
<1>1. b - a \in Nat /\ ~(b - a <= 0)
  OBVIOUS
<1>2. ASSUME NEW block \in Nat \ {0}
      PROVE  /\ Quantify(0 .. b - a, LAMBDA n : n % block = 0) = Blocks(b - a, block)
             /\ Blocks(b - a, block) \in Int
  <2>1. Blocks(b - a, block) = 1 + ((b - a) \div block)
    BY <1>1 DEF Blocks
  <2>2. (b - a) \div block \in Nat
    BY <1>1, DivMod
  <2>3. Quantify(0 .. b - a, LAMBDA n : n % block = 0) = 1 + ((b - a) \div block)
    BY <1>1, MultiplesUpTo
  <2> QED BY <2>1, <2>2, <2>3
<1>3. <<a, b>>[1] = a /\ <<a, b>>[2] = b
  OBVIOUS
<1>4. CASE IsDaytime(a)
  <2>1. Part(a, b - a) = Blocks(b - a, DayBlock) * DayFee
    BY <1>4 DEF Part
  <2>2. RunPrice(<<a, b>>) = DayFee * Quantify(0 .. b - a, LAMBDA n : n % DayBlock = 0)
    BY <1>3, <1>4 DEF RunPrice
  <2>3. RunPrice(<<a, b>>) = DayFee * Blocks(b - a, DayBlock)
    BY <1>2, <2>2, TariffFacts
  <2>4. Blocks(b - a, DayBlock) \in Int
    BY <1>2, TariffFacts
  <2> QED BY <2>1, <2>3, <2>4, TariffFacts
<1>5. CASE ~IsDaytime(a)
  <2>1. Part(a, b - a) = Blocks(b - a, NightBlock) * NightFee
    BY <1>5 DEF Part
  <2>2. RunPrice(<<a, b>>) = NightFee * Quantify(0 .. b - a, LAMBDA n : n % NightBlock = 0)
    BY <1>3, <1>5 DEF RunPrice
  <2>3. RunPrice(<<a, b>>) = NightFee * Blocks(b - a, NightBlock)
    BY <1>2, <2>2, TariffFacts
  <2>4. Blocks(b - a, NightBlock) \in Int
    BY <1>2, TariffFacts
  <2> QED BY <2>1, <2>3, <2>4, TariffFacts
<1> QED BY <1>4, <1>5

LEMMA RunsPriced ==
  ASSUME NEW start \in Nat, NEW end \in Nat, NEW r \in Runs(start, end)
  PROVE  RunPrice(r) \in Int
<1>1. r = <<r[1], r[2]>> /\ r[1] \in Nat /\ r[2] \in Nat /\ r[1] < r[2]
  BY DEF Runs
<1>2. RunPrice(<<r[1], r[2]>>) \in Int
  BY <1>1, RunIsPart
<1> QED BY <1>1, <1>2

(* What it means to be a run. *)
LEMMA RunMeans ==
  ASSUME NEW start, NEW end, NEW a, NEW b
  PROVE  <<a, b>> \in Runs(start, end) <=>
           /\ a \in start .. end /\ b \in start .. end
           /\ a < b
           /\ \A s \in a .. b - 1 : IsDaytime(s) <=> IsDaytime(a)
           /\ a = start \/ (IsDaytime(a - 1) # IsDaytime(a))
           /\ b = end \/ (IsDaytime(b) # IsDaytime(a))
BY DEF Runs

(* The first run of a stay ends where the walk stops; the others are those
   of the rest. *)
LEMMA FirstRun ==
  ASSUME NoTimeZone, NEW t \in Nat, NEW end \in Nat, t < end
  PROVE  /\ Runs(t, end) = Runs(Stop(t, end), end) \cup {<<t, Stop(t, end)>>}
         /\ <<t, Stop(t, end)>> \notin Runs(Stop(t, end), end)
<1> DEFINE stop == Stop(t, end)
<1>1. /\ stop \in t + 1 .. end /\ stop \in Nat
      /\ \A s \in t .. stop - 1 : IsDaytime(s) <=> IsDaytime(t)
      /\ stop # end => (IsDaytime(stop) <=> ~IsDaytime(t))
  BY StopIsNext
<1> HIDE DEF stop
<1>2. <<t, stop>> \in Runs(t, end)
  BY <1>1, RunMeans
<1>3. <<t, stop>> \notin Runs(stop, end)
  BY <1>1, RunMeans
<1>4. ASSUME NEW a, NEW b, <<a, b>> \in Runs(stop, end)
      PROVE  <<a, b>> \in Runs(t, end)
  <2>1. /\ a \in stop .. end /\ b \in stop .. end
        /\ a < b
        /\ \A s \in a .. b - 1 : IsDaytime(s) <=> IsDaytime(a)
        /\ a = stop \/ (IsDaytime(a - 1) # IsDaytime(a))
        /\ b = end \/ (IsDaytime(b) # IsDaytime(a))
    BY <1>4, RunMeans
  <2>2. a \in t .. end /\ b \in t .. end
    BY <1>1, <2>1
  <2>3. IsDaytime(a - 1) # IsDaytime(a)
    <3>1. CASE a = stop
      <4>1. stop # end /\ a - 1 \in t .. stop - 1
        BY <1>1, <2>1, <3>1
      <4>2. (IsDaytime(stop) <=> ~IsDaytime(t)) /\ (IsDaytime(a - 1) <=> IsDaytime(t))
        BY <1>1, <4>1
      <4> QED BY <3>1, <4>2
    <3> QED BY <2>1, <3>1
  <2> QED BY <2>1, <2>2, <2>3, RunMeans
<1>5. ASSUME NEW a, NEW b, <<a, b>> \in Runs(t, end)
      PROVE  <<a, b>> \in Runs(stop, end) \/ (a = t /\ b = stop)
  <2>1. /\ a \in t .. end /\ b \in t .. end
        /\ a < b
        /\ \A s \in a .. b - 1 : IsDaytime(s) <=> IsDaytime(a)
        /\ a = t \/ (IsDaytime(a - 1) # IsDaytime(a))
        /\ b = end \/ (IsDaytime(b) # IsDaytime(a))
    BY <1>5, RunMeans
  <2>2. CASE a = t
    <3>1. ~(b < stop)
      <4>1. b < stop => b \in t .. stop - 1 /\ b # end
        BY <1>1, <2>1
      <4>2. b < stop => (IsDaytime(b) <=> IsDaytime(a))
        BY <1>1, <2>2, <4>1
      <4>3. b < stop => IsDaytime(b) # IsDaytime(a)
        BY <2>1, <4>1
      <4> QED BY <4>2, <4>3, DayOrNight
    <3>2. ~(stop < b)
      <4>1. stop < b => stop \in a .. b - 1 /\ stop # end
        BY <1>1, <2>1, <2>2
      <4> QED BY <1>1, <2>1, <2>2, <4>1
    <3>3. b = stop
      BY <1>1, <2>1, <3>1, <3>2
    <3> QED BY <2>2, <3>3
  <2>3. CASE a # t
    <3>1. ~(a < stop)
      <4>1. a < stop => a \in t .. stop - 1 /\ a - 1 \in t .. stop - 1
        BY <1>1, <2>1, <2>3
      <4>2. a < stop => (IsDaytime(a - 1) <=> IsDaytime(a))
        BY <1>1, <4>1
      <4> QED BY <2>1, <2>3, <4>2, DayOrNight
    <3>2. a \in stop .. end /\ b \in stop .. end
      BY <1>1, <2>1, <3>1
    <3>3. <<a, b>> \in Runs(stop, end)
      BY <2>1, <2>3, <3>2, RunMeans
    <3> QED BY <3>3
  <2> QED BY <2>2, <2>3
<1>6. \A r \in Runs(t, end) \cup Runs(stop, end) : r = <<r[1], r[2]>>
  BY DEF Runs
<1>7. Runs(t, end) = Runs(stop, end) \cup {<<t, stop>>}
  <2>1. ASSUME NEW r \in Runs(t, end) PROVE r \in Runs(stop, end) \cup {<<t, stop>>}
    BY <1>5, <1>6
  <2>2. ASSUME NEW r \in Runs(stop, end) PROVE r \in Runs(t, end)
    BY <1>4, <1>6
  <2> QED BY <1>2, <2>1, <2>2
<1> QED BY <1>3, <1>7 DEF stop

(* The walk as a function of where it starts, and that it exists. *)
WalkFrom(g, t, end) ==
  IF t = end THEN 0 ELSE Part(t, Stop(t, end) - t) + g[Stop(t, end)]
Walk(start, end) == CHOOSE g : g = [t \in start .. end |-> WalkFrom(g, t, end)]

LEMMA ChargeIsWalk ==
  ASSUME NEW start, NEW end
  PROVE  ChargeSpan(start, end) = Walk(start, end)[start]
BY DEF ChargeSpan, Walk, WalkFrom, Stop

LEMMA WalkExists ==
  ASSUME NoTimeZone, NEW start \in Nat, NEW end \in Nat
  PROVE  \A t \in start .. end : Walk(start, end)[t] = WalkFrom(Walk(start, end), t, end)
<1> DEFINE UpTo(g, n) == \A t \in start .. end : end - t <= n => g[t] = WalkFrom(g, t, end)
           Bad == {n \in Nat : ~ \E g : UpTo(g, n)}
<1>0. ASSUME NEW t \in start .. end, t # end
      PROVE  Stop(t, end) \in start .. end /\ t < Stop(t, end)
  BY <1>0, StopIsNext
<1>1. 0 \notin Bad
  <2> DEFINE g == [t \in start .. end |-> 0]
  <2>1. ASSUME NEW t \in start .. end, end - t <= 0 PROVE g[t] = WalkFrom(g, t, end)
    <3>1. t = end
      BY <2>1
    <3> QED BY <3>1 DEF WalkFrom
  <2>2. UpTo(g, 0)
    BY <2>1
  <2> HIDE DEF g, UpTo
  <2> QED BY <2>2
<1>2. ASSUME NEW n \in Nat, NEW g, UpTo(g, n)
      PROVE  \E h : UpTo(h, n + 1)
  <2> DEFINE h == [t \in start .. end |-> IF end - t <= n THEN g[t] ELSE WalkFrom(g, t, end)]
  <2>1. ASSUME NEW t \in start .. end, end - t <= n + 1
        PROVE  h[t] = WalkFrom(h, t, end)
    <3>1. h[t] = WalkFrom(g, t, end)
      BY <1>2
    <3>2. t # end => h[Stop(t, end)] = g[Stop(t, end)]
      <4>1. t # end => Stop(t, end) \in start .. end /\ end - Stop(t, end) <= n
        BY <1>0, <2>1
      <4> QED BY <4>1
    <3> HIDE DEF h
    <3> QED BY <3>1, <3>2 DEF WalkFrom
  <2>2. UpTo(h, n + 1)
    BY <2>1
  <2> HIDE DEF h, UpTo
  <2> QED BY <2>2
<1>3. Bad = {}
  <2> SUFFICES ASSUME Bad # {} PROVE FALSE
    OBVIOUS
  <2> HIDE DEF Bad
  <2>1. Bad \in SUBSET Nat
    BY DEF Bad
  <2>2. PICK n \in Bad : \A m \in Bad : n <= m
    BY <2>1, LeastNumber
  <2>3. n \in Nat /\ n # 0 /\ n - 1 \in Nat
    BY <1>1, <2>1, <2>2
  <2>4. n - 1 \notin Bad
    BY <2>2, <2>3
  <2> HIDE DEF UpTo
  <2>5. \E g : UpTo(g, n - 1)
    BY <2>3, <2>4 DEF Bad
  <2>6. \E h : UpTo(h, n - 1 + 1)
    BY <1>2, <2>3, <2>5
  <2>7. n - 1 + 1 = n
    BY <2>3
  <2> QED BY <2>2, <2>6, <2>7 DEF Bad
<1>4. PICK g : UpTo(g, end)
  <2> HIDE DEF UpTo
  <2> QED BY <1>3
<1> DEFINE h == [t \in start .. end |-> g[t]]
<1>5. \A t \in start .. end : h[t] = WalkFrom(h, t, end)
  <2> SUFFICES ASSUME NEW t \in start .. end PROVE h[t] = WalkFrom(h, t, end)
    OBVIOUS
  <2>1. g[t] = WalkFrom(g, t, end) /\ h[t] = g[t]
    BY <1>4
  <2>2. t # end => h[Stop(t, end)] = g[Stop(t, end)]
    BY <1>0
  <2> HIDE DEF h
  <2> QED BY <2>1, <2>2 DEF WalkFrom
<1>6. h = [t \in start .. end |-> WalkFrom(h, t, end)]
  BY <1>5
<1> DEFINE F == Walk(start, end)
<1>7. F = [t \in start .. end |-> WalkFrom(F, t, end)]
  <2> HIDE DEF h
  <2> QED BY <1>6 DEF Walk
<1>8. \A t \in start .. end : F[t] = WalkFrom(F, t, end)
  <2> HIDE DEF F
  <2> QED BY <1>7
<1> QED BY <1>8

(* The walk charges the runs of what is left of the stay. *)
LEMMA WalkChargesRuns ==
  ASSUME NoTimeZone, NEW start \in Nat, NEW end \in Nat, start <= end
  PROVE  ChargeSpan(start, end) = MapThenSumSet(RunPrice, Runs(start, end))
<1> DEFINE F == Walk(start, end)
           Total(t) == MapThenSumSet(RunPrice, Runs(t, end))
           Bad == {n \in Nat : \E t \in start .. end : end - t = n /\ F[t] # Total(t)}
<1>1. \A t \in start .. end : F[t] = WalkFrom(F, t, end)
  BY WalkExists
<1> HIDE DEF F
<1>2. F[end] = Total(end)
  <2>1. F[end] = 0
    BY <1>1 DEF WalkFrom
  <2>2. ASSUME NEW r \in Runs(end, end) PROVE FALSE
    BY DEF Runs
  <2>3. Runs(end, end) = {}
    BY <2>2
  <2> QED BY <2>1, <2>3, NoRuns
<1>3. ASSUME NEW t \in start .. end, t # end
      PROVE  /\ Stop(t, end) \in start .. end /\ t < Stop(t, end)
             /\ F[Stop(t, end)] = Total(Stop(t, end)) => F[t] = Total(t)
  <2> DEFINE stop == Stop(t, end)
             first == <<t, stop>>
  <2>1. stop \in t + 1 .. end /\ stop \in Nat /\ t < stop /\ t \in Nat /\ t < end
    BY <1>3, StopIsNext
  <2>2. F[t] = Part(t, stop - t) + F[stop]
    BY <1>1, <1>3 DEF WalkFrom
  <2>3. Runs(t, end) = Runs(stop, end) \cup {first} /\ first \notin Runs(stop, end)
    BY <2>1, FirstRun
  <2> HIDE DEF stop
  <2>4. RunPrice(first) = Part(t, stop - t) /\ RunPrice(first) \in Int
    BY <2>1, RunIsPart
  <2>5. IsFiniteSet(Runs(stop, end)) /\ \A r \in Runs(stop, end) : RunPrice(r) \in Int
    BY <2>1, RunsFinite, RunsPriced
  <2> HIDE DEF first
  <2>6. Total(t) = RunPrice(first) + Total(stop)
    BY <2>3, <2>4, <2>5, RunAdds
  <2> HIDE DEF Total
  <2>7. stop \in start .. end
    BY <2>1
  <2>8. F[stop] = Total(stop) => F[t] = Total(t)
    BY <2>2, <2>4, <2>6
  <2> QED BY <2>1, <2>7, <2>8 DEF stop
<1> HIDE DEF Total
<1>4. Bad = {}
  <2>1. Bad \in SUBSET Nat
    OBVIOUS
  <2> HIDE DEF Bad
  <2> SUFFICES ASSUME Bad # {} PROVE FALSE
    OBVIOUS
  <2>2. PICK n \in Bad : \A m \in Bad : n <= m
    BY <2>1, LeastNumber
  <2>3. PICK t \in start .. end : end - t = n /\ F[t] # Total(t)
    BY <2>2 DEF Bad
  <2> DEFINE stop == Stop(t, end)
  <2>4. stop \in start .. end /\ t < stop /\ F[stop] # Total(stop)
    BY <1>2, <1>3, <2>3
  <2> HIDE DEF stop
  <2>5. end - stop \in Nat /\ end - stop < n
    BY <2>3, <2>4
  <2>6. end - stop \in Bad
    BY <2>4, <2>5 DEF Bad
  <2> QED BY <2>1, <2>2, <2>5, <2>6
<1>5. F[start] = Total(start)
  <2>1. end - start \in Nat /\ start \in start .. end
    OBVIOUS
  <2> QED BY <1>4, <2>1 DEF Bad
<1> QED BY <1>5, ChargeIsWalk DEF F, Total

(* A stay that is not free costs its full days, its runs, less the deduction. *)
LEMMA StayFollows ==
  ASSUME NoTimeZone, NEW entry \in Nat, NEW exit \in Nat, entry <= exit
  PROVE  FollowsSchedule(entry, exit)
<1> DEFINE days == (exit - entry) \div DayLength
           rest == entry + days * DayLength
           free == IF IsDaytime(exit) THEN FreeDay ELSE FreeNight
<1>1. exit - entry \in Nat
  OBVIOUS
<1>2. rest \in Nat /\ rest <= exit
  <2>1. days \in Nat /\ (exit - entry) % DayLength \in Nat
        /\ exit - entry = DayLength * days + ((exit - entry) % DayLength)
    BY <1>1, TariffFacts, DivMod
  <2> HIDE DEF days
  <2>2. days * DayLength \in Nat /\ DayLength * days = days * DayLength
    BY <2>1, TariffFacts
  <2> QED BY <2>1, <2>2
<1>3. ChargeSpan(rest, exit) = MapThenSumSet(RunPrice, Runs(rest, exit))
  <2> HIDE DEF rest
  <2> QED BY <1>2, WalkChargesRuns
<1>4. ScheduledFee(entry, exit) = days * DailyFee + ChargeSpan(rest, exit)
  BY <1>3 DEF ScheduledFee
<1>5. FeeDue(entry, exit) =
        IF exit - entry <= free THEN 0 ELSE Deducted(days * DailyFee + ChargeSpan(rest, exit))
  <2>1. Smaller(entry, exit) = entry /\ entry + exit - entry = exit
    BY DEF Smaller
  <2> QED BY <2>1 DEF FeeDue
<1> QED BY <1>4, <1>5 DEF FollowsSchedule

(* The stays of the specification. *)
Stay(entry, exit) == [what |-> "stay", entry |-> entry, exit |-> exit]
StayInv ==
  input.what = "stay" =>
    \E entry, exit \in Nat : entry <= exit /\ input = Stay(entry, exit)

(* The fee of a stay is the schedule's price, for every tariff without a
   time zone and every stay: the walk along the periods misses no night and
   charges no block twice (calculate_car1_fee, _charge_span,
   _next_boundary). *)
THEOREM FeeIsScheduled ==
  ASSUME NoTimeZone
  PROVE  AlgorithmsSpec => []FeeFollowsSchedule
<1>1. Init => StayInv
  <2> SUFFICES ASSUME Init, input.what = "stay" PROVE StayInv
    BY DEF StayInv
  <2>1. CASE \E e \in Entries : input = StaysAt(e)
    BY <2>1, EntriesAssumption DEF StaysAt, StayInv, Stay
  <2>2. CASE \E x \in Capture : input = [what |-> "capture", capture |-> x]
    BY <2>2
  <2> QED BY <2>1, <2>2 DEF Init
<1>2. StayInv /\ [Next]_input => StayInv'
  <2> SUFFICES ASSUME StayInv, [Next]_input PROVE StayInv'
    OBVIOUS
  <2>1. CASE UNCHANGED input
    BY <2>1 DEF StayInv
  <2>2. CASE Next
    <3>1. PICK entry, exit \in Nat : entry <= exit /\ input = Stay(entry, exit)
      BY <2>2 DEF Next, StayInv
    <3>2. input' = Stay(entry, exit + 1)
      BY <2>2, <3>1 DEF Next, Stay
    <3>3. exit + 1 \in Nat /\ entry <= exit + 1
      BY <3>1
    <3> QED BY <3>2, <3>3 DEF StayInv
  <2> QED BY <2>1, <2>2
<1>3. StayInv => FeeFollowsSchedule
  <2> SUFFICES ASSUME StayInv, input.what = "stay"
               PROVE  FollowsSchedule(input.entry, input.exit)
    BY DEF FeeFollowsSchedule
  <2>1. PICK entry, exit \in Nat : entry <= exit /\ input = Stay(entry, exit)
    BY DEF StayInv
  <2>2. input.entry = entry /\ input.exit = exit
    BY <2>1 DEF Stay
  <2>3. FollowsSchedule(entry, exit)
    BY <2>1, StayFollows
  <2> QED BY <2>2, <2>3
<1> QED BY <1>1, <1>2, <1>3, PTL DEF AlgorithmsSpec
=============================================================================
