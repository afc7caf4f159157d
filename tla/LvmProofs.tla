----------------------------- MODULE LvmProofs -----------------------------
(***************************************************************************)
(* Proofs about what the processes of a node ask of LVM: Sizes, for every  *)
(* unit, extent, group and quantity, and VolumeGroup (the instance G): the *)
(* group is made once, of usable devices, and every caller that has        *)
(* succeeded knows its size, whatever fails and however many callers race. *)
(***************************************************************************)
EXTENDS Sizes, Sequences, TLAPS

CONSTANTS Callers, Devices, Mounted, Foreign, Absent, MaxFaults
VARIABLES orphans, group, pc, next, found, pvNum, faults

G == INSTANCE VolumeGroup
----------------------------------------------------------------------------
(* Arithmetic *)

LEMMA Times ==
    ASSUME NEW a \in Int, NEW b \in Int, NEW d \in Nat, a <= b
    PROVE  a * d <= b * d /\ a * d \in Int
<1>1. PICK e \in Nat : b = a + e
  <2>1. b - a \in Nat /\ b = a + (b - a)
    OBVIOUS
  <2> QED
    BY <2>1
<1>2. b * d = a * d + e * d /\ e * d \in Nat
  BY <1>1
<1> QED
  BY <1>2

LEMMA Division ==
    ASSUME NEW n \in Int, NEW d \in Nat \ {0}
    PROVE  /\ n \div d \in Int
           /\ (n \div d) * d <= n /\ n < (n \div d) * d + d
  OBVIOUS

\* Cancelling a factor.
LEMMA Cancel ==
    ASSUME NEW a \in Int, NEW b \in Int, NEW d \in Nat \ {0}, a * d < (b + 1) * d
    PROVE  a <= b
<1> SUFFICES ASSUME a > b PROVE FALSE
  OBVIOUS
<1>1. b + 1 <= a /\ b + 1 \in Int /\ d \in Nat
  OBVIOUS
<1>2. (b + 1) * d <= a * d
  BY <1>1, Times
<1>3. (b + 1) * d \in Int /\ a * d \in Int
  OBVIOUS
<1> QED
  BY <1>2, <1>3

LEMMA DivisionOfMultiple ==
    ASSUME NEW k \in Int, NEW d \in Nat \ {0}
    PROVE  (k * d) \div d = k
<1> DEFINE q == (k * d) \div d
<1>1. k * d \in Int
  OBVIOUS
<1>2. q \in Int /\ q * d <= k * d /\ k * d < q * d + d
  BY <1>1, Division
<1> HIDE DEF q
<1>3. q * d < (k + 1) * d /\ k * d < (q + 1) * d
  <2>1. (k + 1) * d = k * d + d /\ (q + 1) * d = q * d + d /\ q * d \in Int
    BY <1>2
  <2> QED
    BY <1>1, <1>2, <2>1
<1>4. q <= k /\ k <= q
  BY <1>2, <1>3, Cancel
<1>5. q = k
  BY <1>2, <1>4
<1> QED
  BY <1>5 DEF q

\* Rounding up gives a multiple that is not less, and none that is not less is
\* smaller.
LEMMA RoundUpFacts ==
    ASSUME NEW n \in Nat, NEW unit \in Nat \ {0}
    PROVE  /\ RoundUp(n, unit) \in Int /\ n <= RoundUp(n, unit)
           /\ \A k \in Int : n <= k * unit => RoundUp(n, unit) <= k * unit
<1> DEFINE q == (n + unit - 1) \div unit
<1>1. n + unit - 1 \in Int
  OBVIOUS
<1>2. q \in Int /\ q * unit <= n + unit - 1 /\ n + unit - 1 < q * unit + unit
  BY <1>1, Division
<1>3. RoundUp(n, unit) = q * unit
  BY DEF RoundUp
<1> HIDE DEF q
<1>4. q * unit \in Int
  BY <1>2
<1>5. n <= q * unit
  BY <1>2, <1>4
<1>6. ASSUME NEW k \in Int, n <= k * unit PROVE q * unit <= k * unit
  <2>1. (k + 1) * unit = k * unit + unit /\ k * unit \in Int
    OBVIOUS
  <2>2. q * unit < (k + 1) * unit
    BY <1>2, <1>4, <1>6, <2>1
  <2>3. q <= k
    BY <1>2, <2>2, Cancel
  <2> QED
    BY <1>2, <2>3, Times
<1> QED
  BY <1>3, <1>4, <1>5, <1>6

LEMMA Units ==
    ASSUME UnitsAssumption
    PROVE  /\ Mi \in Nat \ {0} /\ Gi \in Nat \ {0} /\ Ti \in Nat \ {0} /\ Extent \in Nat \ {0}
           /\ \E e \in Int : Gi = e * Extent
<1>1. Mi \in Nat \ {0} /\ K \in Nat \ {0} /\ Extent \in Nat \ {0} /\ Gi % Extent = 0
  BY UnitsAssumption DEF UnitsAssumption
<1>2. Gi \in Nat \ {0}
  BY <1>1 DEF Gi
<1>3. Ti \in Nat \ {0}
  BY <1>1, <1>2 DEF Ti
<1>4. Gi = (Gi \div Extent) * Extent /\ Gi \div Extent \in Int
  BY <1>1, <1>2
<1> QED
  BY Zenon, <1>1, <1>2, <1>3, <1>4

\* Whole GiB are whole extents.
LEMMA GiAreExtents ==
    ASSUME UnitsAssumption, NEW k \in Int
    PROVE  \E j \in Int : k * Gi = j * Extent
<1>1. PICK e \in Int : Gi = e * Extent
  BY Units
<1>2. k * Gi = (k * e) * Extent /\ k * e \in Int
  BY <1>1, Units
<1> QED
  BY <1>2

----------------------------------------------------------------------------
(* The driver never asks for more than the claim, nor the extender charges less *)

LEMMA AskedNotMore ==
    ASSUME UnitsAssumption, NEW q \in Nat
    PROVE  /\ GetPvSize(q).number * GetPvSize(q).unit \in Nat
           /\ GetPvSize(q).number * GetPvSize(q).unit <= q
<1> DEFINE n == GetPvSize(q).number
           u == GetPvSize(q).unit
<1>1. u \in Nat \ {0} /\ n = q \div u
  BY Units DEF GetPvSize
<1> HIDE DEF n, u
<1>2. n \in Int /\ n * u <= q /\ q < n * u + u
  BY <1>1, Division
<1>3. n \in Nat
  <2>1. 0 * u < (n + 1) * u
    BY <1>1, <1>2
  <2>2. 0 <= n
    BY <1>1, <1>2, <2>1, Cancel
  <2> QED
    BY <1>2, <2>2
<1>4. n * u \in Nat
  BY <1>1, <1>3
<1> QED
  BY <1>2, <1>4 DEF n, u

LEMMA ChargedNotLess ==
    ASSUME UnitsAssumption, NEW q \in Nat, NEW free \in Int, NEW unit \in Nat \ {0},
           free \div unit >= RealSize(q)
    PROVE  RealSize(q) \in Int /\ q <= RealSize(q) * Gi /\ RealSize(q) * unit <= free
<1> DEFINE k == (q + Gi - 1) \div Gi
           f == free \div unit
<1>1. q + Gi - 1 \in Int /\ Gi \in Nat \ {0}
  BY Units
<1>2. k \in Int /\ q + Gi - 1 < k * Gi + Gi
  BY <1>1, Division
<1>3. f \in Int /\ f * unit <= free
  BY Division
<1>4. RealSize(q) = (k * Gi) \div Gi
  BY DEF RealSize, RoundUp
<1>5. f >= RealSize(q)
  OBVIOUS
<1> HIDE DEF k, f
<1>6. RealSize(q) = k
  BY <1>1, <1>2, <1>4, DivisionOfMultiple
<1>7. k * unit <= f * unit /\ k * unit \in Int /\ f * unit \in Int
  BY <1>2, <1>3, <1>5, <1>6, Times
<1>8. k * unit <= free
  BY <1>3, <1>7
<1>9. q <= k * Gi
  BY <1>1, <1>2
<1> QED
  BY <1>2, <1>6, <1>8, <1>9

\* A claim the extender finds room for fits as LVM makes it, but for the
\* difference between the unit of the report and a GiB.
LEMMA ChargedFits ==
    ASSUME UnitsAssumption, NEW q \in Nat, NEW free \in Int, free \div ReportedG >= RealSize(q)
    PROVE  LET size == RoundUp(GetPvSize(q).number * GetPvSize(q).unit, Extent) IN
           /\ size * ReportedG <= free * Gi
           /\ free \div ReportedG = free \div Gi => size <= free
<1> DEFINE n == GetPvSize(q).number * GetPvSize(q).unit
<1>1. n \in Nat /\ n <= q
  BY AskedNotMore
<1>0. ReportedG \in Nat \ {0} /\ Gi \in Nat \ {0}
  <2>1. Gi \in Nat \ {0}
    BY Units
  <2>2. ReportedG \in 1 .. Gi
    BY UnitsAssumption DEF UnitsAssumption
  <2> QED
    BY ONLY <2>1, <2>2
<1> DEFINE k == RealSize(q)
<1>2. k \in Int /\ q <= k * Gi /\ k * ReportedG <= free
  BY <1>0, ChargedNotLess
<1>a. ASSUME free \div ReportedG = free \div Gi PROVE k * Gi <= free
  BY <1>0, <1>a, ChargedNotLess
<1> HIDE DEF k
<1>3. PICK j \in Int : k * Gi = j * Extent
  BY <1>2, GiAreExtents
<1> HIDE DEF n
<1>4. n <= j * Extent /\ j * Extent \in Int /\ Extent \in Nat \ {0}
  BY <1>1, <1>2, <1>3, Units
<1>5. RoundUp(n, Extent) \in Int /\ RoundUp(n, Extent) <= j * Extent
  BY Zenon, <1>1, <1>4, RoundUpFacts
<1> DEFINE r == RoundUp(n, Extent)
<1>6. r \in Int /\ r <= k * Gi /\ k * Gi \in Int
  BY <1>0, <1>2, <1>3, <1>5
<1> HIDE DEF r
<1>7. ASSUME free \div ReportedG = free \div Gi PROVE r <= free
  <2>1. k * Gi <= free
    BY <1>7, <1>a
  <2> QED
    BY ONLY <1>6, <2>1, free \in Int
<1>8. r * ReportedG <= free * Gi
  <2>1. r * ReportedG <= (k * Gi) * ReportedG
    BY <1>0, <1>6, Times
  <2>2. (k * ReportedG) * Gi <= free * Gi /\ k * ReportedG \in Int
    BY <1>0, <1>2, Times
  <2>3. (k * Gi) * ReportedG = (k * ReportedG) * Gi
    BY <1>0, <1>2
  <2>4. r * ReportedG \in Int /\ (k * Gi) * ReportedG \in Int /\ free * Gi \in Int
    BY <1>0, <1>2, <1>6
  <2> QED
    BY ONLY <2>1, <2>2, <2>3, <2>4
<1> QED
  BY <1>7, <1>8 DEF n, r

----------------------------------------------------------------------------
(* Admission, while no claim grows *)

SizesType ==
    /\ pv \in [Volumes -> Quantities \cup {0}] /\ lv \in [Volumes -> Int]
    /\ vgFree \in Int
    /\ outcome \in [Volumes -> {"none", "created", "extended", "kept", "refused", "full", "invalid"}]
    /\ \A v \in Volumes : lv[v] # 0 => pv[v] # 0

\* A volume that is made has the size its claim asks for, and one at most is not
\* made yet.
AdmitInv ==
    /\ \A v \in Volumes : lv[v] # 0 => lv[v] = Asked(v)
    /\ \A v, w \in Unmade : v = w
    /\ AdmittedFits /\ ShortageBounded

LEMMA AskedInt ==
    ASSUME UnitsAssumption, SizesType, NEW v \in Volumes
    PROVE  Asked(v) \in Int /\ Wanted(v) \in Nat
<1>1. pv[v] \in Nat
  <2>1. pv[v] \in Quantities \cup {0}
    BY DEF SizesType
  <2>2. Quantities \subseteq Nat
    BY UnitsAssumption DEF UnitsAssumption
  <2>3. 0 \in Nat
    OBVIOUS
  <2> QED
    BY ONLY <2>1, <2>2, <2>3, Zenon
<1>2. Wanted(v) \in Nat
  BY <1>1, AskedNotMore DEF Wanted
<1> QED
  BY <1>2, Units, RoundUpFacts DEF Asked

\* What one publish may do.
LEMMA SetFacts ==
    ASSUME SizesType, NEW v \in Volumes, NEW n \in Int, NEW o, Set(v, n, o), pv[v] # 0,
           o \in {"none", "created", "extended", "kept", "refused", "full", "invalid"}
    PROVE  /\ SizesType' /\ UNCHANGED pv /\ lv'[v] = n /\ outcome'[v] = o
           /\ vgFree' = vgFree + lv[v] - n
           /\ \A w \in Volumes \ {v} : lv'[w] = lv[w] /\ outcome'[w] = outcome[w]
<1>1. vgFree + lv[v] - n \in Int
  BY DEF SizesType
<1> QED
  BY <1>1 DEF Set, SizesType

LEMMA AdmitStep ==
    ASSUME UnitsAssumption, SizesType, NEW v \in Volumes, NEW q \in Quantities, Admit(v, q) \/ Grow(v, q)
    PROVE  /\ SizesType' /\ pv'[v] = q /\ q \in Nat \ {0} /\ UNCHANGED <<lv, vgFree, outcome>>
           /\ \A w \in Volumes \ {v} : pv'[w] = pv[w]
<1>1. q \in Nat \ {0}
  BY UnitsAssumption DEF UnitsAssumption
<1>2. pv' = [pv EXCEPT ![v] = q] /\ UNCHANGED <<lv, vgFree, outcome>>
  BY DEF Admit, Grow
<1> QED
  BY <1>1, <1>2 DEF SizesType

LEMMA CreateStep ==
    ASSUME SizesType, NEW v \in Volumes, CreateVolume(v)
    PROVE  \E o \in {"invalid", "full", "created"} : Set(v, IF Asked(v) > vgFree THEN 0 ELSE Asked(v), o)
  BY DEF CreateVolume, Asked

LEMMA ResizeStep ==
    ASSUME SizesType, NEW v \in Volumes, ResizeVolume(v)
    PROVE  \/ Set(v, Asked(v), "extended") /\ lv[v] < Asked(v)
           \/ Set(v, lv[v], "refused") /\ ~Keeps(v) /\ Asked(v) <= lv[v]
           \/ Set(v, lv[v], "kept") \/ Set(v, lv[v], "full")
  BY DEF ResizeVolume, Asked

LEMMA AdmitNext ==
    ASSUME UnitsAssumption, ~MayGrow, SizesType, AdmitInv, [Next]_vars
    PROVE  SizesType' /\ AdmitInv'
<1>1. ASSUME NEW v \in Volumes, NEW q \in Quantities, Admit(v, q) PROVE SizesType' /\ AdmitInv'
  <2>1. /\ SizesType' /\ pv'[v] = q /\ q \in Nat \ {0} /\ UNCHANGED <<lv, vgFree, outcome>>
        /\ \A w \in Volumes \ {v} : pv'[w] = pv[w]
    BY <1>1, AdmitStep
  <2>2. pv[v] = 0 /\ lv[v] = 0 /\ Unmade = {} /\ vgFree \div ReportedG >= RealSize(q)
    BY <1>1 DEF Admit, SizesType, GetNodeFreeSize, StatusFreeSize
  <2>3. \A w \in Volumes \ {v} : Wanted(w)' = Wanted(w)
    BY <2>1 DEF Wanted
  <2>4. \A w \in Volumes : lv'[w] # 0 => lv'[w] = Asked(w)'
    BY <2>1, <2>2, <2>3 DEF AdmitInv, Asked
  <2>5. Unmade' \subseteq {v}
    BY <2>1, <2>2 DEF Unmade
  <2> DEFINE size == RoundUp(GetPvSize(q).number * GetPvSize(q).unit, Extent)
  <2>6. /\ size * ReportedG <= vgFree * Gi
        /\ vgFree \div ReportedG = vgFree \div Gi => size <= vgFree
    BY <2>1, <2>2, ChargedFits DEF SizesType
  <2>a. Asked(v)' = size
    BY <2>1 DEF Asked, Wanted
  <2> HIDE DEF size
  <2>7. AdmittedFits' /\ ShortageBounded'
    BY <2>1, <2>5, <2>6, <2>a DEF AdmittedFits, ShortageBounded, StatusFreeSize
  <2> QED
    BY <2>1, <2>4, <2>5, <2>7 DEF AdmitInv
<1>2. ASSUME NEW v \in Volumes, NEW q \in Quantities PROVE ~Grow(v, q)
  BY DEF Grow
<1>3. ASSUME NEW v \in Volumes, CreateVolume(v) PROVE SizesType' /\ AdmitInv'
  <2> DEFINE size == IF Asked(v) > vgFree THEN 0 ELSE Asked(v)
  <2>1. pv[v] # 0 /\ lv[v] = 0 /\ Unmade = {v}
    BY <1>3 DEF CreateVolume, AdmitInv, Unmade
  <2>2. size \in {0, Asked(v)} /\ size \in Int /\ vgFree \in Int
    BY AskedInt DEF SizesType
  <2>3. PICK o \in {"invalid", "full", "created"} : Set(v, size, o)
    BY <1>3, CreateStep
  <2> HIDE DEF size
  <2>4. /\ SizesType' /\ UNCHANGED pv /\ lv'[v] = size /\ vgFree' = vgFree + lv[v] - size
        /\ \A w \in Volumes \ {v} : lv'[w] = lv[w]
    BY <2>1, <2>2, <2>3, SetFacts
  <2>5. \A w \in Volumes : Asked(w)' = Asked(w)
    BY <2>4 DEF Asked, Wanted
  <2>6. Unmade' = IF size = 0 THEN {v} ELSE {}
    BY <2>1, <2>4 DEF Unmade
  <2>7. size = 0 => vgFree' = vgFree
    BY <2>1, <2>2, <2>4
  <2>8. AdmittedFits' /\ ShortageBounded'
    BY <2>1, <2>5, <2>6, <2>7 DEF AdmitInv, AdmittedFits, ShortageBounded, StatusFreeSize
  <2>9. \A w \in Volumes : lv'[w] # 0 => lv'[w] = Asked(w)'
    BY <2>2, <2>4, <2>5 DEF AdmitInv
  <2> QED
    BY <2>4, <2>6, <2>8, <2>9 DEF AdmitInv
<1>4. ASSUME NEW v \in Volumes, ResizeVolume(v) PROVE SizesType' /\ AdmitInv'
  <2>1. lv[v] # 0 /\ pv[v] # 0 /\ lv[v] = Asked(v) /\ lv[v] \in Int /\ vgFree \in Int
    BY <1>4 DEF ResizeVolume, AdmitInv, SizesType
  <2>2. ~(lv[v] < Asked(v))
    BY <2>1
  <2>3. PICK o \in {"refused", "kept", "full"} : Set(v, lv[v], o)
    BY <1>4, <2>2, ResizeStep
  <2>4. /\ SizesType' /\ UNCHANGED pv /\ vgFree' = vgFree + lv[v] - lv[v]
        /\ \A w \in Volumes : lv'[w] = lv[w]
    BY <2>1, <2>3, SetFacts
  <2>5. vgFree' = vgFree
    BY <2>1, <2>4
  <2>6. Unmade' = Unmade /\ \A w \in Volumes : Asked(w)' = Asked(w)
    BY <2>4 DEF Unmade, Asked, Wanted
  <2>7. AdmittedFits' /\ ShortageBounded'
    BY <2>5, <2>6 DEF AdmitInv, AdmittedFits, ShortageBounded, StatusFreeSize, Unmade
  <2> QED
    BY <2>4, <2>6, <2>7 DEF AdmitInv
<1>5. CASE UNCHANGED vars
  BY <1>5
  DEF vars, SizesType, AdmitInv, AdmittedFits, ShortageBounded, StatusFreeSize, Unmade, Asked,
      Wanted
<1> QED
  BY <1>1, <1>2, <1>3, <1>4, <1>5 DEF Next

LEMMA SizesInit ==
    ASSUME UnitsAssumption
    PROVE  Init => SizesType /\ AdmitInv /\ \A v \in Volumes : lv[v] = 0 /\ outcome[v] = "none"
  BY UnitsAssumption DEF UnitsAssumption, Init, SizesType, AdmitInv, AdmittedFits, ShortageBounded, Unmade

\* The extender's rounding is safe for every quantity, unit, extent and group:
\* while no claim grows, a claim admitted alone on a report that is the number
\* of free GiB fits as the driver asks for it and LVM makes it; on any report
\* it falls short by no more than the ratio of the report's unit to a GiB.
THEOREM RoundingsAgree ==
    ASSUME UnitsAssumption, ~MayGrow
    PROVE  Spec => [](AdmittedFits /\ ShortageBounded)
<1>1. Init => SizesType /\ AdmitInv
  BY SizesInit
<1>2. SizesType /\ AdmitInv /\ [Next]_vars => SizesType' /\ AdmitInv'
  BY AdmitNext
<1>3. AdmitInv => AdmittedFits /\ ShortageBounded
  BY DEF AdmitInv
<1> QED
  BY <1>1, <1>2, <1>3, PTL DEF Spec

----------------------------------------------------------------------------
(* The comparison without units, from a GiB on and below a TiB *)

InRange == \A q \in Quantities : Gi <= q /\ q < Ti

\* Such a claim is asked for in GiB, and made as it is asked for.
LEMMA AskedInGi ==
    ASSUME UnitsAssumption, InRange, SizesType, NEW v \in Volumes, pv[v] # 0
    PROVE  LET n == GetPvSize(pv[v]).number
           IN /\ n \in Nat \ {0} /\ Wanted(v) = n * Gi /\ Asked(v) = n * Gi /\ n * Gi < Ti
<1> DEFINE n == pv[v] \div Gi
<1>1. pv[v] \in Nat /\ Gi <= pv[v] /\ pv[v] < Ti
  <2>1. pv[v] \in Quantities
    BY DEF SizesType
  <2>2. Quantities \subseteq Nat
    BY UnitsAssumption DEF UnitsAssumption
  <2> QED
    BY Zenon, <2>1, <2>2 DEF InRange
<1>2. Gi \in Nat \ {0} /\ Ti \in Nat
  BY Units
<1>3. n \in Int /\ n * Gi <= pv[v] /\ pv[v] < n * Gi + Gi
  <2>1. pv[v] \in Int
    BY <1>1
  <2> QED
    BY ONLY Zenon, <1>2, <2>1, Division
<1>4. GetPvSize(pv[v]).number = n /\ Wanted(v) = n * Gi /\ n \in Nat \ {0}
  <2>1. n * Gi \in Int /\ 1 * Gi < (n + 1) * Gi
    BY <1>1, <1>2, <1>3
  <2>2. 1 <= n
    BY <1>2, <1>3, <2>1, Cancel
  <2>3. n # 0
    BY <1>3, <2>2
  <2>4. GetPvSize(pv[v]) = [number |-> n, unit |-> Gi]
    BY <2>3 DEF GetPvSize
  <2> QED
    BY <1>3, <2>2, <2>3, <2>4 DEF Wanted
<1> HIDE DEF n
<1>5. n * Gi \in Nat /\ n * Gi < Ti
  BY <1>1, <1>2, <1>3, <1>4
<1>6. PICK j \in Int : n * Gi = j * Extent
  BY <1>3, GiAreExtents
<1>7. RoundUp(n * Gi, Extent) = n * Gi
  <2>1. /\ RoundUp(n * Gi, Extent) \in Int /\ n * Gi <= RoundUp(n * Gi, Extent)
        /\ \A k \in Int : n * Gi <= k * Extent => RoundUp(n * Gi, Extent) <= k * Extent
    BY <1>5, Units, RoundUpFacts
  <2>2. RoundUp(n * Gi, Extent) <= n * Gi
    BY <1>5, <1>6, <2>1
  <2> QED
    BY <1>5, <2>1, <2>2
<1> QED
  BY <1>4, <1>5, <1>7 DEF Asked

\* lvdisplay prints a volume of whole GiB below a TiB as that many.
LEMMA Displayed ==
    ASSUME UnitsAssumption, NEW k \in Nat \ {0}, k * Gi < Ti
    PROVE  LvDisplay(k * Gi) = k
<1>1. k * Gi \in Nat /\ Gi <= k * Gi
  BY Units
<1>2. (k * Gi) \div Gi = k
  <2>1. k \in Int /\ Gi \in Nat \ {0}
    BY Units
  <2> QED
    BY ONLY <2>1, DivisionOfMultiple
<1>3. ~(k * Gi < Gi) /\ ~(Ti <= k * Gi)
  BY <1>1, Units
<1> QED
  BY <1>1, <1>2, <1>3 DEF LvDisplay

\* A made volume has whole GiB and less than a TiB, and none was refused.
GrowInv ==
    \A v \in Volumes :
        /\ lv[v] # 0 => \E k \in Nat \ {0} : lv[v] = k * Gi /\ k * Gi < Ti
        /\ outcome[v] # "refused"

\* The comparison of the numbers is the comparison of the sizes.
LEMMA KeepsRight ==
    ASSUME UnitsAssumption, InRange, SizesType, GrowInv, NEW v \in Volumes, lv[v] # 0
    PROVE  Keeps(v) <=> lv[v] >= Wanted(v)
<1>1. pv[v] # 0
  BY DEF SizesType
<1>2. PICK k \in Nat \ {0} : lv[v] = k * Gi /\ k * Gi < Ti
  BY DEF GrowInv
<1> DEFINE n == GetPvSize(pv[v]).number
<1>3. n \in Nat \ {0} /\ Wanted(v) = n * Gi
  BY <1>1, AskedInGi
<1>4. Keeps(v) <=> k >= n
  BY <1>2, Displayed DEF Keeps
<1> HIDE DEF n
<1>5. Gi \in Nat \ {0}
  BY Units
<1>6. k >= n => k * Gi >= n * Gi
  BY <1>3, <1>5, Times
<1>7. k * Gi >= n * Gi => k >= n
  <2> SUFFICES ASSUME k * Gi >= n * Gi PROVE k >= n
    OBVIOUS
  <2>1. n * Gi < (k + 1) * Gi
    BY <1>3, <1>5
  <2> QED
    BY <1>3, <1>5, <2>1, Cancel
<1> QED
  BY <1>2, <1>3, <1>4, <1>6, <1>7

LEMMA GrowNext ==
    ASSUME UnitsAssumption, InRange, SizesType, GrowInv, [Next]_vars
    PROVE  SizesType' /\ GrowInv'
<1>1. ASSUME NEW v \in Volumes, NEW q \in Quantities, Admit(v, q) \/ Grow(v, q)
      PROVE  SizesType' /\ GrowInv'
  BY <1>1, AdmitStep DEF GrowInv
<1>2. ASSUME NEW v \in Volumes, CreateVolume(v) PROVE SizesType' /\ GrowInv'
  <2>1. pv[v] # 0
    BY <1>2 DEF CreateVolume
  <2>2. PICK n \in Int, o \in {"invalid", "full", "created"} : Set(v, n, o) /\ n \in {0, Asked(v)}
    BY <1>2, AskedInt, CreateStep
  <2>3. /\ SizesType' /\ lv'[v] = n /\ outcome'[v] = o
        /\ \A w \in Volumes \ {v} : lv'[w] = lv[w] /\ outcome'[w] = outcome[w]
    BY <2>1, <2>2, SetFacts
  <2>4. n # 0 => \E k \in Nat \ {0} : n = k * Gi /\ k * Gi < Ti
    BY <2>1, <2>2, AskedInGi
  <2> QED
    BY <2>2, <2>3, <2>4 DEF GrowInv
<1>3. ASSUME NEW v \in Volumes, ResizeVolume(v) PROVE SizesType' /\ GrowInv'
  <2>1. lv[v] # 0 /\ pv[v] # 0 /\ lv[v] \in Int /\ Asked(v) \in Int
    BY <1>3, AskedInt DEF ResizeVolume, SizesType
  <2>2. Asked(v) = Wanted(v)
    BY <2>1, AskedInGi
  <2>3. ~Keeps(v) => ~(Asked(v) <= lv[v])
    BY <2>1, <2>2, KeepsRight
  <2>4. PICK n \in Int, o \in {"extended", "kept", "full"} : Set(v, n, o) /\ n \in {lv[v], Asked(v)}
    BY <1>3, <2>1, <2>3, ResizeStep
  <2>5. /\ SizesType' /\ lv'[v] = n /\ outcome'[v] = o
        /\ \A w \in Volumes \ {v} : lv'[w] = lv[w] /\ outcome'[w] = outcome[w]
    BY <2>1, <2>4, SetFacts
  <2>6. n # 0 => \E k \in Nat \ {0} : n = k * Gi /\ k * Gi < Ti
    BY <2>1, <2>4, AskedInGi DEF GrowInv
  <2> QED
    BY <2>4, <2>5, <2>6 DEF GrowInv
<1>4. CASE UNCHANGED vars
  BY <1>4 DEF vars, SizesType, GrowInv
<1> QED
  BY <1>1, <1>2, <1>3, <1>4 DEF Next

LEMMA GrowInvariant ==
    ASSUME UnitsAssumption, InRange
    PROVE  Spec => [](SizesType /\ GrowInv)
<1>1. Init => SizesType /\ GrowInv
  BY SizesInit DEF GrowInv
<1>2. SizesType /\ GrowInv /\ [Next]_vars => SizesType' /\ GrowInv'
  BY GrowNext
<1> QED
  BY <1>1, <1>2, PTL DEF Spec

\* From a GiB on and below a TiB, however claims grow, lvextend is never called
\* for a volume that has the size already.
THEOREM NeverRefused ==
    ASSUME UnitsAssumption, InRange
    PROVE  Spec => []NotRefused
<1>1. GrowInv => NotRefused
  BY Zenon DEF GrowInv, NotRefused
<1> QED
  BY <1>1, GrowInvariant, PTL

\* In the same range resizeVolume's comparison of bare numbers does what its
\* comment says: it keeps exactly the volumes that have the size wanted.
THEOREM ComparisonRight ==
    ASSUME UnitsAssumption, InRange
    PROVE  Spec => [](KeptIsBigEnough /\ BigEnoughIsKept)
<1>1. SizesType /\ GrowInv => KeptIsBigEnough /\ BigEnoughIsKept
  BY KeepsRight DEF KeptIsBigEnough, BigEnoughIsKept
<1> QED
  BY <1>1, GrowInvariant, PTL
----------------------------------------------------------------------------
(* The volume group *)

\* The shape of the callers' state; found holds existing devices only.
GroupCallInv ==
    /\ pc \in [Callers -> {"idle", "vgdisplay", "scan", "pvcreate", "vgcreate", "done", "failed"}]
    /\ next \in [Callers -> Nat \ {0}]
    /\ found \in [Callers -> SUBSET (G!Range(Devices) \ Absent)]
    /\ DOMAIN pvNum = Callers
    /\ faults \in Nat

\* vgcreate is never given an empty list: with it the group would exist and have
\* no devices.
NonEmptyInv == \A p \in Callers : pc[p] = "vgcreate" => found[p] # {}

GroupInv == GroupCallInv /\ NonEmptyInv /\ G!PvNumRight /\ G!GroupOfUsable /\ G!ListUsable

LEMMA GroupInit == G!Init => GroupInv
  BY DEF G!Init, GroupInv, GroupCallInv, NonEmptyInv, G!PvNumRight, G!GroupOfUsable, G!ListUsable

LEMMA FaultFacts == faults \in Nat /\ G!Fault => faults' \in Nat /\ faults' # 0
  BY DEF G!Fault

LEMMA CallStep ==
    ASSUME GroupInv, NEW p \in Callers, G!Call(p) \/ G!Scanned(p)
    PROVE  GroupInv'
<1> USE DEF GroupInv, G!Call, G!Scanned, G!Set
<1>1. GroupCallInv'
  BY SMTT(30) DEF GroupCallInv
<1>2. NonEmptyInv' /\ G!PvNumRight'
  BY Zenon DEF GroupCallInv, NonEmptyInv, G!PvNumRight
<1>3. G!GroupOfUsable' /\ G!ListUsable'
  BY DEF GroupCallInv, G!GroupOfUsable, G!ListUsable
<1> QED
  BY <1>1, <1>2, <1>3

LEMMA VgDisplayStep ==
    ASSUME GroupInv, NEW p \in Callers, G!VgDisplay(p)
    PROVE  GroupInv'
<1> USE DEF GroupInv, G!VgDisplay, G!Succeed, G!Set
<1>1. GroupCallInv'
  BY FaultFacts DEF GroupCallInv
<1>2. NonEmptyInv' /\ G!PvNumRight'
  BY DEF GroupCallInv, NonEmptyInv, G!PvNumRight
<1>3. G!GroupOfUsable' /\ G!ListUsable'
  BY FaultFacts DEF GroupCallInv, G!GroupOfUsable, G!ListUsable
<1> QED
  BY <1>1, <1>2, <1>3

LEMMA GetDeviceListStep ==
    ASSUME G!DevicesAssumption, GroupInv, NEW p \in Callers, G!GetDeviceList(p)
    PROVE  GroupInv'
<1> DEFINE d == Devices[next[p]]
<1>1. next[p] \in Nat \ {0} /\ next[p] <= Len(Devices) /\ Len(Devices) \in Nat
  BY G!DevicesAssumption DEF G!DevicesAssumption, GroupInv, GroupCallInv, G!GetDeviceList
<1>2. d \in G!Range(Devices)
  BY <1>1, G!DevicesAssumption DEF G!DevicesAssumption, G!Range
<1>3. /\ UNCHANGED <<orphans, group, pc, pvNum>>
      /\ next' = [next EXCEPT ![p] = next[p] + 1]
  BY Zenon DEF G!GetDeviceList, G!Set
<1>4. \/ UNCHANGED <<found, faults>>
      \/ /\ d \notin Absent \cup Mounted \cup Foreign
         /\ found' = [found EXCEPT ![p] = found[p] \cup {d}] /\ UNCHANGED faults
      \/ /\ d \notin Absent /\ G!Fault
         /\ found' = [found EXCEPT ![p] = found[p] \cup {d}]
  BY DEF G!GetDeviceList, G!Set, G!IsPhysicalVolume
<1>5. GroupCallInv'
  BY <1>1, <1>2, <1>3, <1>4, FaultFacts DEF GroupInv, GroupCallInv
<1>6. NonEmptyInv' /\ G!PvNumRight' /\ G!GroupOfUsable'
  <2>1. pc[p] = "scan"
    BY DEF G!GetDeviceList
  <2> QED
    BY Zenon, <1>3, <1>4, <2>1 DEF GroupInv, GroupCallInv, NonEmptyInv, G!PvNumRight, G!GroupOfUsable
<1>7. G!ListUsable'
  BY <1>2, <1>4, FaultFacts DEF GroupInv, GroupCallInv, G!ListUsable, G!Usable
<1> QED
  BY <1>5, <1>6, <1>7 DEF GroupInv

LEMMA PvCreateStep ==
    ASSUME GroupInv, NEW p \in Callers, G!PvCreate(p)
    PROVE  GroupInv'
<1> USE DEF GroupInv, G!PvCreate, G!Fail, G!Set
<1>1. GroupCallInv'
  BY FaultFacts DEF GroupCallInv
<1>2. NonEmptyInv' /\ G!PvNumRight'
  BY DEF GroupCallInv, NonEmptyInv, G!PvNumRight
<1>3. G!GroupOfUsable'
  <2>1. found[p] \subseteq G!Range(Devices) \ Absent /\ group' = group
    BY DEF GroupCallInv
  <2>2. orphans' \subseteq orphans \cup (found[p] \ G!InUse)
    BY Zenon
  <2> QED
    BY <2>1, <2>2 DEF G!GroupOfUsable, G!Usable, G!InUse
<1>4. G!ListUsable'
  BY FaultFacts DEF GroupCallInv, G!ListUsable
<1> QED
  BY Zenon, <1>1, <1>2, <1>3, <1>4

LEMMA VgCreateStep ==
    ASSUME GroupInv, NEW p \in Callers, G!VgCreate(p)
    PROVE  GroupInv'
<1>1. found[p] # {}
  BY DEF GroupInv, NonEmptyInv, G!VgCreate
<1>2. GroupCallInv'
  BY FaultFacts DEF GroupInv, GroupCallInv, G!VgCreate, G!Succeed, G!Fail, G!Set
<1>3. NonEmptyInv' /\ G!PvNumRight'
  BY <1>1 DEF GroupInv, GroupCallInv, NonEmptyInv, G!PvNumRight, G!VgCreate, G!Succeed, G!Fail, G!Set
<1>4. G!GroupOfUsable' /\ G!ListUsable'
  BY FaultFacts DEF GroupInv, GroupCallInv, G!GroupOfUsable, G!ListUsable, G!VgCreate
<1> QED
  BY <1>2, <1>3, <1>4 DEF GroupInv

LEMMA CrashStep ==
    ASSUME GroupInv, NEW p \in Callers, G!Crash(p)
    PROVE  GroupInv'
<1> USE DEF GroupInv, G!Crash, G!Set
<1>1. GroupCallInv'
  BY FaultFacts DEF GroupCallInv
<1>2. NonEmptyInv' /\ G!PvNumRight'
  BY DEF GroupCallInv, NonEmptyInv, G!PvNumRight
<1>3. G!GroupOfUsable' /\ G!ListUsable'
  BY FaultFacts DEF GroupCallInv, G!GroupOfUsable, G!ListUsable
<1> QED
  BY <1>1, <1>2, <1>3
----------------------------------------------------------------------------
\* The invariant of CreateVG, for any number of callers, devices and faults.
THEOREM VolumeGroupInvariant ==
    ASSUME G!DevicesAssumption
    PROVE  G!Spec => []GroupInv
<1>1. GroupInv /\ [G!Next]_(G!vars) => GroupInv'
  <2> SUFFICES ASSUME GroupInv, [G!Next]_(G!vars) PROVE GroupInv'
    OBVIOUS
  <2>1. CASE UNCHANGED G!vars
    BY <2>1 DEF G!vars, G!callVars, GroupInv, GroupCallInv, NonEmptyInv, G!PvNumRight, G!GroupOfUsable, G!ListUsable
  <2>2. ASSUME NEW p \in Callers, G!CreateVG(p) PROVE GroupInv'
    BY <2>2, CallStep, VgDisplayStep, GetDeviceListStep, PvCreateStep, VgCreateStep DEF G!CreateVG
  <2> QED
    BY <2>1, <2>2, CrashStep DEF G!Next
<1> QED
  BY GroupInit, <1>1, PTL DEF G!Spec

\* A caller to which CreateVG returned a number finds the group, with that many
\* physical volumes.
THEOREM NumberRight ==
    ASSUME G!DevicesAssumption
    PROVE  G!Spec => []G!PvNumRight
  BY VolumeGroupInvariant, PTL DEF GroupInv

\* The group consists of usable devices, and no device is free and in it.
THEOREM OnlyUsable ==
    ASSUME G!DevicesAssumption
    PROVE  G!Spec => []G!GroupOfUsable
  BY VolumeGroupInvariant, PTL DEF GroupInv

\* getDeviceList lists usable devices, unless a command of its own has failed.
THEOREM UsableListed ==
    ASSUME G!DevicesAssumption
    PROVE  G!Spec => []G!ListUsable
  BY VolumeGroupInvariant, PTL DEF GroupInv

LEMMA NoFault == faults \in Nat /\ UNCHANGED faults => ~G!Fault
  BY DEF G!Fault

\* No device is taken, since each is absent, mounted or a physical volume.
LEMMA NoneTaken ==
    ASSUME G!DevicesAssumption, GroupCallInv, G!Stranded, UNCHANGED faults, NEW p \in Callers, G!GetDeviceList(p)
    PROVE  UNCHANGED <<orphans, group, pc, found>>
<1> DEFINE d == Devices[next[p]]
<1>1. next[p] \in Nat \ {0} /\ next[p] <= Len(Devices) /\ Len(Devices) \in Nat
  BY G!DevicesAssumption DEF G!DevicesAssumption, GroupCallInv, G!GetDeviceList
<1>2. d \in G!Range(Devices)
  BY <1>1, G!DevicesAssumption DEF G!DevicesAssumption, G!Range
<1>3. d \in Absent \cup Mounted \/ G!IsPhysicalVolume(d)
  BY <1>2 DEF G!Stranded, G!Usable, G!IsPhysicalVolume
<1>4. ~G!Fault
  BY NoFault DEF GroupCallInv
<1> QED
  BY Zenon, <1>3, <1>4 DEF G!GetDeviceList

LEMMA StrandedStep ==
    ASSUME G!DevicesAssumption, GroupInv, G!Stranded, UNCHANGED faults, [G!Next]_(G!vars)
    PROVE  G!Stranded'
<1> USE DEF GroupInv, GroupCallInv
<1>1. ~G!Fault
  BY NoFault
<1>2. ASSUME NEW p \in Callers, G!Call(p) PROVE G!Stranded'
  BY <1>2 DEF G!Stranded, G!Call, G!Set, G!Usable
<1>3. ASSUME NEW p \in Callers, G!VgDisplay(p) PROVE G!Stranded'
  BY <1>1, <1>3 DEF G!Stranded, G!VgDisplay, G!Set, G!Usable
<1>4. ASSUME NEW p \in Callers, G!GetDeviceList(p) PROVE G!Stranded'
  BY Zenon, <1>4, NoneTaken DEF G!Stranded, G!Usable
<1>5. ASSUME NEW p \in Callers, G!Scanned(p) PROVE G!Stranded'
  BY <1>5 DEF G!Stranded, G!Scanned, G!Set, G!Usable
<1>6. ASSUME NEW p \in Callers, G!PvCreate(p) PROVE G!Stranded'
  <2>1. found[p] = {}
    BY <1>6 DEF G!Stranded, G!PvCreate
  <2>2. /\ pc' = [pc EXCEPT ![p] = "failed"] /\ UNCHANGED <<group, found>>
        /\ orphans' = orphans \cup (found[p] \ G!InUse)
    BY Zenon, <1>1, <1>6, <2>1 DEF G!PvCreate, G!Fail, G!Set
  <2> QED
    BY <2>2 DEF G!Stranded, G!Usable
<1>7. ASSUME NEW p \in Callers PROVE ~G!VgCreate(p) /\ ~G!Crash(p)
  BY <1>1 DEF G!Stranded, G!VgCreate, G!Crash
<1>8. CASE UNCHANGED G!vars
  BY <1>8 DEF G!Stranded, G!vars, G!callVars, G!Usable
<1> QED
  BY Zenon, <1>2, <1>3, <1>4, <1>5, <1>6, <1>7, <1>8 DEF G!Next, G!CreateVG

\* Once all usable devices are physical volumes of no group, as a crash between
\* pvcreate and vgcreate leaves them, no caller makes the group while no command
\* fails, however often CreateVG is called.
THEOREM NotMadeUpFor ==
    ASSUME G!DevicesAssumption
    PROVE  G!Spec => G!StrandedStays
<1>1. GroupInv /\ [G!Next]_(G!vars) => [G!Stranded /\ UNCHANGED faults => G!Stranded']_(G!vars)
  BY StrandedStep
<1> QED
  BY <1>1, VolumeGroupInvariant, PTL DEF G!Spec, G!StrandedStays
=============================================================================
