------------------------- MODULE DesktopLayoutProofs -------------------------
(***************************************************************************)
(* PointerFollows, PrimaryIsSupplied and RequestIsMet of DesktopLayout, for*)
(* any devices, sizes and requests, and any number of refusals and changes.*)
(***************************************************************************)
EXTENDS DesktopLayout, FiniteSetTheorems, TLAPS

------------------------------------------------------------------------------
(***************************************************************************)
(* Least and greatest elements.                                            *)
(***************************************************************************)
\* Induction over the natural numbers, for a set instead of a formula.
LEMMA Induction ==
    ASSUME NEW T, 0 \in T, \A n \in Nat : n \in T => n + 1 \in T
    PROVE  Nat \subseteq T
<1> DEFINE R == OpToRel(<, Nat)
           B == Nat \ T
<1>1. R = {ss \in Nat \X Nat : ss[1] < ss[2]}
  BY DEF OpToRel
<1>2. IsWellFoundedOn(R, Nat)
  BY NatLessThanWellFounded, Zenon
<1> HIDE DEF R
<1>3. SUFFICES ASSUME B # {} PROVE FALSE
  OBVIOUS
<1>4. \E x \in B : \A y \in B : ~(<<y, x>> \in R)
  BY <1>2, <1>3, WFMin
<1>5. PICK m \in B : \A y \in B : ~(<<y, m>> \in R)
  BY <1>4
<1>6. m \in Nat /\ m # 0 /\ m - 1 \in Nat /\ m - 1 \in B
  OBVIOUS
<1>7. <<m - 1, m>> \in R
  BY <1>1, <1>6
<1> QED
  BY <1>5, <1>6, <1>7

LEMMA Least ==
    ASSUME NEW D, IsFiniteSet(D), D # {}, NEW f \in [D -> Int]
    PROVE  \E d \in D : \A e \in D : f[d] <= f[e]
<1> DEFINE HasLeast(S) == \E d \in S : \A e \in S : f[d] <= f[e]
           T == {n \in Nat : \A S \in SUBSET D : Cardinality(S) = n /\ S # {} => HasLeast(S)}
<1>1. 0 \in T
  <2>1. \A S \in SUBSET D : Cardinality(S) = 0 => S = {}
    BY FS_Subset, FS_EmptySet
  <2> QED
    BY <2>1
<1>2. ASSUME NEW n \in Nat, n \in T PROVE n + 1 \in T
  <2>1. SUFFICES ASSUME NEW S \in SUBSET D, Cardinality(S) = n + 1 PROVE HasLeast(S)
    OBVIOUS
  <2>2. IsFiniteSet(S) /\ S # {}
    BY <2>1, FS_Subset, FS_EmptySet
  <2>3. PICK d \in S : TRUE
    BY <2>2
  <2>4. S \ {d} \in SUBSET D /\ Cardinality(S \ {d}) = n
    <3>1. Cardinality(S \ {d}) = Cardinality(S) - 1
      BY <2>2, <2>3, FS_RemoveElement
    <3> QED
      BY <2>1, <3>1
  <2>5. f[d] \in Int
    OBVIOUS
  <2>6. CASE S \ {d} = {}
    BY <2>3, <2>5, <2>6
  <2>7. CASE S \ {d} # {}
    <3>1. PICK e \in S \ {d} : \A i \in S \ {d} : f[e] <= f[i]
      BY <1>2, <2>4, <2>7
    <3>2. f[e] \in Int /\ \A i \in S : f[i] \in Int
      OBVIOUS
    <3>3. CASE f[e] <= f[d]
      BY <3>1, <3>3
    <3>4. CASE ~(f[e] <= f[d])
      <4>1. \A i \in S : f[d] <= f[i]
        BY <2>5, <3>1, <3>2, <3>4
      <4> QED
        BY <2>3, <4>1
    <3> QED
      BY <3>3, <3>4
  <2> QED
    BY <2>6, <2>7
<1> HIDE DEF HasLeast
<1>3. Cardinality(D) \in T
  <2>1. Cardinality(D) \in Nat
    BY FS_CardinalityType
  <2>2. Nat \subseteq T
    <3> HIDE DEF T
    <3> QED
      BY <1>1, <1>2, Induction
  <2> QED
    BY <2>1, <2>2
<1>4. HasLeast(D)
  BY <1>3
<1> QED
  BY <1>4 DEF HasLeast

LEMMA Greatest ==
    ASSUME NEW D, IsFiniteSet(D), D # {}, NEW f \in [D -> Int]
    PROVE  \E d \in D : \A e \in D : f[d] >= f[e]
<1> DEFINE g == [d \in D |-> 0 - f[d]]
<1>1. g \in [D -> Int] /\ \A d \in D : g[d] = 0 - f[d] /\ f[d] \in Int
  OBVIOUS
<1> HIDE DEF g
<1>2. PICK d \in D : \A e \in D : g[d] <= g[e]
  BY <1>1, Least
<1>3. \A e \in D : f[d] >= f[e]
  BY <1>1, <1>2
<1> QED
  BY <1>3

LEMMA MinIs ==
    ASSUME NEW S \in SUBSET Int, NEW m \in S, \A y \in S : m <= y
    PROVE  Min(S) = m
<1> DEFINE l == Min(S)
<1>1. l \in S /\ \A y \in S : l <= y
  BY DEF Min
<1> HIDE DEF l
<1>2. l \in Int /\ m \in Int /\ l <= m /\ m <= l
  BY <1>1
<1>3. l = m
  BY <1>2
<1> QED
  BY <1>3 DEF l

LEMMA MaxIs ==
    ASSUME NEW S \in SUBSET Int, NEW m \in S, \A y \in S : m >= y
    PROVE  Max(S) = m
<1> DEFINE l == Max(S)
<1>1. l \in S /\ \A y \in S : l >= y
  BY DEF Max
<1> HIDE DEF l
<1>2. l \in Int /\ m \in Int /\ l >= m /\ m >= l
  BY <1>1
<1>3. l = m
  BY <1>2
<1> QED
  BY <1>3 DEF l

\* The least and the greatest value of a function.
LEMMA MinOf ==
    ASSUME NEW D, IsFiniteSet(D), D # {}, NEW f \in [D -> Int]
    PROVE  LET m == Min({f[d] : d \in D})
           IN  m \in Int /\ (\E d \in D : m = f[d]) /\ \A d \in D : m <= f[d]
<1> DEFINE S == {f[d] : d \in D}
<1>1. PICK d \in D : \A e \in D : f[d] <= f[e]
  BY Least
<1>2. S \in SUBSET Int /\ f[d] \in S /\ \A y \in S : f[d] <= y
  BY <1>1
<1>3. Min(S) = f[d]
  BY <1>2, MinIs
<1> QED
  BY <1>1, <1>3

LEMMA MaxOf ==
    ASSUME NEW D, IsFiniteSet(D), D # {}, NEW f \in [D -> Int]
    PROVE  LET m == Max({f[d] : d \in D})
           IN  m \in Int /\ (\E d \in D : m = f[d]) /\ \A d \in D : m >= f[d]
<1> DEFINE S == {f[d] : d \in D}
<1>1. PICK d \in D : \A e \in D : f[d] >= f[e]
  BY Greatest
<1>2. S \in SUBSET Int /\ f[d] \in S /\ \A y \in S : f[d] >= y
  BY <1>1
<1>3. Max(S) = f[d]
  BY <1>2, MaxIs
<1> QED
  BY <1>1, <1>3

\* The least and the greatest of a function's values and zero.
LEMMA MinWith ==
    ASSUME NEW D, IsFiniteSet(D), NEW f \in [D -> Int]
    PROVE  LET m == Min({0} \cup {f[d] : d \in D})
           IN  m \in Int /\ m <= 0 /\ (m = 0 \/ \E d \in D : m = f[d]) /\ \A d \in D : m <= f[d]
<1> DEFINE S == {0} \cup {f[d] : d \in D}
<1>1. \A d \in D : f[d] \in Int
  OBVIOUS
<1>2. S \in SUBSET Int
  BY <1>1
<1>3. CASE \A d \in D : 0 <= f[d]
  <2>1. Min(S) = 0
    BY <1>2, <1>3, MinIs
  <2> QED
    BY <1>3, <2>1
<1>4. CASE ~(\A d \in D : 0 <= f[d])
  <2>1. PICK e \in D : ~(0 <= f[e])
    BY <1>4
  <2>2. PICK d \in D : \A i \in D : f[d] <= f[i]
    BY <2>1, Least
  <2>3. f[d] <= 0 /\ f[d] \in Int
    BY <1>1, <2>1, <2>2
  <2>4. f[d] \in S /\ \A y \in S : f[d] <= y
    BY <2>2, <2>3
  <2>5. Min(S) = f[d]
    BY <1>2, <2>4, MinIs
  <2> QED
    BY <2>2, <2>3, <2>5
<1> QED
  BY <1>3, <1>4

LEMMA MaxWith ==
    ASSUME NEW D, IsFiniteSet(D), NEW f \in [D -> Int]
    PROVE  LET m == Max({0} \cup {f[d] : d \in D})
           IN  m \in Int /\ m >= 0 /\ (m = 0 \/ \E d \in D : m = f[d]) /\ \A d \in D : m >= f[d]
<1> DEFINE S == {0} \cup {f[d] : d \in D}
<1>1. \A d \in D : f[d] \in Int
  OBVIOUS
<1>2. S \in SUBSET Int
  BY <1>1
<1>3. CASE \A d \in D : 0 >= f[d]
  <2>1. Max(S) = 0
    BY <1>2, <1>3, MaxIs
  <2> QED
    BY <1>3, <2>1
<1>4. CASE ~(\A d \in D : 0 >= f[d])
  <2>1. PICK e \in D : ~(0 >= f[e])
    BY <1>4
  <2>2. PICK d \in D : \A i \in D : f[d] >= f[i]
    BY <2>1, Greatest
  <2>3. f[d] >= 0 /\ f[d] \in Int
    BY <1>1, <2>1, <2>2
  <2>4. f[d] \in S /\ \A y \in S : f[d] >= y
    BY <2>2, <2>3
  <2>5. Max(S) = f[d]
    BY <1>2, <2>4, MaxIs
  <2> QED
    BY <2>2, <2>3, <2>5
<1> QED
  BY <1>3, <1>4

LEMMA MinOfNat ==
    ASSUME NEW S \in SUBSET Nat, S # {}
    PROVE  Min(S) \in S
<1> DEFINE T == {n \in Nat : \A m \in 0 .. n : m \notin S}
<1>1. SUFFICES ASSUME ~\E m \in S : \A y \in S : m <= y PROVE FALSE
  BY MinIs
<1>2. 0 \in T
  <2>1. 0 \notin S
    BY <1>1
  <2> QED
    BY <2>1
<1>3. ASSUME NEW n \in Nat, n \in T PROVE n + 1 \in T
  <2>1. \A y \in S : n + 1 <= y
    BY <1>3
  <2>2. n + 1 \notin S
    BY <1>1, <2>1
  <2> QED
    BY <1>3, <2>2
<1>4. Nat \subseteq T
  <2> HIDE DEF T
  <2> QED
    BY <1>2, <1>3, Induction
<1>5. PICK x \in S : TRUE
  OBVIOUS
<1>6. x \in T /\ x \in 0 .. x
  BY <1>4
<1> QED
  BY <1>6

------------------------------------------------------------------------------
(***************************************************************************)
(* The devices and their numbers.                                          *)
(***************************************************************************)
LEMMA PresentFinite ==
    ASSUME present \subseteq Devices
    PROVE  /\ IsFiniteSet(present) /\ Cardinality(present) \in Nat
           /\ \A d \in present : d \in Nat /\ d > 0
<1>1. IsFiniteSet(Devices) /\ Devices \subseteq Nat \ {0}
  BY DisplayBounds
<1>2. IsFiniteSet(present)
  BY <1>1, FS_Subset
<1> QED
  BY <1>1, <1>2, FS_CardinalityType

LEMMA RankFacts ==
    ASSUME present \subseteq Devices
    PROVE  \A d \in present :
              /\ Rank(d) \in Nat /\ Rank(d) < Cardinality(present)
              /\ \A e \in present : d < e => Rank(d) < Rank(e)
<1> DEFINE Below(d) == {e \in present : e < d}
<1>1. \A d \in present : /\ IsFiniteSet(Below(d)) /\ Cardinality(Below(d)) \in Nat
                         /\ Cardinality(Below(d)) <= Cardinality(present)
                         /\ Cardinality(Below(d)) = Cardinality(present) => Below(d) = present
  BY PresentFinite, FS_Subset, FS_CardinalityType
<1>2. \A d \in present : d \notin Below(d)
  BY PresentFinite
<1>3. \A d \in present : Rank(d) \in Nat /\ Rank(d) < Cardinality(present)
  <2> SUFFICES ASSUME NEW d \in present PROVE Rank(d) \in Nat /\ Rank(d) < Cardinality(present)
    OBVIOUS
  <2> DEFINE m == Cardinality(Below(d))
             n == Cardinality(present)
  <2>1. m \in Nat /\ n \in Nat /\ m <= n
    BY <1>1, PresentFinite
  <2>2. m # n
    BY <1>1, <1>2
  <2>3. Rank(d) = m
    BY DEF Rank
  <2> HIDE DEF m
  <2>4. m < n
    BY <2>1, <2>2
  <2> QED
    BY <2>1, <2>3, <2>4
<1>4. ASSUME NEW d \in present, NEW e \in present, d < e PROVE Rank(d) < Rank(e)
  <2>1. Below(d) \subseteq Below(e) /\ d \in Below(e) /\ d \notin Below(d)
    BY <1>4, PresentFinite
  <2>2. /\ Cardinality(Below(d)) <= Cardinality(Below(e))
        /\ Cardinality(Below(d)) = Cardinality(Below(e)) => Below(d) = Below(e)
    BY <1>1, <2>1, FS_Subset
  <2> DEFINE m == Cardinality(Below(d))
             n == Cardinality(Below(e))
  <2>3. m \in Nat /\ n \in Nat /\ m <= n /\ m # n
    BY <1>1, <2>1, <2>2
  <2>4. Rank(d) = m /\ Rank(e) = n
    BY DEF Rank
  <2> HIDE DEF m, n
  <2> QED
    BY <2>3, <2>4
<1> QED
  BY <1>3, <1>4

\* No two devices have the same number.
LEMMA IdFacts ==
    ASSUME present \subseteq Devices
    PROVE  /\ \A d \in present : Id(d) \in Nat
           /\ Consistent => \A d, e \in present : Id(d) = Id(e) => d = e
<1>1. \A d \in present : Id(d) \in Nat
  BY RankFacts, PresentFinite DEF Id
<1>2. ASSUME Consistent, NEW d \in present, NEW e \in present, Id(d) = Id(e) PROVE d = e
  <2>1. d \in Nat /\ e \in Nat
    BY PresentFinite
  <2>2. CASE d \in Qxl /\ e \in Qxl
    BY <1>2, <2>1, <2>2 DEF Id
  <2>3. CASE d \notin Qxl /\ e \notin Qxl
    <3>1. Rank(d) = Rank(e) /\ Rank(d) \in Nat
      BY <1>2, <2>3, RankFacts DEF Id
    <3>2. ~(d < e) /\ ~(e < d)
      BY <3>1, RankFacts
    <3> QED
      BY <2>1, <3>2
  <2> QED
    BY <1>2, <2>2, <2>3 DEF Consistent
<1> QED
  BY <1>1, <1>2

\* set_displays visits every device.
LEMMA VisitedFacts ==
    ASSUME present \subseteq Devices, NEW n \in Nat, n < Cardinality(present)
    PROVE  Visited(n) \in present /\ Rank(Visited(n)) = n
<1> DEFINE T == {i \in Nat : i < Cardinality(present) => \E d \in present : Rank(d) = i}
<1>1. 0 \in T
  <2>1. SUFFICES ASSUME 0 < Cardinality(present) PROVE \E d \in present : Rank(d) = 0
    OBVIOUS
  <2>2. present # {} /\ present \subseteq Nat
    BY <2>1, PresentFinite, FS_EmptySet
  <2> DEFINE f == [d \in present |-> d]
  <2>3. f \in [present -> Int]
    BY <2>2
  <2> HIDE DEF f
  <2>4. PICK d \in present : \A e \in present : f[d] <= f[e]
    BY <2>2, <2>3, PresentFinite, Least
  <2>5. \A e \in present : f[e] = e
    BY DEF f
  <2>6. {e \in present : e < d} = {}
    BY <2>4, <2>5, PresentFinite
  <2> QED
    BY <2>6, FS_EmptySet DEF Rank
<1>2. ASSUME NEW i \in Nat, i \in T PROVE i + 1 \in T
  <2>1. SUFFICES ASSUME i + 1 < Cardinality(present) PROVE \E d \in present : Rank(d) = i + 1
    OBVIOUS
  <2>2. i < Cardinality(present)
    BY <2>1, PresentFinite
  <2>3. PICK d \in present : Rank(d) = i
    BY <1>2, <2>2
  <2> DEFINE Below == {e \in present : e < d}
             Above == {e \in present : e > d}
  <2>4. IsFiniteSet(Below) /\ IsFiniteSet(Above) /\ Cardinality(Below) = i
    BY <2>3, PresentFinite, FS_Subset DEF Rank
  <2>5. Cardinality(Below \cup {d}) = i + 1 /\ d \in Nat
    <3>1. d \notin Below /\ d \in Nat
      BY PresentFinite
    <3> HIDE DEF Below
    <3> QED
      BY <2>4, <3>1, FS_AddElement
  <2>6. Above # {}
    <3>1. SUFFICES ASSUME Above = {} PROVE FALSE
      OBVIOUS
    <3>2. \A e \in present : e \in Nat /\ ~(e > d)
      BY <3>1, PresentFinite
    <3>3. \A e \in present : e < d \/ e = d
      BY <2>5, <3>2
    <3>4. present = Below \cup {d}
      BY <3>3
    <3> QED
      BY <2>1, <2>5, <3>4
  <2> DEFINE f == [e \in Above |-> e]
  <2>7. f \in [Above -> Int]
    BY PresentFinite
  <2>8. PICK m \in Above : \A e \in Above : f[m] <= f[e]
    <3> HIDE DEF f, Above
    <3> QED
      BY <2>4, <2>6, <2>7, Least
  <2>9. \A e \in Above : m <= e
    BY <2>8
  <2>10. {e \in present : e < m} = Below \cup {d}
    <3>1. m \in present /\ m > d /\ m \in Nat
      BY <2>8, PresentFinite
    <3>2. \A e \in present : e \in Nat /\ (e < m <=> e < d \/ e = d)
      <4> SUFFICES ASSUME NEW e \in present PROVE e \in Nat /\ (e < m <=> e < d \/ e = d)
        OBVIOUS
      <4>1. e \in Nat
        BY PresentFinite
      <4>2. e > d => m <= e
        BY <2>9
      <4> QED
        BY <2>5, <3>1, <4>1, <4>2
    <3> QED
      BY <3>2
  <2> QED
    BY <2>5, <2>8, <2>10 DEF Rank
<1>3. n \in T
  <2> HIDE DEF T
  <2> QED
    BY <1>1, <1>2, Induction
<1> QED
  BY <1>3 DEF Visited

------------------------------------------------------------------------------
(***************************************************************************)
(* Types.                                                                  *)
(***************************************************************************)
Extents == Sizes \cup {0}
Shown   == [on : BOOLEAN, x : Int, y : Int, size : Extents]
Paths   == [on : BOOLEAN, known : BOOLEAN, x : Int, y : Int, size : Extents]
Entries == [x : Int, y : Int, size : Extents, attached : BOOLEAN, primary : BOOLEAN]

DeskOf(p, k) == k \in [Devices -> Shown] /\ Legal(k) /\ \A d \in Devices \ p : ~k[d].on
ConfOf(c)    == c \in [DOMAIN c -> Paths] /\ DOMAIN c \subseteq Devices
TableOf(t)   ==
    /\ t \in [DOMAIN t -> Entries \cup {Gap}] /\ DOMAIN t \subseteq Nat /\ IsFiniteSet(DOMAIN t)
    /\ \E i \in DOMAIN t : t[i] # Gap

Configured ==
    /\ driver \in Drivers /\ present \in (SUBSET Devices) \ {{}}
    /\ DeskOf(present, desk)
    /\ ConfOf(conf) /\ (driver = "XPDM" => DOMAIN conf = Devices)
    /\ primary_detached \in BOOLEAN /\ notice \in BOOLEAN /\ clean \in BOOLEAN

Typed ==
    /\ Configured
    /\ TableOf(displays) /\ total \in Nat \X Nat /\ normal \in Int \X Int
    /\ updating \in BOOLEAN /\ sets \in BOOLEAN /\ stale \in BOOLEAN

\* The loop of set_displays is over the devices there are, and at one the table
\* has a mode for.
Looping ==
    /\ main \in {"idle", "set displays", "set state", "set size", "set position", "apply",
                 "refresh"} \cup Crashed
    /\ dev \in 0 .. Cardinality(Devices)
    /\ main = "idle" => ~updating
    /\ main = "set state" => dev <= Cardinality(present)
    /\ main \in {"set size", "set position"} => dev < Cardinality(present) /\ Id(Device) \in Modes

\* What a call of Windows leaves: it notifies the agent of what it has changed,
\* and a refusal is remembered.
Called ==
    /\ Configured'
    /\ clean' => clean
    /\ ~notice' => ~notice /\ desk' = desk

LEMMA ExtentFacts ==
    /\ Extents \subseteq Nat /\ (\A s \in Extents : s \in Int /\ s >= 0) /\ Sizes \subseteq Extents /\ DefaultSize \in Extents /\ 0 \in Extents
    /\ Devices \subseteq Nat /\ IsFiniteSet(Devices)
BY DisplayBounds DEF Extents

LEMMA EntryIsNoGap ==
    ASSUME NEW m \in Entries
    PROVE  m # Gap
<1>1. "x" \in DOMAIN m
  BY DEF Entries
<1>2. "x" \notin DOMAIN Gap
  BY DEF Gap
<1> QED
  BY <1>1, <1>2

LEMMA OffTyped == Off \in Shown /\ ~Off.on
BY ExtentFacts DEF Off, Shown

LEMMA KeptTyped ==
    ASSUME NEW m \in Shown
    PROVE  Kept(m) \in Paths
BY DEF Kept, Shown, Paths

LEMMA PathTyped ==
    ASSUME desk \in [Devices -> Shown], NEW d \in Devices, NEW known \in BOOLEAN
    PROVE  /\ Path(d, known) \in Paths
           /\ Path(d, known).on = desk[d].on
           /\ desk[d].on => Path(d, known).known
           /\ Path(d, known).x = desk[d].x /\ Path(d, known).y = desk[d].y
<1>1. desk[d] \in Shown
  OBVIOUS
<1> QED
  BY <1>1, ExtentFacts DEF Path, Shown, Paths

LEMMA PlacedIs ==
    ASSUME NEW c, NEW d
    PROVE  /\ d \notin On(c) => Placed(c, d) = Off
           /\ Active(c, d) =>
                 Placed(c, d) = [on |-> TRUE, x |-> c[d].x, y |-> c[d].y, size |-> c[d].size]
           /\ d \in On(c) /\ ~Active(c, d) =>
                 Placed(c, d) = [on |-> TRUE, x |-> IF Rooted(c) THEN RightOf(c) ELSE 0, y |-> 0,
                                 size |-> DefaultSize]
<1>1. Active(c, d) => d \in On(c)
  BY DEF Active, On
<1> QED
  BY <1>1 DEF Placed

LEMMA PlacedTyped ==
    ASSUME NEW c, ConfOf(c), NEW d
    PROVE  Placed(c, d) \in Shown
<1>1. CASE d \notin On(c)
  BY <1>1, OffTyped, PlacedIs
<1>2. CASE d \in On(c)
  <2>1. c[d] \in Paths
    BY <1>2 DEF On, ConfOf
  <2>2. RightOf(c) \in Int
    <3> DEFINE f == [e \in Actives(c) |-> c[e].x + c[e].size]
    <3>1. Actives(c) \subseteq DOMAIN c /\ IsFiniteSet(Actives(c))
      BY ExtentFacts, FS_Subset DEF Actives, ConfOf
    <3>2. \A e \in Actives(c) : c[e].x + c[e].size \in Int
      <4> SUFFICES ASSUME NEW e \in Actives(c) PROVE c[e].x + c[e].size \in Int
        OBVIOUS
      <4>1. c[e] \in Paths
        BY <3>1 DEF ConfOf
      <4>2. c[e].x \in Int /\ c[e].size \in Int
        <5>1. c[e].x \in Int /\ c[e].size \in Extents
          BY <4>1 DEF Paths
        <5> QED
          BY <5>1, ExtentFacts
      <4> QED
        BY <4>2
    <3>3. f \in [Actives(c) -> Int] /\ \A e \in Actives(c) : f[e] = c[e].x + c[e].size
      BY <3>2
    <3> HIDE DEF f
    <3>4. Max({0} \cup {f[e] : e \in Actives(c)}) \in Int
      BY <3>1, <3>3, MaxWith
    <3>5. {f[e] : e \in Actives(c)} = {c[e].x + c[e].size : e \in Actives(c)}
      BY <3>3
    <3> QED
      BY <3>4, <3>5 DEF RightOf
  <2>3. CASE Active(c, d)
    <3>1. c[d].x \in Int /\ c[d].y \in Int /\ c[d].size \in Extents
      BY <2>1 DEF Paths
    <3>2. [on |-> TRUE, x |-> c[d].x, y |-> c[d].y, size |-> c[d].size] \in Shown
      BY <3>1 DEF Shown
    <3> QED
      BY <2>3, <3>2, PlacedIs
  <2>4. CASE ~Active(c, d)
    <3>1. \A x \in Int : [on |-> TRUE, x |-> x, y |-> 0, size |-> DefaultSize] \in Shown
      BY ExtentFacts DEF Shown
    <3> DEFINE at == IF Rooted(c) THEN RightOf(c) ELSE 0
    <3>2. at \in Int
      BY <2>2
    <3>3. Placed(c, d) = [on |-> TRUE, x |-> at, y |-> 0, size |-> DefaultSize]
      BY <1>2, <2>4, PlacedIs
    <3> HIDE DEF at
    <3> QED
      BY <3>1, <3>2, <3>3
  <2> QED
    BY <2>3, <2>4
<1> QED
  BY <1>1, <1>2

LEMMA RerootTyped ==
    ASSUME NEW p \in SUBSET Devices, NEW k \in [Devices -> Shown], \A d \in Devices \ p : ~k[d].on,
           NEW new \in Reroot(k)
    PROVE  DeskOf(p, new)
<1>1. CASE Legal(k)
  BY <1>1 DEF Reroot, DeskOf
<1>2. CASE ~Legal(k)
  <2>1. PICK e \in On(k) : new = Shifted(k, e)
    BY <1>2 DEF Reroot
  <2>2. e \in Devices /\ k[e].on /\ k[e].x \in Int /\ k[e].y \in Int
    BY <2>1 DEF On, Shown
  <2>3. ASSUME NEW d \in Devices
        PROVE  new[d] \in Shown /\ new[d].on = k[d].on
    <3>1. k[d] \in Shown
      OBVIOUS
    <3>2. new[d] = IF k[d].on THEN [k[d] EXCEPT !.x = @ - k[e].x, !.y = @ - k[e].y] ELSE k[d]
      BY <2>1 DEF Shifted
    <3>3. k[d].x - k[e].x \in Int /\ k[d].y - k[e].y \in Int
      BY <2>2, <3>1 DEF Shown
    <3> QED
      BY <3>1, <3>2, <3>3 DEF Shown
  <2>4. new \in [Devices -> Shown]
    <3>1. new = [d \in Devices |-> new[d]]
      BY <2>1 DEF Shifted
    <3> QED
      BY <2>3, <3>1
  <2>5. AtOrigin(new[e])
    <3>1. new[e] = [k[e] EXCEPT !.x = @ - k[e].x, !.y = @ - k[e].y] /\ k[e] \in Shown
      BY <2>1, <2>2 DEF Shifted
    <3> QED
      BY <2>2, <3>1 DEF AtOrigin, Shown
  <2>6. Legal(new)
    BY <2>2, <2>4, <2>5 DEF Legal
  <2> QED
    BY <2>3, <2>4, <2>6 DEF DeskOf
<1> QED
  BY <1>1, <1>2

\* What is shown of a configuration.
PlacedAll(c) == [d \in Devices |-> IF d \in present THEN Placed(c, d) ELSE Off]

LEMMA PlacedAllTyped ==
    ASSUME NEW c, ConfOf(c)
    PROVE  PlacedAll(c) \in [Devices -> Shown] /\ \A d \in Devices \ present : ~PlacedAll(c)[d].on
BY PlacedTyped, OffTyped DEF PlacedAll

LEMMA SetDisplayConfigTyped ==
    ASSUME Configured, ConfOf(conf'), SetDisplayConfig(conf')
    PROVE  /\ DeskOf(present, desk') /\ notice' \in BOOLEAN /\ clean' \in BOOLEAN
           /\ clean' => clean
           /\ ~notice' => ~notice /\ desk' = desk
<1>1. \/ Legal(PlacedAll(conf')) /\ Becomes(PlacedAll(conf')) /\ Accepts
      \/ UNCHANGED <<desk, notice>> /\ Accepts
      \/ UNCHANGED <<desk, notice>> /\ Refuses
  BY DEF SetDisplayConfig, PlacedAll
<1>2. CASE Legal(PlacedAll(conf')) /\ Becomes(PlacedAll(conf')) /\ Accepts
  BY <1>2, PlacedAllTyped DEF Becomes, Accepts, DeskOf, Configured
<1>3. CASE UNCHANGED <<desk, notice>> /\ Accepts
  BY <1>3 DEF Accepts, Configured
<1>4. CASE UNCHANGED <<desk, notice>> /\ Refuses
  BY <1>4 DEF Refuses, Configured
<1> QED
  BY <1>1, <1>2, <1>3, <1>4

------------------------------------------------------------------------------
(***************************************************************************)
(* The calls of the configuration.                                         *)
(***************************************************************************)
\* What Called is made of.
LEMMA CalledIf ==
    ASSUME Configured, UNCHANGED <<driver, present>>,
           DeskOf(present, desk'), ConfOf(conf'), driver = "XPDM" => DOMAIN conf' = Devices,
           primary_detached' \in BOOLEAN, notice' \in BOOLEAN, clean' \in BOOLEAN,
           clean' => clean, ~notice' => ~notice /\ desk' = desk
    PROVE  Called
BY DEF Called, Configured

LEMMA AcceptsOrRefuses ==
    ASSUME Configured, Accepts \/ Refuses
    PROVE  clean' \in BOOLEAN /\ (clean' => clean)
<1>1. CASE clean' = clean
  BY <1>1 DEF Configured
<1>2. CASE clean' = FALSE
  BY <1>2
<1> QED
  BY <1>1, <1>2 DEF Accepts, Refuses

LEMMA BecomesFacts ==
    ASSUME Configured, NEW new, Becomes(new)
    PROVE  desk' = new /\ notice' \in BOOLEAN /\ (~notice' => ~notice /\ desk' = desk)
BY DEF Becomes, Configured

LEMMA UpdateConfigPathTyped ==
    ASSUME Configured, UpdateConfigPath
    PROVE  /\ ConfOf(conf') /\ (driver = "XPDM" => DOMAIN conf' = Devices)
           /\ clean' \in BOOLEAN /\ (clean' => clean)
<1>1. Accepts \/ Refuses
  BY DEF UpdateConfigPath
<1>2. ConfOf(conf') /\ (driver = "XPDM" => DOMAIN conf' = Devices)
  <2>1. CASE driver = "WDDM" /\ \E known \in BOOLEAN : conf' = [d \in present |-> Path(d, known)]
    <3>1. PICK known \in BOOLEAN : conf' = [d \in present |-> Path(d, known)]
      BY <2>1
    <3>2. DOMAIN conf' = present /\ present \subseteq Devices /\ \A d \in present : Path(d, known) \in Paths
      BY <3>1, PathTyped DEF Configured, DeskOf
    <3> QED
      BY <2>1, <3>1, <3>2 DEF ConfOf
  <2>2. CASE driver = "WDDM" /\ conf' = NoPaths
    BY <2>2 DEF ConfOf, NoPaths
  <2>3. CASE driver = "XPDM" /\ UNCHANGED conf
    BY <2>3 DEF Configured
  <2> QED
    BY <2>1, <2>2, <2>3 DEF UpdateConfigPath
<1> QED
  BY <1>1, <1>2, AcceptsOrRefuses

LEMMA UpdateConfigPathCalled ==
    ASSUME Configured, UpdateConfigPath, UNCHANGED <<driver, present, primary_detached, desk, notice>>
    PROVE  Called
BY UpdateConfigPathTyped, CalledIf DEF Configured

\* One device's path is changed.
LEMMA ConfExcept ==
    ASSUME NEW c, ConfOf(c), NEW d \in DOMAIN c, NEW p \in Paths
    PROVE  ConfOf([c EXCEPT ![d] = p]) /\ DOMAIN [c EXCEPT ![d] = p] = DOMAIN c
BY DEF ConfOf

LEMMA PathChanges ==
    ASSUME NEW c, ConfOf(c), NEW d \in DOMAIN c
    PROVE  /\ c[d] \in Paths
           /\ \A on \in BOOLEAN : [c[d] EXCEPT !.on = on] \in Paths
           /\ \A size \in Extents : /\ [c[d] EXCEPT !.size = size] \in Paths
                                    /\ [c[d] EXCEPT !.on = TRUE, !.known = TRUE, !.size = size] \in Paths
           /\ \A x, y \in Int : /\ [c[d] EXCEPT !.x = x, !.y = y] \in Paths
                                /\ \A on \in BOOLEAN : [c[d] EXCEPT !.x = x, !.y = y, !.on = on] \in Paths
<1>1. c[d] \in Paths
  BY DEF ConfOf
<1> QED
  BY <1>1 DEF Paths

LEMMA SetMonitorStateCalled ==
    ASSUME Configured, NEW d \in present, NEW on \in BOOLEAN, SetMonitorState(d, on),
           UNCHANGED <<driver, present>>
    PROVE  Called
<1>1. ConfOf(conf) /\ d \in Devices /\ (driver = "XPDM" => d \in DOMAIN conf)
  BY DEF Configured
<1>2. CASE driver = "WDDM" /\ SetPathState(d, on)
  <2>1. CASE UNCHANGED <<conf, primary_detached, desk, notice>> /\ Accepts
    BY <1>1, <2>1, CalledIf, AcceptsOrRefuses DEF Configured
  <2>2. CASE /\ Active(conf, d) /\ ~on
             /\ conf' = [conf EXCEPT ![d].on = FALSE]
             /\ primary_detached' = (primary_detached \/ PrimaryGoes(d))
             /\ UNCHANGED <<desk, notice>> /\ Accepts
    <3>1. d \in DOMAIN conf
      BY <2>2 DEF Active
    <3> DEFINE p == [conf[d] EXCEPT !.on = FALSE]
    <3>2. p \in Paths
      BY <1>1, <3>1, PathChanges, ExtentFacts
    <3>3. conf' = [conf EXCEPT ![d] = p]
      BY <2>2
    <3> HIDE DEF p
    <3>4. ConfOf(conf') /\ DOMAIN conf' = DOMAIN conf
      BY <1>1, <3>1, <3>2, <3>3, ConfExcept
    <3>5. primary_detached' \in BOOLEAN
      BY <2>2 DEF Configured, PrimaryGoes
    <3> QED
      BY <2>2, <3>4, <3>5, CalledIf, AcceptsOrRefuses DEF Configured
  <2>3. CASE /\ d \in DOMAIN conf /\ ~Active(conf, d) /\ on
             /\ conf' = [conf EXCEPT ![d].on = TRUE]
             /\ SetDisplayConfig(conf')
             /\ UNCHANGED primary_detached
    <3>1. d \in DOMAIN conf
      BY <2>3
    <3> DEFINE p == [conf[d] EXCEPT !.on = TRUE]
    <3>2. p \in Paths
      BY <1>1, <2>3, PathChanges, ExtentFacts
    <3>3. conf' = [conf EXCEPT ![d] = p]
      BY <2>3
    <3> HIDE DEF p
    <3>4. ConfOf(conf') /\ DOMAIN conf' = DOMAIN conf
      BY <1>1, <3>1, <3>2, <3>3, ConfExcept
    <3>6. /\ DeskOf(present, desk') /\ notice' \in BOOLEAN /\ clean' \in BOOLEAN
          /\ clean' => clean
          /\ ~notice' => ~notice /\ desk' = desk
      BY <2>3, <3>4, SetDisplayConfigTyped
    <3> QED
      BY <1>2, <2>3, <3>4, <3>6, CalledIf DEF Configured
  <2> QED
    BY <1>2, <2>1, <2>2, <2>3 DEF SetPathState
<1>3. CASE driver = "XPDM" /\ ~on /\ DetachNow(d) /\ UNCHANGED primary_detached
  <2>1. CASE /\ \E new \in Reroot([desk EXCEPT ![d] = Off]) : Becomes(new)
             /\ conf' = [conf EXCEPT ![d].on = FALSE]
             /\ Accepts
    <3>1. PICK new \in Reroot([desk EXCEPT ![d] = Off]) : Becomes(new)
      BY <2>1
    <3> DEFINE k == [desk EXCEPT ![d] = Off]
    <3>2. k \in [Devices -> Shown] /\ \A e \in Devices \ present : ~k[e].on
      BY OffTyped DEF Configured, DeskOf
    <3>3. DeskOf(present, new)
      <4> HIDE DEF k
      <4>1. new \in Reroot(k)
        BY <3>1 DEF k
      <4> QED
        BY <3>2, <4>1, RerootTyped DEF Configured
    <3> DEFINE p == [conf[d] EXCEPT !.on = FALSE]
    <3>4. p \in Paths
      BY <1>1, <1>3, PathChanges, ExtentFacts
    <3>5. conf' = [conf EXCEPT ![d] = p]
      BY <2>1
    <3> HIDE DEF p, k
    <3>6. ConfOf(conf') /\ DOMAIN conf' = DOMAIN conf
      BY <1>1, <1>3, <3>4, <3>5, ConfExcept
    <3> QED
      BY <1>3, <2>1, <3>1, <3>3, <3>6, CalledIf, AcceptsOrRefuses, BecomesFacts DEF Configured
  <2>2. CASE UNCHANGED <<desk, notice, conf>> /\ (Accepts \/ Refuses)
    BY <1>1, <1>3, <2>2, CalledIf, AcceptsOrRefuses DEF Configured
  <2> QED
    BY <1>3, <2>1, <2>2 DEF DetachNow
<1>4. CASE UNCHANGED <<conf, primary_detached, desk, notice>> /\ Accepts
  BY <1>1, <1>4, CalledIf, AcceptsOrRefuses DEF Configured
<1> QED
  BY <1>2, <1>3, <1>4 DEF SetMonitorState

LEMMA AttachNowTyped ==
    ASSUME Configured, NEW d \in present, ~desk[d].on, NEW size \in Extents, AttachNow(d, size)
    PROVE  DeskOf(present, desk') /\ notice' \in BOOLEAN /\ (~notice' => ~notice /\ desk' = desk)
<1> DEFINE at == Max({0} \cup {desk[e].x + desk[e].size : e \in On(desk)})
<1>1. at \in Int
  <2> DEFINE f == [e \in On(desk) |-> desk[e].x + desk[e].size]
  <2>1. On(desk) \subseteq Devices /\ IsFiniteSet(On(desk))
    BY ExtentFacts, FS_Subset DEF On, Configured, DeskOf
  <2>2. \A e \in On(desk) : desk[e].x + desk[e].size \in Int
    <3> SUFFICES ASSUME NEW e \in On(desk) PROVE desk[e].x + desk[e].size \in Int
      OBVIOUS
    <3>1. desk[e] \in Shown
      BY <2>1 DEF Configured, DeskOf
    <3>2. desk[e].x \in Int /\ desk[e].size \in Extents
      BY <3>1 DEF Shown
    <3>3. desk[e].size \in Int
      BY <3>2, ExtentFacts
    <3> QED
      BY <3>2, <3>3
  <2>3. f \in [On(desk) -> Int] /\ \A e \in On(desk) : f[e] = desk[e].x + desk[e].size
    BY <2>2
  <2> HIDE DEF f
  <2>4. Max({0} \cup {f[e] : e \in On(desk)}) \in Int
    BY <2>1, <2>3, MaxWith
  <2>5. {f[e] : e \in On(desk)} = {desk[e].x + desk[e].size : e \in On(desk)}
    BY <2>3
  <2> QED
    BY <2>4, <2>5
<1>2. PICK s \in {size, DefaultSize} :
        Becomes([desk EXCEPT ![d] = [on |-> TRUE, x |-> at, y |-> 0, size |-> s]])
  BY DEF AttachNow
<1> HIDE DEF at
<1> DEFINE m == [on |-> TRUE, x |-> at, y |-> 0, size |-> s]
           new == [desk EXCEPT ![d] = m]
<1>3. m \in Shown
  BY <1>1, ExtentFacts DEF Shown
<1> HIDE DEF m
<1>4. new \in [Devices -> Shown] /\ \A e \in Devices : e # d => new[e] = desk[e]
  BY <1>3 DEF Configured, DeskOf
<1>5. Legal(new)
  <2>1. PICK e \in Devices : AtOrigin(desk[e])
    BY DEF Configured, DeskOf, Legal
  <2>2. new[e] = desk[e]
    BY <1>4, <2>1 DEF AtOrigin
  <2> QED
    BY <1>4, <2>1, <2>2 DEF Legal
<1>6. \A e \in Devices \ present : ~new[e].on
  BY <1>4 DEF Configured, DeskOf
<1>7. Becomes(new)
  BY <1>2 DEF m
<1> HIDE DEF new
<1> QED
  BY <1>4, <1>5, <1>6, <1>7, BecomesFacts DEF DeskOf

LEMMA CustomDisplayEscapeCalled ==
    ASSUME Configured, NEW d \in present, NEW size \in Extents, NEW got \in Sizes,
           NEW ok \in BOOLEAN, CustomDisplayEscape(d, size, ok, got), UNCHANGED <<driver, present>>
    PROVE  Called /\ (clean' /\ ok => got = size)
<1>1. ConfOf(conf) /\ d \in Devices /\ (driver = "XPDM" => d \in DOMAIN conf) /\ got \in Extents
  BY ExtentFacts DEF Configured
<1>2. UNCHANGED primary_detached
  BY DEF CustomDisplayEscape
<1>3. CASE driver = "WDDM" /\ got = size /\ EscapeWDDM(d, size, ok)
  <2>1. UNCHANGED <<desk, notice>> /\ (Accepts \/ Refuses)
    BY <1>3 DEF EscapeWDDM
  <2>2. ConfOf(conf')
    <3>1. CASE UNCHANGED conf
      BY <1>1, <3>1
    <3>2. CASE Active(conf, d) /\ conf' = [conf EXCEPT ![d].size = size]
      <4>1. d \in DOMAIN conf
        BY <3>2 DEF Active
      <4> DEFINE p == [conf[d] EXCEPT !.size = size]
      <4>2. p \in Paths
        BY <1>1, <4>1, PathChanges
      <4>3. conf' = [conf EXCEPT ![d] = p]
        BY <3>2
      <4> HIDE DEF p
      <4> QED
        BY <1>1, <4>1, <4>2, <4>3, ConfExcept
    <3> QED
      BY <1>3, <3>1, <3>2 DEF EscapeWDDM
  <2> QED
    BY <1>2, <1>3, <2>1, <2>2, CalledIf, AcceptsOrRefuses DEF Configured
<1>4. CASE driver = "XPDM" /\ EscapeXPDM(d, size, ok, got)
  <2>1. CASE /\ ok
             /\ IF desk[d].on THEN UNCHANGED <<desk, notice>> ELSE AttachNow(d, size)
             /\ conf' = [conf EXCEPT ![d].on = TRUE, ![d].known = TRUE, ![d].size = got]
             /\ (got = size /\ Accepts) \/ (got > size /\ Refuses)
    <3>1. DeskOf(present, desk') /\ notice' \in BOOLEAN /\ (~notice' => ~notice /\ desk' = desk)
      <4>1. CASE desk[d].on
        BY <2>1, <4>1 DEF Configured
      <4>2. CASE ~desk[d].on
        BY <2>1, <4>2, AttachNowTyped
      <4> QED
        BY <4>1, <4>2
    <3> DEFINE p == [conf[d] EXCEPT !.on = TRUE, !.known = TRUE, !.size = got]
    <3>2. p \in Paths
      BY <1>1, <1>4, PathChanges
    <3>3. conf' = [conf EXCEPT ![d] = p]
      BY <2>1
    <3> HIDE DEF p
    <3>4. ConfOf(conf') /\ DOMAIN conf' = DOMAIN conf
      BY <1>1, <1>4, <3>2, <3>3, ConfExcept
    <3>5. Accepts \/ Refuses
      BY <2>1
    <3>6. clean' => got = size
      BY <2>1 DEF Refuses
    <3> QED
      BY <1>2, <3>1, <3>4, <3>5, <3>6, CalledIf, AcceptsOrRefuses DEF Configured
  <2>2. CASE ~ok /\ Refuses /\ UNCHANGED <<desk, notice, conf>>
    BY <1>1, <1>2, <2>2, CalledIf, AcceptsOrRefuses DEF Configured
  <2> QED
    BY <1>4, <2>1, <2>2 DEF EscapeXPDM
<1> QED
  BY <1>3, <1>4 DEF CustomDisplayEscape

LEMMA UpdateDevModePositionCalled ==
    ASSUME Configured, NEW d \in present, NEW on \in BOOLEAN, NEW x \in Int, NEW y \in Int,
           NEW ok \in BOOLEAN, UpdateDevModePosition(d, on, x, y, ok), UNCHANGED <<driver, present>>
    PROVE  Called
<1>1. ConfOf(conf) /\ d \in Devices /\ (driver = "XPDM" => d \in DOMAIN conf)
  BY DEF Configured
<1>2. UNCHANGED <<primary_detached, desk, notice>> /\ (Accepts \/ Refuses)
  BY DEF UpdateDevModePosition
<1>3. ConfOf(conf') /\ (driver = "XPDM" => DOMAIN conf' = DOMAIN conf)
  <2>1. CASE UNCHANGED conf
    BY <1>1, <2>1
  <2>2. CASE driver = "WDDM" /\ Active(conf, d) /\ conf' = [conf EXCEPT ![d].x = x, ![d].y = y]
    <3>1. d \in DOMAIN conf
      BY <2>2 DEF Active
    <3> DEFINE p == [conf[d] EXCEPT !.x = x, !.y = y]
    <3>2. p \in Paths
      BY <1>1, <3>1, PathChanges, ExtentFacts
    <3>3. conf' = [conf EXCEPT ![d] = p]
      BY <2>2
    <3> HIDE DEF p
    <3> QED
      BY <1>1, <3>1, <3>2, <3>3, ConfExcept
  <2>3. CASE driver = "XPDM" /\ conf' = [conf EXCEPT ![d].x = x, ![d].y = y, ![d].on = on]
    <3> DEFINE p == [conf[d] EXCEPT !.x = x, !.y = y, !.on = on]
    <3>1. d \in DOMAIN conf
      BY <1>1, <2>3
    <3>2. p \in Paths
      BY <1>1, <3>1, PathChanges, ExtentFacts
    <3>3. conf' = [conf EXCEPT ![d] = p]
      BY <2>3
    <3> HIDE DEF p
    <3> QED
      BY <1>1, <3>1, <3>2, <3>3, ConfExcept
  <2> QED
    BY <2>1, <2>2, <2>3 DEF UpdateDevModePosition
<1> QED
  BY <1>2, <1>3, CalledIf, AcceptsOrRefuses DEF Configured

LEMMA LeftmostFacts ==
    ASSUME NEW c, ConfOf(c), Actives(c) # {}
    PROVE  /\ Leftmost(c) \in Int /\ Topmost(c) \in Int
           /\ \E d \in Actives(c) : c[d].x = Leftmost(c) /\ c[d].y = Topmost(c)
<1> DEFINE D == Actives(c)
           f == [d \in D |-> c[d].x]
<1>1. D \subseteq DOMAIN c /\ IsFiniteSet(D) /\ D # {}
  BY ExtentFacts, FS_Subset DEF Actives, ConfOf
<1>2. \A d \in D : c[d].x \in Int /\ c[d].y \in Int
  <2> SUFFICES ASSUME NEW d \in D PROVE c[d].x \in Int /\ c[d].y \in Int
    OBVIOUS
  <2>1. c[d] \in Paths
    BY <1>1 DEF ConfOf
  <2> QED
    BY <2>1 DEF Paths
<1>3. Leftmost(c) = Min({c[d].x : d \in D})
  BY DEF Leftmost
<1> DEFINE left == Leftmost(c)
           E == {e \in D : c[e].x = left}
           g == [d \in E |-> c[d].y]
<1>4. Topmost(c) = Min({c[d].y : d \in E})
  BY DEF Topmost
<1> HIDE DEF D, left
<1>5. left \in Int /\ \E d \in D : left = c[d].x
  <2>1. f \in [D -> Int] /\ \A d \in D : f[d] = c[d].x
    BY <1>2
  <2>2. {c[d].x : d \in D} = {f[d] : d \in D}
    BY <2>1
  <2>3. left = Min({f[d] : d \in D})
    BY <1>3, <2>2 DEF left
  <2> HIDE DEF f
  <2> QED
    BY <1>1, <2>1, <2>3, MinOf
<1>6. E # {} /\ IsFiniteSet(E)
  BY <1>1, <1>5, FS_Subset
<1>7. \A d \in E : d \in D /\ c[d].x = left /\ c[d].y \in Int
  BY <1>2
<1> HIDE DEF E
<1>8. Topmost(c) \in Int /\ \E d \in E : Topmost(c) = c[d].y
  <2>1. g \in [E -> Int] /\ \A d \in E : g[d] = c[d].y
    BY <1>7
  <2>2. {c[d].y : d \in E} = {g[d] : d \in E}
    BY <2>1
  <2> HIDE DEF g
  <2>3. Topmost(c) = Min({g[d] : d \in E})
    BY <1>4, <2>2
  <2>4. Topmost(c) \in Int /\ \E d \in E : Topmost(c) = g[d]
    <3>1. g \in [E -> Int]
      BY <2>1
    <3>2. LET m == Min({g[d] : d \in E}) IN m \in Int /\ \E d \in E : m = g[d]
      BY <1>6, <3>1, MinOf
    <3> QED
      BY <2>3, <3>2
  <2> QED
    BY <2>1, <2>4
<1> QED
  BY <1>5, <1>7, <1>8 DEF D, left

\* A configuration whose primary display was detached gets another one.
LEMMA VerifyFacts ==
    ASSUME NEW c, ConfOf(c)
    PROVE  LET v == VerifyPrimaryPosition(c)
           IN  /\ ConfOf(v) /\ DOMAIN v = DOMAIN c
               /\ (primary_detached /\ Actives(c) # {}) \/ Rooted(c) => Rooted(v)
<1>1. CASE ~(primary_detached /\ ~Rooted(c) /\ Actives(c) # {})
  <2>1. VerifyPrimaryPosition(c) = c
    BY <1>1 DEF VerifyPrimaryPosition
  <2> QED
    BY <1>1, <2>1
<1>2. CASE primary_detached /\ ~Rooted(c) /\ Actives(c) # {}
  <2> DEFINE left == Leftmost(c)
             top == Topmost(c)
             v == [d \in DOMAIN c |-> IF Active(c, d) THEN [c[d] EXCEPT !.x = @ - left, !.y = @ - top]
                                      ELSE c[d]]
  <2>1. VerifyPrimaryPosition(c) = v
    BY <1>2 DEF VerifyPrimaryPosition
  <2>2. left \in Int /\ top \in Int /\ \E d \in Actives(c) : c[d].x = left /\ c[d].y = top
    BY <1>2, LeftmostFacts
  <2> HIDE DEF left, top
  <2>3. ASSUME NEW d \in DOMAIN c
        PROVE  /\ v[d] \in Paths /\ v[d].on = c[d].on /\ v[d].known = c[d].known
               /\ Active(c, d) => v[d].x = c[d].x - left /\ v[d].y = c[d].y - top
    <3>1. c[d] \in Paths
      BY DEF ConfOf
    <3>2. c[d].x \in Int /\ c[d].y \in Int
      BY <3>1 DEF Paths
    <3>3. c[d].x - left \in Int /\ c[d].y - top \in Int
      BY <2>2, <3>2
    <3>4. v[d] = IF Active(c, d) THEN [c[d] EXCEPT !.x = c[d].x - left, !.y = c[d].y - top] ELSE c[d]
      OBVIOUS
    <3> QED
      BY <3>1, <3>3, <3>4 DEF Paths
  <2>4. DOMAIN v = DOMAIN c /\ v = [d \in DOMAIN c |-> v[d]]
    OBVIOUS
  <2> HIDE DEF v
  <2>5. ConfOf(v)
    BY <2>3, <2>4 DEF ConfOf
  <2>6. Rooted(v)
    <3>1. PICK d \in Actives(c) : c[d].x = left /\ c[d].y = top
      BY <2>2
    <3>2. d \in DOMAIN c /\ Active(c, d)
      BY DEF Actives
    <3>3. v[d].x = 0 /\ v[d].y = 0
      BY <2>2, <2>3, <3>1, <3>2
    <3>4. d \in Actives(v)
      BY <2>3, <2>4, <3>2 DEF Actives, Active
    <3> QED
      BY <3>3, <3>4 DEF Rooted
  <2> QED
    BY <2>1, <2>4, <2>5, <2>6
<1> QED
  BY <1>1, <1>2

LEMMA UpdateDisplaySettingsCalled ==
    ASSUME Configured, UpdateDisplaySettings, UNCHANGED <<driver, present>>
    PROVE  Called
<1>1. ConfOf(conf)
  BY DEF Configured
<1>2. CASE /\ driver = "WDDM" /\ conf' = VerifyPrimaryPosition(conf)
           /\ primary_detached' = FALSE /\ SetDisplayConfig(conf')
  <2>1. ConfOf(conf')
    BY <1>1, <1>2, VerifyFacts
  <2>2. /\ DeskOf(present, desk') /\ notice' \in BOOLEAN /\ clean' \in BOOLEAN
        /\ clean' => clean
        /\ ~notice' => ~notice /\ desk' = desk
    BY <1>2, <2>1, SetDisplayConfigTyped
  <2> QED
    BY <1>2, <2>1, <2>2, CalledIf
<1>3. CASE /\ driver = "XPDM" /\ UNCHANGED <<conf, primary_detached>>
           /\ \/ Accepts /\ \E r \in Reroot(PlacedAll(conf)) : Becomes(r)
              \/ (Accepts \/ Refuses) /\ UNCHANGED <<desk, notice>>
  <2>1. CASE Accepts /\ \E r \in Reroot(PlacedAll(conf)) : Becomes(r)
    <3>1. PICK r \in Reroot(PlacedAll(conf)) : Becomes(r)
      BY <2>1
    <3>2. DeskOf(present, r)
      BY <1>1, PlacedAllTyped, RerootTyped DEF Configured
    <3>3. ConfOf(conf') /\ (driver = "XPDM" => DOMAIN conf' = Devices) /\ primary_detached' \in BOOLEAN
      BY <1>1, <1>3 DEF Configured
    <3> QED
      BY <2>1, <3>1, <3>2, <3>3, CalledIf, AcceptsOrRefuses, BecomesFacts
  <2>2. CASE (Accepts \/ Refuses) /\ UNCHANGED <<desk, notice>>
    BY <1>1, <1>3, <2>2, CalledIf, AcceptsOrRefuses DEF Configured
  <2> QED
    BY <1>3, <2>1, <2>2
<1> QED
  BY <1>2, <1>3 DEF UpdateDisplaySettings, PlacedAll

------------------------------------------------------------------------------
(***************************************************************************)
(* The table.                                                              *)
(***************************************************************************)
\* What get_displays is given for a device is a mode Windows has shown.
LEMMA GivenTyped ==
    ASSUME Configured, NEW d \in present, NEW old \in BOOLEAN
    PROVE  Given(d, old) \in Shown /\ (desk[d].on => Given(d, old) = desk[d])
<1>1. present \subseteq Devices /\ desk \in [Devices -> Shown]
  BY DEF Configured, DeskOf
<1>2. ASSUME Before(d) # {} PROVE Max(Before(d)) \in Devices
  <2> DEFINE D == Before(d)
             f == [e \in D |-> e]
  <2>1. D \subseteq present /\ IsFiniteSet(D)
    BY <1>1, PresentFinite, FS_Subset DEF Before
  <2>2. f \in [D -> Int] /\ D = {f[e] : e \in D} /\ \A e \in D : f[e] = e
    BY <1>1, <2>1, PresentFinite
  <2> HIDE DEF f, D
  <2>3. \E e \in D : Max({f[x] : x \in D}) = f[e]
    BY <1>2, <2>1, <2>2, MaxOf DEF D
  <2> QED
    BY <1>1, <2>1, <2>2, <2>3 DEF D
<1> QED
  BY <1>1, <1>2 DEF Given

LEMMA DisplayModeTyped ==
    ASSUME NEW m \in Shown, NEW on \in BOOLEAN
    PROVE  /\ DisplayMode(m, on) \in Entries
           /\ DisplayMode(m, on).attached = on /\ DisplayMode(m, on).size = m.size
           /\ DisplayMode(m, on).x = m.x /\ DisplayMode(m, on).y = m.y
           /\ DisplayMode(m, on).primary = (on /\ m.x = 0 /\ m.y = 0)
BY DEF DisplayMode, Shown, Entries

\* The table has one entry for each device and for nothing else.
LEMMA TableFacts ==
    ASSUME Configured, Consistent, NEW att, NEW old \in BOOLEAN
    PROVE  LET t == Table(att, old)
           IN  /\ TableOf(t)
               /\ \A d \in present : /\ Id(d) \in DOMAIN t
                                     /\ t[Id(d)] = DisplayMode(Given(d, old), d \in att)
               /\ \A i \in DOMAIN t : t[i] # Gap => \E d \in present : i = Id(d)
<1> DEFINE t == Table(att, old)
           top == Max({Id(d) : d \in present})
           f == [d \in present |-> Id(d)]
<1>1. present \subseteq Devices /\ present # {} /\ IsFiniteSet(present)
  BY PresentFinite DEF Configured
<1>2. \A d \in present : Id(d) \in Nat /\ \A e \in present : Id(d) = Id(e) => d = e
  BY <1>1, IdFacts
<1>3. top \in Int /\ \A d \in present : top >= Id(d)
  <2>1. f \in [present -> Int] /\ \A d \in present : f[d] = Id(d)
    BY <1>2
  <2>2. {Id(d) : d \in present} = {f[d] : d \in present}
    BY <2>1
  <2> HIDE DEF f
  <2>3. Max({f[d] : d \in present}) \in Int /\ \A d \in present : Max({f[e] : e \in present}) >= f[d]
    BY <1>1, <2>1, MaxOf
  <2> QED
    BY <2>1, <2>2, <2>3
<1>4. /\ DOMAIN t = 0 .. top
      /\ \A i \in 0 .. top : (\A d \in present : Id(d) # i) => t[i] = Gap
  BY DEF Table
<1>5. \A d \in present : Id(d) \in 0 .. top
  BY <1>2, <1>3
<1>6. ASSUME NEW d \in present
      PROVE  t[Id(d)] = DisplayMode(Given(d, old), d \in att) /\ t[Id(d)] \in Entries
  <2>1. (CHOOSE e \in present : Id(e) = Id(d)) = d
    BY <1>2
  <2>2. t[Id(d)] = DisplayMode(Given(d, old), d \in att)
    BY <1>5, <2>1 DEF Table
  <2>3. (d \in att) \in BOOLEAN
    OBVIOUS
  <2>4. DisplayMode(Given(d, old), d \in att) \in Entries
    <3>1. Given(d, old) \in Shown
      BY GivenTyped
    <3> QED
      BY <2>3, <3>1, DisplayModeTyped, Zenon
  <2> QED
    BY <2>2, <2>4
<1>7. \A i \in DOMAIN t : t[i] \in Entries \cup {Gap} /\ (t[i] # Gap => \E d \in present : i = Id(d))
  BY <1>4, <1>6
<1>8. t = [i \in DOMAIN t |-> t[i]] /\ DOMAIN t \subseteq Nat /\ IsFiniteSet(DOMAIN t)
  <2>1. IsFiniteSet(0 .. top)
    BY <1>3, FS_Interval
  <2> QED
    BY <1>4, <2>1 DEF Table
<1> HIDE DEF t, top
<1>9. t \in [DOMAIN t -> Entries \cup {Gap}]
  BY <1>7, <1>8
<1>10. \E i \in DOMAIN t : t[i] # Gap
  BY <1>1, <1>4, <1>5, <1>6, EntryIsNoGap
<1>11. TableOf(t)
  BY <1>8, <1>9, <1>10 DEF TableOf
<1> QED
  BY <1>4, <1>5, <1>6, <1>7, <1>11 DEF t

\* The displays of the table that are on, and their edges.
LEMMA AttachedFacts ==
    ASSUME NEW t, TableOf(t)
    PROVE  /\ Attached(t) \subseteq DOMAIN t /\ IsFiniteSet(Attached(t))
           /\ \A i \in DOMAIN t : t[i] # Gap => /\ t[i] \in Entries
                                                /\ t[i].x \in Int /\ t[i].y \in Int
                                                /\ t[i].size \in Nat
           /\ \A i \in Attached(t) : t[i] # Gap /\ t[i].attached
<1>1. Attached(t) \subseteq DOMAIN t /\ IsFiniteSet(DOMAIN t)
  BY DEF Attached, TableOf
<1>2. ASSUME NEW i \in DOMAIN t, t[i] # Gap
      PROVE  t[i] \in Entries /\ t[i].x \in Int /\ t[i].y \in Int /\ t[i].size \in Nat
  <2>1. t[i] \in Entries
    BY <1>2 DEF TableOf
  <2>2. t[i].size \in Extents /\ t[i].x \in Int /\ t[i].y \in Int
    BY <2>1 DEF Entries
  <2> QED
    BY <2>1, <2>2, ExtentFacts
<1> QED
  BY <1>1, <1>2, FS_Subset DEF Attached

LEMMA CornersTyped ==
    ASSUME NEW t, TableOf(t)
    PROVE  MinX(t) \in Int /\ MinY(t) \in Int /\ Width(t) \in Nat /\ Height(t) \in Nat
<1> DEFINE D == Attached(t)
           l == [i \in D |-> t[i].x]
           u == [i \in D |-> t[i].y]
           r == [i \in D |-> t[i].x + t[i].size]
           b == [i \in D |-> t[i].y + t[i].size]
<1>1. IsFiniteSet(D)
  BY AttachedFacts
<1>2. ASSUME NEW i \in D
      PROVE  t[i].x \in Int /\ t[i].y \in Int /\ t[i].x + t[i].size \in Int /\ t[i].y + t[i].size \in Int
  <2>1. t[i].x \in Int /\ t[i].y \in Int /\ t[i].size \in Nat
    BY AttachedFacts
  <2> QED
    BY <2>1
<1>3. MinX(t) \in Int /\ MinX(t) <= 0
  <2>1. l \in [D -> Int] /\ {t[i].x : i \in D} = {l[i] : i \in D}
    BY <1>2
  <2>2. MinX(t) = Min({0} \cup {l[i] : i \in D})
    BY <2>1 DEF MinX
  <2> HIDE DEF l, D
  <2> QED
    BY <1>1, <2>1, <2>2, MinWith
<1>4. MinY(t) \in Int /\ MinY(t) <= 0
  <2>1. u \in [D -> Int] /\ {t[i].y : i \in D} = {u[i] : i \in D}
    BY <1>2
  <2>2. MinY(t) = Min({0} \cup {u[i] : i \in D})
    BY <2>1 DEF MinY
  <2> HIDE DEF u, D
  <2> QED
    BY <1>1, <2>1, <2>2, MinWith
<1>5. Width(t) \in Nat
  <2>1. r \in [D -> Int] /\ {t[i].x + t[i].size : i \in D} = {r[i] : i \in D}
    BY <1>2
  <2> DEFINE m == Max({0} \cup {r[i] : i \in D})
  <2>2. Width(t) = m - MinX(t)
    BY <2>1 DEF Width
  <2>3. m \in Int /\ m >= 0
    <3> HIDE DEF r, D
    <3> QED
      BY <1>1, <2>1, MaxWith
  <2> HIDE DEF m
  <2> QED
    BY <1>3, <2>2, <2>3
<1>6. Height(t) \in Nat
  <2>1. b \in [D -> Int] /\ {t[i].y + t[i].size : i \in D} = {b[i] : i \in D}
    BY <1>2
  <2> DEFINE m == Max({0} \cup {b[i] : i \in D})
  <2>2. Height(t) = m - MinY(t)
    BY <2>1 DEF Height
  <2>3. m \in Int /\ m >= 0
    <3> HIDE DEF b, D
    <3> QED
      BY <1>1, <2>1, MaxWith
  <2> HIDE DEF m
  <2> QED
    BY <1>4, <2>2, <2>3
<1> QED
  BY <1>3, <1>4, <1>5, <1>6

\* normalize_displays_pos moves every display and changes nothing else.
LEMMA MovedFacts ==
    ASSUME NEW t, TableOf(t)
    PROVE  /\ TableOf(Moved(t)) /\ DOMAIN Moved(t) = DOMAIN t
           /\ \A i \in DOMAIN t :
                 /\ t[i] = Gap <=> Moved(t)[i] = Gap
                 /\ t[i] # Gap => /\ Moved(t)[i].attached = t[i].attached
                                  /\ Moved(t)[i].primary = t[i].primary
                                  /\ Moved(t)[i].size = t[i].size
                                  /\ Moved(t)[i].x = t[i].x - MinX(t)
                                  /\ Moved(t)[i].y = t[i].y - MinY(t)
<1> DEFINE v == Moved(t)
<1>1. DOMAIN v = DOMAIN t /\ v = [i \in DOMAIN t |-> v[i]]
  BY DEF Moved
<1>2. ASSUME NEW i \in DOMAIN t, t[i] # Gap
      PROVE  /\ v[i] \in Entries
             /\ v[i].attached = t[i].attached /\ v[i].primary = t[i].primary /\ v[i].size = t[i].size
             /\ v[i].x = t[i].x - MinX(t) /\ v[i].y = t[i].y - MinY(t)
  <2>1. v[i] = [t[i] EXCEPT !.x = t[i].x - MinX(t), !.y = t[i].y - MinY(t)]
    BY <1>2 DEF Moved
  <2>2. t[i] \in Entries /\ t[i].x - MinX(t) \in Int /\ t[i].y - MinY(t) \in Int
    BY <1>2, AttachedFacts, CornersTyped
  <2> QED
    BY <2>1, <2>2 DEF Entries
<1>3. \A i \in DOMAIN t : t[i] = Gap => v[i] = Gap
  BY DEF Moved
<1> HIDE DEF v
<1>4. v \in [DOMAIN v -> Entries \cup {Gap}]
  BY <1>1, <1>2, <1>3
<1>5. \A i \in DOMAIN t : t[i] # Gap => v[i] # Gap
  BY <1>2, EntryIsNoGap
<1>6. TableOf(v)
  BY <1>1, <1>4, <1>5 DEF TableOf
<1> QED
  BY <1>1, <1>2, <1>3, <1>5, <1>6 DEF v

LEMMA NormalizedTyped ==
    ASSUME NEW t, TableOf(t), Normalized(t)
    PROVE  TableOf(displays') /\ total' \in Nat \X Nat /\ DOMAIN displays' = DOMAIN t
BY MovedFacts, CornersTyped DEF Normalized

------------------------------------------------------------------------------
(***************************************************************************)
(* The table says what Windows shows, measured from the point x, y.        *)
(***************************************************************************)
Mirrors(t, x, y) ==
    /\ \A d \in present :
        /\ Id(d) \in DOMAIN t /\ t[Id(d)] # Gap
        /\ t[Id(d)].attached = desk[d].on
        /\ desk[d].on => /\ t[Id(d)].size = desk[d].size
                         /\ t[Id(d)].x = desk[d].x - x
                         /\ t[Id(d)].y = desk[d].y - y
    /\ \A i \in DOMAIN t : t[i] # Gap => \E d \in present : i = Id(d)

\* The edges of the desktop; the origin is in it.
LEMMA EdgeFacts ==
    ASSUME Configured
    PROVE  /\ On(desk) \subseteq present
           /\ \A d \in On(desk) : /\ desk[d].x \in Int /\ desk[d].y \in Int
                                  /\ desk[d].size \in Nat /\ desk[d].on
           /\ LeftEdge \in Int /\ LeftEdge <= 0 /\ \E d \in On(desk) : LeftEdge = desk[d].x
           /\ TopEdge \in Int /\ TopEdge <= 0 /\ \E d \in On(desk) : TopEdge = desk[d].y
           /\ RightEdge \in Int /\ RightEdge >= 0
           /\ \E d \in On(desk) : RightEdge = desk[d].x + desk[d].size
           /\ BottomEdge \in Int /\ BottomEdge >= 0
           /\ \E d \in On(desk) : BottomEdge = desk[d].y + desk[d].size
           /\ \A d \in On(desk) : /\ LeftEdge <= desk[d].x /\ TopEdge <= desk[d].y
                                  /\ RightEdge >= desk[d].x + desk[d].size
                                  /\ BottomEdge >= desk[d].y + desk[d].size
<1> DEFINE D == On(desk)
           l == [d \in D |-> desk[d].x]
           u == [d \in D |-> desk[d].y]
           r == [d \in D |-> desk[d].x + desk[d].size]
           b == [d \in D |-> desk[d].y + desk[d].size]
<1>1. D \subseteq present /\ IsFiniteSet(D)
  <2>1. present \subseteq Devices /\ \A d \in Devices \ present : ~desk[d].on
    BY DEF Configured, DeskOf
  <2>2. D \subseteq present
    BY <2>1 DEF On, Configured, DeskOf
  <2> QED
    BY <2>1, <2>2, PresentFinite, FS_Subset
<1>2. ASSUME NEW d \in D
      PROVE  desk[d].x \in Int /\ desk[d].y \in Int /\ desk[d].size \in Nat /\ desk[d].on
  <2>1. desk[d] \in Shown /\ desk[d].on
    BY <1>1 DEF Configured, DeskOf, On
  <2>2. desk[d].x \in Int /\ desk[d].y \in Int /\ desk[d].size \in Extents
    BY <2>1 DEF Shown
  <2> QED
    BY <2>1, <2>2, ExtentFacts
<1>3. PICK o \in D : desk[o].x = 0 /\ desk[o].y = 0
  BY DEF Configured, DeskOf, Legal, AtOrigin, On
<1>4. LeftEdge = Min({desk[d].x : d \in D}) /\ TopEdge = Min({desk[d].y : d \in D})
  BY DEF LeftEdge, TopEdge
<1>5. /\ RightEdge = Max({desk[d].x + desk[d].size : d \in D})
      /\ BottomEdge = Max({desk[d].y + desk[d].size : d \in D})
  BY DEF RightEdge, BottomEdge
<1>6. D # {}
  BY <1>3
<1> HIDE DEF D
<1>7. /\ LeftEdge \in Int /\ (\E d \in D : LeftEdge = desk[d].x)
      /\ \A d \in D : LeftEdge <= desk[d].x
  <2>1. l \in [D -> Int] /\ {desk[d].x : d \in D} = {l[d] : d \in D} /\ \A d \in D : l[d] = desk[d].x
    BY <1>2
  <2> HIDE DEF l
  <2>2. LET m == Min({l[d] : d \in D})
        IN  m \in Int /\ (\E d \in D : m = l[d]) /\ \A d \in D : m <= l[d]
    BY <1>1, <1>6, <2>1, MinOf
  <2> QED
    BY <1>4, <2>1, <2>2
<1>8. /\ TopEdge \in Int /\ (\E d \in D : TopEdge = desk[d].y)
      /\ \A d \in D : TopEdge <= desk[d].y
  <2>1. u \in [D -> Int] /\ {desk[d].y : d \in D} = {u[d] : d \in D} /\ \A d \in D : u[d] = desk[d].y
    BY <1>2
  <2> HIDE DEF u
  <2>2. LET m == Min({u[d] : d \in D})
        IN  m \in Int /\ (\E d \in D : m = u[d]) /\ \A d \in D : m <= u[d]
    BY <1>1, <1>6, <2>1, MinOf
  <2> QED
    BY <1>4, <2>1, <2>2
<1>9. /\ RightEdge \in Int /\ (\E d \in D : RightEdge = desk[d].x + desk[d].size)
      /\ \A d \in D : RightEdge >= desk[d].x + desk[d].size
  <2>1. /\ r \in [D -> Int] /\ {desk[d].x + desk[d].size : d \in D} = {r[d] : d \in D}
        /\ \A d \in D : r[d] = desk[d].x + desk[d].size
    BY <1>2
  <2> HIDE DEF r
  <2>2. LET m == Max({r[d] : d \in D})
        IN  m \in Int /\ (\E d \in D : m = r[d]) /\ \A d \in D : m >= r[d]
    <3>1. r \in [D -> Int]
      BY <2>1
    <3> QED
      BY <1>1, <1>6, <3>1, MaxOf
  <2> QED
    BY <1>5, <2>1, <2>2
<1>10. /\ BottomEdge \in Int /\ (\E d \in D : BottomEdge = desk[d].y + desk[d].size)
       /\ \A d \in D : BottomEdge >= desk[d].y + desk[d].size
  <2>1. /\ b \in [D -> Int] /\ {desk[d].y + desk[d].size : d \in D} = {b[d] : d \in D}
        /\ \A d \in D : b[d] = desk[d].y + desk[d].size
    BY <1>2
  <2> HIDE DEF b
  <2>2. LET m == Max({b[d] : d \in D})
        IN  m \in Int /\ (\E d \in D : m = b[d]) /\ \A d \in D : m >= b[d]
    <3>1. b \in [D -> Int]
      BY <2>1
    <3> QED
      BY <1>1, <1>6, <3>1, MaxOf
  <2> QED
    BY <1>5, <2>1, <2>2
<1>11. LeftEdge <= 0 /\ TopEdge <= 0
  BY <1>3, <1>7, <1>8
<1>12. RightEdge >= 0 /\ BottomEdge >= 0
  <2>1. desk[o].size \in Nat
    BY <1>2
  <2> QED
    BY <1>3, <1>9, <1>10, <2>1
<1> QED
  BY <1>1, <1>2, <1>7, <1>8, <1>9, <1>10, <1>11, <1>12 DEF D

\* A table that says what Windows shows has the edges of the desktop.
LEMMA MirrorsCorners ==
    ASSUME Configured, NEW t, TableOf(t), NEW x \in {0, LeftEdge}, NEW y \in {0, TopEdge},
           Mirrors(t, x, y)
    PROVE  /\ MinX(t) = LeftEdge - x /\ MinY(t) = TopEdge - y
           /\ Width(t) = RightEdge - LeftEdge /\ Height(t) = BottomEdge - TopEdge
<1> DEFINE D == Attached(t)
           K == On(desk)
<1>1. /\ LeftEdge \in Int /\ TopEdge \in Int /\ RightEdge \in Int /\ BottomEdge \in Int
      /\ LeftEdge <= 0 /\ TopEdge <= 0 /\ RightEdge >= 0 /\ BottomEdge >= 0
      /\ x \in Int /\ y \in Int
  BY EdgeFacts
<1>2. ASSUME NEW i \in D
      PROVE  \E d \in K : /\ t[i].x = desk[d].x - x /\ t[i].y = desk[d].y - y
                          /\ t[i].size = desk[d].size
  <2>1. i \in DOMAIN t /\ t[i] # Gap /\ t[i].attached
    BY AttachedFacts
  <2>2. PICK d \in present : i = Id(d)
    BY <2>1 DEF Mirrors
  <2>3. d \in K
    BY <2>1, <2>2 DEF Mirrors, On, Configured, DeskOf
  <2> QED
    BY <2>2, <2>3, EdgeFacts DEF Mirrors
<1>3. ASSUME NEW d \in K
      PROVE  /\ Id(d) \in D
             /\ t[Id(d)].x = desk[d].x - x /\ t[Id(d)].y = desk[d].y - y
             /\ t[Id(d)].size = desk[d].size
  BY EdgeFacts DEF Mirrors, Attached
<1>4. /\ \A i \in D : t[i].x \in Int /\ t[i].y \in Int /\ t[i].size \in Nat
      /\ \A d \in K : desk[d].x \in Int /\ desk[d].y \in Int /\ desk[d].size \in Nat
  BY AttachedFacts, EdgeFacts
<1> DEFINE L == {0} \cup {t[i].x : i \in D}
           U == {0} \cup {t[i].y : i \in D}
           R == {0} \cup {t[i].x + t[i].size : i \in D}
           B == {0} \cup {t[i].y + t[i].size : i \in D}
<1>5. MinX(t) = Min(L) /\ MinY(t) = Min(U)
  BY DEF MinX, MinY
<1>6. Width(t) = Max(R) - MinX(t) /\ Height(t) = Max(B) - MinY(t)
  BY DEF Width, Height
<1> HIDE DEF D, K
<1>7. MinX(t) = LeftEdge - x
  <2>1. PICK d \in K : LeftEdge = desk[d].x
    BY EdgeFacts DEF K
  <2>2. LeftEdge - x \in L
    BY <1>3, <2>1
  <2>3. ASSUME NEW i \in D PROVE LeftEdge - x <= t[i].x
    <3>1. PICK e \in K : t[i].x = desk[e].x - x
      BY <1>2
    <3>2. LeftEdge <= desk[e].x /\ desk[e].x \in Int
      BY EdgeFacts DEF K
    <3> QED
      BY <1>1, <3>1, <3>2
  <2>4. LeftEdge - x \in Int /\ LeftEdge - x <= 0
    BY <1>1
  <2>5. L \in SUBSET Int /\ \A v \in L : LeftEdge - x <= v
    BY <1>4, <2>3, <2>4
  <2> HIDE DEF L
  <2> QED
    BY <1>5, <2>2, <2>5, MinIs
<1>8. MinY(t) = TopEdge - y
  <2>1. PICK d \in K : TopEdge = desk[d].y
    BY EdgeFacts DEF K
  <2>2. TopEdge - y \in U
    BY <1>3, <2>1
  <2>3. ASSUME NEW i \in D PROVE TopEdge - y <= t[i].y
    <3>1. PICK e \in K : t[i].y = desk[e].y - y
      BY <1>2
    <3>2. TopEdge <= desk[e].y /\ desk[e].y \in Int
      BY EdgeFacts DEF K
    <3> QED
      BY <1>1, <3>1, <3>2
  <2>4. TopEdge - y \in Int /\ TopEdge - y <= 0
    BY <1>1
  <2>5. U \in SUBSET Int /\ \A v \in U : TopEdge - y <= v
    BY <1>4, <2>3, <2>4
  <2> HIDE DEF U
  <2> QED
    BY <1>5, <2>2, <2>5, MinIs
<1>9. Max(R) = RightEdge - x
  <2>1. PICK d \in K : RightEdge = desk[d].x + desk[d].size
    BY EdgeFacts DEF K
  <2>2. RightEdge - x \in R
    <3>1. t[Id(d)].x = desk[d].x - x /\ t[Id(d)].size = desk[d].size /\ Id(d) \in D
      BY <1>3
    <3>2. RightEdge - x = t[Id(d)].x + t[Id(d)].size
      BY <1>1, <1>4, <2>1, <3>1
    <3> QED
      BY <3>1, <3>2
  <2>3. ASSUME NEW i \in D PROVE RightEdge - x >= t[i].x + t[i].size
    <3>1. PICK e \in K : t[i].x = desk[e].x - x /\ t[i].size = desk[e].size
      BY <1>2
    <3>2. RightEdge >= desk[e].x + desk[e].size
      BY EdgeFacts DEF K
    <3> QED
      BY <1>1, <1>4, <3>1, <3>2
  <2>4. RightEdge - x \in Int /\ RightEdge - x >= 0
    BY <1>1
  <2>5. R \in SUBSET Int /\ \A v \in R : RightEdge - x >= v
    BY <1>4, <2>3, <2>4
  <2> HIDE DEF R
  <2> QED
    BY <2>2, <2>5, MaxIs
<1>10. Max(B) = BottomEdge - y
  <2>1. PICK d \in K : BottomEdge = desk[d].y + desk[d].size
    BY EdgeFacts DEF K
  <2>2. BottomEdge - y \in B
    <3>1. t[Id(d)].y = desk[d].y - y /\ t[Id(d)].size = desk[d].size /\ Id(d) \in D
      BY <1>3
    <3>2. BottomEdge - y = t[Id(d)].y + t[Id(d)].size
      BY <1>1, <1>4, <2>1, <3>1
    <3> QED
      BY <3>1, <3>2
  <2>3. ASSUME NEW i \in D PROVE BottomEdge - y >= t[i].y + t[i].size
    <3>1. PICK e \in K : t[i].y = desk[e].y - y /\ t[i].size = desk[e].size
      BY <1>2
    <3>2. BottomEdge >= desk[e].y + desk[e].size
      BY EdgeFacts DEF K
    <3> QED
      BY <1>1, <1>4, <3>1, <3>2
  <2>4. BottomEdge - y \in Int /\ BottomEdge - y >= 0
    BY <1>1
  <2>5. B \in SUBSET Int /\ \A v \in B : BottomEdge - y >= v
    BY <1>4, <2>3, <2>4
  <2> HIDE DEF B
  <2> QED
    BY <2>2, <2>5, MaxIs
<1> HIDE DEF R, B
<1> QED
  BY <1>1, <1>6, <1>7, <1>8, <1>9, <1>10

\* normalize_displays_pos measures the displays from the desktop's corner.
LEMMA MirrorsMoved ==
    ASSUME Configured, NEW t, TableOf(t), NEW x \in {0, LeftEdge}, NEW y \in {0, TopEdge},
           Mirrors(t, x, y)
    PROVE  Mirrors(Moved(t), LeftEdge, TopEdge)
<1>1. /\ LeftEdge \in Int /\ TopEdge \in Int /\ x \in Int /\ y \in Int
      /\ MinX(t) = LeftEdge - x /\ MinY(t) = TopEdge - y
  BY MirrorsCorners, EdgeFacts
<1>2. /\ DOMAIN Moved(t) = DOMAIN t
      /\ \A i \in DOMAIN t :
                 /\ t[i] = Gap <=> Moved(t)[i] = Gap
                 /\ t[i] # Gap => /\ Moved(t)[i].attached = t[i].attached
                                  /\ Moved(t)[i].size = t[i].size
                                  /\ Moved(t)[i].x = t[i].x - MinX(t)
                                  /\ Moved(t)[i].y = t[i].y - MinY(t)
  BY MovedFacts
<1>3. ASSUME NEW d \in present
      PROVE  /\ Id(d) \in DOMAIN Moved(t) /\ Moved(t)[Id(d)] # Gap
             /\ Moved(t)[Id(d)].attached = desk[d].on
             /\ desk[d].on => /\ Moved(t)[Id(d)].size = desk[d].size
                              /\ Moved(t)[Id(d)].x = desk[d].x - LeftEdge
                              /\ Moved(t)[Id(d)].y = desk[d].y - TopEdge
  <2>1. /\ Id(d) \in DOMAIN t /\ t[Id(d)] # Gap
        /\ t[Id(d)].attached = desk[d].on
        /\ desk[d].on => /\ t[Id(d)].size = desk[d].size
                         /\ t[Id(d)].x = desk[d].x - x
                         /\ t[Id(d)].y = desk[d].y - y
    BY DEF Mirrors
  <2>2. desk[d].x \in Int /\ desk[d].y \in Int
    <3>1. desk[d] \in Shown
      BY DEF Configured, DeskOf
    <3> QED
      BY <3>1 DEF Shown
  <2>3. /\ desk[d].x - x - (LeftEdge - x) = desk[d].x - LeftEdge
        /\ desk[d].y - y - (TopEdge - y) = desk[d].y - TopEdge
    BY <1>1, <2>2
  <2> QED
    BY <1>1, <1>2, <2>1, <2>3
<1>4. \A i \in DOMAIN t : t[i] # Gap => \E d \in present : i = Id(d)
  BY DEF Mirrors
<1> QED
  BY <1>2, <1>3, <1>4 DEF Mirrors

\* get_displays fills the table with what Windows shows.
LEMMA TableMirrors ==
    ASSUME Configured, Consistent, NEW old \in BOOLEAN
    PROVE  Mirrors(Table(On(desk), old), 0, 0)
<1> DEFINE t == Table(On(desk), old)
<1>1. ASSUME NEW d \in present
      PROVE  /\ Id(d) \in DOMAIN t /\ t[Id(d)] # Gap
             /\ t[Id(d)].attached = desk[d].on
             /\ desk[d].on => /\ t[Id(d)].size = desk[d].size
                              /\ t[Id(d)].x = desk[d].x - 0
                              /\ t[Id(d)].y = desk[d].y - 0
  <2>1. Id(d) \in DOMAIN t /\ t[Id(d)] = DisplayMode(Given(d, old), d \in On(desk))
    BY TableFacts
  <2>2. desk[d] \in Shown /\ Given(d, old) \in Shown /\ (desk[d].on => Given(d, old) = desk[d])
    BY GivenTyped DEF Configured, DeskOf
  <2>3. desk[d].x \in Int /\ desk[d].y \in Int /\ desk[d].on \in BOOLEAN
    BY <2>2 DEF Shown
  <2>4. (d \in On(desk)) = desk[d].on
    BY <2>3 DEF On, Configured, DeskOf
  <2>5. t[Id(d)] = DisplayMode(Given(d, old), desk[d].on)
    BY <2>1, <2>4
  <2>6. t[Id(d)] \in Entries /\ t[Id(d)].attached = desk[d].on
        /\ t[Id(d)].size = Given(d, old).size
        /\ t[Id(d)].x = Given(d, old).x /\ t[Id(d)].y = Given(d, old).y
    BY <2>2, <2>3, <2>5, DisplayModeTyped
  <2> QED
    BY <2>1, <2>2, <2>3, <2>6, EntryIsNoGap
<1>2. \A i \in DOMAIN t : t[i] # Gap => \E d \in present : i = Id(d)
  BY TableFacts
<1> QED
  BY <1>1, <1>2 DEF Mirrors

------------------------------------------------------------------------------
(***************************************************************************)
(* PointerFollows: the inductive invariant.  While a request is being met  *)
(* the table is what was asked for; otherwise it is what Windows shows, in *)
(* the middle of set_displays for the depth's sake as well, unless a notice*)
(* that something has changed is on its way.                               *)
(***************************************************************************)
Measured(t, n) ==
    /\ Mirrors(t, LeftEdge, TopEdge)
    /\ n = <<RightEdge - LeftEdge, BottomEdge - TopEdge>>

Pointed == ~updating /\ ~notice /\ clean /\ Consistent => Measured(displays, total)

Inv == Typed /\ Looping /\ Pointed

\* What the devices and the desktop say does not change when they do not.
LEMMA SameDevices ==
    ASSUME UNCHANGED present
    PROVE  /\ Consistent' = Consistent /\ \A d : Rank(d)' = Rank(d) /\ Id(d)' = Id(d)
           /\ \A n : Visited(n)' = Visited(n)
<1>1. Consistent' = Consistent
  BY DEF Consistent
<1>2. ASSUME NEW d PROVE Rank(d)' = Rank(d) /\ Id(d)' = Id(d)
  <2>1. {e \in present' : e < d} = {e \in present : e < d}
    OBVIOUS
  <2>2. Rank(d)' = Rank(d)
    BY <2>1 DEF Rank
  <2> QED
    BY <2>2 DEF Id
<1>3. ASSUME NEW n PROVE Visited(n)' = Visited(n)
  <2>1. \A d : (d \in present' /\ Rank(d)' = n) <=> (d \in present /\ Rank(d) = n)
    BY <1>2
  <2> QED
    BY <2>1 DEF Visited
<1> QED
  BY <1>1, <1>2, <1>3

LEMMA SameEdges ==
    ASSUME UNCHANGED desk
    PROVE  UNCHANGED <<LeftEdge, TopEdge, RightEdge, BottomEdge>>
<1>1. On(desk') = On(desk)
  OBVIOUS
<1>2. /\ {desk'[d].x : d \in On(desk')} = {desk[d].x : d \in On(desk)}
      /\ {desk'[d].y : d \in On(desk')} = {desk[d].y : d \in On(desk)}
      /\ {desk'[d].x + desk'[d].size : d \in On(desk')} = {desk[d].x + desk[d].size : d \in On(desk)}
      /\ {desk'[d].y + desk'[d].size : d \in On(desk')} = {desk[d].y + desk[d].size : d \in On(desk)}
  BY <1>1
<1>3. On(desk)' = On(desk')
  BY DEF On
<1> QED
  BY <1>2, <1>3 DEF LeftEdge, TopEdge, RightEdge, BottomEdge

LEMMA MeasuredNext ==
    ASSUME UNCHANGED <<present, desk>>, Measured(displays', total')
    PROVE  Measured(displays, total)'
<1>1. UNCHANGED <<LeftEdge, TopEdge, RightEdge, BottomEdge>>
  BY SameEdges
<1>2. \A d : Id(d)' = Id(d)
  BY SameDevices
<1>3. Mirrors(displays', LeftEdge, TopEdge) /\ total' = <<RightEdge - LeftEdge, BottomEdge - TopEdge>>
  BY DEF Measured
<1>4. /\ \A d \in present' :
            /\ Id(d)' \in DOMAIN displays' /\ displays'[Id(d)'] # Gap
            /\ displays'[Id(d)'].attached = desk'[d].on
            /\ desk'[d].on => /\ displays'[Id(d)'].size = desk'[d].size
                              /\ displays'[Id(d)'].x = desk'[d].x - LeftEdge'
                              /\ displays'[Id(d)'].y = desk'[d].y - TopEdge'
      /\ \A i \in DOMAIN displays' : displays'[i] # Gap => \E d \in present' : i = Id(d)'
  BY <1>1, <1>2, <1>3 DEF Mirrors
<1>5. Mirrors(displays, LeftEdge, TopEdge)'
  BY <1>4 DEF Mirrors
<1> QED
  BY <1>1, <1>3, <1>5 DEF Measured

LEMMA TypedIf ==
    ASSUME Configured', TableOf(displays'), total' \in Nat \X Nat, normal' \in Int \X Int,
           updating' \in BOOLEAN, sets' \in BOOLEAN, stale' \in BOOLEAN
    PROVE  Typed'
BY DEF Typed, TableOf

\* A step that leaves the table alone, or makes a note that it does not.
LEMMA PointedKept ==
    ASSUME Pointed, Called, UNCHANGED present, ~updating' => ~updating,
           clean' => UNCHANGED <<displays, total>>
    PROVE  Pointed'
<1>1. SUFFICES ASSUME ~updating', ~notice', clean', Consistent' PROVE Measured(displays, total)'
  BY DEF Pointed
<1>2. /\ ~updating /\ ~notice /\ clean /\ UNCHANGED <<desk, displays, total>>
      /\ Consistent' = Consistent
  BY <1>1, SameDevices DEF Called
<1>3. Measured(displays', total')
  BY <1>1, <1>2 DEF Pointed
<1> QED
  BY <1>2, <1>3, MeasuredNext

\* What get_displays reads, unless it is refused.
LEMMA ReadTable ==
    ASSUME Configured, Consistent, GetDisplays, clean' \/ DOMAIN conf' # {}
    PROVE  /\ \E old \in BOOLEAN : Normalized(Table(On(desk), old))
           /\ driver = "WDDM" => \E known \in BOOLEAN : conf' = [d \in present |-> Path(d, known)]
<1> DEFINE att == {d \in present : IsAttached(conf', d)}
<1>1. (\E old \in BOOLEAN : Normalized(Table(att, old))) /\ UpdateConfigPath
  BY DEF GetDisplays
<1>2. On(desk) = {d \in present : desk[d].on}
  BY EdgeFacts DEF On, Configured, DeskOf
<1>3. ASSUME driver = "WDDM" PROVE \E known \in BOOLEAN : conf' = [d \in present |-> Path(d, known)]
  <2>1. CASE clean'
    BY <1>1, <1>3, <2>1 DEF UpdateConfigPath, Refuses
  <2>2. CASE DOMAIN conf' # {}
    BY <1>1, <1>3, <2>2 DEF UpdateConfigPath, NoPaths
  <2> QED
    BY <2>1, <2>2
<1>4. att = On(desk)
  <2>1. CASE driver = "XPDM"
    BY <1>2, <2>1 DEF IsAttached
  <2>2. CASE driver = "WDDM"
    <3>1. PICK known \in BOOLEAN : conf' = [d \in present |-> Path(d, known)]
      BY <1>3, <2>2
    <3>2. ASSUME NEW d \in present PROVE IsAttached(conf', d) <=> desk[d].on
      <4>1. conf'[d] = Path(d, known) /\ d \in DOMAIN conf'
        BY <3>1
      <4>2. Path(d, known).on = desk[d].on /\ (desk[d].on => Path(d, known).known)
        BY PathTyped DEF Configured, DeskOf
      <4> QED
        BY <2>2, <4>1, <4>2 DEF IsAttached, Active
    <3> QED
      BY <1>2, <3>2
  <2> QED
    BY <2>1, <2>2 DEF Configured, Drivers
<1> QED
  BY <1>1, <1>3, <1>4

LEMMA GetDisplaysMeasures ==
    ASSUME Configured, TableOf(displays), total \in Nat \X Nat, stale \in BOOLEAN,
           GetDisplays, UNCHANGED <<driver, present, primary_detached, desk>>, notice' \in BOOLEAN
    PROVE  /\ Configured' /\ TableOf(displays') /\ total' \in Nat \X Nat /\ stale' \in BOOLEAN
           /\ ~Consistent => UNCHANGED displays
           /\ clean' /\ Consistent => Measured(displays', total')
<1>1. CASE ~Consistent
  <2>1. UNCHANGED <<displays, total, conf, clean, refusals, stale>>
    BY <1>1 DEF GetDisplays
  <2>2. Configured'
    BY <2>1 DEF Configured, DeskOf, ConfOf, Legal
  <2> QED
    BY <1>1, <2>1, <2>2
<1>2. CASE Consistent
  <2> DEFINE att == {d \in present : IsAttached(conf', d)}
  <2>1. PICK old \in BOOLEAN : Normalized(Table(att, old))
    BY <1>2 DEF GetDisplays
  <2>2. UpdateConfigPath /\ stale' \in BOOLEAN
    BY <1>2 DEF GetDisplays
  <2>3. Configured'
    <3>1. /\ ConfOf(conf') /\ (driver = "XPDM" => DOMAIN conf' = Devices)
          /\ clean' \in BOOLEAN
      BY <2>2, UpdateConfigPathTyped
    <3> QED
      BY <3>1 DEF Configured, DeskOf, ConfOf, Legal
  <2>4. TableOf(Table(att, old))
    BY <1>2, TableFacts
  <2>5. TableOf(displays') /\ total' \in Nat \X Nat
    BY <2>1, <2>4, NormalizedTyped
  <2>6. ASSUME clean' PROVE Measured(displays', total')
    <3>1. PICK seen \in BOOLEAN : Normalized(Table(On(desk), seen))
      BY <1>2, <2>6, ReadTable
    <3> DEFINE t == Table(On(desk), seen)
    <3>2. Mirrors(t, 0, 0) /\ TableOf(t)
      BY <1>2, TableMirrors, TableFacts
    <3>3. displays' = Moved(t) /\ total' = <<Width(t), Height(t)>>
      BY <3>1 DEF Normalized
    <3> HIDE DEF t
    <3>4. Mirrors(Moved(t), LeftEdge, TopEdge)
      BY <3>2, MirrorsMoved
    <3>5. Width(t) = RightEdge - LeftEdge /\ Height(t) = BottomEdge - TopEdge
      BY <3>2, MirrorsCorners
    <3> QED
      BY <3>3, <3>4, <3>5 DEF Measured
  <2> QED
    BY <1>2, <2>2, <2>3, <2>5, <2>6
<1> QED
  BY <1>1, <1>2

------------------------------------------------------------------------------
(***************************************************************************)
(* Every action keeps it.                                                  *)
(***************************************************************************)
LEMMA InvFacts ==
    ASSUME Inv
    PROVE  /\ Configured /\ TableOf(displays) /\ total \in Nat \X Nat /\ normal \in Int \X Int
           /\ updating \in BOOLEAN /\ sets \in BOOLEAN /\ stale \in BOOLEAN
           /\ present \subseteq Devices /\ present # {} /\ desk \in [Devices -> Shown]
           /\ Cardinality(present) \in Nat /\ Cardinality(Devices) \in Nat
           /\ Cardinality(present) <= Cardinality(Devices)
           /\ dev \in 0 .. Cardinality(Devices) /\ dev \in Nat
<1>1. /\ Configured /\ present \subseteq Devices /\ present # {}
      /\ desk \in [Devices -> Shown]
  BY DEF Inv, Typed, Configured, DeskOf
<1>2. /\ Cardinality(present) \in Nat /\ Cardinality(Devices) \in Nat
      /\ Cardinality(present) <= Cardinality(Devices)
  BY <1>1, ExtentFacts, FS_Subset, FS_CardinalityType
<1>3. dev \in 0 .. Cardinality(Devices)
  BY DEF Inv, Looping
<1>4. dev \in Nat
  BY <1>2, <1>3
<1>5. /\ TableOf(displays) /\ total \in Nat \X Nat /\ normal \in Int \X Int
      /\ updating \in BOOLEAN /\ sets \in BOOLEAN /\ stale \in BOOLEAN
  BY DEF Inv, Typed
<1> QED
  BY <1>1, <1>2, <1>3, <1>4, <1>5

LEMMA DevFacts ==
    ASSUME Inv
    PROVE  /\ Cardinality(present) \in Nat /\ Cardinality(Devices) \in Nat
           /\ Cardinality(present) <= Cardinality(Devices)
           /\ dev \in Nat /\ dev <= Cardinality(Devices)
BY InvFacts

\* The entry of a device that set_displays is at.
LEMMA ModeFacts ==
    ASSUME Inv, dev < Cardinality(present), Id(Device) \in Modes
    PROVE  /\ Device \in present /\ Device \in Devices
           /\ Mode \in Entries /\ Mode.attached \in BOOLEAN /\ Mode.size \in Extents
           /\ Mode.x - normal[1] \in Int /\ Mode.y - normal[2] \in Int
<1>1. Device \in present /\ Device \in Devices
  BY InvFacts, VisitedFacts DEF Device
<1>2. Mode \in Entries
  BY InvFacts, AttachedFacts DEF Mode, Modes
<1>3. Mode.attached \in BOOLEAN /\ Mode.size \in Extents /\ Mode.x \in Int /\ Mode.y \in Int
  BY <1>2 DEF Entries
<1>4. normal[1] \in Int /\ normal[2] \in Int
  BY InvFacts
<1> QED
  BY <1>1, <1>2, <1>3, <1>4

LEMMA ElementOf ==
    ASSUME NEW S, NEW q \in Seq(S), NEW n \in 1 .. Len(q)
    PROVE  q[n] \in S
OBVIOUS

LEMMA WantedTyped ==
    ASSUME TableOf(displays), NEW r \in Requests, NEW i \in DOMAIN displays
    PROVE  /\ Wanted(i, r) \in Entries \cup {Gap}
           /\ displays[i] # Gap => /\ Wanted(i, r) \in Entries
                                   /\ Wanted(i, r).primary = displays[i].primary
           /\ displays[i] = Gap => Wanted(i, r) = Gap
<1> DEFINE m == displays[i]
           w == r.monitors[i + 1]
<1>1. CASE m = Gap
  BY <1>1 DEF Wanted
<1>2. CASE m # Gap
  <2>1. m \in Entries /\ i \in Nat
    BY <1>2, AttachedFacts DEF TableOf
  <2>2. CASE i >= Len(r.monitors) \/ ~w.on
    <3>1. Wanted(i, r) = [m EXCEPT !.attached = FALSE]
      BY <1>2, <2>2 DEF Wanted
    <3> QED
      BY <1>2, <2>1, <3>1 DEF Entries
  <2>3. CASE ~(i >= Len(r.monitors) \/ ~w.on)
    <3>1. r.monitors \in Seq([on : BOOLEAN, x : Int, y : Int, size : Sizes])
      BY LayoutConstants
    <3>2. i + 1 \in 1 .. Len(r.monitors)
      BY <2>1, <2>3, <3>1
    <3>3. w.x \in Int /\ w.y \in Int /\ w.size \in Extents
      <4>1. w \in [on : BOOLEAN, x : Int, y : Int, size : Sizes]
        BY <3>1, <3>2, ElementOf
      <4> HIDE DEF w
      <4> QED
        BY <4>1, ExtentFacts
    <3> HIDE DEF w
    <3>4. m.x \in Int /\ m.y \in Int
      BY <2>1 DEF Entries
    <3>5. Wanted(i, r) = [m EXCEPT !.attached = TRUE, !.size = w.size,
                                   !.x = IF r.use_pos THEN w.x ELSE m.x,
                                   !.y = IF r.use_pos THEN w.y ELSE m.y]
      BY <1>2, <2>3 DEF Wanted, w
    <3>6. (IF r.use_pos THEN w.x ELSE m.x) \in Int /\ (IF r.use_pos THEN w.y ELSE m.y) \in Int
      BY <3>3, <3>4
    <3> HIDE DEF m
    <3>7. Wanted(i, r) \in Entries /\ Wanted(i, r).primary = m.primary
      BY <2>1, <3>3, <3>5, <3>6 DEF Entries
    <3> QED
      BY <1>2, <3>7 DEF m
  <2> QED
    BY <2>2, <2>3
<1> QED
  BY <1>1, <1>2

LEMMA HandleMonConfigKeeps ==
    ASSUME Inv, NEW r \in Requests, HandleMonConfig(r)
    PROVE  Inv'
<1> USE DEF HandleMonConfig, config, setting
<1>1. displays' = [i \in DOMAIN displays |-> Wanted(i, r)]
  OBVIOUS
<1>2. TableOf(displays')
  <2>1. TableOf(displays)
    BY InvFacts
  <2>2. \A i \in DOMAIN displays : /\ Wanted(i, r) \in Entries \cup {Gap}
                                   /\ displays[i] # Gap => Wanted(i, r) # Gap
    BY <2>1, WantedTyped, EntryIsNoGap
  <2> QED
    BY <1>1, <2>1, <2>2 DEF TableOf
<1>3. Configured'
  BY InvFacts DEF Configured, DeskOf, ConfOf, Legal
<1>4. Typed'
  BY <1>2, <1>3, InvFacts, TypedIf
<1>5. main' \in {"set displays", "refresh"} /\ updating' = TRUE /\ UNCHANGED <<dev, present>>
  OBVIOUS
<1>6. Looping'
  BY <1>5, InvFacts DEF Looping
<1> QED
  BY <1>4, <1>5, <1>6 DEF Inv, Pointed

LEMMA HandleDepthKeeps ==
    ASSUME Inv, HandleDepth
    PROVE  Inv'
<1> USE DEF HandleDepth, config, setting, layout
<1>1. Called
  BY InvFacts, CalledIf DEF Configured
<1>2. Typed'
  BY <1>1, InvFacts, TypedIf DEF Called
<1>3. Looping'
  BY InvFacts DEF Looping
<1>4. Pointed'
  BY <1>1, PointedKept DEF Inv
<1> QED
  BY <1>2, <1>3, <1>4 DEF Inv

LEMMA BeginSetKeeps ==
    ASSUME Inv, BeginSet
    PROVE  Inv'
<1>1. UNCHANGED <<driver, present, primary_detached, desk, notice, displays, total, updating, stale>>
  BY DEF BeginSet, layout
<1>2. CASE Consistent
  <2>1. UpdateConfigPath /\ dev' = 0 /\ sets' = FALSE /\ main' = "set state"
    BY <1>2 DEF BeginSet
  <2>2. Called
    BY <1>1, <2>1, InvFacts, UpdateConfigPathCalled
  <2>3. normal' \in Int \X Int
    <3>1. CASE Primaries = {}
      <4>1. normal' = <<0, 0>>
        BY <1>2, <3>1 DEF BeginSet
      <4> QED
        BY <4>1
    <3>2. CASE Primaries # {}
      <4> DEFINE i == Min(Primaries)
      <4>1. Primaries \subseteq Nat /\ Primaries \subseteq Modes
        BY InvFacts DEF Primaries, Modes, TableOf
      <4>2. i \in Modes
        BY <3>2, <4>1, MinOfNat
      <4>3. normal' = <<displays[i].x, displays[i].y>>
        BY <1>2, <3>2 DEF BeginSet
      <4> HIDE DEF i
      <4> QED
        BY <4>2, <4>3, InvFacts, AttachedFacts DEF Modes
    <3> QED
      BY <3>1, <3>2
  <2>4. Typed'
    BY <1>1, <2>1, <2>2, <2>3, InvFacts, TypedIf DEF Called
  <2>5. Looping'
    <3>1. 0 \in 0 .. Cardinality(Devices) /\ 0 <= Cardinality(present)
      BY InvFacts
    <3> QED
      BY <1>1, <2>1, <3>1 DEF Looping
  <2>6. Pointed'
    BY <1>1, <2>2, PointedKept DEF Inv
  <2> QED
    BY <2>4, <2>5, <2>6 DEF Inv
<1>3. CASE ~Consistent
  <2>1. UNCHANGED <<dev, sets, normal, conf, clean>> /\ main' = Done
    BY <1>3 DEF BeginSet, setting
  <2>2. Called
    BY <1>1, <2>1, InvFacts, CalledIf DEF Configured
  <2>3. Typed'
    BY <1>1, <2>1, <2>2, InvFacts, TypedIf DEF Called
  <2>4. Looping'
    BY <1>1, <2>1, InvFacts DEF Looping, Done
  <2>5. Pointed'
    BY <1>1, <2>1, <2>2, PointedKept DEF Inv
  <2> QED
    BY <2>3, <2>4, <2>5 DEF Inv
<1> QED
  BY <1>2, <1>3

LEMMA SameDevice ==
    ASSUME UNCHANGED <<present, dev>>
    PROVE  Device' = Device /\ Id(Device)' = Id(Device)
<1>1. Device' = Device
  BY SameDevices DEF Device
<1>2. {e \in present' : e < Device'} = {e \in present : e < Device}
  BY <1>1
<1>3. Rank(Device)' = Rank(Device)
  BY <1>2 DEF Rank
<1> QED
  BY <1>1, <1>3 DEF Id

LEMMA Within ==
    ASSUME NEW c \in Nat, NEW n \in Nat, c <= n, NEW i \in 0 .. c
    PROVE  i \in 0 .. n /\ i <= c
OBVIOUS

\* What Typed and Looping are made of in the loop.
LEMMA LoopingIf ==
    ASSUME Inv, UNCHANGED present, dev' \in 0 .. Cardinality(present),
           main' \in {"idle", "set state", "apply", "refresh"} \cup Crashed,
           main' = "idle" => ~updating'
    PROVE  Looping'
<1> DEFINE c == Cardinality(present)
           n == Cardinality(Devices)
<1>1. c \in Nat /\ n \in Nat /\ c <= n
  BY DevFacts
<1>2. main' # "set size" /\ main' # "set position"
  BY DEF Crashed
<1>3. dev' \in 0 .. n /\ dev' <= c
  <2>1. dev' \in 0 .. c
    OBVIOUS
  <2> HIDE DEF c, n
  <2> QED
    BY <1>1, <2>1, Within
<1> QED
  BY <1>2, <1>3 DEF Looping, c, n

\* The next mode is of the same device.
LEMMA LoopingOn ==
    ASSUME Inv, UNCHANGED <<present, dev>>, dev < Cardinality(present),
           Id(Device) \in DOMAIN displays', displays'[Id(Device)] # Gap,
           main' \in {"set size", "set position"}
    PROVE  Looping'
<1>1. Id(Device)' \in Modes'
  BY SameDevice DEF Modes
<1>2. dev' \in 0 .. Cardinality(Devices)' /\ dev' < Cardinality(present)'
  BY InvFacts
<1> QED
  BY <1>1, <1>2 DEF Looping

LEMMA DevBound ==
    ASSUME Inv, dev <= Cardinality(present)
    PROVE  /\ dev \in 0 .. Cardinality(present)
           /\ dev # Cardinality(present) =>
                 dev < Cardinality(present) /\ dev + 1 \in 0 .. Cardinality(present)
<1> DEFINE c == Cardinality(present)
<1>1. c \in Nat /\ dev \in Nat /\ dev <= c
  BY DevFacts
<1> HIDE DEF c
<1>2. dev \in 0 .. c /\ (dev # c => dev < c /\ dev + 1 \in 0 .. c)
  BY <1>1
<1> QED
  BY <1>2 DEF c

LEMMA DevBelow ==
    ASSUME Inv, dev < Cardinality(present)
    PROVE  dev <= Cardinality(present) /\ dev # Cardinality(present)
<1> DEFINE c == Cardinality(present)
<1>1. c \in Nat /\ dev \in Nat /\ dev < c
  BY DevFacts
<1> HIDE DEF c
<1>2. dev <= c /\ dev # c
  BY <1>1
<1> QED
  BY <1>2 DEF c

LEMMA SetStateKeeps ==
    ASSUME Inv, SetState
    PROVE  Inv'
<1>1. UNCHANGED <<driver, dev, sets, normal, displays, total, stale, updating, present>>
  BY DEF SetState, setting, layout
<1>2. main = "set state" /\ dev <= Cardinality(present)
  BY DEF SetState, Inv, Looping
<1>3. CASE dev = Cardinality(present) \/ Id(Device) \notin DOMAIN displays
  <2>1. UNCHANGED <<conf, primary_detached, desk, notice, clean>> /\ main' = "apply"
    BY <1>3 DEF SetState
  <2>2. Called
    BY <1>1, <2>1, InvFacts, CalledIf DEF Configured
  <2>3. Typed'
    BY <1>1, <2>2, InvFacts, TypedIf DEF Called
  <2>4. dev' \in 0 .. Cardinality(present)
    BY <1>1, <1>2, DevBelow, DevBound
  <2>5. Looping'
    BY <1>1, <2>1, <2>4, LoopingIf
  <2>6. Pointed'
    BY <1>1, <2>2, PointedKept DEF Inv
  <2> QED
    BY <2>3, <2>5, <2>6 DEF Inv
<1>4. CASE ~(dev = Cardinality(present) \/ Id(Device) \notin DOMAIN displays)
  <2>1. /\ SetMonitorState(Device, Mode # Gap /\ Mode.attached)
        /\ main' = IF Mode = Gap THEN "null"
                   ELSE IF Mode.attached THEN "set size" ELSE "set position"
    BY <1>4 DEF SetState
  <2>2. dev < Cardinality(present) /\ Id(Device) \in DOMAIN displays
    BY <1>2, <1>4, DevBound
  <2>3. Device \in present
    BY <2>2, InvFacts, VisitedFacts DEF Device
  <2>4. (Mode # Gap /\ Mode.attached) \in BOOLEAN
    OBVIOUS
  <2>5. Called
    BY <1>1, <2>1, <2>3, <2>4, InvFacts, SetMonitorStateCalled
  <2>6. Typed'
    BY <1>1, <2>5, InvFacts, TypedIf DEF Called
  <2>7. Looping'
    <3>1. CASE Mode = Gap
      <4>1. dev' \in 0 .. Cardinality(present) /\ main' = "null"
        BY <1>1, <1>2, <2>1, <3>1, DevBound
      <4> QED
        BY <1>1, <4>1, LoopingIf DEF Crashed
    <3>2. CASE Mode # Gap
      <4>1. main' \in {"set size", "set position"}
        BY <2>1, <3>2
      <4>2. displays'[Id(Device)] # Gap /\ Id(Device) \in DOMAIN displays'
        BY <1>1, <2>2, <3>2 DEF Mode
      <4> QED
        BY <1>1, <2>2, <4>1, <4>2, LoopingOn
    <3> QED
      BY <3>1, <3>2
  <2>8. Pointed'
    BY <1>1, <2>5, PointedKept DEF Inv
  <2> QED
    BY <2>6, <2>7, <2>8 DEF Inv
<1> QED
  BY <1>3, <1>4

LEMMA SetSizeKeeps ==
    ASSUME Inv, SetSize
    PROVE  Inv'
<1>1. UNCHANGED <<driver, dev, sets, normal, total, stale, updating, present>> /\ main = "set size"
  BY DEF SetSize, setting
<1>2. dev < Cardinality(present) /\ Id(Device) \in Modes
  BY <1>1 DEF Inv, Looping
<1>3. Device \in present /\ Mode \in Entries /\ Mode.size \in Extents
  BY <1>2, ModeFacts
<1>4. PICK got \in Sizes :
        \/ /\ CustomDisplayEscape(Device, Mode.size, TRUE, got)
           /\ displays' = [displays EXCEPT ![Id(Device)].size = got]
           /\ main' = "set position"
        \/ /\ CustomDisplayEscape(Device, Mode.size, FALSE, got)
           /\ main' = "apply"
           /\ UNCHANGED displays
  BY DEF SetSize
<1>5. CASE /\ CustomDisplayEscape(Device, Mode.size, TRUE, got)
           /\ displays' = [displays EXCEPT ![Id(Device)].size = got]
           /\ main' = "set position"
  <2>1. Called /\ (clean' => got = Mode.size)
    BY <1>1, <1>3, <1>5, InvFacts, CustomDisplayEscapeCalled
  <2> DEFINE i == Id(Device)
             m == [Mode EXCEPT !.size = got]
  <2>2. i \in DOMAIN displays /\ displays[i] = Mode /\ displays' = [displays EXCEPT ![i] = m]
    BY <1>2, <1>5 DEF Modes, Mode
  <2>3. m \in Entries /\ (got = Mode.size => m = Mode)
    BY <1>3, ExtentFacts DEF Entries
  <2> HIDE DEF i, m
  <2>4. TableOf(displays') /\ i \in DOMAIN displays' /\ displays'[i] # Gap
    <3>1. m # Gap
      BY <2>3, EntryIsNoGap
    <3> QED
      BY <2>2, <2>3, <3>1, InvFacts DEF TableOf
  <2>5. Typed'
    BY <1>1, <2>1, <2>4, InvFacts, TypedIf DEF Called
  <2>6. Looping'
    BY <1>1, <1>2, <1>5, <2>4, LoopingOn DEF i
  <2>7. clean' => UNCHANGED <<displays, total>>
    <3>1. ASSUME clean' PROVE displays' = displays
      <4>1. displays' = [displays EXCEPT ![i] = displays[i]]
        BY <2>1, <2>2, <2>3, <3>1
      <4> QED
        BY <4>1, InvFacts DEF TableOf
    <3> QED
      BY <1>1, <3>1
  <2>8. Pointed'
    BY <1>1, <2>1, <2>7, PointedKept DEF Inv
  <2> QED
    BY <2>5, <2>6, <2>8 DEF Inv
<1>6. CASE CustomDisplayEscape(Device, Mode.size, FALSE, got) /\ main' = "apply" /\ UNCHANGED displays
  <2>1. Called
    BY <1>1, <1>3, <1>6, InvFacts, CustomDisplayEscapeCalled
  <2>2. Typed'
    BY <1>1, <1>6, <2>1, InvFacts, TypedIf DEF Called
  <2>3. dev' \in 0 .. Cardinality(present)
    BY <1>1, <1>2, DevBelow, DevBound
  <2>4. Looping'
    BY <1>1, <1>6, <2>3, LoopingIf
  <2>5. Pointed'
    BY <1>1, <1>6, <2>1, PointedKept DEF Inv
  <2> QED
    BY <2>2, <2>4, <2>5 DEF Inv
<1> QED
  BY <1>4, <1>5, <1>6

LEMMA SetPositionKeeps ==
    ASSUME Inv, SetPosition
    PROVE  Inv'
<1>1. UNCHANGED <<driver, normal, displays, total, stale, updating, present>>
      /\ main = "set position" /\ main' = "set state" /\ dev' = dev + 1
  BY DEF SetPosition, layout
<1>2. dev < Cardinality(present) /\ Id(Device) \in Modes
  BY <1>1 DEF Inv, Looping
<1>3. /\ Device \in present /\ Mode.attached \in BOOLEAN
      /\ Mode.x - normal[1] \in Int /\ Mode.y - normal[2] \in Int
  BY <1>2, ModeFacts
<1>4. PICK ok \in BOOLEAN :
        /\ UpdateDevModePosition(Device, Mode.attached, Mode.x - normal[1], Mode.y - normal[2], ok)
        /\ sets' = (sets \/ ok)
  BY DEF SetPosition
<1>5. Called
  BY <1>1, <1>3, <1>4, InvFacts, UpdateDevModePositionCalled
<1>6. Typed'
  BY <1>1, <1>4, <1>5, InvFacts, TypedIf DEF Called
<1>7. dev' \in 0 .. Cardinality(present)
  BY <1>1, <1>2, DevBelow, DevBound
<1>8. Looping'
  BY <1>1, <1>7, LoopingIf
<1>9. Pointed'
  BY <1>1, <1>5, PointedKept DEF Inv
<1> QED
  BY <1>6, <1>8, <1>9 DEF Inv

LEMMA ApplyKeeps ==
    ASSUME Inv, Apply
    PROVE  Inv'
<1>1. /\ UNCHANGED <<driver, present, updating>>
      /\ main' = Done /\ dev' = 0 /\ sets' = FALSE /\ normal' = <<0, 0>>
      /\ stale' = (stale \/ desk' # desk)
  BY DEF Apply
<1>2. stale' \in BOOLEAN /\ normal' \in Int \X Int
  <2>1. 0 \in Int
    OBVIOUS
  <2>2. stale' \in BOOLEAN
    BY <1>1
  <2> QED
    BY <1>1, <2>1, <2>2
<1>3. Looping'
  <2>1. 0 \in 0 .. Cardinality(present)
    BY DevFacts
  <2>2. main' \in {"idle", "refresh"} /\ (main' = "idle" => ~updating)
    BY <1>1 DEF Done
  <2> QED
    BY <1>1, <2>1, <2>2, LoopingIf
<1>4. CASE sets
  <2>1. UpdateDisplaySettings /\ Normalized(displays)
    BY <1>4 DEF Apply
  <2>2. Called
    BY <1>1, <2>1, InvFacts, UpdateDisplaySettingsCalled
  <2>3. TableOf(displays') /\ total' \in Nat \X Nat
    BY <2>1, InvFacts, NormalizedTyped
  <2>4. Typed'
    BY <1>1, <1>2, <2>2, <2>3, InvFacts, TypedIf DEF Called
  <2>5. Pointed'
    <3>1. SUFFICES ASSUME ~updating', ~notice', clean', Consistent'
                   PROVE  Measured(displays, total)'
      BY DEF Pointed
    <3>2. /\ ~updating /\ ~notice /\ clean /\ Consistent' = Consistent /\ UNCHANGED desk
      BY <1>1, <2>2, <3>1, SameDevices DEF Called
    <3>3. Mirrors(displays, LeftEdge, TopEdge)
      BY <3>1, <3>2 DEF Inv, Pointed, Measured
    <3>4. Mirrors(Moved(displays), LeftEdge, TopEdge)
      BY <3>3, InvFacts, MirrorsMoved
    <3>5. Width(displays) = RightEdge - LeftEdge /\ Height(displays) = BottomEdge - TopEdge
      BY <3>3, InvFacts, MirrorsCorners
    <3>6. Measured(displays', total')
      BY <2>1, <3>4, <3>5 DEF Normalized, Measured
    <3> QED
      BY <1>1, <3>2, <3>6, MeasuredNext
  <2> QED
    BY <1>3, <2>4, <2>5 DEF Inv
<1>5. CASE ~sets
  <2>1. UNCHANGED <<conf, primary_detached, desk, notice, clean, refusals, displays, total>>
    BY <1>5 DEF Apply
  <2>2. Called
    BY <1>1, <2>1, InvFacts, CalledIf DEF Configured
  <2>3. Typed'
    BY <1>1, <1>2, <2>1, <2>2, InvFacts, TypedIf DEF Called
  <2>4. Pointed'
    BY <1>1, <2>1, <2>2, PointedKept DEF Inv
  <2> QED
    BY <1>3, <2>3, <2>4 DEF Inv
<1> QED
  BY <1>4, <1>5

\* Reading the displays measures them, whatever the table was before.
LEMMA ReadKeeps ==
    ASSUME Inv, GetDisplays,
           UNCHANGED <<driver, present, primary_detached, desk, dev, sets, normal>>,
           notice' \in BOOLEAN, updating' \in BOOLEAN
    PROVE  /\ Typed' /\ Pointed'
           /\ ~Consistent => UNCHANGED displays
<1>1. /\ Configured' /\ TableOf(displays') /\ total' \in Nat \X Nat /\ stale' \in BOOLEAN
      /\ ~Consistent => UNCHANGED displays
      /\ clean' /\ Consistent => Measured(displays', total')
  BY InvFacts, GetDisplaysMeasures
<1>2. Typed'
  BY <1>1, InvFacts, TypedIf
<1>3. Consistent' = Consistent
  BY SameDevices
<1>4. clean' /\ Consistent => Measured(displays, total)'
  BY <1>1, MeasuredNext
<1> QED
  BY <1>1, <1>2, <1>3, <1>4 DEF Pointed

LEMMA RefreshKeeps ==
    ASSUME Inv, Refresh
    PROVE  Inv'
<1>1. /\ GetDisplays /\ updating' = FALSE /\ main' = "idle"
      /\ UNCHANGED <<driver, primary_detached, dev, sets, normal, present, desk, notice>>
  BY DEF Refresh, setting
<1>2. notice' \in BOOLEAN
  BY <1>1, InvFacts DEF Configured
<1>3. Typed' /\ Pointed'
  BY <1>1, <1>2, ReadKeeps
<1>4. Looping'
  BY <1>1, InvFacts DEF Looping
<1> QED
  BY <1>3, <1>4 DEF Inv

LEMMA DisplayChangeKeeps ==
    ASSUME Inv, DisplayChange
    PROVE  Inv'
<1>1. /\ notice' = FALSE
      /\ UNCHANGED <<driver, primary_detached, dev, sets, normal, updating, present, desk>>
  BY DEF DisplayChange, setting
<1>2. CASE updating
  <2>1. UNCHANGED <<displays, total, conf, clean, refusals, stale, main>>
    BY <1>2 DEF DisplayChange
  <2>2. Configured'
    BY <1>1, <2>1, InvFacts DEF Configured, DeskOf, ConfOf, Legal
  <2>3. Typed'
    BY <1>1, <2>1, <2>2, InvFacts, TypedIf
  <2>4. Looping'
    <3>1. Id(Device)' = Id(Device)
      BY <1>1, SameDevice
    <3>2. Looping
      BY DEF Inv
    <3> QED
      BY <1>1, <2>1, <3>1, <3>2 DEF Looping, Modes
  <2> QED
    BY <1>1, <1>2, <2>3, <2>4 DEF Inv, Pointed
<1>3. CASE ~updating
  <2>1. /\ GetDisplays
        /\ main' = IF main \in {"set size", "set position"} /\ Consistent THEN "dangling" ELSE main
    BY <1>3 DEF DisplayChange
  <2>2. Typed' /\ Pointed' /\ (~Consistent => UNCHANGED displays)
    BY <1>1, <2>1, InvFacts, ReadKeeps
  <2>3. CASE main \notin {"set size", "set position"}
    <3>1. UNCHANGED <<main, dev, present, updating>> /\ Looping
      BY <1>1, <2>1, <2>3 DEF Inv
    <3>2. Looping'
      BY <2>3, <3>1 DEF Looping
    <3> QED
      BY <2>2, <3>2 DEF Inv
  <2>4. CASE main \in {"set size", "set position"} /\ Consistent
    <3>1. main' = "dangling" /\ UNCHANGED dev
      BY <1>1, <2>1, <2>4
    <3>2. Looping'
      BY <3>1, InvFacts DEF Looping, Crashed
    <3> QED
      BY <2>2, <3>2 DEF Inv
  <2>5. CASE main \in {"set size", "set position"} /\ ~Consistent
    <3>1. UNCHANGED <<main, dev, present, updating, displays>> /\ Looping
      BY <1>1, <2>1, <2>2, <2>5 DEF Inv
    <3>2. Id(Device)' = Id(Device)
      BY <1>1, SameDevice
    <3>3. Looping'
      BY <3>1, <3>2 DEF Looping, Modes
    <3> QED
      BY <2>2, <3>3 DEF Inv
  <2> QED
    BY <2>3, <2>4, <2>5
<1> QED
  BY <1>2, <1>3

\* The user and the machine: a notice is on its way.
LEMMA OutsideKeeps ==
    ASSUME Inv, NEW new, Outside(new), present' \in (SUBSET Devices) \ {{}}, DeskOf(present', new),
           present' = present \/ main = "idle"
    PROVE  Inv'
<1>1. /\ desk' = new /\ notice' = TRUE /\ stale' = TRUE /\ Mirror(new)
      /\ UNCHANGED <<driver, primary_detached, clean, displays, total, updating, main, dev, sets,
                     normal>>
  BY DEF Outside, layout, setting
<1>2. ConfOf(conf') /\ (driver = "XPDM" => DOMAIN conf' = Devices)
  <2>1. CASE driver = "XPDM"
    <3>1. conf' = [d \in Devices |-> Kept(new[d])]
      BY <1>1, <2>1 DEF Mirror
    <3>2. \A d \in Devices : Kept(new[d]) \in Paths
      BY KeptTyped DEF DeskOf
    <3> QED
      BY <3>1, <3>2 DEF ConfOf
  <2>2. CASE driver # "XPDM"
    BY <1>1, <2>2, InvFacts DEF Mirror, Configured
  <2> QED
    BY <2>1, <2>2
<1>3. DeskOf(present, desk)'
  BY <1>1 DEF DeskOf, Legal
<1>4. ConfOf(conf)'
  BY <1>2 DEF ConfOf
<1>5. Configured'
  BY <1>1, <1>2, <1>3, <1>4, InvFacts DEF Configured
<1>6. Typed'
  BY <1>1, <1>5, InvFacts, TypedIf
<1>7. Looping'
  <2>1. CASE present' = present
    <3>1. Id(Device)' = Id(Device)
      BY <1>1, <2>1, SameDevice
    <3>2. Looping
      BY DEF Inv
    <3> QED
      BY <1>1, <2>1, <3>1, <3>2 DEF Looping, Modes
  <2>2. CASE main = "idle"
    <3>1. Looping
      BY DEF Inv
    <3> QED
      BY <1>1, <2>2, <3>1 DEF Looping
  <2> QED
    BY <2>1, <2>2
<1> QED
  BY <1>1, <1>6, <1>7 DEF Inv, Pointed

LEMMA RearrangeKeeps ==
    ASSUME Inv, Rearrange
    PROVE  Inv'
<1>1. PICK d \in present, m \in {Off} \cup {Display(p, s) : p \in Places, s \in Sizes} :
        Legal([desk EXCEPT ![d] = m]) /\ Outside([desk EXCEPT ![d] = m])
  BY DEF Rearrange
<1>2. m \in Shown
  <2>1. ASSUME NEW p \in Places, NEW s \in Sizes PROVE Display(p, s) \in Shown
    <3>1. p[1] \in Int /\ p[2] \in Int
      BY LayoutConstants
    <3> QED
      BY <3>1, ExtentFacts DEF Display, Shown
  <2> QED
    BY <2>1, OffTyped
<1> DEFINE new == [desk EXCEPT ![d] = m]
<1>3. new \in [Devices -> Shown] /\ \A e \in Devices \ present : new[e] = desk[e]
  BY <1>2, InvFacts
<1>4. \A e \in Devices \ present : ~desk[e].on
  BY InvFacts DEF Configured, DeskOf
<1>5. Legal(new) /\ Outside(new)
  BY <1>1
<1> HIDE DEF new
<1>6. DeskOf(present, new)
  BY <1>3, <1>4, <1>5 DEF DeskOf
<1>7. present' = present /\ present' \in (SUBSET Devices) \ {{}}
  BY InvFacts DEF Rearrange
<1> QED
  BY <1>5, <1>6, <1>7, OutsideKeeps

LEMMA PlugKeeps ==
    ASSUME Inv, Plug
    PROVE  Inv'
<1>1. PICK d \in Devices \ present : present' = present \cup {d}
  BY DEF Plug
<1>2. main = "idle" /\ Outside(desk)
  BY DEF Plug
<1>3. present' \in (SUBSET Devices) \ {{}}
  BY <1>1, InvFacts
<1>4. DeskOf(present', desk)
  BY <1>1, InvFacts DEF Configured, DeskOf
<1> QED
  BY <1>2, <1>3, <1>4, OutsideKeeps

LEMMA UnplugKeeps ==
    ASSUME Inv, Unplug
    PROVE  Inv'
<1>1. PICK d \in present :
        /\ present' = present \ {d} /\ present' # {}
        /\ \E new \in Reroot([desk EXCEPT ![d] = Off]) : Outside(new)
  BY DEF Unplug
<1>2. PICK new \in Reroot([desk EXCEPT ![d] = Off]) : Outside(new)
  BY <1>1
<1> DEFINE k == [desk EXCEPT ![d] = Off]
<1>3. main = "idle"
  BY DEF Unplug
<1>4. present' \in (SUBSET Devices) \ {{}}
  BY <1>1, InvFacts
<1>5. \A e \in Devices \ present : ~desk[e].on
  BY InvFacts DEF Configured, DeskOf
<1>6. k \in [Devices -> Shown] /\ \A e \in Devices \ present' : ~k[e].on
  <2>1. k \in [Devices -> Shown]
    BY InvFacts, OffTyped
  <2>2. ASSUME NEW e \in Devices \ present' PROVE ~k[e].on
    <3>1. CASE e = d
      BY <3>1, InvFacts, OffTyped
    <3>2. CASE e # d
      BY <1>1, <1>5, <3>2, InvFacts
    <3> QED
      BY <3>1, <3>2
  <2> QED
    BY <2>1, <2>2
<1>7. new \in Reroot(k)
  OBVIOUS
<1> HIDE DEF k
<1>8. DeskOf(present', new)
  BY <1>4, <1>6, <1>7, RerootTyped
<1> QED
  BY <1>2, <1>3, <1>4, <1>8, OutsideKeeps

------------------------------------------------------------------------------
LEMMA InitInv ==
    ASSUME Init
    PROVE  Inv
<1> DEFINE first == Min(present)
<1>1. present \in (SUBSET Devices) \ {{}} /\ present \subseteq Nat
  BY ExtentFacts DEF Init
<1>2. first \in present
  BY <1>1, MinOfNat
<1>3. desk = [d \in Devices |-> IF d = first THEN Display(<<0, 0>>, DefaultSize) ELSE Off]
  BY DEF Init
<1>4. conf = [d \in (IF driver = "WDDM" THEN present ELSE Devices) |-> Kept(desk[d])]
  BY DEF Init
<1> HIDE DEF first
<1>5. Display(<<0, 0>>, DefaultSize) \in Shown /\ AtOrigin(Display(<<0, 0>>, DefaultSize))
  BY ExtentFacts DEF Display, Shown, AtOrigin
<1>6. DeskOf(present, desk)
  <2>1. desk \in [Devices -> Shown]
    BY <1>3, <1>5, OffTyped
  <2>2. Legal(desk)
    BY <1>1, <1>2, <1>3, <1>5 DEF Legal
  <2>3. \A d \in Devices \ present : ~desk[d].on
    BY <1>2, <1>3, OffTyped
  <2> QED
    BY <2>1, <2>2, <2>3 DEF DeskOf
<1>7. ConfOf(conf) /\ (driver = "XPDM" => DOMAIN conf = Devices)
  <2>1. \A d \in Devices : Kept(desk[d]) \in Paths
    BY <1>6, KeptTyped DEF DeskOf
  <2> QED
    BY <1>1, <1>4, <2>1 DEF ConfOf
<1>8. Configured
  BY <1>1, <1>6, <1>7 DEF Init, Configured
<1> DEFINE t == Table(On(desk), FALSE)
<1>9. displays = Moved(t) /\ total = <<Width(displays), Height(displays)>> /\ Consistent
  BY DEF Init
<1>10. TableOf(t) /\ Mirrors(t, 0, 0)
  BY <1>8, <1>9, TableFacts, TableMirrors
<1> HIDE DEF t
<1>11. TableOf(displays) /\ total \in Nat \X Nat
  BY <1>9, <1>10, MovedFacts, CornersTyped
<1>12. Mirrors(displays, LeftEdge, TopEdge)
  BY <1>8, <1>9, <1>10, MirrorsMoved
<1>13. Width(displays) = RightEdge - LeftEdge /\ Height(displays) = BottomEdge - TopEdge
  BY <1>8, <1>11, <1>12, MirrorsCorners
<1>14. Typed
  <2>1. normal = <<0, 0>> /\ updating = FALSE /\ sets = FALSE /\ stale = FALSE
    BY DEF Init
  <2>2. <<0, 0>> \in Int \X Int
    OBVIOUS
  <2> QED
    BY <1>8, <1>11, <2>1, <2>2 DEF Typed
<1>15. Looping
  <2>1. Cardinality(Devices) \in Nat
    BY ExtentFacts, FS_CardinalityType
  <2>2. 0 \in 0 .. Cardinality(Devices)
    BY <2>1
  <2> QED
    BY <2>2 DEF Init, Looping
<1> QED
  BY <1>9, <1>12, <1>13, <1>14, <1>15 DEF Inv, Pointed, Measured

LEMMA StepKeeps ==
    ASSUME Inv, [Next]_vars
    PROVE  Inv'
<1>1. CASE Agent
  BY <1>1, BeginSetKeeps, SetStateKeeps, SetSizeKeeps, SetPositionKeeps, ApplyKeeps, RefreshKeeps
     DEF Agent
<1>2. CASE DisplayChange
  BY <1>2, DisplayChangeKeeps
<1>3. CASE \E r \in Requests : HandleMonConfig(r)
  BY <1>3, HandleMonConfigKeeps
<1>4. CASE HandleDepth
  BY <1>4, HandleDepthKeeps
<1>5. CASE Rearrange \/ Plug \/ Unplug
  BY <1>5, RearrangeKeeps, PlugKeeps, UnplugKeeps
<1>6. CASE UNCHANGED vars
  <2>1. /\ UNCHANGED <<driver, present, desk, conf, primary_detached, notice, clean>>
        /\ UNCHANGED <<displays, total, updating, main, dev, sets, normal, stale>>
    BY <1>6 DEF vars
  <2>2. Configured'
    BY <2>1, InvFacts DEF Configured, DeskOf, ConfOf, Legal
  <2>3. Typed'
    BY <2>1, <2>2, InvFacts, TypedIf
  <2>4. Looping'
    <3>1. Id(Device)' = Id(Device)
      BY <2>1, SameDevice
    <3>2. Looping
      BY DEF Inv
    <3> QED
      BY <2>1, <3>1, <3>2 DEF Looping, Modes
  <2>5. Called
    BY <2>1, InvFacts, CalledIf DEF Configured
  <2>6. Pointed'
    BY <2>1, <2>5, PointedKept DEF Inv
  <2> QED
    BY <2>3, <2>4, <2>6 DEF Inv
<1> QED
  BY <1>1, <1>2, <1>3, <1>4, <1>5, <1>6 DEF Next

LEMMA Invariance == Spec => []Inv
<1>1. Init => Inv
  BY InitInv
<1>2. Inv /\ [Next]_vars => Inv'
  BY StepKeeps
<1> QED
  BY <1>1, <1>2, PTL DEF Spec

------------------------------------------------------------------------------
\* The client's mouse is at the point of the desktop it points at, whatever the
\* client asked for, the user and the machine changed, and Windows refused
\* before the last request.
THEOREM PointerIsRight == Spec => []PointerFollows
<1>1. Inv => PointerFollows
  <2>1. SUFFICES ASSUME Inv, Settled
                 PROVE  /\ total = <<RightEdge - LeftEdge, BottomEdge - TopEdge>>
                        /\ \A d \in present :
                            /\ Id(d) \in Modes
                            /\ displays[Id(d)].attached = desk[d].on
                            /\ desk[d].on => /\ displays[Id(d)].size = desk[d].size
                                            /\ displays[Id(d)].x = desk[d].x - LeftEdge
                                            /\ displays[Id(d)].y = desk[d].y - TopEdge
    BY DEF PointerFollows
  <2>2. Measured(displays, total)
    BY <2>1 DEF Inv, Looping, Pointed, Settled
  <2> QED
    BY <2>2 DEF Measured, Mirrors, Modes
<1> QED
  BY <1>1, Invariance, PTL

\* The variables hold what they should, and Windows always has a display at the
\* origin.
THEOREM LayoutTypes == Spec => []LayoutTypeOK
<1>1. Inv => LayoutTypeOK
  <2> SUFFICES ASSUME Inv PROVE LayoutTypeOK
    OBVIOUS
  <2>1. /\ driver \in Drivers /\ present \subseteq Devices /\ present # {} /\ Legal(desk)
        /\ \A d \in Devices \ present : ~desk[d].on
        /\ DOMAIN conf \subseteq Devices /\ primary_detached \in BOOLEAN
        /\ notice \in BOOLEAN /\ clean \in BOOLEAN
    BY InvFacts DEF Configured, DeskOf, ConfOf
  <2>2. desk \in [Devices -> Kind]
    <3>1. Shown \subseteq Kind
      BY ExtentFacts DEF Shown, Kind
    <3> QED
      BY <3>1, InvFacts
  <2>3. DOMAIN displays \subseteq Nat /\ Modes # {}
    BY InvFacts DEF TableOf, Modes
  <2>4. \A i \in Modes : displays[i].attached \in BOOLEAN /\ displays[i].size \in Extents
    <3>1. \A i \in Modes : displays[i] \in Entries
      BY InvFacts, AttachedFacts DEF Modes
    <3> QED
      BY <3>1 DEF Entries
  <2> QED
    BY <2>1, <2>2, <2>3, <2>4, InvFacts DEF LayoutTypeOK, Inv, Looping, Extents
<1> QED
  BY <1>1, Invariance, PTL

------------------------------------------------------------------------------
(***************************************************************************)
(* PrimaryIsSupplied: its invariant.  Unless the displays have changed     *)
(* since they were read, the table knows which of them are at the origin.  *)
(* So set_displays either has turned off one that was, which it remembers, *)
(* or has a device it will put, or has put, at the origin.                 *)
(***************************************************************************)
Visiting == {"set state", "set size", "set position", "apply"}

Knowing(t) ==
    /\ \A d \in present : Id(d) \in DOMAIN t /\ t[Id(d)] # Gap
    /\ \A i \in DOMAIN t : t[i] # Gap =>
            (t[i].primary <=> \E d \in present : i = Id(d) /\ AtOrigin(desk[d]))

Attaching(t) == \A d \in present : t[Id(d)].attached = desk[d].on

\* The display of a device stays at the origin, or goes there.
Anchored(c, p) ==
    /\ Active(c, p) /\ c[p].x = 0 /\ c[p].y = 0
    /\ Id(p) \in Modes /\ displays[Id(p)].x = normal[1] /\ displays[Id(p)].y = normal[2]

Aligned ==
    ~stale /\ driver = "WDDM" =>
        /\ Consistent
        /\ main \in {"idle", "set displays"} \/ (~updating /\ main \notin Crashed) => Knowing(displays)
        /\ ~updating /\ main \notin Crashed => Attaching(displays)
        /\ ~updating /\ main \in Visiting => \A d \in DOMAIN conf : Active(conf, d) = desk[d].on
        /\ updating /\ main \in Visiting /\ DOMAIN conf # {} =>
                primary_detached \/ \E p \in present : Anchored(conf, p)

\* The same displays in another table.
Alike(t, u) ==
    /\ DOMAIN u = DOMAIN t
    /\ \A i \in DOMAIN t : /\ t[i] # Gap => u[i] # Gap /\ u[i].primary = t[i].primary
                           /\ t[i] = Gap => u[i] = Gap

LEMMA KnowingAlike ==
    ASSUME NEW t, NEW u, Alike(t, u), Knowing(t)
    PROVE  Knowing(u)
BY DEF Alike, Knowing

LEMMA KnowingNext ==
    ASSUME UNCHANGED <<present, desk>>
    PROVE  /\ Knowing(displays') => Knowing(displays)'
           /\ Attaching(displays') => Attaching(displays)'
<1>1. \A d : Id(d)' = Id(d)
  BY SameDevices
<1>2. ASSUME Knowing(displays') PROVE Knowing(displays)'
  <2>1. /\ \A d \in present' : Id(d)' \in DOMAIN displays' /\ displays'[Id(d)'] # Gap
        /\ \A i \in DOMAIN displays' : displays'[i] # Gap =>
              (displays'[i].primary <=> \E d \in present' : i = Id(d)' /\ AtOrigin(desk'[d]))
    BY <1>1, <1>2 DEF Knowing
  <2> QED
    BY <2>1 DEF Knowing, AtOrigin
<1>3. ASSUME Attaching(displays') PROVE Attaching(displays)'
  <2>1. \A d \in present' : displays'[Id(d)'].attached = desk'[d].on
    BY <1>1, <1>3 DEF Attaching
  <2> QED
    BY <2>1 DEF Attaching
<1> QED
  BY <1>2, <1>3

\* What get_displays reads the table knows.
LEMMA TableKnows ==
    ASSUME Configured, Consistent, NEW old \in BOOLEAN
    PROVE  LET t == Table(On(desk), old)
           IN  TableOf(t) /\ Knowing(Moved(t)) /\ Attaching(Moved(t))
<1> DEFINE t == Table(On(desk), old)
<1>1. /\ TableOf(t)
      /\ \A d \in present : Id(d) \in DOMAIN t /\ t[Id(d)] = DisplayMode(Given(d, old), d \in On(desk))
      /\ \A i \in DOMAIN t : t[i] # Gap => \E d \in present : i = Id(d)
  BY TableFacts
<1>2. \A d, e \in present : Id(d) = Id(e) => d = e
  BY IdFacts DEF Configured
<1>3. ASSUME NEW d \in present
      PROVE  t[Id(d)] # Gap /\ t[Id(d)].attached = desk[d].on /\ (t[Id(d)].primary <=> AtOrigin(desk[d]))
  <2>1. desk[d] \in Shown /\ Given(d, old) \in Shown /\ (desk[d].on => Given(d, old) = desk[d])
    BY GivenTyped DEF Configured, DeskOf
  <2>2. desk[d].on \in BOOLEAN
    BY <2>1 DEF Shown
  <2>3. (d \in On(desk)) = desk[d].on
    BY <2>2 DEF On, Configured, DeskOf
  <2>4. t[Id(d)] = DisplayMode(Given(d, old), desk[d].on)
    BY <1>1, <2>3
  <2> HIDE DEF t
  <2>5. /\ t[Id(d)] \in Entries /\ t[Id(d)].attached = desk[d].on
        /\ t[Id(d)].primary = (desk[d].on /\ Given(d, old).x = 0 /\ Given(d, old).y = 0)
    BY <2>1, <2>2, <2>4, DisplayModeTyped
  <2> QED
    BY <2>1, <2>2, <2>5, EntryIsNoGap DEF AtOrigin
<1> HIDE DEF t
<1>4. Knowing(t)
  BY <1>1, <1>2, <1>3 DEF Knowing
<1>5. Alike(t, Moved(t))
  BY <1>1, MovedFacts DEF Alike
<1>6. Attaching(Moved(t))
  BY <1>1, <1>3, MovedFacts DEF Attaching
<1> QED
  BY <1>1, <1>4, <1>5, <1>6, KnowingAlike DEF t

\* Reading the displays makes the table fresh.
LEMMA ReadKnows ==
    ASSUME Configured, Consistent, GetDisplays, ~stale', driver = "WDDM", UNCHANGED <<present, desk>>
    PROVE  /\ Knowing(displays)' /\ Attaching(displays)' /\ Consistent'
           /\ \A d \in DOMAIN conf' : Active(conf', d) = desk[d].on
<1>1. DOMAIN conf' # {}
  BY DEF GetDisplays
<1>2. PICK old \in BOOLEAN : Normalized(Table(On(desk), old))
  BY <1>1, ReadTable
<1>3. displays' = Moved(Table(On(desk), old))
  BY <1>2 DEF Normalized
<1>4. Knowing(displays') /\ Attaching(displays')
  BY <1>3, TableKnows
<1>5. PICK known \in BOOLEAN : conf' = [d \in present |-> Path(d, known)]
  BY <1>1, ReadTable
<1>6. ASSUME NEW d \in DOMAIN conf' PROVE Active(conf', d) = desk[d].on
  <2>1. d \in present /\ conf'[d] = Path(d, known)
    BY <1>5
  <2>2. Path(d, known).on = desk[d].on /\ (desk[d].on => Path(d, known).known)
    BY <2>1, PathTyped DEF Configured, DeskOf
  <2>3. desk[d].on \in BOOLEAN
    <3>1. desk[d] \in Shown
      BY <2>1 DEF Configured, DeskOf
    <3> QED
      BY <3>1 DEF Shown
  <2> QED
    BY <2>1, <2>2, <2>3 DEF Active
<1> QED
  BY <1>4, <1>6, KnowingNext, SameDevices

LEMMA AnchoredNext ==
    ASSUME UNCHANGED <<present, normal>>, NEW p \in present, Anchored(conf, p),
           Active(conf', p), conf'[p].x = 0, conf'[p].y = 0,
           Id(p) \in DOMAIN displays', displays'[Id(p)] # Gap,
           displays'[Id(p)].x = displays[Id(p)].x, displays'[Id(p)].y = displays[Id(p)].y
    PROVE  Anchored(conf, p)'
<1>1. Id(p)' = Id(p)
  BY SameDevices
<1>2. Active(conf, p)'
  BY DEF Active
<1>3. displays[Id(p)].x = normal[1] /\ displays[Id(p)].y = normal[2]
  BY DEF Anchored
<1>4. conf'[p].x = 0 /\ conf'[p].y = 0 /\ Id(p)' \in Modes'
  BY <1>1 DEF Modes
<1>5. displays'[Id(p)'].x = normal'[1] /\ displays'[Id(p)'].y = normal'[2]
  BY <1>1, <1>3
<1> QED
  BY <1>2, <1>4, <1>5 DEF Anchored

\* Steps that change none of it.
LEMMA AlignedKept ==
    ASSUME Aligned,
           UNCHANGED <<driver, stale, present, desk, conf, primary_detached, displays, updating>>,
           main' \in {"idle", "set displays"} => main \in {"idle", "set displays"} \/ ~updating,
           main' \notin Crashed => main \notin Crashed,
           main' \in Visiting => main \in Visiting /\ normal' = normal
    PROVE  Aligned'
<1>1. SUFFICES ASSUME ~stale', driver' = "WDDM"
               PROVE  /\ Consistent'
                      /\ main' \in {"idle", "set displays"} \/ (~updating' /\ main' \notin Crashed)
                            => Knowing(displays)'
                      /\ ~updating' /\ main' \notin Crashed => Attaching(displays)'
                      /\ ~updating' /\ main' \in Visiting =>
                            \A d \in DOMAIN conf' : Active(conf, d)' = desk'[d].on
                      /\ updating' /\ main' \in Visiting /\ DOMAIN conf' # {} =>
                            primary_detached' \/ \E p \in present' : Anchored(conf, p)'
  BY DEF Aligned, Crashed
<1>2. ~stale /\ driver = "WDDM"
  BY <1>1
<1>3. Consistent'
  BY <1>2, SameDevices DEF Aligned
<1>4. Knowing(displays) => Knowing(displays)'
  BY KnowingNext
<1>5. Attaching(displays) => Attaching(displays)'
  BY KnowingNext
<1>6. \A d : Active(conf, d)' = Active(conf, d)
  BY DEF Active
<1>7. ASSUME NEW p \in present, Anchored(conf, p), normal' = normal PROVE Anchored(conf, p)'
  BY <1>7, AnchoredNext DEF Anchored, Modes
<1>8. main' \in {"idle", "set displays"} => main' \notin Crashed
  BY DEF Crashed
<1> QED
  BY <1>2, <1>3, <1>4, <1>5, <1>6, <1>7, <1>8 DEF Aligned

LEMMA HandleMonConfigAligned ==
    ASSUME Inv, Aligned, NEW r \in Requests, HandleMonConfig(r)
    PROVE  Aligned'
<1>1. /\ UNCHANGED <<driver, stale, present, desk>> /\ main = "idle" /\ updating' = TRUE
      /\ main' \in {"set displays", "refresh"}
      /\ displays' = [i \in DOMAIN displays |-> Wanted(i, r)]
  BY DEF HandleMonConfig, config
<1>2. SUFFICES ASSUME ~stale, driver = "WDDM" PROVE Consistent' /\ Knowing(displays)'
  BY <1>1 DEF Aligned, Visiting
<1>3. Consistent /\ Knowing(displays)
  BY <1>1, <1>2 DEF Aligned
<1>4. Alike(displays, displays')
  <2>1. \A i \in DOMAIN displays :
          /\ displays[i] # Gap => Wanted(i, r) # Gap /\ Wanted(i, r).primary = displays[i].primary
          /\ displays[i] = Gap => Wanted(i, r) = Gap
    BY InvFacts, WantedTyped, EntryIsNoGap
  <2> QED
    BY <1>1, <2>1 DEF Alike
<1> QED
  BY <1>1, <1>3, <1>4, KnowingAlike, KnowingNext, SameDevices

LEMMA HandleDepthAligned ==
    ASSUME Inv, Aligned, HandleDepth
    PROVE  Aligned'
<1>1. /\ UNCHANGED <<driver, stale, present, desk, conf, primary_detached, displays, updating>>
      /\ main = "idle" /\ main' = "set displays"
  BY DEF HandleDepth, config, layout
<1> QED
  BY <1>1, AlignedKept DEF Visiting, Crashed

LEMMA BeginSetAligned ==
    ASSUME Inv, Aligned, BeginSet
    PROVE  Aligned'
<1>1. /\ UNCHANGED <<driver, present, primary_detached, desk, displays, updating, stale>>
      /\ main = "set displays"
  BY DEF BeginSet, layout
<1>2. SUFFICES ASSUME ~stale, driver = "WDDM" PROVE Aligned'
  BY <1>1 DEF Aligned
<1>3. Consistent /\ Knowing(displays) /\ (~updating => Attaching(displays))
  BY <1>1, <1>2 DEF Aligned, Crashed
<1>4. UpdateConfigPath /\ main' = "set state"
  BY <1>3 DEF BeginSet
<1>5. /\ Consistent' /\ Knowing(displays)' /\ (~updating' => Attaching(displays)')
  BY <1>1, <1>3, KnowingNext, SameDevices
<1>6. DOMAIN conf' = {} \/ \E known \in BOOLEAN : conf' = [d \in present |-> Path(d, known)]
  BY <1>2, <1>4 DEF UpdateConfigPath, NoPaths
<1>7. CASE DOMAIN conf' = {}
  BY <1>1, <1>4, <1>5, <1>7 DEF Aligned
<1>8. CASE \E known \in BOOLEAN : conf' = [d \in present |-> Path(d, known)]
  <2>1. PICK known \in BOOLEAN : conf' = [d \in present |-> Path(d, known)]
    BY <1>8
  <2>2. ASSUME NEW d \in present
        PROVE  /\ d \in DOMAIN conf' /\ d \in Devices /\ Active(conf, d)' = desk'[d].on
               /\ conf'[d].x = desk[d].x /\ conf'[d].y = desk[d].y
    <3>1. /\ Path(d, known).on = desk[d].on /\ (desk[d].on => Path(d, known).known)
          /\ Path(d, known).x = desk[d].x /\ Path(d, known).y = desk[d].y
      BY InvFacts, PathTyped
    <3>2. d \in DOMAIN conf' /\ d \in Devices /\ conf'[d] = Path(d, known)
      BY <2>1, InvFacts
    <3>3. desk[d].on \in BOOLEAN
      <4>1. desk[d] \in Shown
        BY <3>2, InvFacts
      <4> QED
        BY <4>1 DEF Shown
    <3> QED
      BY <1>1, <3>1, <3>2, <3>3 DEF Active
  <2>3. \E p \in present' : Anchored(conf, p)'
    <3>1. PICK o \in Devices : AtOrigin(desk[o])
      BY InvFacts DEF Configured, DeskOf, Legal
    <3>2. o \in present
      BY <3>1, InvFacts DEF Configured, DeskOf, AtOrigin
    <3>3. Id(o) \in Primaries
      BY <1>3, <3>1, <3>2 DEF Knowing, Primaries, Modes
    <3> DEFINE i == Min(Primaries)
    <3>4. i \in Primaries
      <4>1. Primaries \subseteq Nat
        BY InvFacts DEF Primaries, Modes, TableOf
      <4> QED
        BY <3>3, <4>1, MinOfNat
    <3>5. normal' = <<displays[i].x, displays[i].y>>
      BY <1>3, <3>3 DEF BeginSet
    <3> HIDE DEF i
    <3>6. PICK p \in present : i = Id(p) /\ AtOrigin(desk[p])
      BY <1>3, <3>4 DEF Knowing, Primaries, Modes
    <3>7. Id(p)' = Id(p)
      BY <1>1, SameDevices
    <3>8. /\ Active(conf, p)' /\ conf'[p].x = 0 /\ conf'[p].y = 0
          /\ Id(p)' \in Modes' /\ displays'[Id(p)'].x = normal'[1] /\ displays'[Id(p)'].y = normal'[2]
      BY <1>1, <2>2, <3>4, <3>5, <3>6, <3>7 DEF Primaries, Modes, AtOrigin
    <3>9. Anchored(conf, p)'
      BY <3>8 DEF Anchored
    <3> QED
      BY <1>1, <3>9
  <2>4. \A d \in DOMAIN conf' : Active(conf, d)' = desk'[d].on
    BY <2>1, <2>2
  <2> QED
    BY <1>1, <1>4, <1>5, <2>3, <2>4 DEF Aligned
<1> QED
  BY <1>6, <1>7, <1>8

\* A step of the loop over the devices.
LEMMA AlignedVisit ==
    ASSUME Inv, Aligned, main \in Visiting, main' \in Visiting \cup Crashed,
           UNCHANGED <<driver, stale, present, updating, normal>>,
           driver = "WDDM" /\ ~stale =>
              /\ ~updating /\ main' \notin Crashed =>
                    /\ desk' = desk /\ Knowing(displays') /\ Attaching(displays')
                    /\ \A d \in DOMAIN conf' : Active(conf', d) = desk[d].on
              /\ updating /\ main' \in Visiting /\ DOMAIN conf' # {} =>
                    primary_detached' \/ \E p \in present : Anchored(conf, p)'
    PROVE  Aligned'
<1>1. SUFFICES ASSUME ~stale, driver = "WDDM" PROVE Aligned'
  BY DEF Aligned
<1>2. main' \notin {"idle", "set displays"}
  BY DEF Visiting, Crashed
<1>3. Consistent'
  BY <1>1, SameDevices DEF Aligned
<1>4. CASE updating
  BY <1>1, <1>2, <1>3, <1>4 DEF Aligned
<1>5. CASE ~updating /\ main' \in Crashed
  BY <1>2, <1>3, <1>5 DEF Aligned, Visiting, Crashed
<1>6. CASE ~updating /\ main' \notin Crashed
  <2>1. Knowing(displays)' /\ Attaching(displays)' /\ desk' = desk
    BY <1>1, <1>6, KnowingNext
  <2>2. \A d \in DOMAIN conf' : Active(conf, d)' = desk'[d].on
    BY <1>1, <1>6 DEF Active
  <2> QED
    BY <1>3, <1>6, <2>1, <2>2 DEF Aligned
<1> QED
  BY <1>4, <1>5, <1>6

LEMMA AnchoredElsewhere ==
    ASSUME UNCHANGED <<present, normal, displays>>, NEW p \in present, Anchored(conf, p),
           NEW d, d # p, NEW m, conf' = [conf EXCEPT ![d] = m]
    PROVE  Anchored(conf, p)'
<1>1. conf'[p] = conf[p] /\ DOMAIN conf' = DOMAIN conf /\ Active(conf', p)
  BY DEF Anchored, Active
<1> QED
  BY <1>1, AnchoredNext DEF Anchored, Modes

LEMMA SetStateAligned ==
    ASSUME Inv, Aligned, SetState
    PROVE  Aligned'
<1>1. UNCHANGED <<driver, dev, sets, normal, displays, total, stale, updating, present>>
  BY DEF SetState, setting, layout
<1>2. main = "set state" /\ dev <= Cardinality(present)
  BY DEF SetState, Inv, Looping
<1>3. CASE dev = Cardinality(present) \/ Id(Device) \notin DOMAIN displays
  <2>1. UNCHANGED <<conf, primary_detached, desk>> /\ main' = "apply"
    BY <1>3 DEF SetState
  <2> QED
    BY <1>1, <1>2, <2>1, AlignedKept DEF Visiting, Crashed
<1>4. CASE ~(dev = Cardinality(present) \/ Id(Device) \notin DOMAIN displays)
  <2> DEFINE d == Device
             on == Mode # Gap /\ Mode.attached
  <2>1. /\ SetMonitorState(d, on)
        /\ main' \in {"null", "set size", "set position"}
    BY <1>4 DEF SetState
  <2>2. d \in present
    BY <1>2, <1>4, DevBound, InvFacts, VisitedFacts DEF Device
  <2>3. on \in BOOLEAN
    OBVIOUS
  <2>4. main \in Visiting /\ main' \in Visiting \cup Crashed
    BY <1>2, <2>1 DEF Visiting, Crashed
  <2>5. ASSUME driver = "WDDM", ~stale
        PROVE  /\ ~updating /\ main' \notin Crashed =>
                    /\ desk' = desk /\ Knowing(displays') /\ Attaching(displays')
                    /\ \A e \in DOMAIN conf' : Active(conf', e) = desk[e].on
               /\ updating /\ main' \in Visiting /\ DOMAIN conf' # {} =>
                    primary_detached' \/ \E p \in present : Anchored(conf, p)'
    <3>1. SetPathState(d, on)
      BY <2>1, <2>5 DEF SetMonitorState
    <3>2. CASE ~updating
      <4>1. Knowing(displays) /\ Attaching(displays) /\ \A e \in DOMAIN conf : Active(conf, e) = desk[e].on
        BY <1>2, <2>4, <2>5, <3>2 DEF Aligned, Crashed
      <4>2. on = desk[d].on
        <5>1. Mode # Gap /\ Mode.attached = desk[d].on
          BY <2>2, <4>1 DEF Knowing, Attaching, Mode
        <5>2. desk[d].on \in BOOLEAN
          <6>1. desk[d] \in Shown
            BY <2>2, InvFacts
          <6> QED
            BY <6>1 DEF Shown
        <5> HIDE DEF d
        <5> QED
          BY <5>1, <5>2
      <4>3. d \in DOMAIN conf => Active(conf, d) = on
        BY <4>1, <4>2
      <4> HIDE DEF d, on
      <4>4. UNCHANGED <<conf, desk>>
        BY <2>3, <3>1, <4>3 DEF SetPathState, Active
      <4> QED
        BY <1>1, <3>2, <4>1, <4>4
    <3>3. CASE updating
      <4>1. SUFFICES ASSUME main' \in Visiting, DOMAIN conf' # {}
                     PROVE  primary_detached' \/ \E p \in present : Anchored(conf, p)'
        BY <3>3
      <4> HIDE DEF d, on
      <4>2. DOMAIN conf # {}
        BY <3>1, <4>1 DEF SetPathState
      <4>3. primary_detached \/ \E p \in present : Anchored(conf, p)
        BY <2>4, <2>5, <3>3, <1>2, <4>2 DEF Aligned, Visiting
      <4>4. primary_detached => primary_detached'
        BY <3>1 DEF SetPathState
      <4>5. ASSUME NEW p \in present, Anchored(conf, p), ~primary_detached'
            PROVE  Anchored(conf, p)'
        <5>1. CASE UNCHANGED conf
          BY <1>1, <4>5, <5>1, AnchoredNext DEF Anchored, Modes
        <5>2. CASE /\ Active(conf, d) /\ conf' = [conf EXCEPT ![d].on = FALSE]
                   /\ primary_detached' = (primary_detached \/ PrimaryGoes(d))
          <6>1. d # p
            BY <4>5, <5>2 DEF PrimaryGoes, Anchored
          <6> QED
            BY <1>1, <4>5, <5>2, <6>1, AnchoredElsewhere
        <5>3. CASE ~Active(conf, d) /\ conf' = [conf EXCEPT ![d].on = TRUE]
          <6>1. d # p
            BY <4>5, <5>3 DEF Anchored
          <6> QED
            BY <1>1, <4>5, <5>3, <6>1, AnchoredElsewhere
        <5> QED
          BY <3>1, <5>1, <5>2, <5>3 DEF SetPathState
      <4> QED
        BY <4>3, <4>4, <4>5
    <3> QED
      BY <3>2, <3>3
  <2> QED
    BY <1>1, <2>4, <2>5, AlignedVisit
<1> QED
  BY <1>3, <1>4

LEMMA SetSizeAligned ==
    ASSUME Inv, Aligned, SetSize
    PROVE  Aligned'
<1>1. UNCHANGED <<driver, dev, sets, normal, total, stale, updating, present>> /\ main = "set size"
  BY DEF SetSize, setting
<1>2. dev < Cardinality(present) /\ Id(Device) \in Modes
  BY <1>1 DEF Inv, Looping
<1>3. Mode \in Entries
  BY <1>2, ModeFacts
<1> DEFINE d == Device
           i == Id(Device)
<1>4. PICK got \in Sizes, ok \in BOOLEAN :
        /\ CustomDisplayEscape(d, Mode.size, ok, got)
        /\ displays' = [displays EXCEPT ![i].size = got] \/ UNCHANGED displays
        /\ main' \in {"set position", "apply"}
  BY DEF SetSize
<1>5. i \in DOMAIN displays /\ displays[i] \in Entries /\ got \in Extents
  BY <1>2, <1>3, ExtentFacts DEF Modes, Mode
<1> HIDE DEF d, i
<1>6. /\ DOMAIN displays' = DOMAIN displays
      /\ \A j \in DOMAIN displays : /\ displays[j] # Gap =>
                                        /\ displays'[j] # Gap
                                        /\ displays'[j].primary = displays[j].primary
                                        /\ displays'[j].attached = displays[j].attached
                                        /\ displays'[j].x = displays[j].x
                                        /\ displays'[j].y = displays[j].y
                                    /\ displays[j] = Gap => displays'[j] = Gap
  <2>1. CASE UNCHANGED displays
    BY <2>1
  <2>2. CASE displays' = [displays EXCEPT ![i].size = got]
    <3> DEFINE m == [displays[i] EXCEPT !.size = got]
    <3>1. /\ m \in Entries /\ m.primary = displays[i].primary /\ m.attached = displays[i].attached
          /\ m.x = displays[i].x /\ m.y = displays[i].y
      BY <1>5 DEF Entries
    <3>2. displays' = [displays EXCEPT ![i] = m]
      BY <2>2
    <3>3. m # Gap /\ displays[i] # Gap
      BY <1>5, <3>1, EntryIsNoGap
    <3> HIDE DEF m
    <3> QED
      BY <1>5, <3>1, <3>2, <3>3
  <2> QED
    BY <1>4, <2>1, <2>2
<1>7. main \in Visiting /\ main' \in Visiting \cup Crashed /\ main \notin Crashed
  BY <1>1, <1>4 DEF Visiting, Crashed
<1>8. ASSUME driver = "WDDM", ~stale
      PROVE  /\ ~updating /\ main' \notin Crashed =>
                    /\ desk' = desk /\ Knowing(displays') /\ Attaching(displays')
                    /\ \A e \in DOMAIN conf' : Active(conf', e) = desk[e].on
             /\ updating /\ main' \in Visiting /\ DOMAIN conf' # {} =>
                    primary_detached' \/ \E p \in present : Anchored(conf, p)'
  <2>1. EscapeWDDM(d, Mode.size, ok) /\ UNCHANGED primary_detached
    BY <1>4, <1>8 DEF CustomDisplayEscape
  <2>2. /\ desk' = desk /\ DOMAIN conf' = DOMAIN conf
        /\ \A e \in DOMAIN conf : /\ conf'[e].on = conf[e].on /\ conf'[e].known = conf[e].known
                                  /\ conf'[e].x = conf[e].x /\ conf'[e].y = conf[e].y
    <3>1. CASE UNCHANGED conf
      BY <2>1, <3>1 DEF EscapeWDDM
    <3>2. CASE Active(conf, d) /\ conf' = [conf EXCEPT ![d].size = Mode.size]
      <4>1. d \in DOMAIN conf
        BY <3>2 DEF Active
      <4> DEFINE m == [conf[d] EXCEPT !.size = Mode.size]
      <4>2. m.on = conf[d].on /\ m.known = conf[d].known /\ m.x = conf[d].x /\ m.y = conf[d].y
        <5>1. conf[d] \in Paths
          BY <4>1, InvFacts DEF Configured, ConfOf
        <5> QED
          BY <5>1 DEF Paths
      <4>3. conf' = [conf EXCEPT ![d] = m]
        BY <3>2
      <4> HIDE DEF m
      <4> QED
        BY <2>1, <4>1, <4>2, <4>3 DEF EscapeWDDM
    <3> QED
      BY <2>1, <3>1, <3>2 DEF EscapeWDDM
  <2>3. \A e : Active(conf', e) = Active(conf, e)
    BY <2>2 DEF Active
  <2>4. CASE ~updating
    <3>1. Knowing(displays) /\ Attaching(displays) /\ \A e \in DOMAIN conf : Active(conf, e) = desk[e].on
      BY <1>7, <1>8, <2>4 DEF Aligned
    <3>2. Knowing(displays')
      BY <1>6, <3>1, KnowingAlike DEF Alike
    <3>3. Attaching(displays')
      BY <1>6, <3>1 DEF Attaching, Knowing
    <3> QED
      BY <2>2, <2>3, <2>4, <3>1, <3>2, <3>3
  <2>5. CASE updating
    <3>1. SUFFICES ASSUME DOMAIN conf # {}
                   PROVE  primary_detached' \/ \E p \in present : Anchored(conf, p)'
      BY <2>2, <2>5
    <3>2. primary_detached \/ \E p \in present : Anchored(conf, p)
      BY <1>7, <1>8, <2>5, <3>1 DEF Aligned
    <3>3. ASSUME NEW p \in present, Anchored(conf, p) PROVE Anchored(conf, p)'
      <4>1. p \in DOMAIN conf /\ Active(conf', p) /\ conf'[p].x = 0 /\ conf'[p].y = 0
        BY <2>2, <2>3, <3>3 DEF Anchored, Active
      <4>2. /\ Id(p) \in DOMAIN displays' /\ displays'[Id(p)] # Gap
            /\ displays'[Id(p)].x = displays[Id(p)].x /\ displays'[Id(p)].y = displays[Id(p)].y
        BY <1>6, <3>3 DEF Anchored, Modes
      <4> QED
        BY <1>1, <3>3, <4>1, <4>2, AnchoredNext
    <3> QED
      BY <2>1, <3>2, <3>3
  <2> QED
    BY <2>4, <2>5
<1> QED
  BY <1>1, <1>7, <1>8, AlignedVisit

LEMMA SetPositionAligned ==
    ASSUME Inv, Aligned, SetPosition
    PROVE  Aligned'
<1>1. UNCHANGED <<driver, normal, displays, total, stale, updating, present>>
      /\ main = "set position" /\ main' = "set state"
  BY DEF SetPosition, layout
<1>2. dev < Cardinality(present) /\ Id(Device) \in Modes
  BY <1>1 DEF Inv, Looping
<1> DEFINE d == Device
           x == Mode.x - normal[1]
           y == Mode.y - normal[2]
<1>3. PICK ok \in BOOLEAN : UpdateDevModePosition(d, Mode.attached, x, y, ok)
  BY DEF SetPosition
<1>4. main \in Visiting /\ main' \in Visiting \cup Crashed /\ main \notin Crashed
  BY <1>1 DEF Visiting, Crashed
<1>5. /\ Mode.x = normal[1] => x = 0
      /\ Mode.y = normal[2] => y = 0
  <2>1. Mode \in Entries
    BY <1>2, ModeFacts
  <2>2. Mode.x \in Int /\ Mode.y \in Int
    BY <2>1 DEF Entries
  <2> QED
    BY <2>2
<1> HIDE DEF x, y
<1>6. ASSUME driver = "WDDM", ~stale
      PROVE  /\ ~updating /\ main' \notin Crashed =>
                    /\ desk' = desk /\ Knowing(displays') /\ Attaching(displays')
                    /\ \A e \in DOMAIN conf' : Active(conf', e) = desk[e].on
             /\ updating /\ main' \in Visiting /\ DOMAIN conf' # {} =>
                    primary_detached' \/ \E p \in present : Anchored(conf, p)'
  <2>1. /\ UNCHANGED <<primary_detached, desk>>
        /\ UNCHANGED conf \/ (Active(conf, d) /\ conf' = [conf EXCEPT ![d].x = x, ![d].y = y])
    BY <1>3, <1>6 DEF UpdateDevModePosition
  <2>2. /\ DOMAIN conf' = DOMAIN conf
        /\ \A e \in DOMAIN conf : /\ conf'[e].on = conf[e].on /\ conf'[e].known = conf[e].known
                                  /\ e # d => conf'[e] = conf[e]
                                  /\ conf'[e] = conf[e] \/ (conf'[e].x = x /\ conf'[e].y = y)
    <3>1. CASE UNCHANGED conf
      BY <3>1
    <3>2. CASE Active(conf, d) /\ conf' = [conf EXCEPT ![d].x = x, ![d].y = y]
      <4> HIDE DEF d
      <4>1. d \in DOMAIN conf
        BY <3>2 DEF Active
      <4> DEFINE m == [conf[d] EXCEPT !.x = x, !.y = y]
      <4>2. m.on = conf[d].on /\ m.known = conf[d].known /\ m.x = x /\ m.y = y
        <5>1. conf[d] \in Paths
          BY <4>1, InvFacts DEF Configured, ConfOf
        <5> QED
          BY <5>1 DEF Paths
      <4>3. conf' = [conf EXCEPT ![d] = m]
        BY <3>2
      <4> HIDE DEF m
      <4> QED
        BY <4>1, <4>2, <4>3
    <3> QED
      BY <2>1, <3>1, <3>2
  <2>3. \A e : Active(conf', e) = Active(conf, e)
    BY <2>2 DEF Active
  <2>4. CASE ~updating
    <3>1. Knowing(displays) /\ Attaching(displays) /\ \A e \in DOMAIN conf : Active(conf, e) = desk[e].on
      BY <1>4, <1>6, <2>4 DEF Aligned
    <3> QED
      BY <1>1, <2>1, <2>2, <2>3, <2>4, <3>1
  <2>5. CASE updating
    <3>1. SUFFICES ASSUME DOMAIN conf # {}
                   PROVE  primary_detached' \/ \E p \in present : Anchored(conf, p)'
      BY <2>2, <2>5
    <3>2. primary_detached \/ \E p \in present : Anchored(conf, p)
      BY <1>4, <1>6, <2>5, <3>1 DEF Aligned
    <3>3. ASSUME NEW p \in present, Anchored(conf, p) PROVE Anchored(conf, p)'
      <4>1. p \in DOMAIN conf /\ Active(conf', p) /\ conf[p].x = 0 /\ conf[p].y = 0
        BY <2>3, <3>3 DEF Anchored, Active
      <4>2. conf'[p].x = 0 /\ conf'[p].y = 0
        <5>1. CASE p = d
          <6>1. Mode.x = normal[1] /\ Mode.y = normal[2]
            BY <3>3, <5>1 DEF Anchored, Mode
          <6> QED
            BY <1>5, <2>2, <4>1, <6>1
        <5>2. CASE p # d
          BY <2>2, <4>1, <5>2
        <5> QED
          BY <5>1, <5>2
      <4>3. /\ Id(p) \in DOMAIN displays' /\ displays'[Id(p)] # Gap
            /\ displays'[Id(p)].x = displays[Id(p)].x /\ displays'[Id(p)].y = displays[Id(p)].y
        BY <1>1, <3>3 DEF Anchored, Modes
      <4> QED
        BY <1>1, <3>3, <4>1, <4>2, <4>3, AnchoredNext
    <3> QED
      BY <2>1, <3>2, <3>3
  <2> QED
    BY <2>4, <2>5
<1> QED
  BY <1>1, <1>4, <1>6, AlignedVisit

LEMMA ApplyAligned ==
    ASSUME Inv, Aligned, Apply
    PROVE  Aligned'
<1>1. /\ UNCHANGED <<driver, present, updating>> /\ main = "apply" /\ main' = Done
      /\ stale' = (stale \/ desk' # desk)
      /\ displays' = Moved(displays) \/ UNCHANGED displays
  BY DEF Apply, Normalized
<1>2. SUFFICES ASSUME ~stale, desk' = desk, driver = "WDDM" PROVE Aligned'
  BY <1>1 DEF Aligned
<1>3. Consistent'
  BY <1>1, <1>2, SameDevices DEF Aligned
<1>4. CASE updating
  BY <1>1, <1>3, <1>4 DEF Done, Aligned, Visiting
<1>5. CASE ~updating
  <2>1. Knowing(displays) /\ Attaching(displays)
    BY <1>1, <1>2, <1>5 DEF Aligned, Crashed
  <2>2. Knowing(displays') /\ Attaching(displays')
    <3>1. CASE UNCHANGED displays
      BY <2>1, <3>1
    <3>2. CASE displays' = Moved(displays)
      <4>1. Alike(displays, Moved(displays))
        BY InvFacts, MovedFacts DEF Alike
      <4>2. Attaching(Moved(displays))
        BY <2>1, InvFacts, MovedFacts DEF Knowing, Attaching
      <4> QED
        BY <2>1, <3>2, <4>1, <4>2, KnowingAlike
    <3> QED
      BY <1>1, <3>1, <3>2
  <2>3. Knowing(displays)' /\ Attaching(displays)'
    BY <1>1, <1>2, <2>2, KnowingNext
  <2>4. main' = "idle" /\ ~updating'
    BY <1>1, <1>5 DEF Done
  <2> QED
    BY <1>3, <2>3, <2>4 DEF Aligned, Visiting
<1> QED
  BY <1>4, <1>5

LEMMA RefreshAligned ==
    ASSUME Inv, Aligned, Refresh
    PROVE  Aligned'
<1>1. GetDisplays /\ updating' = FALSE /\ main' = "idle" /\ UNCHANGED <<driver, present, desk>>
  BY DEF Refresh
<1>2. SUFFICES ASSUME ~stale', driver = "WDDM" PROVE Aligned'
  BY <1>1 DEF Aligned
<1>3. Consistent
  BY <1>1, <1>2 DEF GetDisplays, Aligned
<1>4. Knowing(displays)' /\ Attaching(displays)' /\ Consistent'
  BY <1>1, <1>2, <1>3, InvFacts, ReadKnows
<1> QED
  BY <1>1, <1>4 DEF Aligned, Visiting

LEMMA DisplayChangeAligned ==
    ASSUME Inv, Aligned, DisplayChange
    PROVE  Aligned'
<1>1. UNCHANGED <<driver, primary_detached, normal, updating, present, desk>> /\ main \notin Crashed
  BY DEF DisplayChange, setting
<1>2. CASE updating
  <2>1. UNCHANGED <<displays, conf, stale, main>>
    BY <1>2 DEF DisplayChange
  <2> QED
    BY <1>1, <2>1, AlignedKept
<1>3. CASE ~updating
  <2>1. GetDisplays
    BY <1>3 DEF DisplayChange
  <2>2. SUFFICES ASSUME ~stale', driver = "WDDM" PROVE Aligned'
    BY <1>1 DEF Aligned
  <2>3. Consistent
    BY <2>1, <2>2 DEF GetDisplays, Aligned
  <2>4. /\ Knowing(displays)' /\ Attaching(displays)' /\ Consistent'
        /\ \A d \in DOMAIN conf' : Active(conf', d) = desk[d].on
    BY <1>1, <2>1, <2>2, <2>3, InvFacts, ReadKnows
  <2>5. \A d \in DOMAIN conf' : Active(conf, d)' = desk'[d].on
    BY <1>1, <2>4 DEF Active
  <2> QED
    BY <1>1, <1>3, <2>4, <2>5 DEF Aligned
<1> QED
  BY <1>2, <1>3

LEMMA InitAligned ==
    ASSUME Init
    PROVE  Aligned
<1>1. Configured /\ Consistent
  BY InitInv, InvFacts DEF Init
<1>2. displays = Moved(Table(On(desk), FALSE)) /\ main = "idle"
  BY DEF Init
<1>3. Knowing(displays) /\ Attaching(displays)
  BY <1>1, <1>2, TableKnows
<1> QED
  BY <1>1, <1>2, <1>3 DEF Aligned, Visiting

LEMMA StepAligned ==
    ASSUME Inv, Aligned, [Next]_vars
    PROVE  Aligned'
<1>1. CASE Agent
  BY <1>1, BeginSetAligned, SetStateAligned, SetSizeAligned, SetPositionAligned, ApplyAligned,
     RefreshAligned DEF Agent
<1>2. CASE DisplayChange
  BY <1>2, DisplayChangeAligned
<1>3. CASE \E r \in Requests : HandleMonConfig(r)
  BY <1>3, HandleMonConfigAligned
<1>4. CASE HandleDepth
  BY <1>4, HandleDepthAligned
<1>5. CASE Rearrange \/ Plug \/ Unplug
  <2>1. \E new : Outside(new)
    <3>1. CASE Rearrange
      BY <3>1 DEF Rearrange
    <3>2. CASE Plug
      BY <3>2 DEF Plug
    <3>3. CASE Unplug
      BY <3>3 DEF Unplug
    <3> QED
      BY <1>5, <3>1, <3>2, <3>3
  <2>2. stale' = TRUE
    BY <2>1 DEF Outside
  <2> QED
    BY <2>2 DEF Aligned
<1>6. CASE UNCHANGED vars
  <2>1. /\ UNCHANGED <<driver, stale, present, desk, conf, primary_detached, displays, updating>>
        /\ UNCHANGED <<main, normal>>
    BY <1>6 DEF vars
  <2> QED
    BY <2>1, AlignedKept
<1> QED
  BY <1>1, <1>2, <1>3, <1>4, <1>5, <1>6 DEF Next

LEMMA Alignment == Spec => []Aligned
<1>1. Init => Aligned
  BY InitAligned
<1>2. Inv /\ Aligned /\ [Next]_vars => Aligned'
  BY StepAligned
<1> QED
  BY <1>1, <1>2, Invariance, PTL DEF Spec

LEMMA SuppliesRooted ==
    ASSUME Inv, Aligned, Apply, sets, driver = "WDDM", updating, ~stale, Actives(conf) # {}
    PROVE  Rooted(conf')
<1>1. conf' = VerifyPrimaryPosition(conf)
  BY DEF Apply, UpdateDisplaySettings
<1>2. main = "apply" /\ DOMAIN conf # {}
  BY DEF Apply, Actives
<1>3. primary_detached \/ \E p \in present : Anchored(conf, p)
  BY <1>2 DEF Aligned, Visiting
<1>4. primary_detached \/ Rooted(conf)
  BY <1>3 DEF Anchored, Rooted, Actives, Active
<1>5. ConfOf(conf)
  BY InvFacts DEF Configured
<1> QED
  BY <1>1, <1>4, <1>5, VerifyFacts

\* What the agent has Windows set has a display at the origin, whichever
\* displays the client has turned off, unless the table was out of date.
THEOREM PrimaryIsAlwaysSupplied == Spec => PrimaryIsSupplied
<1>1. Inv /\ Aligned =>
        [Apply /\ sets /\ driver = "WDDM" /\ updating /\ ~stale /\ Actives(conf) # {}
            => Rooted(conf')]_vars
  BY SuppliesRooted
<1> QED
  BY <1>1, Invariance, Alignment, PTL DEF PrimaryIsSupplied

------------------------------------------------------------------------------
(***************************************************************************)
(* RequestIsMet: its invariant.  While a request is repeated and nothing   *)
(* comes in between, the displays are what is asked for or a try is left   *)
(* for each display that is still to be switched on, and one to put all of *)
(* them.  So a try either gets through all devices, or stops at one that   *)
(* it has switched on.                                                     *)
(***************************************************************************)
Lacking(k) == {d \in Asked : ~k[d].on}

Met(k) ==
    /\ \A d \in present : k[d].on <=> d \in Asked
    /\ \A d \in Asked : k[d].size = For(d).size
    /\ request.use_pos => \A d, e \in Asked :
            /\ k[d].x - k[e].x = For(d).x - For(e).x
            /\ k[d].y - k[e].y = For(d).y - For(e).y

Near(k, n) == Met(k) \/ Cardinality(Lacking(k)) + n < Enough

\* Windows remembers no position for a display that is off.
Hidden(k) == \A d \in Devices : ~k[d].on => k[d].x = 0 /\ k[d].y = 0

\* The table in the middle of a request.
Wished(t) ==
    \A d \in present :
        /\ Id(d) \in DOMAIN t /\ t[Id(d)] # Gap /\ t[Id(d)].attached = (d \in Asked)
        /\ d \in Asked => t[Id(d)].size = For(d).size
        /\ d \in Asked /\ request.use_pos => t[Id(d)].x = For(d).x /\ t[Id(d)].y = For(d).y

\* The path of a device that has been visited is as the table has it.
Sized(c, t, d) == c[d].on /\ c[d].known /\ c[d].size = t[Id(d)].size
Set(c, t, d) ==
    /\ c[d].on <=> d \in Asked
    /\ d \in Asked => /\ Sized(c, t, d)
                      /\ c[d].x = t[Id(d)].x - normal[1]
                      /\ c[d].y = t[Id(d)].y - normal[2]

\* A display has been switched on that has no mode yet.
Stopped(c, k) == Cardinality(Lacking(c)) + tries + 1 < Enough /\ Lacking(k) = Lacking(c)

OfPaths ==
    /\ DOMAIN conf = present
    /\ Lacking(conf) = {} \/ Cardinality(Lacking(conf)) + tries < Enough
    /\ sets => \E d \in Asked : Rank(d) < dev
    /\ \A d \in Asked : ~conf[d].on => conf[d].x = 0 /\ conf[d].y = 0
    /\ \A d \in present :
        /\ conf[d].on /\ ~conf[d].known =>
              /\ main = "apply" \/ (main = "set size" /\ Rank(d) = dev)
              /\ Stopped(conf, desk)
        /\ Rank(d) = dev => /\ main = "set size" => conf[d].on
                            /\ main = "set position" => (conf[d].on <=> d \in Asked)

Passing ==
    /\ \A d \in present :
        /\ Rank(d) < dev => Set(conf, displays, d)
        /\ Rank(d) = dev /\ main = "set size" => d \in Asked
        /\ Rank(d) = dev /\ main = "set position" /\ d \in Asked => Sized(conf, displays, d)
    /\ ~sets => \A d \in Asked : Rank(d) >= dev
    /\ driver = "WDDM" => OfPaths
    /\ main = "apply" =>
        \/ driver = "WDDM" /\ Stopped(conf, desk)
        \/ sets /\ \A d \in present : Set(conf, displays, d)

Counting == tries >= 1 /\ clean /\ Consistent /\ Asked # {}

Nearing ==
    /\ tries \in 0 .. Enough /\ Hidden(desk)
    /\ tries >= 1 /\ main # "idle" => updating
    /\ Counting =>
        /\ main \notin Crashed
        /\ main # "refresh" => ~stale
        /\ main = "idle" => Measured(displays, total)
        /\ main \in {"idle", "set displays"} => Near(desk, tries)
        /\ main \in {"set displays"} \cup Visiting => Wished(displays)
        /\ main \in Visiting => Passing
        /\ main = "refresh" => Near(desk, tries + 1)

\* What is asked for depends on the request and the devices alone.
LEMMA SameRequest ==
    ASSUME UNCHANGED <<present, request>>
    PROVE  /\ Asked' = Asked /\ \A d : For(d)' = For(d)
           /\ Lacking(desk)' = Lacking(desk') /\ Lacking(conf)' = Lacking(conf')
           /\ Met(desk)' = Met(desk')
           /\ Wished(displays)' = Wished(displays')
           /\ UNCHANGED normal => \A d : Set(conf, displays, d)' = Set(conf', displays', d)
<1>1. \A d : Rank(d)' = Rank(d) /\ Id(d)' = Id(d)
  BY SameDevices
<1>2. Asked' = Asked
  BY <1>1 DEF Asked
<1>3. \A d : For(d)' = For(d)
  BY <1>1 DEF For
<1>4. Lacking(desk)' = Lacking(desk') /\ Lacking(conf)' = Lacking(conf')
  BY <1>2 DEF Lacking
<1>5. Met(desk)' = Met(desk')
  BY <1>2, <1>3 DEF Met
<1>6. Wished(displays)' = Wished(displays')
  BY <1>1, <1>2, <1>3 DEF Wished
<1>7. ASSUME UNCHANGED normal, NEW d PROVE Set(conf, displays, d)' = Set(conf', displays', d)
  BY <1>1, <1>2, <1>7 DEF Set, Sized
<1> QED
  BY <1>2, <1>3, <1>4, <1>5, <1>6, <1>7

LEMMA NearNext ==
    ASSUME UNCHANGED <<present, request>>
    PROVE  /\ Near(desk', tries') => Near(desk, tries)'
           /\ Near(desk', tries' + 1) => Near(desk, tries + 1)'
BY SameRequest DEF Near, Enough

LEMMA CountFacts ==
    ASSUME present \subseteq Devices
    PROVE  /\ Enough \in Nat /\ Enough >= 1
           /\ Asked \subseteq present /\ IsFiniteSet(Asked)
           /\ \A k : /\ IsFiniteSet(Lacking(k)) /\ Cardinality(Lacking(k)) \in Nat
                     /\ Lacking(k) = {} => Cardinality(Lacking(k)) = 0
<1>1. Cardinality(Devices) \in Nat /\ IsFiniteSet(present)
  BY ExtentFacts, FS_CardinalityType, FS_Subset
<1>2. Asked \subseteq present
  BY DEF Asked
<1>3. IsFiniteSet(Asked)
  BY <1>1, <1>2, FS_Subset
<1>4. ASSUME NEW k
      PROVE  /\ IsFiniteSet(Lacking(k)) /\ Cardinality(Lacking(k)) \in Nat
             /\ Lacking(k) = {} => Cardinality(Lacking(k)) = 0
  <2>1. Lacking(k) \subseteq Asked
    BY DEF Lacking
  <2> QED
    BY <1>3, <2>1, FS_Subset, FS_CardinalityType, FS_EmptySet
<1> QED
  BY <1>1, <1>2, <1>3, <1>4 DEF Enough

LEMMA NotBelowZero == \A n \in Nat : n >= 0 /\ ~(n < 0)
OBVIOUS

\* What Passing is made of, after a step.
LEMMA PassingIf ==
    ASSUME present \subseteq Devices, UNCHANGED <<driver, present, request, tries>>,
           UNCHANGED normal \/ (dev' = 0 /\ main' # "apply"),
           \A d \in present :
              /\ Rank(d) < dev' => Set(conf', displays', d)
              /\ Rank(d) = dev' /\ main' = "set size" => d \in Asked
              /\ Rank(d) = dev' /\ main' = "set position" /\ d \in Asked => Sized(conf', displays', d),
           ~sets' => \A d \in Asked : Rank(d) >= dev',
           driver = "WDDM" =>
              /\ DOMAIN conf' = present
              /\ Lacking(conf') = {} \/ Cardinality(Lacking(conf')) + tries < Enough
              /\ sets' => \E d \in Asked : Rank(d) < dev'
              /\ \A d \in Asked : ~conf'[d].on => conf'[d].x = 0 /\ conf'[d].y = 0
              /\ \A d \in present :
                  /\ conf'[d].on /\ ~conf'[d].known =>
                        /\ main' = "apply" \/ (main' = "set size" /\ Rank(d) = dev')
                        /\ Stopped(conf', desk')
                  /\ Rank(d) = dev' => /\ main' = "set size" => conf'[d].on
                                       /\ main' = "set position" => (conf'[d].on <=> d \in Asked),
           main' = "apply" =>
              \/ driver = "WDDM" /\ Stopped(conf', desk')
              \/ sets' /\ \A d \in present : Set(conf', displays', d)
    PROVE  Passing'
<1>1. /\ \A d : Rank(d)' = Rank(d) /\ Id(d)' = Id(d)
      /\ \A d \in present : Rank(d) \in Nat
  BY SameDevices, RankFacts
<1>2. /\ Asked' = Asked
      /\ Lacking(desk)' = Lacking(desk') /\ Lacking(conf)' = Lacking(conf')
  BY SameRequest
<1>3. UNCHANGED normal => \A d : Set(conf, displays, d)' = Set(conf', displays', d)
  BY SameRequest
<1>4. \A d : Sized(conf, displays, d)' = Sized(conf', displays', d)
  BY <1>1 DEF Sized
<1>5. Stopped(conf, desk)' = Stopped(conf', desk')
  BY <1>2 DEF Stopped, Enough
<1>6. driver' = "WDDM" => OfPaths'
  BY <1>1, <1>2, <1>5 DEF OfPaths, Enough
<1>7. \A d \in present' :
        /\ Rank(d)' < dev' => Set(conf, displays, d)'
        /\ Rank(d)' = dev' /\ main' = "set size" => d \in Asked'
        /\ Rank(d)' = dev' /\ main' = "set position" /\ d \in Asked' => Sized(conf, displays, d)'
  <2>1. SUFFICES ASSUME NEW d \in present
                 PROVE  /\ Rank(d) < dev' => Set(conf, displays, d)'
                        /\ Rank(d) = dev' /\ main' = "set size" => d \in Asked
                        /\ Rank(d) = dev' /\ main' = "set position" /\ d \in Asked =>
                              Sized(conf, displays, d)'
    BY <1>1, <1>2
  <2>2. dev' = 0 => ~(Rank(d) < dev')
    <3>1. Rank(d) \in Nat
      BY <1>1, Zenon
    <3> QED
      BY <3>1, NotBelowZero, Zenon
  <2>3. Rank(d) < dev' => Set(conf, displays, d)'
    BY <1>3, <2>2
  <2>4. /\ Rank(d) = dev' /\ main' = "set size" => d \in Asked
        /\ Rank(d) = dev' /\ main' = "set position" /\ d \in Asked => Sized(conf', displays', d)
    OBVIOUS
  <2>5. Sized(conf, displays, d)' <=> Sized(conf', displays', d)
    BY <1>4, Zenon
  <2> QED
    BY <2>3, <2>4, <2>5, Zenon
<1>8. ~sets' => \A d \in Asked' : Rank(d)' >= dev'
  BY <1>1, <1>2
<1>9. main' = "apply" =>
        \/ driver' = "WDDM" /\ Stopped(conf, desk)'
        \/ sets' /\ \A d \in present' : Set(conf, displays, d)'
  BY <1>2, <1>3, <1>5
<1> QED
  BY <1>6, <1>7, <1>8, <1>9 DEF Passing

\* A step of the loop over the devices.
LEMMA NearingVisit ==
    ASSUME Inv, Nearing, main \in Visiting,
           UNCHANGED <<driver, present, request, tries, normal, updating, stale>>,
           clean' => clean, Hidden(desk'),
           Counting /\ clean' /\ Passing /\ Wished(displays) =>
              main' \in Visiting /\ Wished(displays') /\ Passing'
    PROVE  Nearing'
<1>1. tries' \in 0 .. Enough' /\ Hidden(desk)'
  BY DEF Nearing, Hidden, Enough
<1>2. tries' >= 1 /\ main' # "idle" => updating'
  BY DEF Nearing, Visiting
<1>3. ASSUME Counting'
      PROVE  ~stale' /\ main' \in Visiting /\ Wished(displays)' /\ Passing'
  <2>1. Counting /\ clean'
    BY <1>3, SameDevices, SameRequest DEF Counting
  <2>2. ~stale /\ Wished(displays) /\ Passing
    BY <2>1 DEF Nearing, Visiting
  <2> QED
    BY <2>1, <2>2, SameRequest
<1> QED
  BY <1>1, <1>2, <1>3 DEF Nearing, Visiting, Crashed

------------------------------------------------------------------------------
(***************************************************************************)
(* What Windows makes of the displays.                                     *)
(***************************************************************************)
\* The displays that are on are moved together.
Moves(k, new, x, y) ==
    \A d \in Devices :
        /\ new[d].on = k[d].on /\ new[d].size = k[d].size
        /\ k[d].on => new[d].x = k[d].x - x /\ new[d].y = k[d].y - y
        /\ ~k[d].on => new[d].x = k[d].x /\ new[d].y = k[d].y

LEMMA RerootMoves ==
    ASSUME NEW k \in [Devices -> Shown], NEW new \in Reroot(k)
    PROVE  \E x, y \in Int : Moves(k, new, x, y)
<1>1. ASSUME NEW d \in Devices PROVE k[d].x \in Int /\ k[d].y \in Int
  <2>1. k[d] \in Shown
    OBVIOUS
  <2> QED
    BY <2>1 DEF Shown
<1>2. CASE Legal(k)
  <2>1. new = k
    BY <1>2 DEF Reroot
  <2>2. Moves(k, new, 0, 0)
    BY <1>1, <2>1 DEF Moves
  <2> QED
    BY <2>2
<1>3. CASE ~Legal(k)
  <2>1. PICK e \in On(k) : new = Shifted(k, e)
    BY <1>3 DEF Reroot
  <2>2. e \in Devices /\ k[e].x \in Int /\ k[e].y \in Int
    BY <1>1, <2>1 DEF On
  <2>3. ASSUME NEW d \in Devices
        PROVE  /\ new[d].on = k[d].on /\ new[d].size = k[d].size
               /\ k[d].on => new[d].x = k[d].x - k[e].x /\ new[d].y = k[d].y - k[e].y
               /\ ~k[d].on => new[d].x = k[d].x /\ new[d].y = k[d].y
    <3>1. k[d] \in Shown
      OBVIOUS
    <3>2. new[d] = IF k[d].on THEN [k[d] EXCEPT !.x = @ - k[e].x, !.y = @ - k[e].y] ELSE k[d]
      BY <2>1 DEF Shifted
    <3> QED
      BY <3>1, <3>2 DEF Shown
  <2>4. Moves(k, new, k[e].x, k[e].y)
    BY <2>3 DEF Moves
  <2> QED
    BY <2>2, <2>4
<1> QED
  BY <1>2, <1>3

LEMMA HiddenReroot ==
    ASSUME NEW k \in [Devices -> Shown], Hidden(k), NEW new \in Reroot(k)
    PROVE  Hidden(new)
<1>1. PICK x, y \in Int : Moves(k, new, x, y)
  BY RerootMoves
<1> QED
  BY <1>1 DEF Moves, Hidden

LEMMA HiddenPlaced == ASSUME NEW c PROVE Hidden(PlacedAll(c))
<1>1. ASSUME NEW d \in Devices, ~PlacedAll(c)[d].on
      PROVE  PlacedAll(c)[d].x = 0 /\ PlacedAll(c)[d].y = 0
  <2>1. CASE d \notin present
    BY <2>1 DEF PlacedAll, Off
  <2>2. CASE d \in present
    <3>1. PlacedAll(c)[d] = Placed(c, d)
      BY <2>2 DEF PlacedAll
    <3>2. Placed(c, d) = Off
      BY <1>1, <3>1, PlacedIs
    <3> QED
      BY <3>1, <3>2 DEF Off
  <2> QED
    BY <2>1, <2>2
<1> QED
  BY <1>1 DEF Hidden

LEMMA PlacedOn ==
    ASSUME NEW c, NEW d \in DOMAIN c
    PROVE  Placed(c, d).on <=> c[d].on
<1>1. CASE d \notin On(c)
  BY <1>1, PlacedIs DEF On, Off
<1>2. CASE d \in On(c)
  BY <1>2, PlacedIs DEF On
<1> QED
  BY <1>1, <1>2

LEMMA MetMoved ==
    ASSUME present \subseteq Devices, NEW k \in [Devices -> Shown], Met(k),
           NEW new, NEW x \in Int, NEW y \in Int, Moves(k, new, x, y)
    PROVE  Met(new)
<1>1. ASSUME NEW d \in Asked
      PROVE  /\ d \in Devices /\ k[d].on /\ new[d].size = k[d].size
             /\ k[d].x \in Int /\ k[d].y \in Int
             /\ new[d].x = k[d].x - x /\ new[d].y = k[d].y - y
  <2>1. d \in Devices /\ k[d].on
    BY DEF Asked, Met
  <2>2. k[d] \in Shown
    BY <2>1
  <2>3. k[d].x \in Int /\ k[d].y \in Int
    BY <2>2 DEF Shown
  <2> QED
    BY <2>1, <2>3 DEF Moves
<1>2. \A d \in present : new[d].on <=> d \in Asked
  BY DEF Met, Moves
<1>3. \A d \in Asked : new[d].size = For(d).size
  BY <1>1 DEF Met
<1>4. ASSUME request.use_pos, NEW d \in Asked, NEW e \in Asked
      PROVE  /\ new[d].x - new[e].x = For(d).x - For(e).x
             /\ new[d].y - new[e].y = For(d).y - For(e).y
  <2>1. /\ k[d].x - k[e].x = For(d).x - For(e).x
        /\ k[d].y - k[e].y = For(d).y - For(e).y
    BY <1>4 DEF Met
  <2>2. /\ k[d].x \in Int /\ k[d].y \in Int /\ new[d].x = k[d].x - x /\ new[d].y = k[d].y - y
        /\ k[e].x \in Int /\ k[e].y \in Int /\ new[e].x = k[e].x - x /\ new[e].y = k[e].y - y
    BY <1>1
  <2>3. new[d].x - new[e].x = k[d].x - k[e].x /\ new[d].y - new[e].y = k[d].y - k[e].y
    BY <2>2
  <2> QED
    BY <2>1, <2>3
<1> QED
  BY <1>2, <1>3, <1>4 DEF Met

------------------------------------------------------------------------------
(***************************************************************************)
(* Every action keeps it.                                                  *)
(***************************************************************************)
\* There is a display that is on, so one is lacking for each of the others.
LEMMA FirstTry ==
    ASSUME Inv
    PROVE  Near(desk, 1)
<1>1. PICK p \in Devices : AtOrigin(desk[p])
  BY InvFacts DEF Configured, DeskOf, Legal
<1>2. p \in present /\ desk[p].on
  BY <1>1, InvFacts DEF Configured, DeskOf, AtOrigin
<1>3. Lacking(desk) \subseteq present \ {p}
  BY <1>2 DEF Lacking, Asked
<1>4. IsFiniteSet(present) /\ Cardinality(present) \in Nat
      /\ Cardinality(present) <= Cardinality(Devices) /\ Cardinality(Devices) \in Nat
  BY InvFacts, PresentFinite
<1>5. IsFiniteSet(present \ {p}) /\ Cardinality(present \ {p}) = Cardinality(present) - 1
  BY <1>2, <1>4, FS_RemoveElement
<1>6. Cardinality(Lacking(desk)) <= Cardinality(present \ {p})
  BY <1>3, <1>5, FS_Subset
<1>7. Cardinality(Lacking(desk)) \in Nat
  BY InvFacts, CountFacts
<1> DEFINE l == Cardinality(Lacking(desk))
           q == Cardinality(present \ {p})
           c == Cardinality(present)
           n == Cardinality(Devices)
<1>8. l \in Nat /\ c \in Nat /\ n \in Nat /\ q = c - 1 /\ l <= q /\ c <= n
  BY <1>4, <1>5, <1>6, <1>7
<1> HIDE DEF l, q, c, n
<1>9. l + 1 < n + 1
  BY <1>8
<1> QED
  BY <1>9 DEF Near, Enough, l, n

LEMMA CountNat ==
    ASSUME Inv, Nearing
    PROVE  tries \in Nat /\ Enough \in Nat
<1>1. Enough \in Nat
  BY InvFacts, CountFacts
<1>2. tries \in 0 .. Enough
  BY DEF Nearing
<1> QED
  BY <1>1, <1>2

\* The count starts again.
LEMMA NearingAnew ==
    ASSUME Hidden(desk'), tries' = 0
    PROVE  Nearing'
<1>1. Enough' \in Nat /\ 0 \in 0 .. Enough'
  <2>1. Cardinality(Devices) \in Nat
    BY ExtentFacts, FS_CardinalityType
  <2> QED
    BY <2>1 DEF Enough
<1>2. ~(tries' >= 1) /\ ~Counting'
  BY DEF Counting
<1>3. Hidden(desk)'
  BY DEF Hidden
<1> QED
  BY <1>1, <1>2, <1>3 DEF Nearing

\* A step that leaves the displays and the request alone.
LEMMA NearingSame ==
    ASSUME Inv, Nearing,
           UNCHANGED <<driver, present, desk, conf, clean, displays, total, updating, main, dev, sets,
                       normal, request, tries, stale>>
    PROVE  Nearing'
<1>1. tries' \in 0 .. Enough' /\ Hidden(desk)' /\ (tries' >= 1 /\ main' # "idle" => updating')
  BY DEF Nearing, Hidden, Enough
<1>2. Counting' <=> Counting
  BY SameDevices, SameRequest DEF Counting
<1>3. Measured(displays, total) => Measured(displays, total)'
  BY MeasuredNext
<1>4. /\ Near(desk, tries) => Near(desk, tries)'
      /\ Near(desk, tries + 1) => Near(desk, tries + 1)'
  BY NearNext
<1>5. Wished(displays) => Wished(displays)'
  BY SameRequest
<1>6. Passing => Passing'
  <2>1. SUFFICES ASSUME Passing PROVE Passing'
    OBVIOUS
  <2>2. present \subseteq Devices
    BY InvFacts
  <2> QED
    BY <2>1, <2>2, PassingIf DEF Passing, OfPaths
<1> QED
  BY <1>1, <1>2, <1>3, <1>4, <1>5, <1>6 DEF Nearing

LEMMA HandleMonConfigNears ==
    ASSUME Inv, Nearing, NEW r \in Requests, HandleMonConfig(r)
    PROVE  Nearing'
<1>1. /\ main = "idle" /\ updating' = TRUE /\ UNCHANGED <<present, desk, stale>>
      /\ displays' = [i \in DOMAIN displays |-> Wanted(i, r)]
      /\ main' = IF Changes(r) THEN "set displays" ELSE "refresh"
      /\ request' = r /\ tries' = IF r = request /\ clean THEN tries ELSE 0
  BY DEF HandleMonConfig
<1>2. Hidden(desk')
  BY <1>1 DEF Nearing
<1>3. SUFFICES ASSUME r = request, clean PROVE Nearing'
  BY <1>1, <1>2, NearingAnew
<1>4. UNCHANGED <<request, tries>>
  BY <1>1, <1>3
<1>5. tries' \in 0 .. Enough' /\ Hidden(desk)' /\ updating'
  BY <1>1, <1>2, <1>4 DEF Nearing, Hidden, Enough
<1>6. SUFFICES ASSUME Counting'
               PROVE  /\ ~stale'
                      /\ main' = "set displays" => Near(desk, tries)' /\ Wished(displays)'
                      /\ main' = "refresh" => Near(desk, tries + 1)'
  BY <1>1, <1>5 DEF Nearing, Visiting, Crashed
<1>7. Counting
  BY <1>1, <1>3, <1>4, <1>6, SameDevices, SameRequest DEF Counting
<1>8. ~stale /\ Measured(displays, total) /\ Near(desk, tries)
  BY <1>1, <1>7 DEF Nearing
<1>9. ASSUME NEW d \in present
      PROVE  /\ Id(d) \in DOMAIN displays /\ displays[Id(d)] # Gap /\ displays[Id(d)] \in Entries
             /\ d \in Asked <=> Id(d) < Len(r.monitors) /\ For(d).on
             /\ Id(d) \in Nat /\ Len(r.monitors) \in Nat
             /\ displays[Id(d)].attached = desk[d].on
             /\ desk[d].on => /\ displays[Id(d)].size = desk[d].size
                              /\ displays[Id(d)].x = desk[d].x - LeftEdge
                              /\ displays[Id(d)].y = desk[d].y - TopEdge
  <2>1. Id(d) \in Nat
    BY InvFacts, IdFacts
  <2>2. r.monitors \in Seq([on : BOOLEAN, x : Int, y : Int, size : Sizes])
    BY LayoutConstants
  <2>3. Len(r.monitors) \in Nat
    BY <2>2
  <2>4. displays[Id(d)] \in Entries
    BY <1>8, InvFacts, AttachedFacts DEF Measured, Mirrors
  <2> QED
    BY <1>3, <1>8, <2>1, <2>3, <2>4 DEF Measured, Mirrors, Asked, For
<1>10. ASSUME NEW d \in present
       PROVE  LET m == displays'[Id(d)]
              IN  /\ Id(d) \in DOMAIN displays' /\ m = Wanted(Id(d), r)
                  /\ m # Gap /\ m.attached = (d \in Asked)
                  /\ d \in Asked => m.size = For(d).size
                  /\ d \in Asked /\ request.use_pos => m.x = For(d).x /\ m.y = For(d).y
  <2> DEFINE i == Id(d)
             o == displays[i]
             m == displays'[i]
             w == For(d)
  <2>1. /\ i \in DOMAIN displays /\ o # Gap /\ o \in Entries
        /\ d \in Asked <=> i < Len(r.monitors) /\ w.on
        /\ i \in Nat /\ Len(r.monitors) \in Nat
        /\ w = r.monitors[i + 1]
    BY <1>3, <1>9 DEF For
  <2>2. i \in DOMAIN displays' /\ m = Wanted(i, r)
    BY <1>1, <2>1
  <2>3. Wanted(i, r) # Gap
    BY <2>1, InvFacts, WantedTyped, EntryIsNoGap
  <2>4. CASE d \in Asked
    <3>1. Wanted(i, r) = [o EXCEPT !.attached = TRUE, !.size = w.size,
                                   !.x = IF r.use_pos THEN w.x ELSE o.x,
                                   !.y = IF r.use_pos THEN w.y ELSE o.y]
      <4>1. ~(i >= Len(r.monitors) \/ ~w.on)
        BY <2>1, <2>4
      <4> QED
        BY <2>1, <4>1 DEF Wanted
    <3> HIDE DEF i, o, w
    <3>2. /\ Wanted(i, r).attached = TRUE /\ Wanted(i, r).size = w.size
          /\ r.use_pos => Wanted(i, r).x = w.x /\ Wanted(i, r).y = w.y
      BY <2>1, <3>1 DEF Entries
    <3> QED
      BY <1>3, <2>2, <2>3, <2>4, <3>2 DEF i, w
  <2>5. CASE d \notin Asked
    <3>1. Wanted(i, r) = [o EXCEPT !.attached = FALSE]
      <4>1. i >= Len(r.monitors) \/ ~w.on
        BY <2>1, <2>5
      <4> QED
        BY <2>1, <4>1 DEF Wanted
    <3> HIDE DEF i, o, w
    <3>2. Wanted(i, r).attached = FALSE
      BY <2>1, <3>1 DEF Entries
    <3>3. (d \in Asked) = FALSE
      BY <2>5
    <3>4. displays'[Id(d)].attached = FALSE
      BY <2>2, <3>2 DEF i
    <3> QED
      BY <2>2, <2>3, <2>5, <3>3, <3>4 DEF i
  <2> QED
    BY <2>4, <2>5
<1>11. Wished(displays)'
  <2>1. Wished(displays')
    BY <1>10 DEF Wished
  <2> QED
    BY <1>1, <1>4, <2>1, SameRequest
<1>12. CASE Changes(r)
  BY <1>1, <1>4, <1>8, <1>11, <1>12, NearNext
<1>13. CASE ~Changes(r)
  <2>1. \A d \in present : displays'[Id(d)] = displays[Id(d)]
    BY <1>9, <1>10, <1>13 DEF Changes, Modes
  <2>2. ASSUME NEW d \in present
        PROVE  /\ desk[d].on <=> d \in Asked
               /\ d \in Asked => /\ desk[d].size = For(d).size
                                 /\ displays[Id(d)].x = desk[d].x - LeftEdge
                                 /\ displays[Id(d)].y = desk[d].y - TopEdge
               /\ d \in Asked /\ request.use_pos =>
                     displays[Id(d)].x = For(d).x /\ displays[Id(d)].y = For(d).y
    <3> DEFINE m == displays[Id(d)]
    <3>1. /\ m.attached = desk[d].on
          /\ desk[d].on => /\ m.size = desk[d].size
                           /\ m.x = desk[d].x - LeftEdge /\ m.y = desk[d].y - TopEdge
      BY <1>9
    <3>2. /\ m.attached = (d \in Asked)
          /\ d \in Asked => m.size = For(d).size
          /\ d \in Asked /\ request.use_pos => m.x = For(d).x /\ m.y = For(d).y
      BY <1>10, <2>1
    <3> HIDE DEF m
    <3> QED
      BY <3>1, <3>2 DEF m
  <2>3. Asked \subseteq present
    BY DEF Asked
  <2>4. ASSUME request.use_pos, NEW d \in Asked, NEW e \in Asked
        PROVE  /\ desk[d].x - desk[e].x = For(d).x - For(e).x
               /\ desk[d].y - desk[e].y = For(d).y - For(e).y
    <3>1. /\ LeftEdge \in Int /\ TopEdge \in Int
          /\ desk[d].x \in Int /\ desk[d].y \in Int /\ desk[e].x \in Int /\ desk[e].y \in Int
      <4>1. desk[d] \in Shown /\ desk[e] \in Shown
        BY <2>3, InvFacts
      <4> QED
        BY <4>1, InvFacts, EdgeFacts DEF Shown
    <3>2. /\ For(d).x = desk[d].x - LeftEdge /\ For(d).y = desk[d].y - TopEdge
          /\ For(e).x = desk[e].x - LeftEdge /\ For(e).y = desk[e].y - TopEdge
      BY <2>2, <2>3, <2>4
    <3> QED
      BY <3>1, <3>2
  <2>5. Met(desk)
    BY <2>2, <2>3, <2>4 DEF Met
  <2>6. Near(desk', tries' + 1)
    BY <1>1, <2>5 DEF Near
  <2> QED
    BY <1>1, <1>4, <1>8, <1>13, <2>6, NearNext
<1> QED
  BY <1>12, <1>13

LEMMA HandleDepthNears ==
    ASSUME Nearing, HandleDepth
    PROVE  Nearing'
BY NearingAnew DEF HandleDepth, NotRepeated, Nearing

LEMMA OutsideNears ==
    ASSUME NEW new, Outside(new), Hidden(new)
    PROVE  Nearing'
BY NearingAnew DEF Outside, NotRepeated

LEMMA InitNears ==
    ASSUME Init
    PROVE  Nearing
<1>1. Hidden(desk)
  <2>1. ASSUME NEW d \in Devices, ~desk[d].on PROVE desk[d] = Off
    BY <2>1 DEF Init, Display
  <2> QED
    BY <2>1 DEF Hidden, Off
<1>2. tries = 0 /\ 0 \in 0 .. Enough
  <2>1. Cardinality(Devices) \in Nat
    BY ExtentFacts, FS_CardinalityType
  <2> QED
    BY <2>1 DEF Init, Enough
<1>3. ~(tries >= 1)
  BY <1>2
<1> QED
  BY <1>1, <1>2, <1>3 DEF Nearing, Counting

\* What is read while the count goes on.
LEMMA ReadNears ==
    ASSUME Inv, GetDisplays, clean', Consistent,
           UNCHANGED <<driver, present, primary_detached, desk>>, notice' \in BOOLEAN
    PROVE  ~stale' /\ Measured(displays, total)'
<1>1. Measured(displays', total')
  BY InvFacts, GetDisplaysMeasures
<1>2. DOMAIN conf' # {}
  <2>1. CASE driver = "WDDM"
    <3>1. PICK known \in BOOLEAN : conf' = [d \in present |-> Path(d, known)]
      BY <2>1, InvFacts, ReadTable
    <3> QED
      BY <3>1, InvFacts
  <2>2. CASE driver = "XPDM"
    <3>1. DOMAIN conf' = Devices
      BY <2>2, InvFacts DEF GetDisplays, UpdateConfigPath, Configured
    <3> QED
      BY <3>1, InvFacts
  <2> QED
    BY <2>1, <2>2, InvFacts DEF Configured, Drivers
<1> QED
  BY <1>1, <1>2, MeasuredNext DEF GetDisplays

LEMMA DisplayChangeNears ==
    ASSUME Inv, Nearing, DisplayChange
    PROVE  Nearing'
<1>1. /\ UNCHANGED <<driver, primary_detached, dev, sets, normal, request, tries, updating, present,
                     desk>>
      /\ notice' \in BOOLEAN
  BY DEF DisplayChange, setting, asked
<1>2. CASE updating
  <2>1. UNCHANGED <<displays, total, conf, clean, stale, main>>
    BY <1>2 DEF DisplayChange
  <2> QED
    BY <1>1, <2>1, NearingSame
<1>3. CASE ~updating
  <2>1. /\ GetDisplays
        /\ main' = IF main \in {"set size", "set position"} /\ Consistent THEN "dangling" ELSE main
    BY <1>3 DEF DisplayChange
  <2>2. Hidden(desk') /\ tries \in 0 .. Enough
    BY <1>1 DEF Nearing
  <2>3. CASE ~(tries >= 1)
    <3>1. tries' = 0
      <4>1. Enough \in Nat
        BY InvFacts, CountFacts
      <4> QED
        BY <1>1, <2>2, <2>3, <4>1
    <3> QED
      BY <2>2, <3>1, NearingAnew
  <2>4. CASE tries >= 1
    <3>1. main = "idle" /\ main' = "idle"
      BY <1>3, <2>1, <2>4 DEF Nearing
    <3>2. tries' \in 0 .. Enough' /\ Hidden(desk)'
      BY <1>1, <2>2 DEF Hidden, Enough
    <3>3. SUFFICES ASSUME Counting'
                   PROVE  ~stale' /\ Measured(displays, total)' /\ Near(desk, tries)'
      BY <3>1, <3>2 DEF Nearing, Visiting, Crashed
    <3>4. clean' /\ Consistent /\ (clean' => clean)
      <4>1. clean' => clean
        <5>1. CASE Consistent
          BY <2>1, <5>1, InvFacts, UpdateConfigPathTyped DEF GetDisplays
        <5>2. CASE ~Consistent
          BY <2>1, <5>2 DEF GetDisplays
        <5> QED
          BY <5>1, <5>2
      <4> QED
        BY <1>1, <3>3, <4>1, SameDevices DEF Counting
    <3>5. Counting
      BY <1>1, <2>4, <3>3, <3>4, SameRequest DEF Counting
    <3>6. Near(desk', tries')
      BY <1>1, <3>1, <3>5 DEF Nearing
    <3> QED
      BY <1>1, <2>1, <3>4, <3>6, ReadNears, NearNext
  <2> QED
    BY <2>3, <2>4
<1> QED
  BY <1>2, <1>3

LEMMA RefreshNears ==
    ASSUME Inv, Nearing, Refresh
    PROVE  Nearing'
<1>1. /\ GetDisplays /\ main = "refresh" /\ main' = "idle" /\ updating' = FALSE
      /\ UNCHANGED <<driver, primary_detached, present, desk, notice>>
  BY DEF Refresh
<1>2. Hidden(desk') /\ tries \in 0 .. Enough /\ Enough \in Nat /\ Enough >= 1 /\ tries \in Nat
  <2>1. Hidden(desk') /\ tries \in 0 .. Enough
    BY <1>1 DEF Nearing
  <2>2. Enough \in Nat /\ Enough >= 1
    BY InvFacts, CountFacts
  <2> QED
    BY <2>1, <2>2
<1>3. SUFFICES ASSUME clean', request # NoRequest PROVE Nearing'
  <2>1. ~(clean' /\ request # NoRequest) => tries' = 0
    BY DEF Refresh, NotRepeated
  <2> QED
    BY <1>2, <1>3, <2>1, NearingAnew
<1>4. tries' = Min({tries + 1, Enough}) /\ UNCHANGED request
  BY <1>3 DEF Refresh
<1>5. tries' \in 0 .. Enough /\ (tries = Enough => tries' = Enough)
      /\ (tries < Enough => tries' = tries + 1)
  <2>1. {tries + 1, Enough} \in SUBSET Int
    BY <1>2
  <2>2. CASE tries = Enough
    <3>1. \A y \in {tries + 1, Enough} : Enough <= y
      BY <1>2, <2>2
    <3>2. tries' = Enough
      BY <1>4, <2>1, <3>1, MinIs
    <3> QED
      BY <1>2, <2>2, <3>2
  <2>3. CASE tries # Enough
    <3>1. tries < Enough /\ \A y \in {tries + 1, Enough} : tries + 1 <= y
      BY <1>2, <2>3
    <3>2. tries' = tries + 1
      BY <1>4, <2>1, <3>1, MinIs
    <3> QED
      BY <1>2, <2>3, <3>1, <3>2
  <2> QED
    BY <2>2, <2>3
<1>6. tries' \in 0 .. Enough' /\ Hidden(desk)'
  BY <1>2, <1>5 DEF Hidden, Enough
<1>7. SUFFICES ASSUME Counting'
               PROVE  ~stale' /\ Measured(displays, total)' /\ Near(desk, tries)'
  BY <1>1, <1>6 DEF Nearing, Visiting, Crashed
<1>8. Consistent /\ Asked # {} /\ clean
  <2>1. clean' => clean
    <3>1. CASE Consistent
      BY <1>1, <3>1, InvFacts, UpdateConfigPathTyped DEF GetDisplays
    <3>2. CASE ~Consistent
      BY <1>1, <3>2 DEF GetDisplays
    <3> QED
      BY <3>1, <3>2
  <2> QED
    BY <1>1, <1>3, <1>4, <1>7, <2>1, SameDevices, SameRequest DEF Counting
<1>9. Near(desk, tries + 1)
  <2>1. CASE tries = 0
    BY <2>1, FirstTry
  <2>2. CASE tries # 0
    <3>1. Counting
      BY <1>2, <1>8, <2>2 DEF Counting
    <3> QED
      BY <1>1, <3>1 DEF Nearing
  <2> QED
    BY <2>1, <2>2
<1>10. Near(desk, tries')
  <2> DEFINE l == Cardinality(Lacking(desk))
  <2>1. l \in Nat
    BY InvFacts, CountFacts
  <2>2. Met(desk) \/ l + (tries + 1) < Enough
    BY <1>9 DEF Near
  <2> HIDE DEF l
  <2>3. Met(desk) \/ l + tries' < Enough
    <3>1. CASE tries < Enough
      BY <1>5, <2>2, <3>1
    <3>2. CASE ~(tries < Enough)
      <4>1. ~(l + (tries + 1) < Enough)
        BY <1>2, <2>1, <3>2
      <4> QED
        BY <2>2, <4>1
    <3> QED
      BY <3>1, <3>2
  <2> QED
    BY <2>3 DEF Near, l
<1>11. Near(desk', tries')
  BY <1>1, <1>10
<1>12. notice' \in BOOLEAN
  BY <1>1, InvFacts DEF Configured
<1> QED
  BY <1>1, <1>3, <1>4, <1>8, <1>11, <1>12, ReadNears, NearNext

LEMMA BeginSetNears ==
    ASSUME Inv, Nearing, BeginSet
    PROVE  Nearing'
<1>1. /\ UNCHANGED <<driver, present, displays, request, tries, updating, desk, stale>>
      /\ main = "set displays" /\ (clean' => clean)
  <2>1. clean' => clean
    <3>1. CASE Consistent
      BY <3>1, InvFacts, UpdateConfigPathTyped DEF BeginSet
    <3>2. CASE ~Consistent
      BY <3>2 DEF BeginSet
    <3> QED
      BY <3>1, <3>2
  <2> QED
    BY <2>1 DEF BeginSet, layout, asked
<1>2. /\ tries' \in 0 .. Enough' /\ Hidden(desk)'
      /\ tries' >= 1 => updating'
  BY <1>1 DEF Nearing, Hidden, Enough
<1>3. main' \in {"set state", "refresh", "idle"}
  BY DEF BeginSet, Done
<1>4. SUFFICES ASSUME Counting'
               PROVE  main' = "set state" /\ ~stale' /\ Wished(displays)' /\ Passing'
  BY <1>2, <1>3 DEF Nearing, Visiting, Crashed
<1>5. Counting /\ clean'
  BY <1>1, <1>4, SameDevices, SameRequest DEF Counting
<1>6. Consistent /\ ~stale /\ Near(desk, tries) /\ Wished(displays) /\ Hidden(desk)
  BY <1>1, <1>5 DEF Nearing, Counting
<1>7. UpdateConfigPath /\ dev' = 0 /\ sets' = FALSE /\ main' = "set state"
  BY <1>6 DEF BeginSet
<1>8. Wished(displays)'
  BY <1>1, <1>6, SameRequest
<1>9. present \subseteq Devices /\ \A d \in present : Rank(d) \in Nat
  BY InvFacts, RankFacts
<1>10. ASSUME driver = "WDDM"
       PROVE  /\ DOMAIN conf' = present
              /\ Lacking(conf') = {} \/ Cardinality(Lacking(conf')) + tries < Enough
              /\ \A d \in present : /\ ~conf'[d].on => conf'[d].x = 0 /\ conf'[d].y = 0
                                    /\ conf'[d].on => conf'[d].known
  <2>1. PICK known \in BOOLEAN : conf' = [d \in present |-> Path(d, known)]
    BY <1>5, <1>7, <1>10 DEF UpdateConfigPath, Refuses
  <2>2. ASSUME NEW d \in present
        PROVE  /\ conf'[d].on = desk[d].on /\ (conf'[d].on => conf'[d].known)
               /\ ~conf'[d].on => conf'[d].x = 0 /\ conf'[d].y = 0
    <3>1. conf'[d] = Path(d, known)
      BY <2>1
    <3>2. /\ Path(d, known).on = desk[d].on /\ (desk[d].on => Path(d, known).known)
          /\ Path(d, known).x = desk[d].x /\ Path(d, known).y = desk[d].y
      BY <1>9, InvFacts, PathTyped
    <3> QED
      BY <1>6, <1>9, <3>1, <3>2 DEF Hidden
  <2>3. Lacking(conf') = Lacking(desk)
    BY <2>2 DEF Lacking, Asked
  <2>4. Met(desk) => Lacking(desk) = {}
    BY DEF Met, Lacking, Asked
  <2> QED
    BY <1>6, <2>1, <2>2, <2>3, <2>4 DEF Near
<1>11. Passing'
  <2>1. UNCHANGED <<driver, present, request, tries>> /\ dev' = 0 /\ main' = "set state" /\ ~sets'
    BY <1>1, <1>7
  <2>2. \A d \in present : ~(Rank(d) < dev') /\ Rank(d) >= dev'
    BY <1>9, <2>1, NotBelowZero, Zenon
  <2>3. Asked \subseteq present
    BY DEF Asked
  <2>4. \A d \in Asked : Rank(d) >= dev'
    BY <2>2, <2>3
  <2> QED
    BY <1>9, <1>10, <2>1, <2>2, <2>3, <2>4, PassingIf
<1> QED
  BY <1>1, <1>6, <1>7, <1>8, <1>11

\* The device that is visited, and what the table has for it.
LEMMA AtDevice ==
    ASSUME Inv, dev < Cardinality(present)
    PROVE  /\ Device \in present /\ Rank(Device) = dev
           /\ \A d \in present : Rank(d) = dev => d = Device
<1>1. present \subseteq Devices /\ dev \in Nat
  BY InvFacts
<1>2. Device \in present /\ Rank(Device) = dev
  BY <1>1, VisitedFacts DEF Device
<1>3. ASSUME NEW d \in present, Rank(d) = dev PROVE d = Device
  <2>1. d \in Nat /\ Device \in Nat
    BY <1>1, <1>2, PresentFinite
  <2>2. ~(d < Device) /\ ~(Device < d)
    <3>1. Rank(d) \in Nat /\ Rank(d) = Rank(Device)
      BY <1>1, <1>2, <1>3
    <3>2. ~(Rank(d) < Rank(Device)) /\ ~(Rank(Device) < Rank(d))
      BY <3>1
    <3> QED
      BY <1>1, <1>2, <3>2, RankFacts
  <2> QED
    BY <2>1, <2>2
<1> QED
  BY <1>2, <1>3

LEMMA HiddenDetached ==
    ASSUME desk \in [Devices -> Shown], Hidden(desk), NEW d \in Devices
    PROVE  [desk EXCEPT ![d] = Off] \in [Devices -> Shown] /\ Hidden([desk EXCEPT ![d] = Off])
<1> DEFINE k == [desk EXCEPT ![d] = Off]
<1>1. k \in [Devices -> Shown]
  BY OffTyped
<1>2. \A e \in Devices : k[e] = IF e = d THEN Off ELSE desk[e]
  OBVIOUS
<1> HIDE DEF k
<1>3. Hidden(k)
  BY <1>2 DEF Hidden, Off
<1> QED
  BY <1>1, <1>3 DEF k

\* Windows remembers no position that it did not remember before.
LEMMA SetMonitorStateHides ==
    ASSUME Configured, Hidden(desk), NEW d \in present, NEW on, SetMonitorState(d, on)
    PROVE  Hidden(desk')
<1>1. \/ UNCHANGED desk
      \/ SetDisplayConfig(conf')
      \/ \E new \in Reroot([desk EXCEPT ![d] = Off]) : Becomes(new)
  BY DEF SetMonitorState, SetPathState, DetachNow
<1>2. CASE UNCHANGED desk
  BY <1>2
<1>3. CASE SetDisplayConfig(conf')
  <2>1. UNCHANGED desk \/ desk' = PlacedAll(conf')
    BY <1>3 DEF SetDisplayConfig, PlacedAll, Becomes
  <2>2. Hidden(PlacedAll(conf'))
    BY HiddenPlaced
  <2> QED
    BY <2>1, <2>2
<1>4. CASE \E new \in Reroot([desk EXCEPT ![d] = Off]) : Becomes(new)
  <2>1. PICK new \in Reroot([desk EXCEPT ![d] = Off]) : desk' = new
    BY <1>4 DEF Becomes
  <2>2. d \in Devices /\ desk \in [Devices -> Shown]
    BY DEF Configured, DeskOf
  <2>3. Hidden(new)
    BY <2>2, HiddenDetached, HiddenReroot
  <2> QED
    BY <2>1, <2>3
<1> QED
  BY <1>1, <1>2, <1>3, <1>4

\* While a device is visited no other path is without a mode.
LEMMA PathsKnown ==
    ASSUME Inv, Passing, driver = "WDDM", main \in {"set state", "set position"}
    PROVE  /\ DOMAIN conf = present /\ ConfOf(conf)
           /\ \A d \in present : conf[d].on => conf[d].known
           /\ \A d \in present : Active(conf, d) <=> conf[d].on
<1>1. DOMAIN conf = present /\ \A d \in present : conf[d].on => conf[d].known
  BY DEF Passing, OfPaths
<1> QED
  BY <1>1, InvFacts DEF Configured, Active

LEMMA SetStateEnds ==
    ASSUME Inv, Nearing, SetState, Counting, Passing, Wished(displays),
           dev = Cardinality(present) \/ Id(Device) \notin DOMAIN displays
    PROVE  main' = "apply" /\ Passing'
<1>1. /\ UNCHANGED <<driver, present, displays, request, tries, normal, desk, dev, sets, conf>>
      /\ main = "set state" /\ main' = "apply"
  BY DEF SetState, setting, layout, asked
<1>2. dev <= Cardinality(present) /\ present \subseteq Devices
  BY <1>1, InvFacts DEF Inv, Looping
<1>3. dev = Cardinality(present)
  <2>1. SUFFICES ASSUME dev # Cardinality(present), Id(Device) \notin DOMAIN displays PROVE FALSE
    OBVIOUS
  <2>2. dev < Cardinality(present)
    BY <1>2, <2>1, DevBound
  <2>3. Device \in present
    BY <2>2, AtDevice
  <2> QED
    BY <2>1, <2>3 DEF Wished
<1>4. \A d \in present : Rank(d) < dev /\ ~(Rank(d) >= dev) /\ Rank(d) # dev
  <2>1. ASSUME NEW d \in present PROVE Rank(d) < dev /\ ~(Rank(d) >= dev) /\ Rank(d) # dev
    <3> DEFINE m == Rank(d)
    <3>1. m \in Nat /\ dev \in Nat /\ m < dev
      BY <1>2, <1>3, RankFacts, DevFacts
    <3> HIDE DEF m
    <3>2. m < dev /\ ~(m >= dev) /\ m # dev
      BY <3>1
    <3> QED
      BY <3>2 DEF m
  <2> QED
    BY <2>1
<1>5. Asked \subseteq present /\ Asked # {}
  BY DEF Asked, Counting
<1>6. sets
  BY <1>4, <1>5 DEF Passing
<1>7. \A d \in present : Set(conf, displays, d)
  BY <1>4 DEF Passing
<1>8. driver = "WDDM" =>
          /\ DOMAIN conf = present
          /\ Lacking(conf) = {} \/ Cardinality(Lacking(conf)) + tries < Enough
          /\ sets => \E d \in Asked : Rank(d) < dev
          /\ \A d \in Asked : ~conf[d].on => conf[d].x = 0 /\ conf[d].y = 0
          /\ \A d \in present : conf[d].on => conf[d].known
  BY <1>1, PathsKnown DEF Passing, OfPaths
<1>9. Passing'
  BY <1>1, <1>2, <1>4, <1>6, <1>7, <1>8, PassingIf
<1> QED
  BY <1>1, <1>9

\* What SetState does for a device.
LEMMA SetStateVisits ==
    ASSUME Inv, Nearing, SetState, Counting, Passing, Wished(displays),
           ~(dev = Cardinality(present) \/ Id(Device) \notin DOMAIN displays)
    PROVE  /\ UNCHANGED <<driver, present, displays, request, tries, normal, dev, sets>>
           /\ main = "set state" /\ present \subseteq Devices
           /\ Device \in present /\ Rank(Device) = dev
           /\ \A d \in present : /\ Rank(d) = dev => d = Device
                                 /\ Rank(d) < dev => d # Device
           /\ Device \in Asked => SetMonitorState(Device, TRUE)
           /\ Device \notin Asked => SetMonitorState(Device, FALSE)
           /\ main' = IF Device \in Asked THEN "set size" ELSE "set position"
<1>1. /\ UNCHANGED <<driver, present, displays, request, tries, normal, dev, sets>>
      /\ main = "set state" /\ present \subseteq Devices
  BY InvFacts DEF SetState, setting, layout, asked
<1>2. dev < Cardinality(present)
  BY <1>1, DevBound DEF Inv, Looping
<1>3. /\ Device \in present /\ Rank(Device) = dev
      /\ \A d \in present : Rank(d) = dev => d = Device
  BY <1>2, AtDevice
<1>4. ~(dev < dev)
  BY DevFacts
<1>5. \A d \in present : Rank(d) < dev => d # Device
  BY <1>3, <1>4
<1>6. Mode # Gap /\ Mode.attached = (Device \in Asked)
  BY <1>3 DEF Wished, Mode
<1>7. /\ SetMonitorState(Device, Mode # Gap /\ Mode.attached)
      /\ main' = IF Mode = Gap THEN "null" ELSE IF Mode.attached THEN "set size" ELSE "set position"
  BY DEF SetState
<1>8. ASSUME Device \in Asked PROVE SetMonitorState(Device, TRUE)
  <2>1. (Mode # Gap /\ Mode.attached) = TRUE
    BY <1>6, <1>8
  <2> QED
    BY <1>7, <2>1, Zenon
<1>9. ASSUME Device \notin Asked PROVE SetMonitorState(Device, FALSE)
  <2>1. (Mode # Gap /\ Mode.attached) = FALSE
    BY <1>6, <1>9
  <2> QED
    BY <1>7, <2>1, Zenon
<1>10. main' = IF Device \in Asked THEN "set size" ELSE "set position"
  BY <1>6, <1>7
<1> QED
  BY <1>1, <1>3, <1>5, <1>8, <1>9, <1>10

LEMMA SetStateXPDM ==
    ASSUME Inv, Nearing, SetState, Counting, clean', Passing, Wished(displays), driver = "XPDM",
           ~(dev = Cardinality(present) \/ Id(Device) \notin DOMAIN displays)
    PROVE  main' \in Visiting /\ Passing'
<1> DEFINE d == Device
<1>1. /\ UNCHANGED <<driver, present, displays, request, tries, normal, dev, sets>>
      /\ main = "set state" /\ present \subseteq Devices
      /\ d \in present /\ Rank(d) = dev
      /\ \A e \in present : /\ Rank(e) = dev => e = d
                            /\ Rank(e) < dev => e # d
      /\ d \in Asked => SetMonitorState(d, TRUE)
      /\ d \notin Asked => SetMonitorState(d, FALSE)
      /\ main' = IF d \in Asked THEN "set size" ELSE "set position"
  BY SetStateVisits
<1> HIDE DEF d
<1>2. \A e \in present : e # d => conf'[e] = conf[e]
  <2>1. UNCHANGED conf \/ conf' = [conf EXCEPT ![d].on = FALSE]
    BY <1>1 DEF SetMonitorState, DetachNow
  <2>2. DOMAIN conf = Devices
    BY InvFacts DEF Configured
  <2> QED
    BY <1>1, <2>1, <2>2
<1>3. \A e \in present : Rank(e) < dev' => Set(conf', displays', e)
  BY <1>1, <1>2 DEF Passing, Set, Sized
<1>4. main' # "apply" /\ main' \in Visiting /\ driver # "WDDM"
  BY <1>1 DEF Visiting
<1>5. \A e \in present : /\ Rank(e) = dev' /\ main' = "set size" => e \in Asked
                         /\ ~(Rank(e) = dev' /\ main' = "set position" /\ e \in Asked)
  BY <1>1
<1>6. ~sets' => \A e \in Asked : Rank(e) >= dev'
  BY <1>1 DEF Passing
<1>7. Passing'
  BY <1>1, <1>3, <1>4, <1>5, <1>6, PassingIf
<1> QED
  BY <1>4, <1>7

\* A display that is asked for and off is switched on; Windows takes the
\* configuration, since one that is on is or goes to the origin.
LEMMA SwitchOn ==
    ASSUME ConfOf(conf), DOMAIN conf = present, present \subseteq Devices,
           NEW d \in present, ~conf[d].on, conf[d].x = 0, conf[d].y = 0,
           conf' = [conf EXCEPT ![d].on = TRUE], SetDisplayConfig(conf'), clean'
    PROVE  /\ DOMAIN conf' = present /\ conf'[d].on
           /\ \A e \in present : e # d => conf'[e] = conf[e]
           /\ desk' = PlacedAll(conf')
           /\ Lacking(desk') = Lacking(conf')
<1> DEFINE p == [conf[d] EXCEPT !.on = TRUE]
<1>1. /\ conf[d] \in Paths /\ p \in Paths /\ p.on = TRUE /\ p.x = 0 /\ p.y = 0
      /\ p.known = conf[d].known
  <2>1. conf[d] \in Paths
    BY DEF ConfOf
  <2> QED
    BY <2>1 DEF Paths
<1>2. conf' = [conf EXCEPT ![d] = p]
  OBVIOUS
<1> HIDE DEF p
<1>3. DOMAIN conf' = present /\ conf'[d] = p /\ \A e \in present : e # d => conf'[e] = conf[e]
  BY <1>2
<1>4. ASSUME NEW e \in present PROVE PlacedAll(conf')[e] = Placed(conf', e) /\ e \in Devices
  BY <1>4 DEF PlacedAll
<1>5. ASSUME NEW e \in present, Active(conf', e), conf'[e].x = 0, conf'[e].y = 0
      PROVE  Legal(PlacedAll(conf'))
  <2>1. Placed(conf', e) = [on |-> TRUE, x |-> 0, y |-> 0, size |-> conf'[e].size]
    BY <1>5, PlacedIs
  <2>2. AtOrigin(PlacedAll(conf')[e]) /\ e \in DOMAIN PlacedAll(conf')
    BY <1>4, <2>1 DEF AtOrigin, PlacedAll
  <2> QED
    BY <2>2 DEF Legal
<1>6. Legal(PlacedAll(conf'))
  <2>1. CASE Rooted(conf')
    <3>1. PICK e \in Actives(conf') : conf'[e].x = 0 /\ conf'[e].y = 0
      BY <2>1 DEF Rooted
    <3>2. Active(conf', e) /\ e \in present
      BY <1>3, <3>1 DEF Actives
    <3> QED
      BY <1>5, <3>1, <3>2
  <2>2. CASE conf[d].known
    <3>1. Active(conf', d)
      BY <1>1, <1>3, <2>2 DEF Active
    <3> QED
      BY <1>1, <1>3, <1>5, <3>1
  <2>3. CASE ~Rooted(conf') /\ ~conf[d].known
    <3>1. d \in On(conf') /\ ~Active(conf', d)
      BY <1>1, <1>3, <2>3 DEF On, Active
    <3>2. Placed(conf', d) = [on |-> TRUE, x |-> 0, y |-> 0, size |-> DefaultSize]
      BY <2>3, <3>1, PlacedIs
    <3>3. AtOrigin(PlacedAll(conf')[d]) /\ d \in DOMAIN PlacedAll(conf')
      BY <1>4, <3>2 DEF AtOrigin, PlacedAll
    <3> QED
      BY <3>3 DEF Legal
  <2> QED
    BY <2>1, <2>2, <2>3
<1>7. desk' = PlacedAll(conf')
  BY <1>3, <1>6 DEF SetDisplayConfig, PlacedAll, Becomes, Refuses
<1>8. ASSUME NEW e \in present PROVE PlacedAll(conf')[e].on <=> conf'[e].on
  <2>1. Placed(conf', e).on <=> conf'[e].on
    BY <1>3, PlacedOn
  <2> QED
    BY <1>4, <2>1
<1>9. Lacking(desk') = Lacking(conf')
  BY <1>7, <1>8 DEF Lacking, Asked
<1> QED
  BY <1>1, <1>3, <1>7, <1>9

LEMMA SetStateWDDM ==
    ASSUME Inv, Nearing, SetState, Counting, clean', Passing, Wished(displays), driver = "WDDM",
           ~(dev = Cardinality(present) \/ Id(Device) \notin DOMAIN displays)
    PROVE  main' \in Visiting /\ Passing'
<1> DEFINE d == Device
<1>1. /\ UNCHANGED <<driver, present, displays, request, tries, normal, dev, sets>>
      /\ main = "set state" /\ present \subseteq Devices
      /\ d \in present /\ Rank(d) = dev
      /\ \A e \in present : /\ Rank(e) = dev => e = d
                            /\ Rank(e) < dev => e # d
      /\ d \in Asked => SetMonitorState(d, TRUE)
      /\ d \notin Asked => SetMonitorState(d, FALSE)
      /\ main' = IF d \in Asked THEN "set size" ELSE "set position"
  BY SetStateVisits
<1> HIDE DEF d
<1>2. main' # "apply" /\ main' \in Visiting
  BY <1>1 DEF Visiting
<1>3. /\ DOMAIN conf = present /\ ConfOf(conf)
      /\ \A e \in present : conf[e].on => conf[e].known
      /\ \A e \in present : Active(conf, e) <=> conf[e].on
      /\ Lacking(conf) = {} \/ Cardinality(Lacking(conf)) + tries < Enough
      /\ sets => \E e \in Asked : Rank(e) < dev
      /\ \A e \in Asked : ~conf[e].on => conf[e].x = 0 /\ conf[e].y = 0
      /\ Asked \subseteq present
  BY <1>1, PathsKnown DEF Passing, OfPaths, Asked
<1>4. \A e \in present : /\ Rank(e) = dev' /\ main' = "set size" => e \in Asked
                         /\ ~(Rank(e) = dev' /\ main' = "set position" /\ e \in Asked)
  BY <1>1
<1>5. ~sets' => \A e \in Asked : Rank(e) >= dev'
  BY <1>1 DEF Passing
\* It is enough that the path of the device is what it should be.
<1>6. ASSUME DOMAIN conf' = present, \A e \in present : e # d => conf'[e] = conf[e],
             conf'[d].on <=> d \in Asked,
             Lacking(conf') = {} \/ Cardinality(Lacking(conf')) + tries < Enough,
             conf'[d].on /\ ~conf'[d].known => Stopped(conf', desk')
      PROVE  Passing'
  <2>1. \A e \in present : Rank(e) < dev' => Set(conf', displays', e)
    BY <1>1, <1>6 DEF Passing, Set, Sized
  <2>2. \A e \in Asked : ~conf'[e].on => conf'[e].x = 0 /\ conf'[e].y = 0
    BY <1>3, <1>6
  <2>3. sets' => \E e \in Asked : Rank(e) < dev'
    BY <1>1, <1>3
  <2>4. \A e \in present :
          /\ conf'[e].on /\ ~conf'[e].known =>
                /\ main' = "apply" \/ (main' = "set size" /\ Rank(e) = dev')
                /\ Stopped(conf', desk')
          /\ Rank(e) = dev' => /\ main' = "set size" => conf'[e].on
                               /\ main' = "set position" => (conf'[e].on <=> e \in Asked)
    BY <1>1, <1>3, <1>6
  <2> QED
    BY <1>1, <1>2, <1>4, <1>5, <1>6, <2>1, <2>2, <2>3, <2>4, PassingIf
<1>7. CASE d \notin Asked
  <2>1. SetPathState(d, FALSE)
    BY <1>1, <1>7 DEF SetMonitorState
  <2>2. \/ UNCHANGED conf /\ ~conf[d].on
        \/ conf' = [conf EXCEPT ![d].on = FALSE] /\ conf[d].on
    BY <1>1, <1>3, <2>1 DEF SetPathState
  <2>3. /\ DOMAIN conf' = present /\ ~conf'[d].on
        /\ \A e \in present : e # d => conf'[e] = conf[e]
    <3>1. CASE UNCHANGED conf /\ ~conf[d].on
      BY <1>3, <3>1
    <3>2. CASE conf' = [conf EXCEPT ![d].on = FALSE]
      <4> DEFINE p == [conf[d] EXCEPT !.on = FALSE]
      <4>1. p.on = FALSE
        <5>1. conf[d] \in Paths
          BY <1>1, <1>3 DEF ConfOf
        <5> QED
          BY <5>1 DEF Paths
      <4>2. conf' = [conf EXCEPT ![d] = p]
        BY <3>2
      <4> HIDE DEF p
      <4> QED
        BY <1>1, <1>3, <4>1, <4>2
    <3> QED
      BY <2>2, <3>1, <3>2
  <2>4. Lacking(conf') = Lacking(conf)
    BY <1>3, <1>7, <2>3 DEF Lacking
  <2>5. Lacking(conf') = {} \/ Cardinality(Lacking(conf')) + tries < Enough
    BY <1>3, <2>4
  <2>6. Passing'
    BY <1>6, <1>7, <2>3, <2>5
  <2> QED
    BY <1>2, <2>6
<1>8. CASE d \in Asked /\ conf[d].on
  <2>1. SetPathState(d, TRUE)
    BY <1>1, <1>8 DEF SetMonitorState
  <2>2. UNCHANGED conf
    BY <1>1, <1>3, <1>8, <2>1 DEF SetPathState
  <2>3. /\ DOMAIN conf' = present /\ conf'[d].on /\ conf'[d].known
        /\ \A e \in present : e # d => conf'[e] = conf[e]
    BY <1>1, <1>3, <1>8, <2>2
  <2>4. Lacking(conf') = {} \/ Cardinality(Lacking(conf')) + tries < Enough
    BY <1>3, <2>2
  <2>5. Passing'
    BY <1>6, <1>8, <2>3, <2>4
  <2> QED
    BY <1>2, <2>5
<1>9. CASE d \in Asked /\ ~conf[d].on
  <2>1. SetPathState(d, TRUE)
    BY <1>1, <1>9 DEF SetMonitorState
  <2>2. conf' = [conf EXCEPT ![d].on = TRUE] /\ SetDisplayConfig(conf')
    BY <1>1, <1>3, <1>9, <2>1 DEF SetPathState
  <2>3. conf[d].x = 0 /\ conf[d].y = 0
    BY <1>3, <1>9
  <2>4. /\ DOMAIN conf' = present /\ conf'[d].on
        /\ \A e \in present : e # d => conf'[e] = conf[e]
        /\ Lacking(desk') = Lacking(conf')
    BY <1>1, <1>3, <1>9, <2>2, <2>3, SwitchOn
  <2>5. Lacking(conf') = Lacking(conf) \ {d} /\ d \in Lacking(conf)
    BY <1>3, <1>9, <2>4 DEF Lacking
  <2>6. Cardinality(Lacking(conf')) + tries + 1 < Enough
    <3> DEFINE l == Cardinality(Lacking(conf))
               m == Cardinality(Lacking(conf'))
    <3>1. IsFiniteSet(Lacking(conf)) /\ l \in Nat /\ Enough \in Nat
      BY <1>1, CountFacts
    <3>2. m = l - 1
      BY <2>5, <3>1, FS_RemoveElement
    <3>3. l + tries < Enough /\ tries \in Nat
      <4>1. l + tries < Enough
        BY <1>3, <2>5
      <4>2. tries \in Nat
        BY CountNat
      <4> QED
        BY <4>1, <4>2
    <3> HIDE DEF l, m
    <3>4. m + tries + 1 < Enough
      BY <3>1, <3>2, <3>3
    <3> QED
      BY <3>4 DEF m
  <2>7. Stopped(conf', desk')
    BY <2>4, <2>6 DEF Stopped
  <2>8. Cardinality(Lacking(conf')) + tries < Enough
    <3> DEFINE m == Cardinality(Lacking(conf'))
    <3>1. m \in Nat /\ Enough \in Nat
      BY <1>1, CountFacts
    <3>2. tries \in Nat
      BY CountNat
    <3>3. m + tries + 1 < Enough
      BY <2>6
    <3> HIDE DEF m
    <3>4. m + tries < Enough
      BY <3>1, <3>2, <3>3
    <3> QED
      BY <3>4 DEF m
  <2>9. Passing'
    BY <1>6, <1>9, <2>4, <2>7, <2>8
  <2> QED
    BY <1>2, <2>9
<1> QED
  BY <1>7, <1>8, <1>9

LEMMA SetStateNears ==
    ASSUME Inv, Nearing, SetState
    PROVE  Nearing'
<1>1. /\ UNCHANGED <<driver, present, displays, request, tries, normal, updating, stale, dev>>
      /\ main = "set state" /\ main \in Visiting
  BY DEF SetState, setting, layout, asked, Visiting
<1>2. Hidden(desk') /\ (clean' => clean)
  <2>1. CASE dev = Cardinality(present) \/ Id(Device) \notin DOMAIN displays
    BY <2>1 DEF SetState, Nearing
  <2>2. CASE ~(dev = Cardinality(present) \/ Id(Device) \notin DOMAIN displays)
    <3>1. SetMonitorState(Device, Mode # Gap /\ Mode.attached)
      BY <2>2 DEF SetState
    <3>2. Device \in present
      <4>1. dev < Cardinality(present)
        BY <1>1, <2>2, DevBound DEF Inv, Looping
      <4> QED
        BY <4>1, AtDevice
    <3>3. Hidden(desk')
      BY <3>1, <3>2, InvFacts, SetMonitorStateHides DEF Nearing
    <3>4. (Mode # Gap /\ Mode.attached) \in BOOLEAN
      OBVIOUS
    <3>5. clean' => clean
      BY <1>1, <3>1, <3>2, <3>4, InvFacts, SetMonitorStateCalled DEF Called
    <3> QED
      BY <3>3, <3>5
  <2> QED
    BY <2>1, <2>2
<1>3. ASSUME Counting, clean', Passing, Wished(displays)
      PROVE  main' \in Visiting /\ Wished(displays') /\ Passing'
  <2>1. main' \in Visiting /\ Passing'
    <3>1. CASE dev = Cardinality(present) \/ Id(Device) \notin DOMAIN displays
      BY <1>3, <3>1, SetStateEnds DEF Visiting
    <3>2. CASE ~(dev = Cardinality(present) \/ Id(Device) \notin DOMAIN displays)
      <4>1. driver = "WDDM" \/ driver = "XPDM"
        BY InvFacts DEF Configured, Drivers
      <4> QED
        BY <1>3, <3>2, <4>1, SetStateWDDM, SetStateXPDM
    <3> QED
      BY <3>1, <3>2
  <2> QED
    BY <1>1, <1>3, <2>1
<1> QED
  BY <1>1, <1>2, <1>3, NearingVisit

\* A mode that is set with the size that it has.
LEMMA SameSize ==
    ASSUME TableOf(displays), NEW i \in Modes
    PROVE  [displays EXCEPT ![i].size = displays[i].size] = displays
<1>1. i \in DOMAIN displays /\ displays[i] \in Entries
  BY AttachedFacts DEF Modes
<1> DEFINE m == [displays[i] EXCEPT !.size = displays[i].size]
<1>2. m = displays[i]
  BY <1>1 DEF Entries
<1>3. [displays EXCEPT ![i].size = displays[i].size] = [displays EXCEPT ![i] = m]
  OBVIOUS
<1> HIDE DEF m
<1>4. [displays EXCEPT ![i] = m] = displays
  BY <1>1, <1>2 DEF TableOf
<1> QED
  BY <1>3, <1>4

LEMMA EscapeHides ==
    ASSUME Configured, Hidden(desk), NEW d \in Devices, NEW size, NEW ok, NEW got,
           CustomDisplayEscape(d, size, ok, got)
    PROVE  Hidden(desk')
<1>1. UNCHANGED desk \/ AttachNow(d, size)
  BY DEF CustomDisplayEscape, EscapeWDDM, EscapeXPDM
<1>2. CASE UNCHANGED desk
  BY <1>2
<1>3. CASE AttachNow(d, size)
  <2> DEFINE x == Max({0} \cup {desk[e].x + desk[e].size : e \in On(desk)})
  <2>1. PICK s \in {size, DefaultSize} :
            desk' = [desk EXCEPT ![d] = [on |-> TRUE, x |-> x, y |-> 0, size |-> s]]
    BY <1>3 DEF AttachNow, Becomes
  <2> HIDE DEF x
  <2>2. \A e \in Devices : e # d => desk'[e] = desk[e]
    BY <2>1 DEF Configured, DeskOf
  <2>3. desk'[d].on
    BY <2>1 DEF Configured, DeskOf
  <2> QED
    BY <2>2, <2>3 DEF Hidden
<1> QED
  BY <1>1, <1>2, <1>3

LEMMA SetSizePasses ==
    ASSUME Inv, Nearing, SetSize, Counting, clean', Passing, Wished(displays)
    PROVE  main' \in Visiting /\ Wished(displays') /\ Passing'
<1> DEFINE d == Device
           i == Id(Device)
<1>1. /\ UNCHANGED <<driver, present, request, tries, normal, dev, sets>>
      /\ main = "set size" /\ present \subseteq Devices
  BY InvFacts DEF SetSize, setting, asked
<1>2. dev < Cardinality(present) /\ i \in Modes /\ Mode = displays[i]
  BY <1>1 DEF Inv, Looping, Mode
<1>3. /\ d \in present /\ d \in Devices /\ Rank(d) = dev
      /\ \A e \in present : /\ Rank(e) = dev => e = d
                            /\ Rank(e) < dev => e # d
  <2>1. ~(dev < dev)
    BY DevFacts
  <2> QED
    BY <1>1, <1>2, <2>1, AtDevice
<1>4. d \in Asked
  BY <1>1, <1>3 DEF Passing
<1>5. PICK got \in Sizes :
        /\ got >= Mode.size
        /\ \/ /\ CustomDisplayEscape(d, Mode.size, TRUE, got)
              /\ displays' = [displays EXCEPT ![i].size = got]
              /\ main' = "set position"
           \/ /\ CustomDisplayEscape(d, Mode.size, FALSE, got)
              /\ main' = "apply"
              /\ UNCHANGED displays
  BY DEF SetSize
<1>6. Asked \subseteq present
  BY DEF Asked
<1>7. CASE /\ CustomDisplayEscape(d, Mode.size, TRUE, got)
           /\ displays' = [displays EXCEPT ![i].size = got]
           /\ main' = "set position"
  <2>1. got = Mode.size
    <3>1. got \in Int /\ Mode.size \in Int
      BY <1>2, ModeFacts, ExtentFacts
    <3> QED
      BY <1>7, <3>1 DEF CustomDisplayEscape, EscapeXPDM, Refuses
  <2>2. displays' = displays
    BY <1>2, <1>7, <2>1, InvFacts, SameSize
  <2>3. displays[i].size = got
    BY <1>2, <2>1
  <2>4. /\ DOMAIN conf' = DOMAIN conf /\ \A e \in DOMAIN conf : e # d => conf'[e] = conf[e]
        /\ d \in DOMAIN conf
        /\ conf'[d].on /\ conf'[d].known /\ conf'[d].size = got
    <3>1. CASE driver = "WDDM"
      <4>1. /\ d \in DOMAIN conf /\ conf[d].on /\ conf[d].known
            /\ conf' = [conf EXCEPT ![d].size = Mode.size]
        BY <1>7, <3>1 DEF CustomDisplayEscape, EscapeWDDM, Active
      <4> DEFINE p == [conf[d] EXCEPT !.size = Mode.size]
      <4>2. p.on = conf[d].on /\ p.known = conf[d].known /\ p.size = Mode.size
        <5>1. conf[d] \in Paths
          BY <4>1, InvFacts DEF Configured, ConfOf
        <5> HIDE DEF d
        <5> QED
          BY <5>1 DEF Paths
      <4>3. conf' = [conf EXCEPT ![d] = p]
        BY <4>1
      <4> HIDE DEF p, d
      <4> QED
        BY <2>1, <4>1, <4>2, <4>3
    <3>2. CASE driver = "XPDM"
      <4>1. conf' = [conf EXCEPT ![d].on = TRUE, ![d].known = TRUE, ![d].size = got]
        BY <1>7, <3>2 DEF CustomDisplayEscape, EscapeXPDM
      <4>2. d \in DOMAIN conf
        BY <1>3, <3>2, InvFacts DEF Configured
      <4> DEFINE p == [conf[d] EXCEPT !.on = TRUE, !.known = TRUE, !.size = got]
      <4>3. p.on = TRUE /\ p.known = TRUE /\ p.size = got
        <5>1. conf[d] \in Paths
          BY <4>2, InvFacts DEF Configured, ConfOf
        <5> HIDE DEF d
        <5> QED
          BY <5>1 DEF Paths
      <4>4. conf' = [conf EXCEPT ![d] = p]
        BY <4>1
      <4> HIDE DEF p, d
      <4> QED
        BY <4>2, <4>3, <4>4
    <3> QED
      BY <3>1, <3>2, InvFacts DEF Configured, Drivers
  <2> HIDE DEF d
  <2>5. present \subseteq DOMAIN conf
    BY <1>1, InvFacts DEF Configured, Drivers, Passing, OfPaths
  <2>6. \A e \in present : Rank(e) < dev' => Set(conf', displays', e)
    BY <1>1, <1>3, <2>2, <2>4, <2>5 DEF Passing, Set, Sized
  <2>7. Sized(conf', displays', d)
    BY <2>2, <2>3, <2>4 DEF Sized, d
  <2>8. \A e \in present :
          /\ ~(Rank(e) = dev' /\ main' = "set size")
          /\ Rank(e) = dev' /\ main' = "set position" /\ e \in Asked => Sized(conf', displays', e)
    BY <1>1, <1>3, <1>7, <2>7
  <2>9. ~sets' => \A e \in Asked : Rank(e) >= dev'
    BY <1>1 DEF Passing
  <2>10. ASSUME driver = "WDDM"
         PROVE  /\ DOMAIN conf' = present
                /\ Lacking(conf') = {} \/ Cardinality(Lacking(conf')) + tries < Enough
                /\ sets' => \E e \in Asked : Rank(e) < dev'
                /\ \A e \in Asked : ~conf'[e].on => conf'[e].x = 0 /\ conf'[e].y = 0
                /\ \A e \in present :
                    /\ ~(conf'[e].on /\ ~conf'[e].known)
                    /\ Rank(e) = dev' => main' # "set size" /\ (conf'[e].on <=> e \in Asked)
    <3>1. /\ DOMAIN conf = present
          /\ Lacking(conf) = {} \/ Cardinality(Lacking(conf)) + tries < Enough
          /\ sets => \E e \in Asked : Rank(e) < dev
          /\ \A e \in Asked : ~conf[e].on => conf[e].x = 0 /\ conf[e].y = 0
          /\ \A e \in present : /\ conf[e].on /\ ~conf[e].known => Rank(e) = dev
                                /\ Rank(e) = dev => conf[e].on
      BY <1>1, <2>10 DEF Passing, OfPaths
    <3>2. Lacking(conf') = Lacking(conf)
      BY <1>3, <1>6, <2>4, <3>1 DEF Lacking
    <3> QED
      BY <1>1, <1>3, <1>4, <1>6, <1>7, <2>4, <3>1, <3>2
  <2>11. Passing'
    BY <1>1, <1>7, <2>6, <2>8, <2>9, <2>10, PassingIf
  <2> QED
    BY <1>7, <2>2, <2>11 DEF Visiting
<1>8. CASE /\ CustomDisplayEscape(d, Mode.size, FALSE, got)
           /\ main' = "apply"
           /\ UNCHANGED displays
  <2>1. driver = "WDDM" /\ UNCHANGED <<conf, desk>> /\ ~Active(conf, d)
    BY <1>8 DEF CustomDisplayEscape, EscapeWDDM, EscapeXPDM, Refuses
  <2>2. /\ DOMAIN conf = present
        /\ Lacking(conf) = {} \/ Cardinality(Lacking(conf)) + tries < Enough
        /\ sets => \E e \in Asked : Rank(e) < dev
        /\ \A e \in Asked : ~conf[e].on => conf[e].x = 0 /\ conf[e].y = 0
        /\ \A e \in present : /\ conf[e].on /\ ~conf[e].known => Stopped(conf, desk)
                              /\ Rank(e) = dev => conf[e].on
    BY <1>1, <2>1 DEF Passing, OfPaths
  <2> HIDE DEF d
  <2>3. Stopped(conf, desk)
    BY <1>3, <2>1, <2>2 DEF Active
  <2>4. Stopped(conf', desk')
    BY <2>1, <2>3
  <2>5. \A e \in present : Rank(e) < dev' => Set(conf', displays', e)
    BY <1>1, <1>8, <2>1 DEF Passing
  <2>6. ~sets' => \A e \in Asked : Rank(e) >= dev'
    BY <1>1 DEF Passing
  <2>7. Passing'
    BY <1>1, <1>8, <2>1, <2>2, <2>4, <2>5, <2>6, PassingIf
  <2> QED
    BY <1>8, <2>7 DEF Visiting
<1> QED
  BY <1>5, <1>7, <1>8

LEMMA SetSizeNears ==
    ASSUME Inv, Nearing, SetSize
    PROVE  Nearing'
<1>1. /\ UNCHANGED <<driver, present, request, tries, normal, updating, stale>>
      /\ main = "set size" /\ main \in Visiting
  BY DEF SetSize, setting, asked, Visiting
<1>2. PICK got \in Sizes, ok \in BOOLEAN : CustomDisplayEscape(Device, Mode.size, ok, got)
  BY DEF SetSize
<1>3. Device \in Devices /\ Mode.size \in Extents
  BY <1>1, ModeFacts DEF Inv, Looping
<1>4. Hidden(desk')
  BY <1>2, <1>3, InvFacts, EscapeHides DEF Nearing
<1>5. clean' => clean
  <2>1. Accepts \/ Refuses
    BY <1>2 DEF CustomDisplayEscape, EscapeWDDM, EscapeXPDM
  <2> QED
    BY <2>1 DEF Accepts, Refuses
<1> QED
  BY <1>1, <1>4, <1>5, SetSizePasses, NearingVisit

LEMMA SetPositionPasses ==
    ASSUME Inv, Nearing, SetPosition, Counting, clean', Passing, Wished(displays)
    PROVE  main' \in Visiting /\ Wished(displays') /\ Passing'
<1> DEFINE d == Device
           x == Mode.x - normal[1]
           y == Mode.y - normal[2]
<1>1. /\ UNCHANGED <<driver, present, displays, request, tries, normal, desk>>
      /\ main = "set position" /\ main' = "set state" /\ dev' = dev + 1
      /\ present \subseteq Devices
  BY InvFacts DEF SetPosition, layout, asked, UpdateDevModePosition
<1>2. dev < Cardinality(present) /\ Id(d) \in Modes /\ Mode = displays[Id(d)]
  BY <1>1 DEF Inv, Looping, Mode
<1>3. /\ d \in present /\ d \in Devices /\ Rank(d) = dev
      /\ \A e \in present : Rank(e) = dev => e = d
  BY <1>1, <1>2, AtDevice
<1>4. ASSUME NEW e \in present
      PROVE  /\ Rank(e) < dev => e # d /\ Rank(e) < dev'
             /\ Rank(e) < dev' => Rank(e) < dev \/ e = d
             /\ Rank(e) >= dev /\ e # d => Rank(e) >= dev'
             /\ d = e => Rank(e) < dev'
  <2> DEFINE m == Rank(e)
  <2>1. m \in Nat /\ dev \in Nat /\ (m = dev <=> e = d)
    BY <1>1, <1>3, RankFacts, DevFacts
  <2> HIDE DEF m
  <2>2. /\ m < dev => m # dev /\ m < dev + 1
        /\ m < dev + 1 => m < dev \/ m = dev
        /\ m >= dev /\ m # dev => m >= dev + 1
        /\ m = dev => m < dev + 1
    BY <2>1
  <2>3. dev' = dev + 1
    BY <1>1
  <2> QED
    BY <2>1, <2>2, <2>3, Zenon DEF m
<1>5. d \in Asked => Sized(conf, displays, d)
  BY <1>1, <1>3 DEF Passing
<1>6. PICK ok \in BOOLEAN : UpdateDevModePosition(d, Mode.attached, x, y, ok) /\ sets' = (sets \/ ok)
  BY DEF SetPosition
<1>7. Asked \subseteq present /\ Mode.attached = (d \in Asked)
  BY <1>2, <1>3 DEF Asked, Wished
<1>8. present \subseteq DOMAIN conf
  BY <1>1, InvFacts DEF Configured, Drivers, Passing, OfPaths
<1> DEFINE Put(p) == p.x = x /\ p.y = y /\ p.known = conf[d].known /\ p.size = conf[d].size
<1>9. /\ driver = "WDDM" => (ok <=> d \in Asked)
      /\ driver = "XPDM" => ok
      /\ DOMAIN conf' = DOMAIN conf /\ \A e \in present : e # d => conf'[e] = conf[e]
      /\ conf'[d].on <=> d \in Asked
      /\ d \in Asked => Put(conf'[d])
  <2>1. conf[d] \in Paths
    BY <1>3, <1>8, InvFacts DEF Configured, ConfOf
  <2>2. CASE driver = "WDDM"
    <3>1. Active(conf, d) <=> conf[d].on
      BY <1>1, <1>3, <2>2, PathsKnown
    <3>2. conf[d].on <=> d \in Asked
      BY <1>1, <1>3, <2>2 DEF Passing, OfPaths
    <3>3. ok = Active(conf, d) /\ conf' = IF ok THEN [conf EXCEPT ![d].x = x, ![d].y = y] ELSE conf
      BY <1>6, <2>2 DEF UpdateDevModePosition
    <3>4. ok <=> d \in Asked
      BY <3>1, <3>2, <3>3
    <3>5. CASE ~ok
      BY <2>2, <3>2, <3>3, <3>4, <3>5
    <3>6. CASE ok
      <4> DEFINE p == [conf[d] EXCEPT !.x = x, !.y = y]
      <4>1. p.on = conf[d].on /\ Put(p)
        <5> HIDE DEF x, y, d
        <5> QED
          BY <2>1 DEF Paths
      <4>2. conf' = [conf EXCEPT ![d] = p]
        BY <3>3, <3>6
      <4> HIDE DEF p, d, x, y
      <4>3. /\ DOMAIN conf' = DOMAIN conf /\ \A e \in present : e # d => conf'[e] = conf[e]
            /\ conf'[d] = p
        BY <1>3, <1>8, <4>2
      <4> QED
        BY <2>2, <3>2, <3>4, <4>1, <4>3
    <3> QED
      BY <3>5, <3>6
  <2>3. CASE driver = "XPDM"
    <3>1. ok /\ conf' = [conf EXCEPT ![d].x = x, ![d].y = y, ![d].on = Mode.attached]
      BY <1>6, <2>3 DEF UpdateDevModePosition, Refuses
    <3> DEFINE p == [conf[d] EXCEPT !.x = x, !.y = y, !.on = Mode.attached]
    <3>2. p.on = Mode.attached /\ Put(p)
      <4> HIDE DEF x, y, d
      <4> QED
        BY <2>1 DEF Paths
    <3>3. conf' = [conf EXCEPT ![d] = p]
      BY <3>1
    <3> HIDE DEF p, d, x, y
    <3>4. /\ DOMAIN conf' = DOMAIN conf /\ \A e \in present : e # d => conf'[e] = conf[e]
          /\ conf'[d] = p
      BY <1>3, <1>8, <3>3
    <3> QED
      BY <1>7, <2>3, <3>1, <3>2, <3>4
  <2> QED
    BY <2>2, <2>3, InvFacts DEF Configured, Drivers
<1>10. Set(conf', displays', d)
  <2>1. d \in Asked => Put(conf'[d]) /\ conf[d].known /\ conf[d].size = displays[Id(d)].size
    BY <1>5, <1>9 DEF Sized
  <2>2. x = displays[Id(d)].x - normal[1] /\ y = displays[Id(d)].y - normal[2]
    BY <1>2
  <2> HIDE DEF x, y, d
  <2> QED
    BY <1>1, <1>9, <2>1, <2>2 DEF Set, Sized
<1> HIDE DEF d, x, y, Put
<1>11. \A e \in present : Rank(e) < dev' => Set(conf', displays', e)
  <2>1. ASSUME NEW e \in present, Rank(e) < dev, e # d PROVE Set(conf', displays', e)
    BY <1>1, <1>9, <2>1 DEF Passing, Set, Sized
  <2> QED
    BY <1>4, <1>10, <2>1
<1>12. ~sets' => \A e \in Asked : Rank(e) >= dev'
  <2>1. SUFFICES ASSUME ~sets', NEW e \in Asked PROVE Rank(e) >= dev'
    OBVIOUS
  <2>2. ~sets /\ ~ok
    BY <1>6, <2>1
  <2>3. e # d
    BY <1>9, <2>1, <2>2, InvFacts DEF Configured, Drivers
  <2>4. Rank(e) >= dev
    BY <2>1, <2>2 DEF Passing
  <2> QED
    BY <1>4, <1>7, <2>3, <2>4
<1>13. ASSUME driver = "WDDM"
       PROVE  /\ DOMAIN conf' = present
              /\ Lacking(conf') = {} \/ Cardinality(Lacking(conf')) + tries < Enough
              /\ sets' => \E e \in Asked : Rank(e) < dev'
              /\ \A e \in Asked : ~conf'[e].on => conf'[e].x = 0 /\ conf'[e].y = 0
              /\ \A e \in present : ~(conf'[e].on /\ ~conf'[e].known)
  <2>1. /\ DOMAIN conf = present
        /\ Lacking(conf) = {} \/ Cardinality(Lacking(conf)) + tries < Enough
        /\ sets => \E e \in Asked : Rank(e) < dev
        /\ \A e \in Asked : ~conf[e].on => conf[e].x = 0 /\ conf[e].y = 0
        /\ \A e \in present : Rank(e) = dev => (conf[e].on <=> e \in Asked)
    BY <1>1, <1>13 DEF Passing, OfPaths
  <2>2. \A e \in present : conf[e].on => conf[e].known
    BY <1>1, <1>13, PathsKnown
  <2>3. \A e \in present : (conf'[e].on <=> conf[e].on) /\ (conf'[e].on => conf'[e].known)
    BY <1>3, <1>5, <1>9, <2>1, <2>2 DEF Put, Sized
  <2>4. Lacking(conf') = Lacking(conf)
    BY <1>7, <2>3 DEF Lacking
  <2>5. sets' => \E e \in Asked : Rank(e) < dev'
    BY <1>4, <1>6, <1>7, <1>9, <1>13, <2>1
  <2>6. \A e \in Asked : ~conf'[e].on => conf'[e].x = 0 /\ conf'[e].y = 0
    BY <1>7, <1>9, <2>1, <2>3
  <2> QED
    BY <1>9, <2>1, <2>3, <2>4, <2>5, <2>6
<1>14. Passing'
  BY <1>1, <1>11, <1>12, <1>13, PassingIf
<1> QED
  BY <1>1, <1>14 DEF Visiting

LEMMA SetPositionNears ==
    ASSUME Inv, Nearing, SetPosition
    PROVE  Nearing'
<1>1. /\ UNCHANGED <<driver, present, request, tries, normal, updating, stale, desk>>
      /\ main \in Visiting
  BY DEF SetPosition, layout, asked, Visiting, UpdateDevModePosition
<1>2. clean' => clean
  BY DEF SetPosition, UpdateDevModePosition, Accepts, Refuses
<1>3. Hidden(desk')
  BY <1>1 DEF Nearing
<1> QED
  BY <1>1, <1>2, <1>3, SetPositionPasses, NearingVisit

------------------------------------------------------------------------------
(***************************************************************************)
(* The table is handed to Windows.                                         *)
(***************************************************************************)
\* Every path is as the table has it, measured from x, y.
Fits(c, x, y) ==
    \A d \in present :
        /\ d \in DOMAIN c /\ (c[d].on <=> d \in Asked)
        /\ d \in Asked => /\ c[d].known /\ c[d].size = displays[Id(d)].size
                          /\ c[d].x = displays[Id(d)].x - x
                          /\ c[d].y = displays[Id(d)].y - y

LEMMA FitsMet ==
    ASSUME Inv, Wished(displays), NEW c, NEW x \in Int, NEW y \in Int, Fits(c, x, y)
    PROVE  Met(PlacedAll(c))
<1>1. ASSUME NEW d \in present
      PROVE  PlacedAll(c)[d].on <=> d \in Asked
  <2>1. PlacedAll(c)[d] = Placed(c, d) /\ d \in DOMAIN c
    BY InvFacts DEF PlacedAll, Fits
  <2>2. Placed(c, d).on <=> c[d].on
    BY <2>1, PlacedOn
  <2> QED
    BY <2>1, <2>2 DEF Fits
<1>2. ASSUME NEW d \in Asked
      PROVE  LET p == PlacedAll(c)[d]
                 t == displays[Id(d)]
             IN  /\ p.size = For(d).size /\ p.x = t.x - x /\ p.y = t.y - y
                 /\ t.x \in Int /\ t.y \in Int
                 /\ request.use_pos => t.x = For(d).x /\ t.y = For(d).y
  <2>1. d \in present /\ d \in Devices
    BY InvFacts DEF Asked
  <2>2. /\ displays[Id(d)] \in Entries /\ displays[Id(d)].size = For(d).size
        /\ request.use_pos => displays[Id(d)].x = For(d).x /\ displays[Id(d)].y = For(d).y
    BY <2>1, InvFacts, AttachedFacts DEF Wished
  <2>3. /\ Active(c, d) /\ c[d].size = displays[Id(d)].size
        /\ c[d].x = displays[Id(d)].x - x /\ c[d].y = displays[Id(d)].y - y
    BY <2>1 DEF Fits, Active
  <2>4. PlacedAll(c)[d] = [on |-> TRUE, x |-> c[d].x, y |-> c[d].y, size |-> c[d].size]
    BY <2>1, <2>3, PlacedIs DEF PlacedAll
  <2>5. displays[Id(d)].x \in Int /\ displays[Id(d)].y \in Int
    BY <2>2 DEF Entries
  <2> QED
    BY <2>2, <2>3, <2>4, <2>5
<1>3. \A d \in Asked : PlacedAll(c)[d].size = For(d).size
  BY <1>2
<1>4. ASSUME request.use_pos, NEW d \in Asked, NEW e \in Asked
      PROVE  /\ PlacedAll(c)[d].x - PlacedAll(c)[e].x = For(d).x - For(e).x
             /\ PlacedAll(c)[d].y - PlacedAll(c)[e].y = For(d).y - For(e).y
  <2>1. /\ PlacedAll(c)[d].x = For(d).x - x /\ PlacedAll(c)[d].y = For(d).y - y
        /\ For(d).x \in Int /\ For(d).y \in Int
        /\ PlacedAll(c)[e].x = For(e).x - x /\ PlacedAll(c)[e].y = For(e).y - y
        /\ For(e).x \in Int /\ For(e).y \in Int
    BY <1>2, <1>4
  <2> QED
    BY <2>1
<1> QED
  BY <1>1, <1>3, <1>4 DEF Met

\* verify_primary_position moves the active paths together.
LEMMA VerifyMoves ==
    ASSUME NEW c, ConfOf(c)
    PROVE  \E x, y \in Int : \A d \in DOMAIN c :
              LET p == VerifyPrimaryPosition(c)[d]
              IN  /\ p.on = c[d].on /\ p.known = c[d].known /\ p.size = c[d].size
                  /\ Active(c, d) => p.x = c[d].x - x /\ p.y = c[d].y - y
<1>1. ASSUME NEW d \in DOMAIN c PROVE c[d] \in Paths /\ c[d].x \in Int /\ c[d].y \in Int
  <2>1. c[d] \in Paths
    BY DEF ConfOf
  <2> QED
    BY <2>1 DEF Paths
<1>2. CASE ~(primary_detached /\ ~Rooted(c) /\ Actives(c) # {})
  <2>1. VerifyPrimaryPosition(c) = c
    BY <1>2 DEF VerifyPrimaryPosition
  <2>2. \A d \in DOMAIN c : c[d].x = c[d].x - 0 /\ c[d].y = c[d].y - 0
    BY <1>1
  <2> WITNESS 0 \in Int, 0 \in Int
  <2> QED
    BY <2>1, <2>2
<1>3. CASE primary_detached /\ ~Rooted(c) /\ Actives(c) # {}
  <2> DEFINE left == Leftmost(c)
             top == Topmost(c)
  <2>1. left \in Int /\ top \in Int
    BY <1>3, LeftmostFacts
  <2> HIDE DEF left, top
  <2>2. ASSUME NEW d \in DOMAIN c
        PROVE  LET p == VerifyPrimaryPosition(c)[d]
               IN  /\ p.on = c[d].on /\ p.known = c[d].known /\ p.size = c[d].size
                   /\ Active(c, d) => p.x = c[d].x - left /\ p.y = c[d].y - top
    <3>1. VerifyPrimaryPosition(c)[d] =
              IF Active(c, d) THEN [c[d] EXCEPT !.x = c[d].x - left, !.y = c[d].y - top] ELSE c[d]
      BY <1>3 DEF VerifyPrimaryPosition, left, top
    <3> QED
      BY <1>1, <3>1 DEF Paths
  <2> QED
    BY <2>1, <2>2
<1> QED
  BY <1>2, <1>3

LEMMA RootedLegal ==
    ASSUME NEW c, Rooted(c), DOMAIN c = present, present \subseteq Devices
    PROVE  Legal(PlacedAll(c))
<1>1. PICK d \in Actives(c) : c[d].x = 0 /\ c[d].y = 0
  BY DEF Rooted
<1>2. Active(c, d) /\ d \in present /\ d \in Devices
  BY DEF Actives
<1>3. PlacedAll(c)[d] = [on |-> TRUE, x |-> 0, y |-> 0, size |-> c[d].size]
  BY <1>1, <1>2, PlacedIs DEF PlacedAll
<1>4. d \in DOMAIN PlacedAll(c) /\ AtOrigin(PlacedAll(c)[d])
  BY <1>2, <1>3 DEF PlacedAll, AtOrigin
<1> QED
  BY <1>4 DEF Legal

LEMMA AllSetFits ==
    ASSUME Inv, present \subseteq DOMAIN conf, \A d \in present : Set(conf, displays, d)
    PROVE  Fits(conf, normal[1], normal[2])
BY DEF Fits, Set, Sized

LEMMA VerifiedFits ==
    ASSUME Inv, Wished(displays), DOMAIN conf = present, Fits(conf, normal[1], normal[2])
    PROVE  \E x, y \in Int : Fits(VerifyPrimaryPosition(conf), x, y)
<1> DEFINE v == VerifyPrimaryPosition(conf)
<1>1. ConfOf(conf) /\ normal[1] \in Int /\ normal[2] \in Int
  BY InvFacts DEF Configured
<1>2. DOMAIN v = present
  BY <1>1, VerifyFacts
<1>3. PICK x \in Int, y \in Int : \A d \in DOMAIN conf :
          /\ v[d].on = conf[d].on /\ v[d].known = conf[d].known /\ v[d].size = conf[d].size
          /\ Active(conf, d) => v[d].x = conf[d].x - x /\ v[d].y = conf[d].y - y
  BY <1>1, VerifyMoves
<1> HIDE DEF v
<1>4. ASSUME NEW d \in present, d \in Asked
      PROVE  /\ v[d].x = displays[Id(d)].x - (normal[1] + x)
             /\ v[d].y = displays[Id(d)].y - (normal[2] + y)
  <2>1. /\ Active(conf, d)
        /\ conf[d].x = displays[Id(d)].x - normal[1] /\ conf[d].y = displays[Id(d)].y - normal[2]
    BY <1>4 DEF Fits, Active
  <2>2. displays[Id(d)] \in Entries
    BY <1>4, InvFacts, AttachedFacts DEF Wished
  <2>3. displays[Id(d)].x \in Int /\ displays[Id(d)].y \in Int
    BY <2>2 DEF Entries
  <2>4. v[d].x = conf[d].x - x /\ v[d].y = conf[d].y - y
    BY <1>3, <1>4, <2>1
  <2> QED
    BY <1>1, <2>1, <2>3, <2>4
<1>5. Fits(v, normal[1] + x, normal[2] + y)
  BY <1>2, <1>3, <1>4 DEF Fits
<1>6. normal[1] + x \in Int /\ normal[2] + y \in Int
  BY <1>1
<1> QED
  BY <1>5, <1>6 DEF v

\* What Apply leaves of a try: all of the displays are met, or one has been
\* switched on and there are tries enough for the others.
LEMMA ApplyWDDM ==
    ASSUME Inv, Nearing, Aligned, Apply, Counting, clean', Passing, Wished(displays),
           driver = "WDDM", ~stale, updating
    PROVE  Near(desk', tries + 1)
<1>1. main = "apply" /\ present \subseteq Devices /\ UNCHANGED present
  BY InvFacts DEF Apply
<1>2. /\ DOMAIN conf = present
      /\ sets => \E d \in Asked : Rank(d) < dev
      /\ Stopped(conf, desk) \/ (sets /\ \A d \in present : Set(conf, displays, d))
      /\ \A d \in present : Rank(d) < dev => Set(conf, displays, d)
  BY <1>1 DEF Passing, OfPaths
<1>3. ASSUME NEW k, Lacking(k) = Lacking(conf), Stopped(conf, desk)
      PROVE  Near(k, tries + 1)
  <2> DEFINE l == Cardinality(Lacking(k))
  <2>1. l + tries + 1 < Enough
    BY <1>3 DEF Stopped
  <2>2. l \in Nat /\ tries \in Nat
    BY <1>1, CountFacts, CountNat
  <2> HIDE DEF l
  <2>3. l + (tries + 1) < Enough
    BY <2>1, <2>2, CountNat
  <2> QED
    BY <2>3 DEF Near, l
<1>4. CASE ~sets
  <2>1. Stopped(conf, desk) /\ desk' = desk
    BY <1>2, <1>4 DEF Apply
  <2> QED
    BY <1>3, <2>1 DEF Stopped
<1>5. CASE sets
  <2>1. conf' = VerifyPrimaryPosition(conf) /\ SetDisplayConfig(conf')
    BY <1>5 DEF Apply, UpdateDisplaySettings
  <2>2. ConfOf(conf) /\ ConfOf(conf') /\ DOMAIN conf' = present
    BY <1>2, <2>1, InvFacts, VerifyFacts DEF Configured
  <2>3. PICK p \in Asked : Rank(p) < dev
    BY <1>2, <1>5
  <2>4. Actives(conf) # {}
    <3>1. p \in present /\ Set(conf, displays, p)
      BY <1>2, <2>3 DEF Asked
    <3> QED
      BY <1>2, <2>3, <3>1 DEF Set, Sized, Actives, Active
  <2>5. Rooted(conf')
    BY <1>5, <2>4, SuppliesRooted
  <2>6. desk' = PlacedAll(conf')
    <3>1. Legal(PlacedAll(conf'))
      BY <1>1, <2>2, <2>5, RootedLegal
    <3> QED
      BY <2>1, <2>2, <3>1 DEF SetDisplayConfig, PlacedAll, Becomes, Refuses
  <2>7. CASE Stopped(conf, desk)
    <3>1. \A d \in DOMAIN conf : conf'[d].on = conf[d].on
      BY <2>1, <2>2, VerifyMoves
    <3>2. ASSUME NEW d \in present PROVE desk'[d].on <=> conf[d].on
      <4>1. desk'[d] = Placed(conf', d)
        BY <1>1, <2>6 DEF PlacedAll
      <4>2. Placed(conf', d).on <=> conf'[d].on
        BY <2>2, PlacedOn
      <4> QED
        BY <1>2, <3>1, <4>1, <4>2
    <3>3. Lacking(desk') = Lacking(conf)
      BY <3>2 DEF Lacking, Asked
    <3> QED
      BY <1>3, <2>7, <3>3
  <2>8. CASE \A d \in present : Set(conf, displays, d)
    <3>1. PICK x \in Int, y \in Int : Fits(conf', x, y)
      BY <1>2, <2>1, <2>8, AllSetFits, VerifiedFits
    <3>2. Met(PlacedAll(conf'))
      BY <3>1, FitsMet
    <3> QED
      BY <2>6, <3>2 DEF Near
  <2> QED
    BY <1>2, <2>7, <2>8
<1> QED
  BY <1>4, <1>5

LEMMA ApplyXPDM ==
    ASSUME Inv, Nearing, Apply, Counting, clean', Passing, Wished(displays), driver = "XPDM"
    PROVE  Near(desk', tries + 1)
<1>1. sets /\ (\A d \in present : Set(conf, displays, d)) /\ DOMAIN conf = Devices
      /\ present \subseteq Devices /\ ConfOf(conf) /\ normal[1] \in Int /\ normal[2] \in Int
  BY InvFacts DEF Apply, Passing, Configured
<1>2. Met(PlacedAll(conf)) /\ PlacedAll(conf) \in [Devices -> Shown]
  BY <1>1, AllSetFits, FitsMet, PlacedAllTyped
<1>3. On(PlacedAll(conf)) # {}
  <2>1. PICK d \in Asked : TRUE
    BY DEF Counting
  <2>2. PlacedAll(conf)[d].on /\ d \in DOMAIN PlacedAll(conf)
    BY <1>1, <1>2, <2>1 DEF Met, Asked, PlacedAll
  <2> QED
    BY <2>2 DEF On
<1>4. PICK new \in Reroot(PlacedAll(conf)) : desk' = new
  <2>1. UpdateDisplaySettings
    BY <1>1 DEF Apply
  <2> QED
    BY <1>3, <2>1 DEF UpdateDisplaySettings, PlacedAll, Becomes, Refuses
<1>5. Met(new)
  BY <1>1, <1>2, RerootMoves, MetMoved
<1> QED
  BY <1>4, <1>5 DEF Near

LEMMA ApplyHides ==
    ASSUME Inv, Hidden(desk), Apply
    PROVE  Hidden(desk') /\ (clean' => clean)
<1>1. CASE ~sets
  BY <1>1 DEF Apply
<1>2. CASE sets
  <2>1. UpdateDisplaySettings
    BY <1>2 DEF Apply
  <2>2. clean' => clean
    BY <2>1 DEF UpdateDisplaySettings, SetDisplayConfig, Accepts, Refuses
  <2>3. \/ UNCHANGED desk
        \/ desk' = PlacedAll(conf')
        \/ \E new \in Reroot(PlacedAll(conf)) : desk' = new
    BY <2>1 DEF UpdateDisplaySettings, SetDisplayConfig, PlacedAll, Becomes
  <2>4. ASSUME NEW new \in Reroot(PlacedAll(conf)) PROVE Hidden(new)
    <3>1. PlacedAll(conf) \in [Devices -> Shown]
      BY InvFacts, PlacedAllTyped DEF Configured
    <3> QED
      BY <2>4, <3>1, HiddenPlaced, HiddenReroot
  <2>5. Hidden(PlacedAll(conf'))
    BY HiddenPlaced
  <2> QED
    BY <2>2, <2>3, <2>4, <2>5
<1> QED
  BY <1>1, <1>2

LEMMA ApplyNears ==
    ASSUME Inv, Nearing, Aligned, Apply
    PROVE  Nearing'
<1>1. /\ UNCHANGED <<driver, present, request, tries, updating>>
      /\ main = "apply" /\ main' = Done
  BY DEF Apply, asked
<1>2. Hidden(desk') /\ (clean' => clean)
  BY ApplyHides DEF Nearing
<1>3. /\ tries' \in 0 .. Enough' /\ Hidden(desk)'
      /\ tries' >= 1 => updating'
  BY <1>1, <1>2 DEF Nearing, Hidden, Enough
<1>4. main' \in {"refresh", "idle"}
  BY <1>1 DEF Done
<1>5. SUFFICES ASSUME Counting' PROVE main' = "refresh" /\ Near(desk, tries + 1)'
  BY <1>3, <1>4 DEF Nearing, Visiting, Crashed
<1>6. Counting /\ clean'
  BY <1>1, <1>2, <1>5, SameDevices, SameRequest DEF Counting
<1>7. ~stale /\ Wished(displays) /\ Passing /\ updating
  BY <1>1, <1>6 DEF Nearing, Visiting, Counting
<1>8. driver = "WDDM" \/ driver = "XPDM"
  BY InvFacts DEF Configured, Drivers
<1>9. Near(desk', tries + 1)
  BY <1>6, <1>7, <1>8, ApplyWDDM, ApplyXPDM
<1>10. Near(desk', tries' + 1)
  BY <1>1, <1>9
<1> QED
  BY <1>1, <1>7, <1>10, NearNext DEF Done

------------------------------------------------------------------------------
(***************************************************************************)
(* RequestIsMet.                                                           *)
(***************************************************************************)
LEMMA OutsidersNear ==
    ASSUME Inv, Nearing, Rearrange \/ Plug \/ Unplug
    PROVE  Nearing'
<1>1. Hidden(desk) /\ desk \in [Devices -> Shown] /\ present \subseteq Devices
  BY InvFacts DEF Nearing
<1>2. CASE Rearrange
  <2>1. PICK d \in present, m \in {Off} \cup {Display(p, s) : p \in Places, s \in Sizes} :
            Outside([desk EXCEPT ![d] = m])
    BY <1>2 DEF Rearrange
  <2>2. ~m.on => m.x = 0 /\ m.y = 0
    BY DEF Off, Display
  <2>3. Hidden([desk EXCEPT ![d] = m])
    <3> DEFINE k == [desk EXCEPT ![d] = m]
    <3>1. \A e \in Devices : k[e] = IF e = d THEN m ELSE desk[e]
      BY <1>1
    <3> HIDE DEF k
    <3>2. Hidden(k)
      BY <1>1, <2>2, <3>1 DEF Hidden
    <3> QED
      BY <3>2 DEF k
  <2> QED
    BY <2>1, <2>3, OutsideNears
<1>3. CASE Plug
  <2>1. Outside(desk)
    BY <1>3 DEF Plug
  <2> QED
    BY <1>1, <2>1, OutsideNears
<1>4. CASE Unplug
  <2>1. PICK d \in present : \E new \in Reroot([desk EXCEPT ![d] = Off]) : Outside(new)
    BY <1>4 DEF Unplug
  <2>2. PICK new \in Reroot([desk EXCEPT ![d] = Off]) : Outside(new)
    BY <2>1
  <2>3. Hidden(new)
    BY <1>1, <2>2, HiddenDetached, HiddenReroot
  <2> QED
    BY <2>2, <2>3, OutsideNears
<1> QED
  BY <1>2, <1>3, <1>4

LEMMA StepNears ==
    ASSUME Inv, Aligned, Nearing, [Next]_vars
    PROVE  Nearing'
<1>1. CASE Agent
  BY <1>1, BeginSetNears, SetStateNears, SetSizeNears, SetPositionNears, ApplyNears, RefreshNears
     DEF Agent
<1>2. CASE DisplayChange
  BY <1>2, DisplayChangeNears
<1>3. CASE \E r \in Requests : HandleMonConfig(r)
  BY <1>3, HandleMonConfigNears
<1>4. CASE HandleDepth
  BY <1>4, HandleDepthNears
<1>5. CASE Rearrange \/ Plug \/ Unplug
  BY <1>5, OutsidersNear
<1>6. CASE UNCHANGED vars
  <2>1. UNCHANGED <<driver, present, desk, conf, clean, displays, total, updating, main, dev, sets,
                    normal, request, tries, stale>>
    BY <1>6 DEF vars
  <2> QED
    BY <2>1, NearingSame
<1> QED
  BY <1>1, <1>2, <1>3, <1>4, <1>5, <1>6 DEF Next

\* A request that Windows refuses nothing of, and that nobody comes in between
\* of, is met when it has been repeated once for every device and once more:
\* handle_mon_config lets nothing that is asked for get lost for good, however
\* many displays have to be switched on first and whatever the table said.
THEOREM RequestsAreMet == Spec => []RequestIsMet
<1>1. ASSUME Inv, Nearing, Settled, tries = Enough, Asked # {}
      PROVE  Met(desk)
  <2>1. Counting
    <3>1. tries >= 1
      BY <1>1, InvFacts, CountFacts
    <3> QED
      BY <1>1, <3>1 DEF Counting, Settled
  <2>2. Near(desk, tries)
    BY <1>1, <2>1 DEF Nearing, Settled
  <2> DEFINE l == Cardinality(Lacking(desk))
  <2>3. l \in Nat /\ Enough \in Nat
    BY <1>1, InvFacts, CountFacts
  <2> HIDE DEF l
  <2>4. ~(l + Enough < Enough)
    BY <2>3
  <2> QED
    BY <1>1, <2>2, <2>4 DEF Near, l
<1>2. Inv /\ Nearing => RequestIsMet
  BY <1>1 DEF RequestIsMet, Met
<1>3. Init => Nearing
  BY InitNears
<1>4. Inv /\ Aligned /\ Nearing /\ [Next]_vars => Nearing'
  BY StepNears
<1> QED
  BY <1>2, <1>3, <1>4, Invariance, Alignment, PTL DEF Spec

==============================================================================
