----------------------- MODULE FlattenedMarshalProofs -----------------------
(***************************************************************************)
(* For any declarations of struct types that Go accepts and in which no    *)
(* struct embeds itself: the fields that the generator serializes are      *)
(* where their last declarations are; an order is one of all of them; they *)
(* are those that Go selects by their names, if it selects one by each,    *)
(* none behind an unexported embedded struct, and no embedded struct in    *)
(* the place of one; and where nothing is embedded by pointer in what is   *)
(* embedded by value, every pointer above them is set.                     *)
(* Then, for any number of goroutines, any depth of embedding and any      *)
(* fields: marshalling a flattened value at the same time writes that      *)
(* value, and panics only where two nested pointers were nil.              *)
(***************************************************************************)
EXTENDS FlattenedMarshal, SequenceTheorems, FiniteSetTheorems, WellFoundedInduction, TLAPS

\* Induction over an interval, from the least element of a set of numbers.
LEMMA LeastElement ==
  ASSUME NEW T, T \subseteq Nat, T # {}
  PROVE  \E m \in T : \A k \in T : m <= k
<1>1. PICK m \in T : \A k \in T : <<k, m>> \notin OpToRel(<, Nat)
  BY WFMin, NatLessThanWellFounded, Zenon
<1>2. \A k \in T : ~(k < m)
  BY <1>1, Zenon DEF OpToRel
<1>3. QED BY <1>2

LEMMA Upward ==
  ASSUME NEW n \in Nat, NEW S, 0 \in S, \A m \in 0 .. (n - 1) : m \in S => m + 1 \in S
  PROVE  \A m \in 0 .. n : m \in S
<1> DEFINE T == { m \in 0 .. n : m \notin S }
<1>1. SUFFICES ASSUME T # {} PROVE FALSE
  OBVIOUS
<1>2. PICK m \in T : \A k \in T : m <= k
  <2>1. T \subseteq Nat
    OBVIOUS
  <2> HIDE DEF T
  <2>2. QED BY <1>1, <2>1, LeastElement
<1>3. m # 0 /\ m - 1 \in 0 .. (n - 1) /\ m - 1 \notin T
  BY <1>2
<1>4. m - 1 \in S
  BY <1>3
<1>5. QED BY <1>2, <1>3, <1>4

-----------------------------------------------------------------------------

\* What is kept of the first k elements: t.
KeptOf(t, s, I, k, R) ==
  /\ t \in Seq(R)
  /\ \E h \in [1 .. Len(t) -> 1 .. k] :
       /\ \A i \in 1 .. Len(t) : h[i] \in I /\ t[i] = s[h[i]]
       /\ \A i, j \in 1 .. Len(t) : i < j => h[i] < h[j]
       /\ \A m \in 1 .. k : m \in I => \E i \in 1 .. Len(t) : h[i] = m

KeptStep(s, I, f, k) ==
  IF k = 0 THEN << >> ELSE IF k \in I THEN Append(f[k - 1], s[k]) ELSE f[k - 1]

LEMMA KeptExists ==
  ASSUME NEW s, NEW I, NEW n \in Nat
  PROVE  \E f : f = [k \in 0 .. n |-> KeptStep(s, I, f, k)]
<1> DEFINE S == { m \in 0 .. n : \E f : f = [k \in 0 .. m |-> KeptStep(s, I, f, k)] }
<1>1. 0 \in S
  <2> DEFINE f == [k \in 0 .. 0 |-> << >>]
  <2>1. f = [k \in 0 .. 0 |-> KeptStep(s, I, f, k)]
    BY DEF KeptStep
  <2>2. QED BY <2>1
<1>2. ASSUME NEW m \in 0 .. (n - 1), m \in S PROVE m + 1 \in S
  <2>1. PICK f : f = [k \in 0 .. m |-> KeptStep(s, I, f, k)]
    BY <1>2
  <2> DEFINE g == [k \in 0 .. (m + 1) |-> IF k = m + 1 THEN KeptStep(s, I, f, m + 1) ELSE f[k]]
  <2>2. m + 1 \in 0 .. n /\ m \in 0 .. (m + 1)
    OBVIOUS
  <2>3. \A k \in 0 .. m : g[k] = f[k] /\ k \in 0 .. (m + 1)
    OBVIOUS
  <2>4. ASSUME NEW k \in 0 .. (m + 1) PROVE g[k] = KeptStep(s, I, g, k)
    <3>1. CASE k = m + 1
      <4>1. g[k] = KeptStep(s, I, f, m + 1) /\ k - 1 = m /\ m \in 0 .. m
        BY <3>1
      <4>2. g[k - 1] = f[m]
        BY <2>3, <4>1
      <4> HIDE DEF g
      <4>3. QED BY <3>1, <4>1, <4>2 DEF KeptStep
    <3>2. CASE k # m + 1
      <4>1. k \in 0 .. m
        BY <3>2
      <4>2. g[k] = KeptStep(s, I, f, k)
        BY <2>1, <2>3, <4>1
      <4>3. k # 0 => g[k - 1] = f[k - 1]
        BY <2>3, <4>1
      <4> HIDE DEF g
      <4>4. QED BY <4>2, <4>3 DEF KeptStep
    <3>3. QED BY <3>1, <3>2
  <2>5. g = [k \in 0 .. (m + 1) |-> KeptStep(s, I, g, k)]
    <3> DEFINE h == [k \in 0 .. (m + 1) |-> KeptStep(s, I, g, k)]
    <3>1. DOMAIN g = DOMAIN h /\ \A k \in 0 .. (m + 1) : g[k] = h[k]
      BY <2>4
    <3>2. g = h
      BY <3>1
    <3>3. QED BY <3>2
  <2>6. QED BY <2>2, <2>5
<1>3. \A m \in 0 .. n : m \in S
  <2> HIDE DEF S
  <2>1. QED BY <1>1, <1>2, Upward
<1>4. n \in S
  BY <1>3
<1>5. QED BY <1>4

\* Of a sequence, the elements at some indexes are kept, in their order.
LEMMA KeptIs ==
  ASSUME NEW R, NEW s \in Seq(R), NEW I
  PROVE  KeptOf(Kept(s, I), s, I, Len(s), R)
<1> DEFINE n == Len(s)
           f == CHOOSE g : g = [k \in 0 .. n |-> IF k = 0 THEN << >> ELSE IF k \in I THEN Append(g[k - 1], s[k]) ELSE g[k - 1]]
<1>1. n \in Nat /\ DOMAIN s = 1 .. n /\ \A k \in 1 .. n : s[k] \in R
  BY LenProperties, ElementOfSeq
<1>2. f = [k \in 0 .. n |-> IF k = 0 THEN << >> ELSE IF k \in I THEN Append(f[k - 1], s[k]) ELSE f[k - 1]]
  <2> HIDE DEF n
  <2>1. \E g : g = [k \in 0 .. n |-> IF k = 0 THEN << >> ELSE IF k \in I THEN Append(g[k - 1], s[k]) ELSE g[k - 1]]
    <3>1. \E g : g = [k \in 0 .. n |-> KeptStep(s, I, g, k)]
      BY <1>1, KeptExists
    <3>2. QED BY <3>1, Zenon DEF KeptStep
  <2>2. QED BY <2>1, Zenon
<1>3. Kept(s, I) = f[n]
  BY DEF Kept
<1> HIDE DEF f
<1> DEFINE S == { k \in 0 .. n : KeptOf(f[k], s, I, k, R) }
<1>4. 0 \in S
  <2>1. f[0] = << >> /\ 0 \in 0 .. n
    BY <1>1, <1>2
  <2>2. << >> \in Seq(R) /\ Len(<< >>) = 0
    BY EmptySeq
  <2>3. KeptOf(<< >>, s, I, 0, R)
    <3> DEFINE h == [i \in 1 .. 0 |-> 0]
    <3>1. h \in [1 .. 0 -> 1 .. 0]
      OBVIOUS
    <3>2. \A i \in 1 .. 0 : FALSE
      OBVIOUS
    <3>3. QED BY <2>2, <3>1, <3>2, Zenon DEF KeptOf
  <2>4. QED BY <2>1, <2>3
<1>5. ASSUME NEW m \in 0 .. (n - 1), m \in S PROVE m + 1 \in S
  <2>1. m + 1 \in 0 .. n /\ m + 1 # 0 /\ (m + 1) - 1 = m /\ m + 1 \in 1 .. n
    BY <1>1
  <2>2. f[m + 1] = IF m + 1 \in I THEN Append(f[m], s[m + 1]) ELSE f[m]
    BY <1>2, <2>1
  <2>3. KeptOf(f[m], s, I, m, R)
    BY <1>5
  <2>4. PICK t : t = f[m]
    OBVIOUS
  <2>5. KeptOf(t, s, I, m, R)
    BY <2>3, <2>4
  <2>6. PICK h \in [1 .. Len(t) -> 1 .. m] :
          /\ \A i \in 1 .. Len(t) : h[i] \in I /\ t[i] = s[h[i]]
          /\ \A i, j \in 1 .. Len(t) : i < j => h[i] < h[j]
          /\ \A l \in 1 .. m : l \in I => \E i \in 1 .. Len(t) : h[i] = l
    BY <2>5 DEF KeptOf
  <2>7. t \in Seq(R) /\ Len(t) \in Nat
    BY <2>5, LenProperties DEF KeptOf
  <2>8. CASE m + 1 \notin I
    <3>1. h \in [1 .. Len(t) -> 1 .. (m + 1)]
      BY <1>1
    <3>2. \A l \in 1 .. (m + 1) : l \in I => \E i \in 1 .. Len(t) : h[i] = l
      <4>1. \A l \in 1 .. (m + 1) : l \in I => l \in 1 .. m
        BY <2>8, <1>1
      <4>2. QED BY <4>1, <2>6
    <3>3. KeptOf(t, s, I, m + 1, R)
      BY <2>6, <2>7, <3>1, <3>2 DEF KeptOf
    <3>4. QED BY <2>1, <2>2, <2>4, <2>8, <3>3
  <2>9. CASE m + 1 \in I
    <3> DEFINE u == Append(t, s[m + 1])
               c == Len(t)
               g == [i \in 1 .. (c + 1) |-> IF i = c + 1 THEN m + 1 ELSE h[i]]
    <3>1. /\ u \in Seq(R) /\ Len(u) = c + 1 /\ u[c + 1] = s[m + 1]
          /\ \A i \in 1 .. c : u[i] = t[i]
      BY <1>1, <2>1, <2>7, AppendProperties
    <3>2. /\ \A i \in 1 .. (c + 1) : i # c + 1 => i \in 1 .. c
          /\ \A i \in 1 .. c : h[i] \in 1 .. m /\ h[i] \in 1 .. (m + 1) /\ h[i] < m + 1
          /\ m + 1 \in 1 .. (m + 1) /\ c + 1 \in 1 .. (c + 1)
          /\ \A i \in 1 .. c : i \in 1 .. (c + 1) /\ i # c + 1
      <4>1. m \in Nat /\ c \in Nat /\ \A i \in 1 .. c : h[i] \in 1 .. m
        BY <2>6, <2>7, <1>1
      <4> HIDE DEF c
      <4>2. QED BY <4>1
    <3>3. g \in [1 .. (c + 1) -> 1 .. (m + 1)] /\ g[c + 1] = m + 1 /\ \A i \in 1 .. c : g[i] = h[i]
      BY <3>2
    <3> HIDE DEF g, u
    <3>4. \A i \in 1 .. (c + 1) : g[i] \in I /\ u[i] = s[g[i]]
      BY <2>6, <2>9, <3>1, <3>2, <3>3
    <3>5. ASSUME NEW i \in 1 .. (c + 1), NEW j \in 1 .. (c + 1), i < j PROVE g[i] < g[j]
      <4>1. i \in 1 .. c
        BY <2>7, <3>5
      <4>2. CASE j = c + 1
        BY <3>2, <3>3, <4>1, <4>2
      <4>3. CASE j # c + 1
        <5>1. j \in 1 .. c
          BY <3>2, <4>3
        <5>2. QED BY <2>6, <3>3, <3>5, <4>1, <5>1
      <4>4. QED BY <4>2, <4>3
    <3>6. ASSUME NEW l \in 1 .. (m + 1), l \in I PROVE \E i \in 1 .. (c + 1) : g[i] = l
      <4>1. CASE l = m + 1
        BY <3>2, <3>3, <4>1
      <4>2. CASE l # m + 1
        <5>1. l \in 1 .. m
          BY <4>2
        <5>2. PICK i \in 1 .. c : h[i] = l
          BY <2>6, <3>6, <5>1
        <5>3. QED BY <3>2, <3>3, <5>2
      <4>3. QED BY <4>1, <4>2
    <3>7. KeptOf(u, s, I, m + 1, R)
      <4> HIDE DEF c
      <4>1. g \in [1 .. Len(u) -> 1 .. (m + 1)]
        BY <3>1, <3>3
      <4>2. \A i \in 1 .. Len(u) : g[i] \in I /\ u[i] = s[g[i]]
        BY <3>1, <3>4
      <4>3. \A i, j \in 1 .. Len(u) : i < j => g[i] < g[j]
        BY <3>1, <3>5
      <4>4. \A l \in 1 .. (m + 1) : l \in I => \E i \in 1 .. Len(u) : g[i] = l
        BY <3>1, <3>6
      <4>5. QED BY <3>1, <4>1, <4>2, <4>3, <4>4, Zenon DEF KeptOf
    <3>8. QED BY <2>1, <2>2, <2>4, <2>9, <3>7 DEF u
  <2>10. QED BY <2>8, <2>9
<1>6. \A m \in 0 .. n : m \in S
  <2> HIDE DEF S, n
  <2>1. QED BY <1>1, <1>4, <1>5, Upward
<1>7. n \in S
  BY <1>1, <1>6
<1>8. QED BY <1>3, <1>7
-----------------------------------------------------------------------------

AnyStep == [type : DOMAIN decl, next : Nat]

Exported == { s \in Steps : Member(s).exported }

\* Where the exported fields are, at any depth.
FieldPlaces ==
  { p \in Seq(AnyStep) :
      /\ Len(p) > 0
      /\ \A k \in 1 .. Len(p) : p[k] \in Exported
      /\ \A k \in 1 .. (Len(p) - 1) : Entered(p[k])
      /\ ~Entered(p[Len(p)])
      /\ IsPath(p) }

LEMMA Declared ==
  ASSUME decl \in Decls
  PROVE  /\ Root \in DOMAIN decl
         /\ IsFiniteSet(DOMAIN decl) /\ Cardinality(DOMAIN decl) \in Nat
         /\ \A T \in DOMAIN decl :
              /\ decl[T] \in Seq(Members)
              /\ Len(decl[T]) \in Nat /\ DOMAIN decl[T] = 1 .. Len(decl[T])
              /\ \A i \in DOMAIN decl[T] :
                   /\ decl[T][i] \in Members
                   /\ decl[T][i].kind # "field" => decl[T][i].type \in DOMAIN decl
                   /\ \A j \in DOMAIN decl[T] :
                        decl[T][i].exported /\ decl[T][j].exported /\ decl[T][i].name = decl[T][j].name => i = j
<1>1. /\ Root \in DOMAIN decl
      /\ IsFiniteSet(DOMAIN decl) /\ Cardinality(DOMAIN decl) \in Nat
  BY DeclsAssumption, FS_CardinalityType
<1>2. ASSUME NEW T \in DOMAIN decl
      PROVE  /\ decl[T] \in Seq(Members)
             /\ Len(decl[T]) \in Nat /\ DOMAIN decl[T] = 1 .. Len(decl[T])
             /\ \A i \in DOMAIN decl[T] :
                  /\ decl[T][i] \in Members
                  /\ decl[T][i].kind # "field" => decl[T][i].type \in DOMAIN decl
                  /\ \A j \in DOMAIN decl[T] :
                       decl[T][i].exported /\ decl[T][j].exported /\ decl[T][i].name = decl[T][j].name => i = j
  <2>1. /\ decl[T] \in Seq(Members)
        /\ \A i \in DOMAIN decl[T] :
             /\ decl[T][i].kind # "field" => decl[T][i].type \in DOMAIN decl
             /\ \A j \in DOMAIN decl[T] :
                  decl[T][i].exported /\ decl[T][j].exported /\ decl[T][i].name = decl[T][j].name => i = j
    BY DeclsAssumption
  <2>2. Len(decl[T]) \in Nat /\ DOMAIN decl[T] = 1 .. Len(decl[T])
    BY <2>1, LenProperties
  <2>3. \A i \in DOMAIN decl[T] : decl[T][i] \in Members
    BY <2>1, <2>2, ElementOfSeq
  <2>4. QED BY <2>1, <2>2, <2>3
<1>3. QED BY <1>1, <1>2

LEMMA StepsAre ==
  ASSUME decl \in Decls, NEW s
  PROVE  s \in Exported <=> s \in AnyStep /\ s.next \in 1 .. Len(decl[s.type]) /\ Member(s).exported
<1>1. \A T \in DOMAIN decl : Len(decl[T]) \in Nat /\ DOMAIN decl[T] = 1 .. Len(decl[T])
  BY Declared
<1>2. ASSUME s \in Exported
      PROVE  s \in AnyStep /\ s.next \in 1 .. Len(decl[s.type]) /\ Member(s).exported
  <2>1. Member(s).exported
    BY <1>2 DEF Exported, Steps
  <2>2. PICK T \in DOMAIN decl : s \in [type : {T}, next : DOMAIN decl[T]]
    BY <1>2 DEF Exported, Steps
  <2>3. s.type = T /\ s.next \in 1 .. Len(decl[T]) /\ s = [type |-> s.type, next |-> s.next] /\ s.next \in Nat
    BY <1>1, <2>2
  <2>4. QED BY <2>1, <2>3 DEF AnyStep
<1>3. ASSUME s \in AnyStep, s.next \in 1 .. Len(decl[s.type]), Member(s).exported
      PROVE  s \in Exported
  <2>1. s.type \in DOMAIN decl /\ s = [type |-> s.type, next |-> s.next]
    BY <1>3 DEF AnyStep
  <2>2. s \in [type : {s.type}, next : DOMAIN decl[s.type]]
    BY <1>1, <1>3, <2>1
  <2>3. QED BY <1>3, <2>1, <2>2 DEF Exported, Steps
<1>4. QED BY <1>2, <1>3

LEMMA SeqFacts ==
  ASSUME NEW S, NEW p \in Seq(S)
  PROVE  Len(p) \in Nat /\ DOMAIN p = 1 .. Len(p) /\ \A k \in 1 .. Len(p) : p[k] \in S
BY LenProperties, ElementOfSeq

LEMMA AdvanceIs ==
  ASSUME NEW p \in Seq(AnyStep), Len(p) > 0
  PROVE  /\ Advance(p) \in Seq(AnyStep) /\ Len(Advance(p)) = Len(p)
         /\ \A k \in 1 .. (Len(p) - 1) : Advance(p)[k] = p[k]
         /\ Advance(p)[Len(p)].type = p[Len(p)].type
         /\ Advance(p)[Len(p)].next = p[Len(p)].next + 1
<1> DEFINE n == Len(p)
<1>1. n \in Nat /\ DOMAIN p = 1 .. n /\ n \in 1 .. n /\ p[n] \in AnyStep
  BY SeqFacts
<1>2. Onward(p[n]) \in AnyStep
  BY <1>1 DEF Onward, AnyStep
<1>3. Advance(p) = [p EXCEPT ![n] = Onward(p[n])]
  BY DEF Advance
<1>4. /\ Advance(p) \in Seq(AnyStep) /\ Len(Advance(p)) = n
      /\ \A k \in 1 .. n : Advance(p)[k] = IF k = n THEN Onward(p[n]) ELSE p[k]
  BY <1>1, <1>2, <1>3, ExceptSeq
<1>5. \A k \in 1 .. (n - 1) : k \in 1 .. n /\ k # n
  <2> HIDE DEF n
  <2>1. QED BY <1>1
<1>6. \A k \in 1 .. (n - 1) : Advance(p)[k] = p[k]
  BY <1>4, <1>5
<1>7. Advance(p)[n] = Onward(p[n])
  BY <1>1, <1>4
<1>8. QED BY <1>4, <1>6, <1>7 DEF Onward

\* Two places that are the same so far are in the same struct.
LEMMA SameType ==
  ASSUME NEW p, NEW q, IsPath(p), IsPath(q), Len(p) \in Nat, Len(q) \in Nat,
         NEW k \in 1 .. Len(p), k <= Len(q), \A i \in 1 .. (k - 1) : p[i] = q[i]
  PROVE  p[k].type = q[k].type
<1>1. CASE k = 1
  BY <1>1 DEF IsPath
<1>2. CASE k # 1
  <2>1. PICK j \in 1 .. (k - 1) : j + 1 = k /\ j \in 1 .. (Len(p) - 1) /\ j \in 1 .. (Len(q) - 1)
    <3>1. k - 1 \in 1 .. (k - 1) /\ (k - 1) + 1 = k /\ k - 1 \in 1 .. (Len(p) - 1) /\ k - 1 \in 1 .. (Len(q) - 1)
      BY <1>2
    <3>2. QED BY <3>1
  <2>2. p[j + 1].type = Member(p[j]).type /\ q[j + 1].type = Member(q[j]).type
    BY <2>1 DEF IsPath
  <2>3. QED BY <2>1, <2>2
<1>3. QED BY <1>1, <1>2

LEMMA BeforeAsym ==
  ASSUME NEW p \in Seq(AnyStep), NEW q \in Seq(AnyStep), Before(p, q)
  PROVE  ~Before(q, p) /\ p # q
<1>1. /\ Len(p) \in Nat /\ Len(q) \in Nat
      /\ \A k \in 1 .. Len(p) : p[k].next \in Nat
      /\ \A k \in 1 .. Len(q) : q[k].next \in Nat
  <2>1. /\ Len(p) \in Nat /\ Len(q) \in Nat
        /\ \A k \in 1 .. Len(p) : p[k] \in AnyStep
        /\ \A k \in 1 .. Len(q) : q[k] \in AnyStep
    BY SeqFacts
  <2>2. \A s \in AnyStep : s.next \in Nat
    BY DEF AnyStep
  <2>3. QED BY <2>1, <2>2
<1>2. PICK k \in 1 .. Len(p) : k <= Len(q) /\ (\A i \in 1 .. (k - 1) : p[i] = q[i]) /\ p[k].next < q[k].next
  BY DEF Before
<1>3. k \in 1 .. Len(q) /\ k \in Nat
  BY <1>1, <1>2
<1>4. p # q
  BY <1>1, <1>2, <1>3
<1>5. ASSUME NEW j \in 1 .. Len(q), j <= Len(p), \A i \in 1 .. (j - 1) : q[i] = p[i], q[j].next < p[j].next
      PROVE  FALSE
  <2>1. j \in 1 .. Len(p)
    BY <1>1, <1>5
  <2>2. CASE j = k
    BY <1>1, <1>2, <1>3, <1>5, <2>1, <2>2
  <2>3. CASE j < k
    <3>1. j \in 1 .. (k - 1)
      BY <1>3, <2>3
    <3>2. p[j] = q[j]
      BY <1>2, <3>1
    <3>3. QED BY <1>1, <1>5, <2>1, <3>2
  <2>4. CASE k < j
    <3>1. k \in 1 .. (j - 1)
      BY <1>3, <2>4
    <3>2. p[k] = q[k]
      BY <1>5, <3>1
    <3>3. QED BY <1>1, <1>2, <1>3, <3>2
  <2>5. QED BY <1>3, <2>2, <2>3, <2>4
<1>6. QED BY <1>4, <1>5 DEF Before
-----------------------------------------------------------------------------

StackOK ==
  pc = "parse" =>
    /\ stack \in Seq(AnyStep) /\ Len(stack) > 0
    /\ \A k \in 1 .. depth : stack[k] \in Exported /\ Entered(stack[k])
    /\ IsPath(stack)
    /\ call.next \in 1 .. (Len(decl[call.type]) + 1)

\* The place is in the embedded struct that is at q, or it is q.
Through(p, q) == Len(p) >= Len(q) /\ \A k \in 1 .. Len(q) : p[k] = q[k]

LEMMA StackFacts ==
  ASSUME StackOK, pc = "parse"
  PROVE  /\ stack \in Seq(AnyStep) /\ Len(stack) \in Nat /\ Len(stack) > 0
         /\ \A k \in 1 .. Len(stack) : stack[k] \in AnyStep /\ stack[k].next \in Nat
         /\ depth \in Nat /\ depth = Len(stack) - 1
         /\ call = stack[Len(stack)] /\ call \in AnyStep /\ Len(stack) \in 1 .. Len(stack)
<1>1. /\ stack \in Seq(AnyStep) /\ Len(stack) > 0 /\ Len(stack) \in Nat
      /\ \A k \in 1 .. Len(stack) : stack[k] \in AnyStep
  BY SeqFacts DEF StackOK
<1>2. \A s \in AnyStep : s.next \in Nat
  BY DEF AnyStep
<1>3. depth \in Nat /\ depth = Len(stack) - 1 /\ Len(stack) \in 1 .. Len(stack)
  BY <1>1 DEF depth
<1>4. QED BY <1>1, <1>2, <1>3 DEF call

LEMMA PlaceFacts ==
  ASSUME NEW p \in FieldPlaces
  PROVE  /\ p \in Seq(AnyStep) /\ Len(p) \in Nat /\ Len(p) > 0
         /\ \A k \in 1 .. Len(p) : p[k] \in AnyStep /\ p[k].next \in Nat /\ p[k] \in Exported
         /\ \A k \in 1 .. (Len(p) - 1) : Entered(p[k])
         /\ ~Entered(p[Len(p)])
         /\ IsPath(p)
<1>1. /\ p \in Seq(AnyStep) /\ Len(p) > 0 /\ IsPath(p) /\ ~Entered(p[Len(p)])
      /\ \A k \in 1 .. (Len(p) - 1) : Entered(p[k])
      /\ \A k \in 1 .. Len(p) : p[k] \in Exported
  BY DEF FieldPlaces
<1>2. Len(p) \in Nat /\ \A k \in 1 .. Len(p) : p[k] \in AnyStep
  BY <1>1, SeqFacts
<1>3. \A s \in AnyStep : s.next \in Nat
  BY DEF AnyStep
<1>4. \A k \in 1 .. Len(p) : p[k] \in AnyStep /\ p[k].next \in Nat /\ p[k] \in Exported
  <2> SUFFICES ASSUME NEW k \in 1 .. Len(p)
               PROVE  p[k] \in AnyStep /\ p[k].next \in Nat /\ p[k] \in Exported
    OBVIOUS
  <2>1. p[k] \in AnyStep /\ p[k] \in Exported
    BY <1>1, <1>2
  <2>2. QED BY <2>1, <1>3
<1>5. QED BY <1>1, <1>2, <1>4

\* Going on past q passes what is before q, and what is in it.
LEMMA PastIt ==
  ASSUME NEW p \in FieldPlaces, NEW q \in Seq(AnyStep), Len(q) > 0, IsPath(q)
  PROVE  Before(p, Advance(q)) <=> Before(p, q) \/ Through(p, q)
<1> DEFINE n == Len(q)
           m == Len(p)
           a == Advance(q)
<1>1. /\ m \in Nat /\ IsPath(p)
      /\ \A k \in 1 .. m : p[k] \in AnyStep /\ p[k].next \in Nat
  BY PlaceFacts
<1>2. n \in Nat /\ n > 0 /\ \A k \in 1 .. n : q[k] \in AnyStep
  BY SeqFacts
<1>3. /\ Len(a) = n /\ \A k \in 1 .. (n - 1) : a[k] = q[k]
      /\ a[n].type = q[n].type /\ a[n].next = q[n].next + 1
  BY AdvanceIs
<1>4. \A s \in AnyStep : s.next \in Nat /\ s = [type |-> s.type, next |-> s.next]
  BY DEF AnyStep
<1> HIDE DEF a
<1>5. ASSUME Before(p, a) PROVE Before(p, q) \/ Through(p, q)
  <2>1. PICK k \in 1 .. m : k <= n /\ (\A i \in 1 .. (k - 1) : p[i] = a[i]) /\ p[k].next < a[k].next
    BY <1>3, <1>5 DEF Before
  <2>2. \A i \in 1 .. (k - 1) : p[i] = q[i]
    <3>1. \A i \in 1 .. (k - 1) : i \in 1 .. (n - 1)
      BY <1>2, <2>1
    <3>2. QED BY <1>3, <2>1, <3>1
  <2>3. CASE k < n
    <3>1. k \in 1 .. (n - 1)
      BY <1>2, <2>1, <2>3
    <3>2. p[k].next < q[k].next
      BY <1>3, <2>1, <3>1
    <3>3. QED BY <2>1, <2>2, <3>2 DEF Before
  <2>4. CASE k = n /\ p[n].next < q[n].next
    BY <2>1, <2>2, <2>4 DEF Before
  <2>5. CASE k = n /\ ~(p[n].next < q[n].next)
    <3>1. n \in 1 .. m /\ n \in 1 .. n /\ n <= n
      BY <1>2, <2>1, <2>5
    <3>2. p[n].next = q[n].next
      BY <1>1, <1>2, <1>3, <1>4, <2>1, <2>5, <3>1
    <3>3. p[n].type = q[n].type
      BY <1>1, <1>2, <2>2, <2>5, <3>1, SameType
    <3>4. p[n] = q[n]
      BY <1>1, <1>2, <1>4, <3>1, <3>2, <3>3
    <3>5. \A i \in 1 .. n : i = n \/ i \in 1 .. (k - 1)
      BY <1>2, <2>5
    <3>6. \A i \in 1 .. n : p[i] = q[i]
      BY <2>2, <3>4, <3>5
    <3>7. m >= n
      BY <1>1, <3>1
    <3>8. QED BY <3>6, <3>7 DEF Through
  <2>6. QED BY <2>1, <1>2, <2>3, <2>4, <2>5
<1>6. ASSUME Before(p, q) PROVE Before(p, a)
  <2>1. PICK k \in 1 .. m : k <= n /\ (\A i \in 1 .. (k - 1) : p[i] = q[i]) /\ p[k].next < q[k].next
    BY <1>6 DEF Before
  <2>2. \A i \in 1 .. (k - 1) : p[i] = a[i]
    <3>1. \A i \in 1 .. (k - 1) : i \in 1 .. (n - 1)
      BY <1>2, <2>1
    <3>2. QED BY <1>3, <2>1, <3>1
  <2>3. p[k].next < a[k].next
    <3>1. CASE k = n
      <4>1. p[n].next < q[n].next /\ p[n].next \in Nat /\ q[n].next \in Nat
        BY <1>1, <1>2, <1>4, <2>1, <3>1
      <4>2. QED BY <1>3, <3>1, <4>1
    <3>2. CASE k # n
      <4>1. k \in 1 .. (n - 1)
        BY <1>2, <2>1, <3>2
      <4>2. QED BY <1>3, <2>1, <4>1
    <3>3. QED BY <3>1, <3>2
  <2>4. QED BY <1>3, <2>1, <2>2, <2>3 DEF Before
<1>7. ASSUME Through(p, q) PROVE Before(p, a)
  <2>1. n \in 1 .. m /\ n <= Len(a) /\ n \in 1 .. n
    BY <1>1, <1>2, <1>3, <1>7 DEF Through
  <2>2. \A i \in 1 .. (n - 1) : p[i] = a[i]
    <3>1. \A i \in 1 .. (n - 1) : i \in 1 .. n
      BY <1>2
    <3>2. QED BY <1>3, <1>7, <3>1 DEF Through
  <2>3. p[n].next < a[n].next
    <3>1. p[n] = q[n] /\ p[n].next \in Nat
      BY <1>1, <1>7, <2>1 DEF Through
    <3>2. QED BY <1>3, <3>1
  <2>4. QED BY <2>1, <2>2, <2>3 DEF Before
<1>8. QED BY <1>5, <1>6, <1>7 DEF a

\* Entering an embedded struct passes nothing.
LEMMA EnterIt ==
  ASSUME decl \in Decls, NEW p \in FieldPlaces, NEW q \in Seq(AnyStep), Len(q) > 0, NEW T \in DOMAIN decl
  PROVE  Before(p, Append(q, Call(T))) <=> Before(p, q)
<1> DEFINE n == Len(q)
           m == Len(p)
           a == Append(q, Call(T))
<1>1. m \in Nat /\ \A k \in 1 .. m : p[k].next \in Nat /\ p[k] \in Exported
  BY PlaceFacts
<1>2. n \in Nat /\ n > 0
  BY SeqFacts
<1>3. Call(T) \in AnyStep /\ Call(T).next = 1
  BY DEF Call, AnyStep
<1>4. /\ Len(a) = n + 1 /\ a[n + 1] = Call(T)
      /\ \A k \in 1 .. n : a[k] = q[k]
  BY <1>3, AppendProperties
<1>5. \A s \in Exported : s.next \in Nat /\ s.next # 0
  BY StepsAre DEF AnyStep
<1> HIDE DEF a
<1>6. ASSUME Before(p, a) PROVE Before(p, q)
  <2>1. PICK k \in 1 .. m : k <= n + 1 /\ (\A i \in 1 .. (k - 1) : p[i] = a[i]) /\ p[k].next < a[k].next
    BY <1>4, <1>6 DEF Before
  <2>2. k # n + 1
    <3>1. ASSUME k = n + 1 PROVE FALSE
      <4>1. p[k].next < 1 /\ p[k].next \in Nat /\ p[k].next # 0
        BY <1>1, <1>3, <1>4, <1>5, <2>1, <3>1
      <4>2. QED BY <4>1
    <3>2. QED BY <3>1
  <2>3. k \in 1 .. n /\ k <= n /\ \A i \in 1 .. (k - 1) : i \in 1 .. n
    BY <1>2, <2>1, <2>2
  <2>4. p[k].next < q[k].next /\ \A i \in 1 .. (k - 1) : p[i] = q[i]
    BY <1>4, <2>1, <2>3
  <2>5. QED BY <2>1, <2>3, <2>4 DEF Before
<1>7. ASSUME Before(p, q) PROVE Before(p, a)
  <2>1. PICK k \in 1 .. m : k <= n /\ (\A i \in 1 .. (k - 1) : p[i] = q[i]) /\ p[k].next < q[k].next
    BY <1>7 DEF Before
  <2>2. k \in 1 .. n /\ k <= n + 1 /\ \A i \in 1 .. (k - 1) : i \in 1 .. n
    BY <1>2, <2>1
  <2>3. p[k].next < a[k].next /\ \A i \in 1 .. (k - 1) : p[i] = a[i]
    BY <1>4, <2>1, <2>2
  <2>4. QED BY <1>4, <2>1, <2>2, <2>3 DEF Before
<1>8. QED BY <1>6, <1>7 DEF a

LEMMA PrefixIs ==
  ASSUME NEW S, NEW s \in Seq(S), NEW l \in 1 .. Len(s)
  PROVE  /\ SubSeq(s, 1, l) \in Seq(S) /\ Len(SubSeq(s, 1, l)) = l
         /\ \A k \in 1 .. l : SubSeq(s, 1, l)[k] = s[k]
<1>1. Len(s) \in Nat /\ \A k \in 1 .. Len(s) : s[k] \in S
  BY SeqFacts
<1>2. l \in Nat /\ \A k \in 1 .. l : s[k] \in S
  BY <1>1
<1>3. /\ SubSeq(s, 1, l) \in Seq(S)
      /\ Len(SubSeq(s, 1, l)) = IF 1 <= l THEN l - 1 + 1 ELSE 0
      /\ \A k \in 1 .. (l - 1 + 1) : SubSeq(s, 1, l)[k] = s[1 + k - 1]
  BY <1>2, SubSeqProperties
<1>4. l - 1 + 1 = l /\ 1 <= l /\ \A k \in 1 .. l : 1 + k - 1 = k
  BY <1>1
<1>5. QED BY <1>3, <1>4

\* Where the struct is embedded that the innermost call is in.
LEMMA OuterIs ==
  ASSUME StackOK, pc = "parse", depth > 0
  PROVE  LET q == SubSeq(stack, 1, depth) IN
         /\ q \in Seq(AnyStep) /\ Len(q) = depth /\ IsPath(q)
         /\ \A k \in 1 .. depth : q[k] = stack[k]
<1> DEFINE n == depth
           q == SubSeq(stack, 1, n)
<1>2. /\ stack \in Seq(AnyStep) /\ n \in Nat /\ n > 0 /\ Len(stack) = n + 1
      /\ \A k \in 1 .. (n + 1) : stack[k] \in AnyStep
  <2>1. /\ stack \in Seq(AnyStep) /\ n \in Nat /\ Len(stack) \in Nat /\ n = Len(stack) - 1
        /\ \A k \in 1 .. Len(stack) : stack[k] \in AnyStep
    BY StackFacts
  <2>2. Len(stack) = n + 1
    BY <2>1
  <2>3. QED BY <2>1, <2>2
<1>3. /\ IsPath(stack) /\ \A k \in 1 .. n : stack[k] \in Exported /\ Entered(stack[k])
  BY DEF StackOK
<1>5. q \in Seq(AnyStep) /\ Len(q) = n /\ \A k \in 1 .. n : q[k] = stack[k]
  <2>1. n \in 1 .. Len(stack)
    BY <1>2
  <2>2. QED BY <1>2, <2>1, PrefixIs
<1> HIDE DEF q
<1>6. IsPath(q)
  <2>1. \A k \in 1 .. (n - 1) : k \in 1 .. n /\ k + 1 \in 1 .. n /\ k \in 1 .. ((n + 1) - 1)
    BY <1>2
  <2>2. 1 \in 1 .. n
    BY <1>2
  <2>3. stack[1].type = Root /\ \A k \in 1 .. ((n + 1) - 1) : stack[k + 1].type = Member(stack[k]).type
    BY <1>2, <1>3 DEF IsPath
  <2>4. QED BY <1>5, <2>1, <2>2, <2>3 DEF IsPath
<1>7. QED BY <1>5, <1>6 DEF q

\* At the end of an embedded struct, what is in it has been passed.
LEMMA LeaveIt ==
  ASSUME decl \in Decls, StackOK, pc = "parse", ~more, depth > 0, NEW p \in FieldPlaces
  PROVE  LET q == SubSeq(stack, 1, depth) IN
         /\ q \in Seq(AnyStep) /\ Len(q) = depth /\ IsPath(q)
         /\ \A k \in 1 .. depth : q[k] = stack[k]
         /\ Before(p, stack) <=> Before(p, q) \/ Through(p, q)
<1> DEFINE n == depth
           m == Len(p)
           q == SubSeq(stack, 1, n)
<1>1. /\ m \in Nat /\ m > 0 /\ IsPath(p) /\ ~Entered(p[m])
      /\ \A k \in 1 .. m : p[k] \in AnyStep /\ p[k].next \in Nat /\ p[k] \in Exported
  BY PlaceFacts
<1>2. /\ stack \in Seq(AnyStep) /\ n \in Nat /\ n > 0 /\ Len(stack) = n + 1
      /\ call = stack[n + 1] /\ call.next \in Nat
      /\ \A k \in 1 .. (n + 1) : stack[k] \in AnyStep
  <2>1. /\ stack \in Seq(AnyStep) /\ n \in Nat /\ Len(stack) \in Nat /\ n = Len(stack) - 1
        /\ call = stack[Len(stack)] /\ Len(stack) \in 1 .. Len(stack)
        /\ \A k \in 1 .. Len(stack) : stack[k] \in AnyStep /\ stack[k].next \in Nat
    BY StackFacts
  <2>2. Len(stack) = n + 1
    BY <2>1
  <2>3. QED BY <2>1, <2>2
<1>3. /\ IsPath(stack) /\ \A k \in 1 .. n : stack[k] \in Exported /\ Entered(stack[k])
  BY DEF StackOK
<1>4. call.next > Len(decl[call.type])
  <2>1. call.type \in DOMAIN decl
    BY <1>2 DEF AnyStep
  <2>2. Len(decl[call.type]) \in Nat
    BY <2>1, Declared
  <2>3. QED BY <1>2, <2>2 DEF more
<1>5. q \in Seq(AnyStep) /\ Len(q) = n /\ \A k \in 1 .. n : q[k] = stack[k]
  BY OuterIs
<1>6. IsPath(q)
  BY OuterIs
<1> HIDE DEF q
<1>7. ASSUME Before(p, stack) PROVE Before(p, q) \/ Through(p, q)
  <2>1. PICK k \in 1 .. m : k <= n + 1 /\ (\A i \in 1 .. (k - 1) : p[i] = stack[i]) /\ p[k].next < stack[k].next
    BY <1>2, <1>7 DEF Before
  <2>2. CASE k = n + 1
    <3>1. \A i \in 1 .. n : i \in 1 .. (k - 1)
      BY <1>2, <2>2
    <3>2. m >= n
      BY <1>1, <1>2, <2>1, <2>2
    <3>3. QED BY <1>5, <2>1, <3>1, <3>2 DEF Through
  <2>3. CASE k # n + 1
    <3>1. k \in 1 .. n /\ k <= n /\ \A i \in 1 .. (k - 1) : i \in 1 .. n
      BY <1>2, <2>1, <2>3
    <3>2. p[k].next < q[k].next /\ \A i \in 1 .. (k - 1) : p[i] = q[i]
      BY <1>5, <2>1, <3>1
    <3>3. QED BY <1>5, <2>1, <3>1, <3>2 DEF Before
  <2>4. QED BY <2>2, <2>3
<1>8. ASSUME Before(p, q) PROVE Before(p, stack)
  <2>1. PICK k \in 1 .. m : k <= n /\ (\A i \in 1 .. (k - 1) : p[i] = q[i]) /\ p[k].next < q[k].next
    BY <1>5, <1>8 DEF Before
  <2>2. k \in 1 .. n /\ k <= n + 1 /\ \A i \in 1 .. (k - 1) : i \in 1 .. n
    BY <1>2, <2>1
  <2>3. p[k].next < stack[k].next /\ \A i \in 1 .. (k - 1) : p[i] = stack[i]
    BY <1>5, <2>1, <2>2
  <2>4. QED BY <1>2, <2>1, <2>2, <2>3 DEF Before
<1>9. ASSUME Through(p, q) PROVE Before(p, stack)
  <2>1. m >= n /\ \A i \in 1 .. n : p[i] = stack[i]
    BY <1>5, <1>9 DEF Through
  <2>2. n \in 1 .. n
    BY <1>2
  <2>3. m # n
    BY <1>3, <1>1, <2>1, <2>2
  <2>4. n + 1 \in 1 .. m /\ n + 1 <= Len(stack) /\ (n + 1) - 1 = n
    BY <1>1, <1>2, <2>1, <2>3
  <2>5. p[n + 1].type = call.type
    <3>1. \A i \in 1 .. ((n + 1) - 1) : p[i] = stack[i]
      BY <2>1, <2>4
    <3>2. Len(stack) \in Nat
      BY <1>2
    <3>3. QED BY <1>1, <1>2, <1>3, <2>4, <3>1, <3>2, SameType
  <2>6. p[n + 1].next <= Len(decl[call.type]) /\ p[n + 1].next \in Nat
    <3>1. p[n + 1] \in Exported /\ p[n + 1].next \in Nat
      BY <1>1, <2>4
    <3>2. p[n + 1].next \in 1 .. Len(decl[p[n + 1].type])
      BY <3>1, StepsAre
    <3>3. QED BY <2>5, <3>1, <3>2
  <2>7. p[n + 1].next < stack[n + 1].next
    <3>1. call.type \in DOMAIN decl
      BY <1>2 DEF AnyStep
    <3>2. Len(decl[call.type]) \in Nat
      BY <3>1, Declared
    <3>3. QED BY <1>2, <1>4, <2>6, <3>2
  <2>8. QED BY <2>1, <2>4, <2>7 DEF Before
<1>10. QED BY <1>5, <1>6, <1>7, <1>8, <1>9 DEF q

\* At the end of the root type, everything has been passed.
LEMMA AllPassed ==
  ASSUME decl \in Decls, StackOK, pc = "parse", ~more, depth = 0, NEW p \in FieldPlaces
  PROVE  Before(p, stack)
<1>1. Len(stack) = 1 /\ call = stack[1] /\ call \in AnyStep /\ call.next \in Nat
  <2>1. /\ Len(stack) \in Nat /\ depth = Len(stack) - 1 /\ call = stack[Len(stack)] /\ call \in AnyStep
        /\ Len(stack) \in 1 .. Len(stack)
        /\ \A k \in 1 .. Len(stack) : stack[k].next \in Nat
    BY StackFacts
  <2>2. Len(stack) = 1
    <3> DEFINE n == Len(stack)
    <3>1. n \in Nat /\ n - 1 = 0
      BY <2>1
    <3> HIDE DEF n
    <3>2. n = 1
      BY <3>1
    <3>3. QED BY <3>2 DEF n
  <2>3. QED BY <2>1, <2>2
<1>2. IsPath(stack)
  BY DEF StackOK
<1>3. Len(p) \in Nat /\ 1 \in 1 .. Len(p) /\ p[1] \in Exported /\ p[1].next \in Nat /\ IsPath(p)
  BY PlaceFacts
<1>4. p[1].type = call.type
  BY <1>1, <1>2, <1>3 DEF IsPath
<1>5. p[1].next \in 1 .. Len(decl[call.type])
  BY <1>3, <1>4, StepsAre
<1>6. call.next > Len(decl[call.type]) /\ Len(decl[call.type]) \in Nat
  <2>1. call.type \in DOMAIN decl
    BY <1>1 DEF AnyStep
  <2>2. Len(decl[call.type]) \in Nat
    BY <2>1, Declared
  <2>3. QED BY <1>1, <2>2 DEF more
<1>7. p[1].next < stack[1].next /\ 1 <= Len(stack)
  BY <1>1, <1>3, <1>5, <1>6
<1>8. \A i \in 1 .. (1 - 1) : p[i] = stack[i]
  OBVIOUS
<1>9. QED BY <1>3, <1>7, <1>8 DEF Before

\* The member that the loop is at.
LEMMA MoreFacts ==
  ASSUME decl \in Decls, StackOK, more
  PROVE  /\ pc = "parse" /\ call.type \in DOMAIN decl
         /\ call.next \in 1 .. Len(decl[call.type])
         /\ member \in Members
         /\ member.exported => call \in Exported
         /\ member.exported /\ Entered(call) => member.type \in DOMAIN decl
<1>1. pc = "parse" /\ call.next <= Len(decl[call.type])
  BY DEF more
<1>2. call \in AnyStep /\ call.next \in 1 .. (Len(decl[call.type]) + 1)
  BY <1>1, StackFacts DEF StackOK
<1>3. call.type \in DOMAIN decl
  BY <1>2 DEF AnyStep
<1>4. Len(decl[call.type]) \in Nat /\ DOMAIN decl[call.type] = 1 .. Len(decl[call.type])
  BY <1>3, Declared
<1>5. call.next \in 1 .. Len(decl[call.type])
  BY <1>1, <1>2, <1>4
<1>6. member = decl[call.type][call.next]
  BY DEF member, Member
<1>7. member \in Members /\ (member.kind # "field" => member.type \in DOMAIN decl)
  BY <1>3, <1>4, <1>5, <1>6, Declared
<1>8. member.exported => call \in Exported
  BY <1>2, <1>5, StepsAre DEF member
<1>9. Entered(call) => member.kind # "field"
  BY DEF Entered, member
<1>10. QED BY <1>1, <1>3, <1>5, <1>7, <1>8, <1>9

\* Nothing is in a member that is not exported; a field has but itself.
LEMMA PassedMember ==
  ASSUME decl \in Decls, StackOK, more, NEW p \in FieldPlaces, Through(p, stack)
  PROVE  member.exported /\ (~Entered(call) => p = stack)
<1>1. pc = "parse"
  BY DEF more
<1>2. /\ stack \in Seq(AnyStep) /\ Len(stack) \in Nat /\ call = stack[Len(stack)]
      /\ Len(stack) \in 1 .. Len(stack)
  BY <1>1, StackFacts
<1>3. /\ Len(p) \in Nat /\ Len(p) >= Len(stack) /\ p \in Seq(AnyStep)
      /\ \A k \in 1 .. Len(stack) : p[k] = stack[k]
      /\ \A k \in 1 .. Len(p) : p[k] \in Exported
      /\ \A k \in 1 .. (Len(p) - 1) : Entered(p[k])
  BY PlaceFacts DEF Through
<1>4. call \in Exported
  BY <1>2, <1>3
<1>5. member.exported
  BY <1>4 DEF Exported, Steps, member
<1>6. ASSUME ~Entered(call) PROVE p = stack
  <2>1. Len(p) = Len(stack)
    <3>1. Len(stack) \notin 1 .. (Len(p) - 1)
      BY <1>2, <1>3, <1>6
    <3>2. QED BY <1>2, <1>3, <3>1
  <2>2. QED BY <1>2, <1>3, <2>1, SeqEqual
<1>7. QED BY <1>5, <1>6

LEMMA FieldHere ==
  ASSUME decl \in Decls, StackOK, more, member.exported, ~Entered(call)
  PROVE  stack \in FieldPlaces /\ Through(stack, stack) /\ FieldAt(stack).name = member.name
<1>1. pc = "parse" /\ call \in Exported
  BY MoreFacts
<1>2. /\ stack \in Seq(AnyStep) /\ Len(stack) \in Nat /\ Len(stack) > 0 /\ call = stack[Len(stack)]
      /\ depth = Len(stack) - 1
  BY <1>1, StackFacts
<1>3. (\A k \in 1 .. depth : stack[k] \in Exported /\ Entered(stack[k])) /\ IsPath(stack)
  BY <1>1 DEF StackOK
<1>4. \A k \in 1 .. Len(stack) : stack[k] \in Exported
  <2>1. \A k \in 1 .. Len(stack) : k = Len(stack) \/ k \in 1 .. depth
    BY <1>2
  <2>2. QED BY <1>1, <1>2, <1>3, <2>1
<1>5. stack \in FieldPlaces
  BY <1>2, <1>3, <1>4 DEF FieldPlaces
<1>6. QED BY <1>2, <1>5 DEF Through, FieldAt, member
-----------------------------------------------------------------------------

\* The loop has passed the place.
Seen(p) == pc # "parse" \/ Before(p, stack)

\* A field at q wins over one of its name at p: it is less deep, or comes last.
NoWorse(q, p) == q = p \/ Len(q) < Len(p) \/ (Len(q) = Len(p) /\ Before(p, q))

FieldsOK ==
  /\ fields \in Seq([name : STRING, at : Seq(AnyStep)])
  /\ \A j \in DOMAIN fields :
       /\ fields[j].at \in FieldPlaces
       /\ fields[j] = FieldAt(fields[j].at)
       /\ Seen(fields[j].at)
  /\ \A i, j \in DOMAIN fields : fields[i].name = fields[j].name => i = j

SeenFound ==
  \A p \in FieldPlaces :
    Seen(p) => \E j \in DOMAIN fields : fields[j].name = FieldAt(p).name /\ NoWorse(fields[j].at, p)

DepthsOK ==
  flatten /\ pc = "parse" =>
    /\ \A j \in DOMAIN fields :
         fields[j].name \in DOMAIN depths /\ depths[fields[j].name] = Len(fields[j].at) - 1
    /\ \A n \in DOMAIN depths : \E j \in DOMAIN fields : fields[j].name = n

\* The loop of the root type has entered the pointer, or is behind it.
EmbeddingSeen(s) ==
  \/ pc # "parse"
  \/ s.next < stack[1].next
  \/ s.next = stack[1].next /\ Len(stack) > 1

EmbedsOK ==
  /\ embeds \in Seq(Seq(AnyStep))
  /\ flatten =>
       \A s \in Exported :
         s.type = Root /\ Member(s).kind = "embed*" /\ EmbeddingSeen(s) =>
           \E j \in DOMAIN embeds : embeds[j] = << s >>

\* Nothing is embedded by pointer in what is embedded by value.
NoPointerInValue ==
  \A s, t \in Exported :
    Member(s).kind = "embed" /\ t.type = Member(s).type => Member(t).kind # "embed*"

LayoutIInv ==
  /\ decl \in Decls
  /\ flatten \in BOOLEAN
  /\ StackOK
  /\ FieldsOK
  /\ SeenFound
  /\ DepthsOK
  /\ DeclarationOrder
  /\ EmbedsOK
  /\ NeverPanics
  /\ NoPointerInValue => AllLive

LEMMA Rigid ==
  ASSUME UNCHANGED <<decl, flatten>>
  PROVE  /\ AnyStep' = AnyStep /\ Exported' = Exported /\ FieldPlaces' = FieldPlaces
         /\ \A p : FieldAt(p)' = FieldAt(p) /\ IsPath(p)' = IsPath(p)
         /\ \A s : Member(s)' = Member(s) /\ Entered(s)' = Entered(s)
         /\ NoPointerInValue' = NoPointerInValue
<1>1. decl' = decl /\ flatten' = flatten
  OBVIOUS
<1>2. AnyStep' = AnyStep
  BY <1>1 DEF AnyStep
<1>3. \A s : Member(s)' = Member(s) /\ Entered(s)' = Entered(s)
  BY <1>1 DEF Member, Entered
<1>4. Exported' = Exported
  BY <1>1 DEF Exported, Steps, Member
<1>5. \A p : IsPath(p)' = IsPath(p)
  BY <1>1 DEF IsPath, Member
<1>6. \A p : FieldAt(p)' = FieldAt(p)
  BY <1>1 DEF FieldAt, Member
<1>7. FieldPlaces' = FieldPlaces
  BY <1>1 DEF FieldPlaces, AnyStep, Exported, Steps, Member, Entered, IsPath
<1>8. NoPointerInValue' = NoPointerInValue
  BY <1>1 DEF NoPointerInValue, Exported, Steps, Member
<1>9. QED BY <1>2, <1>3, <1>4, <1>5, <1>6, <1>7, <1>8

\* Steps after which the fields are the same.
LEMMA FieldsStay ==
  ASSUME LayoutIInv, pc = "parse", pc' \in {"parse", "order"}, UNCHANGED <<decl, flatten, fields, depths>>,
         \A p \in FieldPlaces : Seen(p) => Seen(p)',
         \A p \in FieldPlaces : Seen(p)' =>
           \/ Seen(p)
           \/ \E j \in DOMAIN fields : fields[j].name = FieldAt(p).name /\ NoWorse(fields[j].at, p)
  PROVE  FieldsOK' /\ SeenFound' /\ DepthsOK' /\ DeclarationOrder'
<1>1. /\ AnyStep' = AnyStep /\ FieldPlaces' = FieldPlaces
      /\ \A p : FieldAt(p)' = FieldAt(p)
  BY Rigid
<1>2. fields' = fields /\ depths' = depths /\ flatten' = flatten
  OBVIOUS
<1>3. FieldsOK'
  <2>1. \A j \in DOMAIN fields : /\ fields[j].at \in FieldPlaces
                                 /\ fields[j] = FieldAt(fields[j].at)
                                 /\ Seen(fields[j].at)'
    BY DEF LayoutIInv, FieldsOK
  <2>2. QED BY <1>1, <1>2, <2>1 DEF LayoutIInv, FieldsOK
<1>4. SeenFound'
  <2>1. \A p \in FieldPlaces :
          Seen(p)' => \E j \in DOMAIN fields : fields[j].name = FieldAt(p).name /\ NoWorse(fields[j].at, p)
    BY DEF LayoutIInv, SeenFound
  <2>2. QED BY <1>1, <1>2, <2>1 DEF SeenFound
<1>5. DepthsOK'
  BY <1>2 DEF LayoutIInv, DepthsOK
<1>6. DeclarationOrder'
  BY <1>2 DEF LayoutIInv, DeclarationOrder
<1>7. QED BY <1>3, <1>4, <1>5, <1>6

\* The loop goes on to the next member.
LEMMA StackAdvances ==
  ASSUME LayoutIInv, more, UNCHANGED <<decl, flatten, pc>>, stack' = Advance(stack)
  PROVE  /\ StackOK'
         /\ \A p \in FieldPlaces : Seen(p)' <=> Seen(p) \/ Through(p, stack)
         /\ ~(member.exported /\ Entered(call)) /\ embeds' = embeds => EmbedsOK'
<1>1. pc = "parse" /\ decl \in Decls /\ StackOK /\ call.next \in 1 .. Len(decl[call.type])
  BY MoreFacts DEF LayoutIInv
<1>2. /\ stack \in Seq(AnyStep) /\ Len(stack) \in Nat /\ Len(stack) > 0 /\ depth = Len(stack) - 1 /\ depth \in Nat
      /\ call = stack[Len(stack)] /\ Len(stack) \in 1 .. Len(stack)
      /\ call \in AnyStep
  BY <1>1, StackFacts
<1>3. /\ stack' \in Seq(AnyStep) /\ Len(stack') = Len(stack)
      /\ \A k \in 1 .. (Len(stack) - 1) : stack'[k] = stack[k]
      /\ stack'[Len(stack)].type = call.type
      /\ stack'[Len(stack)].next = call.next + 1
  BY <1>2, AdvanceIs
<1>4. /\ AnyStep' = AnyStep /\ Exported' = Exported
      /\ \A p : IsPath(p)' = IsPath(p)
      /\ \A s : Entered(s)' = Entered(s) /\ Member(s)' = Member(s)
  BY Rigid
<1>5. IsPath(stack) /\ \A k \in 1 .. depth : stack[k] \in Exported /\ Entered(stack[k])
  BY <1>1 DEF StackOK
<1>6. IsPath(stack')
  <2>1. stack'[1].type = Root
    <3>1. CASE Len(stack) = 1
      BY <1>2, <1>3, <1>5, <3>1 DEF IsPath
    <3>2. CASE Len(stack) # 1
      <4>1. 1 \in 1 .. (Len(stack) - 1)
        BY <1>2, <3>2
      <4>2. QED BY <1>3, <1>5, <4>1 DEF IsPath
    <3>3. QED BY <3>1, <3>2
  <2>2. ASSUME NEW k \in 1 .. (Len(stack) - 1) PROVE stack'[k + 1].type = Member(stack'[k]).type
    <3>1. stack'[k] = stack[k] /\ stack[k + 1].type = Member(stack[k]).type
      BY <1>3, <1>5 DEF IsPath
    <3>2. stack'[k + 1].type = stack[k + 1].type
      <4>1. CASE k + 1 = Len(stack)
        BY <1>2, <1>3, <4>1
      <4>2. CASE k + 1 # Len(stack)
        <5>1. k + 1 \in 1 .. (Len(stack) - 1)
          BY <1>2, <4>2
        <5>2. QED BY <1>3, <5>1
      <4>3. QED BY <4>1, <4>2
    <3>3. QED BY <3>1, <3>2
  <2>3. QED BY <1>3, <2>1, <2>2 DEF IsPath
<1>7. StackOK'
  <2>1. depth' = depth /\ call'.type = call.type /\ call'.next = call.next + 1
    BY <1>2, <1>3 DEF depth, call
  <2>2. Len(decl[call.type]) \in Nat
    BY <1>1, MoreFacts, Declared DEF LayoutIInv
  <2>3. call.next + 1 \in 1 .. (Len(decl[call.type]) + 1)
    BY <1>1, <2>2
  <2>4. \A k \in 1 .. depth : stack'[k] \in Exported /\ Entered(stack'[k])
    BY <1>2, <1>3, <1>5
  <2>5. IsPath(stack)'
    BY <1>4, <1>6 DEF IsPath, Member
  <2>6. QED BY <1>2, <1>3, <1>4, <2>1, <2>3, <2>4, <2>5 DEF StackOK
<1>8. ASSUME NEW p \in FieldPlaces PROVE Seen(p)' <=> Seen(p) \/ Through(p, stack)
  <2>1. Before(p, stack') <=> Before(p, stack) \/ Through(p, stack)
    BY <1>2, <1>5, PastIt
  <2>2. QED BY <1>1, <2>1 DEF Seen
<1>9. ASSUME ~(member.exported /\ Entered(call)), embeds' = embeds PROVE EmbedsOK'
  <2>1. ASSUME flatten, NEW s \in Exported, s.type = Root, Member(s).kind = "embed*", EmbeddingSeen(s)'
        PROVE  \E j \in DOMAIN embeds : embeds[j] = << s >>
    <3>1. SUFFICES EmbeddingSeen(s)
      BY <2>1 DEF LayoutIInv, EmbedsOK
    <3>2. CASE Len(stack) # 1
      <4>1. 1 \in 1 .. (Len(stack) - 1)
        BY <1>2, <3>2
      <4>2. stack'[1] = stack[1]
        BY <1>3, <4>1
      <4>3. QED BY <1>1, <1>3, <2>1, <4>2 DEF EmbeddingSeen
    <3>3. CASE Len(stack) = 1
      <4>1. s.next < call.next + 1 /\ s.next \in Nat /\ call.next \in Nat
        <5>1. s.next < stack'[1].next
          BY <1>1, <1>3, <2>1, <3>3 DEF EmbeddingSeen
        <5>2. s \in AnyStep
          BY <1>1, StepsAre
        <5>3. QED BY <1>2, <1>3, <3>3, <5>1, <5>2 DEF AnyStep
      <4>2. s # call
        BY <1>1, <1>9, <2>1 DEF member, Entered, Exported, Steps
      <4>3. s.type = call.type
        BY <1>2, <1>5, <2>1, <3>3 DEF IsPath
      <4>4. s.next # call.next
        <5>1. s \in AnyStep
          BY <1>1, StepsAre
        <5>2. QED BY <1>2, <4>2, <4>3, <5>1 DEF AnyStep
      <4>5. s.next < stack[1].next
        BY <1>2, <3>3, <4>1, <4>4
      <4>6. QED BY <4>5 DEF EmbeddingSeen
    <3>4. QED BY <3>2, <3>3
  <2>2. QED BY <1>4, <1>9, <2>1 DEF LayoutIInv, EmbedsOK
<1>10. QED BY <1>7, <1>8, <1>9

\* The parts that say nothing yet.
LEMMA StillParsing ==
  ASSUME LayoutIInv, pc' \in {"parse", "order"}, UNCHANGED <<decl, flatten>>,
         StackOK', FieldsOK', SeenFound', DepthsOK', DeclarationOrder', EmbedsOK'
  PROVE  LayoutIInv'
<1>1. decl' \in Decls /\ flatten' \in BOOLEAN
  BY DEF LayoutIInv
<1>2. NeverPanics' /\ AllLive'
  BY DEF NeverPanics, AllLive
<1>3. QED BY <1>1, <1>2 DEF LayoutIInv

LEMMA UnexportedStep ==
  ASSUME LayoutIInv, Unexported
  PROVE  LayoutIInv'
<1>1. /\ more /\ ~member.exported /\ stack' = Advance(stack)
      /\ UNCHANGED <<decl, flatten, fields, depths, embeds, live, pc>>
  BY DEF Unexported
<1>2. pc = "parse" /\ pc' = "parse" /\ decl \in Decls /\ StackOK
  BY <1>1 DEF more, LayoutIInv
<1>3. /\ StackOK' /\ EmbedsOK'
      /\ \A p \in FieldPlaces : Seen(p)' <=> Seen(p) \/ Through(p, stack)
  BY <1>1, StackAdvances
<1>4. \A p \in FieldPlaces : ~Through(p, stack)
  BY <1>1, <1>2, PassedMember
<1>5. FieldsOK' /\ SeenFound' /\ DepthsOK' /\ DeclarationOrder'
  BY <1>1, <1>2, <1>3, <1>4, FieldsStay
<1>6. QED BY <1>1, <1>2, <1>3, <1>5, StillParsing

LEMMA HideStep ==
  ASSUME LayoutIInv, Hide
  PROVE  LayoutIInv'
<1>1. /\ more /\ member.exported /\ ~Entered(call) /\ Hidden /\ stack' = Advance(stack)
      /\ UNCHANGED <<decl, flatten, fields, depths, embeds, live, pc>>
  BY DEF Hide
<1>2. pc = "parse" /\ pc' = "parse" /\ decl \in Decls /\ StackOK
  BY <1>1 DEF more, LayoutIInv
<1>3. /\ StackOK' /\ EmbedsOK'
      /\ \A p \in FieldPlaces : Seen(p)' <=> Seen(p) \/ Through(p, stack)
  BY <1>1, StackAdvances
<1>4. \A p \in FieldPlaces : Through(p, stack) => p = stack
  BY <1>1, <1>2, PassedMember
<1>5. FieldAt(stack).name = member.name
  BY <1>1, <1>2, FieldHere
<1>6. \E j \in DOMAIN fields : fields[j].name = member.name /\ Len(fields[j].at) < Len(stack)
  <2>1. flatten /\ member.name \in DOMAIN depths /\ depths[member.name] < depth
    BY <1>1 DEF Hidden, FoundHigher
  <2>2. PICK j \in DOMAIN fields : fields[j].name = member.name /\ depths[member.name] = Len(fields[j].at) - 1
    BY <1>2, <2>1 DEF LayoutIInv, DepthsOK
  <2>3. Len(fields[j].at) \in Nat
    <3>1. fields[j].at \in FieldPlaces
      BY <2>2 DEF LayoutIInv, FieldsOK
    <3>2. QED BY <3>1, PlaceFacts
  <2>4. Len(stack) \in Nat /\ depth = Len(stack) - 1
    BY <1>2, StackFacts
  <2>5. Len(fields[j].at) < Len(stack)
    BY <2>1, <2>2, <2>3, <2>4
  <2>6. QED BY <2>2, <2>5
<1>7. \E j \in DOMAIN fields : fields[j].name = FieldAt(stack).name /\ NoWorse(fields[j].at, stack)
  BY <1>5, <1>6 DEF NoWorse
<1>8. FieldsOK' /\ SeenFound' /\ DepthsOK' /\ DeclarationOrder'
  BY <1>1, <1>2, <1>3, <1>4, <1>7, FieldsStay
<1>9. QED BY <1>1, <1>2, <1>3, <1>8, StillParsing

LEMMA EnterStep ==
  ASSUME LayoutIInv, Enter
  PROVE  LayoutIInv'
<1>1. /\ more /\ member.exported /\ Entered(call)
      /\ embeds' = IF Recorded THEN Append(embeds, stack) ELSE embeds
      /\ stack' = Append(stack, Call(member.type))
      /\ UNCHANGED <<decl, flatten, fields, depths, live, pc>>
  BY DEF Enter
<1>2. pc = "parse" /\ pc' = "parse" /\ decl \in Decls /\ StackOK
  BY <1>1 DEF more, LayoutIInv
<1> DEFINE n == Len(stack)
           T == member.type
<1>3. /\ stack \in Seq(AnyStep) /\ n \in Nat /\ n > 0 /\ depth = n - 1 /\ call = stack[n] /\ n \in 1 .. n
      /\ call \in AnyStep /\ \A k \in 1 .. n : stack[k] \in AnyStep /\ stack[k].next \in Nat
  BY <1>2, StackFacts
<1>4. T \in DOMAIN decl /\ call \in Exported
  BY <1>1, <1>2, MoreFacts
<1>5. Call(T) \in AnyStep /\ Call(T).next = 1 /\ Call(T).type = T
  BY <1>4 DEF Call, AnyStep
<1>6. /\ stack' \in Seq(AnyStep) /\ Len(stack') = n + 1 /\ stack'[n + 1] = Call(T)
      /\ \A k \in 1 .. n : stack'[k] = stack[k]
  BY <1>1, <1>3, <1>5, AppendProperties
<1>7. /\ AnyStep' = AnyStep /\ Exported' = Exported
      /\ \A p : IsPath(p)' = IsPath(p)
      /\ \A s : Entered(s)' = Entered(s) /\ Member(s)' = Member(s)
  BY <1>1, Rigid
<1>8. IsPath(stack) /\ \A k \in 1 .. depth : stack[k] \in Exported /\ Entered(stack[k])
  BY <1>2 DEF StackOK
<1> HIDE DEF n, T
<1>9. IsPath(stack')
  <2>1. 1 \in 1 .. n
    BY <1>3
  <2>2. stack'[1].type = Root
    BY <1>6, <1>8, <2>1 DEF IsPath
  <2>3. ASSUME NEW k \in 1 .. ((n + 1) - 1) PROVE stack'[k + 1].type = Member(stack'[k]).type
    <3>1. CASE k = n
      <4>1. stack'[k] = call /\ stack'[k + 1].type = T
        BY <1>3, <1>5, <1>6, <3>1 DEF n
      <4>2. QED BY <4>1 DEF T, member
    <3>2. CASE k # n
      <4>1. k \in 1 .. (n - 1) /\ k \in 1 .. n /\ k + 1 \in 1 .. n
        BY <1>3, <2>3, <3>2
      <4>2. QED BY <1>6, <1>8, <4>1 DEF IsPath, n
    <3>3. QED BY <3>1, <3>2
  <2>4. QED BY <1>6, <2>2, <2>3 DEF IsPath
<1>10. StackOK'
  <2>1. depth' = n /\ call' = Call(T)
    <3>1. depth' = (n + 1) - 1 /\ call' = stack'[n + 1]
      BY <1>6 DEF depth, call
    <3>2. QED BY <1>3, <1>6, <3>1
  <2>2. \A k \in 1 .. n : stack'[k] \in Exported /\ Entered(stack'[k])
    <3>1. \A k \in 1 .. n : k = n \/ k \in 1 .. depth
      BY <1>3 DEF n
    <3>2. QED BY <1>1, <1>3, <1>4, <1>6, <1>8, <3>1 DEF n
  <2>3. Len(decl[T]) \in Nat
    BY <1>2, <1>4, Declared DEF T
  <2>4. Call(T).next \in 1 .. (Len(decl[Call(T).type]) + 1)
    BY <1>5, <2>3
  <2>5. IsPath(stack)'
    BY <1>7, <1>9 DEF IsPath, Member
  <2>6. n + 1 > 0
    BY <1>3
  <2>7. (call.next \in 1 .. (Len(decl[call.type]) + 1))'
    BY <1>1, <2>1, <2>4
  <2>8. (\A k \in 1 .. depth : stack[k] \in Exported /\ Entered(stack[k]))'
    BY <1>7, <2>1, <2>2
  <2>9. QED BY <1>6, <1>7, <2>5, <2>6, <2>7, <2>8 DEF StackOK
<1>11. \A p \in FieldPlaces : Seen(p)' <=> Seen(p)
  <2>1. \A p \in FieldPlaces : Before(p, stack') <=> Before(p, stack)
    BY <1>1, <1>2, <1>3, <1>4, EnterIt DEF T, n
  <2>2. QED BY <1>2, <2>1 DEF Seen
<1>12. FieldsOK' /\ SeenFound' /\ DepthsOK' /\ DeclarationOrder'
  BY <1>1, <1>2, <1>11, FieldsStay
<1>13. embeds \in Seq(Seq(AnyStep))
  BY DEF LayoutIInv, EmbedsOK
<1>14. /\ embeds' \in Seq(Seq(AnyStep))
       /\ \A j \in DOMAIN embeds : j \in DOMAIN embeds' /\ embeds'[j] = embeds[j]
       /\ Recorded => \E j \in DOMAIN embeds' : embeds'[j] = stack
  <2>1. Len(embeds) \in Nat /\ DOMAIN embeds = 1 .. Len(embeds)
    BY <1>13, SeqFacts
  <2>2. CASE ~Recorded
    BY <1>1, <1>13, <2>2
  <2>3. CASE Recorded
    <3> DEFINE e == Append(embeds, stack)
               m == Len(embeds)
    <3>1. /\ e \in Seq(Seq(AnyStep)) /\ DOMAIN e = 1 .. (m + 1) /\ e[m + 1] = stack
          /\ \A k \in 1 .. m : e[k] = embeds[k]
      <4>1. /\ e \in Seq(Seq(AnyStep)) /\ Len(e) = m + 1 /\ e[m + 1] = stack
            /\ \A k \in 1 .. m : e[k] = embeds[k]
        BY <1>3, <1>13, AppendProperties
      <4>2. DOMAIN e = 1 .. Len(e)
        BY <4>1, SeqFacts
      <4>3. QED BY <4>1, <4>2
    <3> HIDE DEF e
    <3>2. embeds' = e
      BY <1>1, <2>3 DEF e
    <3>3. m + 1 \in 1 .. (m + 1) /\ \A k \in 1 .. m : k \in 1 .. (m + 1)
      BY <2>1
    <3>4. QED BY <2>1, <3>1, <3>2, <3>3
  <2>4. QED BY <2>2, <2>3
<1>15. ASSUME flatten, NEW s \in Exported, s.type = Root, Member(s).kind = "embed*", EmbeddingSeen(s)'
       PROVE  \E j \in DOMAIN embeds' : embeds'[j] = << s >>
  <2>1. 1 \in 1 .. n /\ stack'[1] = stack[1]
    BY <1>3, <1>6
  <2>2. s.next < stack[1].next \/ s.next = stack[1].next
    BY <1>2, <1>15, <2>1 DEF EmbeddingSeen
  <2>3. CASE EmbeddingSeen(s)
    <3>1. PICK j \in DOMAIN embeds : embeds[j] = << s >>
      BY <1>15, <2>3 DEF LayoutIInv, EmbedsOK
    <3>2. QED BY <1>14, <3>1
  <2>4. CASE ~EmbeddingSeen(s)
    <3>1. s.next = stack[1].next /\ ~(n > 1)
      BY <2>2, <2>4 DEF EmbeddingSeen, n
    <3>2. n = 1 /\ depth = 0
      BY <1>3, <3>1 DEF n
    <3>3. s.type = stack[1].type
      BY <1>8, <1>15 DEF IsPath
    <3>4. s = call
      <4>1. s \in AnyStep
        BY <1>2, StepsAre
      <4>2. QED BY <1>3, <3>1, <3>2, <3>3, <4>1 DEF AnyStep, n
    <3>5. Recorded
      BY <1>15, <3>2, <3>4 DEF Recorded, member
    <3>6. stack = << s >>
      <4>1. << s >> \in Seq(AnyStep) /\ Len(<< s >>) = 1 /\ << s >>[1] = s
        BY <1>3, <3>4
      <4>2. stack[1] = s /\ Len(stack) = 1
        BY <1>3, <3>2, <3>4 DEF n
      <4>3. \A k \in 1 .. Len(stack) : stack[k] = << s >>[k]
        BY <4>1, <4>2
      <4>4. QED BY <1>3, <4>1, <4>2, <4>3, SeqEqual
    <3>7. QED BY <1>14, <3>5, <3>6
  <2>5. QED BY <2>3, <2>4
<1>16. EmbedsOK'
  BY <1>1, <1>7, <1>14, <1>15 DEF EmbedsOK
<1>17. QED BY <1>1, <1>2, <1>10, <1>12, <1>16, StillParsing

LEMMA ReturnStep ==
  ASSUME LayoutIInv, Return
  PROVE  LayoutIInv'
<1>1. /\ pc = "parse" /\ ~more /\ depth > 0
      /\ stack' = Advance(SubSeq(stack, 1, depth))
      /\ UNCHANGED <<decl, flatten, fields, depths, embeds, live, pc>>
  BY DEF Return
<1>2. pc' = "parse" /\ decl \in Decls /\ StackOK /\ embeds' = embeds
  BY <1>1 DEF LayoutIInv
<1> DEFINE n == depth
           q == SubSeq(stack, 1, n)
<1>3. /\ stack \in Seq(AnyStep) /\ n \in Nat /\ n > 0 /\ Len(stack) = n + 1
      /\ \A k \in 1 .. (n + 1) : stack[k] \in AnyStep /\ stack[k].next \in Nat
  <2>1. /\ stack \in Seq(AnyStep) /\ n \in Nat /\ Len(stack) \in Nat /\ n = Len(stack) - 1
        /\ \A k \in 1 .. Len(stack) : stack[k] \in AnyStep /\ stack[k].next \in Nat
    BY <1>1, <1>2, StackFacts
  <2>2. Len(stack) = n + 1
    BY <2>1
  <2>3. QED BY <1>1, <2>1, <2>2
<1>4. q \in Seq(AnyStep) /\ Len(q) = n /\ IsPath(q) /\ \A k \in 1 .. n : q[k] = stack[k]
  BY <1>1, <1>2, OuterIs
<1>5. /\ IsPath(stack) /\ \A k \in 1 .. n : stack[k] \in Exported /\ Entered(stack[k])
  BY <1>1, <1>2 DEF StackOK
<1> HIDE DEF q, n
<1>6. /\ stack' \in Seq(AnyStep) /\ Len(stack') = n
      /\ \A k \in 1 .. (n - 1) : stack'[k] = stack[k]
      /\ stack'[n].type = stack[n].type /\ stack'[n].next = stack[n].next + 1
  <2>1. stack' = Advance(q)
    BY <1>1 DEF q, n
  <2>2. n \in 1 .. n /\ \A k \in 1 .. (n - 1) : k \in 1 .. n
    BY <1>3
  <2>3. QED BY <1>3, <1>4, <2>1, <2>2, AdvanceIs
<1>7. /\ AnyStep' = AnyStep /\ Exported' = Exported
      /\ \A p : IsPath(p)' = IsPath(p)
      /\ \A s : Entered(s)' = Entered(s) /\ Member(s)' = Member(s)
  BY <1>1, Rigid
<1>8. \A k \in 1 .. n : stack'[k].type = stack[k].type
  <2>1. \A k \in 1 .. n : k = n \/ k \in 1 .. (n - 1)
    BY <1>3
  <2>2. QED BY <1>6, <2>1
<1>9. IsPath(stack')
  <2>1. 1 \in 1 .. n
    BY <1>3
  <2>2. stack'[1].type = Root
    BY <1>5, <1>8, <2>1 DEF IsPath
  <2>3. ASSUME NEW k \in 1 .. (n - 1) PROVE stack'[k + 1].type = Member(stack'[k]).type
    <3>1. k + 1 \in 1 .. n /\ k \in 1 .. ((n + 1) - 1)
      BY <1>3
    <3>2. stack[k + 1].type = Member(stack[k]).type
      BY <1>3, <1>5, <3>1 DEF IsPath
    <3>3. QED BY <1>6, <1>8, <3>1, <3>2
  <2>4. QED BY <1>6, <2>2, <2>3 DEF IsPath
<1>10. StackOK'
  <2>1. depth' = n - 1 /\ call' = stack'[n]
    BY <1>6 DEF depth, call
  <2>2. (\A k \in 1 .. depth : stack[k] \in Exported /\ Entered(stack[k]))'
    <3>1. \A k \in 1 .. (n - 1) : k \in 1 .. n
      BY <1>3
    <3>2. \A k \in 1 .. (n - 1) : stack'[k] \in Exported /\ Entered(stack'[k])
      BY <1>5, <1>6, <3>1
    <3>3. QED BY <1>7, <2>1, <3>2
  <2>3. (call.next \in 1 .. (Len(decl[call.type]) + 1))'
    <3>1. n \in 1 .. n /\ n \in 1 .. (n + 1)
      BY <1>3
    <3>2. stack[n] \in Exported /\ stack[n].type \in DOMAIN decl
      BY <1>3, <1>5, <3>1 DEF AnyStep
    <3>3. stack[n].next \in 1 .. Len(decl[stack[n].type])
      BY <1>2, <3>2, StepsAre
    <3>4. Len(decl[stack[n].type]) \in Nat
      BY <1>2, <3>2, Declared
    <3>5. stack[n].next + 1 \in 1 .. (Len(decl[stack[n].type]) + 1)
      BY <3>3, <3>4
    <3>6. QED BY <1>1, <1>6, <2>1, <3>5
  <2>4. IsPath(stack)'
    BY <1>7, <1>9 DEF IsPath, Member
  <2>5. QED BY <1>3, <1>6, <1>7, <2>2, <2>3, <2>4 DEF StackOK
<1>11. \A p \in FieldPlaces : Seen(p)' <=> Seen(p)
  <2>1. ASSUME NEW p \in FieldPlaces PROVE Seen(p)' <=> Seen(p)
    <3>1. Before(p, stack) <=> Before(p, q) \/ Through(p, q)
      BY <1>1, <1>2, LeaveIt DEF q, n
    <3>2. Before(p, Advance(q)) <=> Before(p, q) \/ Through(p, q)
      BY <1>3, <1>4, PastIt
    <3>3. stack' = Advance(q)
      BY <1>1 DEF q, n
    <3>4. QED BY <1>1, <1>2, <3>1, <3>2, <3>3 DEF Seen
  <2>2. QED BY <2>1
<1>12. FieldsOK' /\ SeenFound' /\ DepthsOK' /\ DeclarationOrder'
  BY <1>1, <1>2, <1>11, FieldsStay
<1>13. ASSUME NEW s \in Exported, EmbeddingSeen(s)' PROVE EmbeddingSeen(s)
  <2>1. Len(stack) > 1
    BY <1>3
  <2>2. s.next < stack'[1].next \/ (s.next = stack'[1].next /\ n > 1)
    BY <1>2, <1>6, <1>13 DEF EmbeddingSeen
  <2>3. CASE n = 1
    <3>1. s.next < stack[1].next + 1
      BY <1>6, <2>2, <2>3
    <3>2. s.next \in Nat /\ stack[1].next \in Nat
      <4>1. s \in AnyStep
        BY <1>2, StepsAre
      <4>2. QED BY <1>3, <4>1 DEF AnyStep
    <3>3. s.next < stack[1].next \/ s.next = stack[1].next
      BY <3>1, <3>2
    <3>4. QED BY <2>1, <3>3 DEF EmbeddingSeen
  <2>4. CASE n # 1
    <3>1. 1 \in 1 .. (n - 1)
      BY <1>3, <2>4
    <3>2. stack'[1] = stack[1]
      BY <1>6, <3>1
    <3>3. QED BY <2>1, <2>2, <3>2 DEF EmbeddingSeen
  <2>5. QED BY <2>3, <2>4
<1>14. EmbedsOK'
  BY <1>1, <1>2, <1>7, <1>13 DEF LayoutIInv, EmbedsOK
<1>15. QED BY <1>1, <1>2, <1>10, <1>12, <1>14, StillParsing

LEMMA ParsedStep ==
  ASSUME LayoutIInv, Parsed
  PROVE  LayoutIInv'
<1>1. /\ pc = "parse" /\ ~more /\ depth = 0 /\ stack' = << >> /\ pc' = "order"
      /\ UNCHANGED <<decl, flatten, fields, depths, embeds, live>>
  BY DEF Parsed
<1>2. decl \in Decls /\ StackOK /\ embeds' = embeds
  BY <1>1 DEF LayoutIInv
<1>3. StackOK'
  BY <1>1 DEF StackOK
<1>4. \A p \in FieldPlaces : Seen(p) /\ Seen(p)'
  BY <1>1, <1>2, AllPassed DEF Seen
<1>5. FieldsOK' /\ SeenFound' /\ DepthsOK' /\ DeclarationOrder'
  BY <1>1, <1>2, <1>4, FieldsStay
<1>6. AnyStep' = AnyStep /\ Exported' = Exported /\ \A s : Member(s)' = Member(s)
  BY <1>1, Rigid
<1>7. ASSUME NEW s \in Exported, s.type = Root PROVE EmbeddingSeen(s)
  <2>1. /\ stack \in Seq(AnyStep) /\ Len(stack) = 1 /\ call = stack[1] /\ call \in AnyStep /\ call.next \in Nat
    <3>1. /\ stack \in Seq(AnyStep) /\ Len(stack) \in Nat /\ depth = Len(stack) - 1 /\ call = stack[Len(stack)]
          /\ Len(stack) \in 1 .. Len(stack) /\ call \in AnyStep
          /\ \A k \in 1 .. Len(stack) : stack[k].next \in Nat
      BY <1>1, <1>2, StackFacts
    <3>2. Len(stack) = 1
      <4>1. PICK n \in Nat : n = Len(stack)
        BY <3>1
      <4>2. n - 1 = 0
        BY <1>1, <3>1, <4>1
      <4>3. n = 1
        BY <4>2
      <4>4. QED BY <4>1, <4>3
    <3>3. QED BY <3>1, <3>2
  <2>2. call.type = Root
    BY <1>1, <1>2, <2>1 DEF StackOK, IsPath
  <2>3. s.next \in 1 .. Len(decl[Root]) /\ Len(decl[Root]) \in Nat
    BY <1>2, <1>7, StepsAre, Declared
  <2>4. call.next > Len(decl[Root])
    BY <1>1, <2>1, <2>2, <2>3 DEF more
  <2>5. s.next < stack[1].next
    BY <2>1, <2>3, <2>4
  <2>6. QED BY <2>5 DEF EmbeddingSeen
<1>8. EmbedsOK'
  BY <1>2, <1>1, <1>6, <1>7 DEF LayoutIInv, EmbedsOK
<1>9. QED BY <1>1, <1>2, <1>3, <1>5, <1>8, StillParsing

FieldType == [name : STRING, at : Seq(AnyStep)]

LEMMA JustOne ==
  ASSUME NEW n \in Nat, n > 0, 1 \notin 1 .. (n - 1)
  PROVE  n = 1
OBVIOUS

\* Without flattening, a name is found once.
LEMMA FoundOnce ==
  ASSUME LayoutIInv, more, member.exported, ~flatten, NEW j \in DOMAIN fields
  PROVE  fields[j].name # member.name
<1> DEFINE p == fields[j].at
<1>1. pc = "parse" /\ decl \in Decls /\ StackOK
  BY DEF LayoutIInv, more
<1>2. p \in FieldPlaces /\ Before(p, stack) /\ fields[j].name = Member(p[Len(p)]).name
  BY <1>1 DEF LayoutIInv, FieldsOK, FieldAt, Seen
<1> HIDE DEF p
<1>3. \A s : ~Entered(s)
  BY DEF Entered
<1>4. /\ Len(p) = 1 /\ p[1] \in Exported /\ p[1].next \in Nat /\ p[1].type = Root
  <2>1. /\ Len(p) \in Nat /\ Len(p) > 0 /\ IsPath(p)
        /\ \A k \in 1 .. Len(p) : p[k].next \in Nat /\ p[k] \in Exported
        /\ \A k \in 1 .. (Len(p) - 1) : Entered(p[k])
    BY <1>2, PlaceFacts
  <2>2. Len(p) = 1
    <3>1. 1 \notin 1 .. (Len(p) - 1)
      BY <1>3, <2>1
    <3>2. QED BY <2>1, <3>1, JustOne
  <2>3. QED BY <2>1, <2>2 DEF IsPath
<1>5. Len(stack) = 1 /\ call = stack[1] /\ call.type = Root /\ call.next \in Nat /\ call \in Exported
  <2>1. /\ Len(stack) \in Nat /\ Len(stack) > 0 /\ depth = Len(stack) - 1 /\ call = stack[Len(stack)]
        /\ Len(stack) \in 1 .. Len(stack)
        /\ \A k \in 1 .. Len(stack) : stack[k].next \in Nat
    BY <1>1, StackFacts
  <2>2. IsPath(stack) /\ \A k \in 1 .. depth : Entered(stack[k])
    BY <1>1 DEF StackOK
  <2>3. Len(stack) = 1
    <3>1. 1 \notin 1 .. (Len(stack) - 1)
      BY <1>3, <2>1, <2>2
    <3>2. QED BY <2>1, <3>1, JustOne
  <2>4. call \in Exported
    BY <1>1, MoreFacts
  <2>5. QED BY <2>1, <2>2, <2>3, <2>4 DEF IsPath
<1>6. p[1].next < call.next
  <2>1. PICK k \in 1 .. Len(p) : p[k].next < stack[k].next
    BY <1>2 DEF Before
  <2>2. QED BY <1>4, <1>5, <2>1
<1>7. ASSUME fields[j].name = member.name PROVE FALSE
  <2>1. Member(p[1]).name = Member(call).name /\ Member(p[1]).exported /\ Member(call).exported
    BY <1>2, <1>4, <1>5, <1>7 DEF Exported, Steps, member
  <2>2. /\ Root \in DOMAIN decl
        /\ p[1].next \in 1 .. Len(decl[Root]) /\ call.next \in 1 .. Len(decl[Root])
        /\ DOMAIN decl[Root] = 1 .. Len(decl[Root])
    BY <1>1, <1>4, <1>5, StepsAre, Declared
  <2>3. p[1].next = call.next
    BY <1>1, <1>4, <1>5, <2>1, <2>2, Declared DEF Member
  <2>4. QED BY <1>4, <1>5, <1>6, <2>3
<1>8. QED BY <1>7

\* What of the fields a field that is found leaves: t.
LeftOf(t) ==
  /\ t \in Seq(FieldType)
  /\ \E h \in [1 .. Len(t) -> 1 .. Len(fields)] :
       /\ \A i \in 1 .. Len(t) : t[i] = fields[h[i]] /\ fields[h[i]].name # member.name
       /\ \A i, j \in 1 .. Len(t) : i < j => h[i] < h[j]
       /\ \A m \in 1 .. Len(fields) : fields[m].name # member.name => \E i \in 1 .. Len(t) : h[i] = m

Left == IF flatten THEN Others(member.name) ELSE fields

LEMMA LeftIs ==
  ASSUME LayoutIInv, more, member.exported
  PROVE  LeftOf(Left)
<1>1. /\ fields \in Seq(FieldType) /\ Len(fields) \in Nat /\ DOMAIN fields = 1 .. Len(fields)
  BY SeqFacts DEF LayoutIInv, FieldsOK, FieldType
<1>2. CASE flatten
  <2> DEFINE I == { j \in DOMAIN fields : fields[j].name # member.name }
             t == Kept(fields, I)
  <2>1. KeptOf(t, fields, I, Len(fields), FieldType)
    BY <1>1, KeptIs
  <2>2. Left = t
    BY <1>2 DEF Left, Others
  <2> HIDE DEF t
  <2>3. \A i \in I : fields[i].name # member.name
    OBVIOUS
  <2>4. \A m \in 1 .. Len(fields) : fields[m].name # member.name => m \in I
    BY <1>1
  <2> HIDE DEF I
  <2>5. LeftOf(t)
    <3>1. PICK h \in [1 .. Len(t) -> 1 .. Len(fields)] :
            /\ \A i \in 1 .. Len(t) : h[i] \in I /\ t[i] = fields[h[i]]
            /\ \A i, j \in 1 .. Len(t) : i < j => h[i] < h[j]
            /\ \A m \in 1 .. Len(fields) : m \in I => \E i \in 1 .. Len(t) : h[i] = m
      BY <2>1 DEF KeptOf
    <3>2. \A i \in 1 .. Len(t) : t[i] = fields[h[i]] /\ fields[h[i]].name # member.name
      BY <2>3, <3>1
    <3>3. \A m \in 1 .. Len(fields) : fields[m].name # member.name => \E i \in 1 .. Len(t) : h[i] = m
      BY <2>4, <3>1
    <3>4. t \in Seq(FieldType)
      BY <2>1 DEF KeptOf
    <3>5. QED BY <3>1, <3>2, <3>3, <3>4, Zenon DEF LeftOf
  <2>6. QED BY <2>2, <2>5
<1>3. CASE ~flatten
  <2> DEFINE h == [i \in 1 .. Len(fields) |-> i]
  <2>1. Left = fields
    BY <1>3 DEF Left
  <2>2. h \in [1 .. Len(fields) -> 1 .. Len(fields)] /\ \A i \in 1 .. Len(fields) : h[i] = i
    OBVIOUS
  <2> HIDE DEF h
  <2>3. \A i \in 1 .. Len(fields) : fields[i] = fields[h[i]] /\ fields[h[i]].name # member.name
    BY <1>1, <1>3, <2>2, FoundOnce
  <2>4. \A i, j \in 1 .. Len(fields) : i < j => h[i] < h[j]
    BY <2>2
  <2>5. \A m \in 1 .. Len(fields) : fields[m].name # member.name => \E i \in 1 .. Len(fields) : h[i] = m
    BY <2>2
  <2>6. LeftOf(fields)
    BY <1>1, <2>2, <2>3, <2>4, <2>5, Zenon DEF LeftOf
  <2>7. QED BY <2>1, <2>6
<1>4. QED BY <1>2, <1>3

\* The fields after a push, of which those before it are some.
PushedOf(u, f, h, c) ==
  /\ c \in Nat
  /\ u \in Seq(FieldType) /\ DOMAIN u = 1 .. (c + 1) /\ u[c + 1] = f
  /\ h \in [1 .. c -> 1 .. Len(fields)]
  /\ \A i \in 1 .. c : u[i] = fields[h[i]] /\ fields[h[i]].name # member.name
  /\ \A i, j \in 1 .. c : i < j => h[i] < h[j]
  /\ \A m \in 1 .. Len(fields) : fields[m].name # member.name => \E i \in 1 .. c : h[i] = m

LEMMA PushedIs ==
  ASSUME LayoutIInv, Push
  PROVE  /\ FieldAt(stack) \in FieldType /\ FieldAt(stack).name = member.name /\ FieldAt(stack).at = stack
         /\ \E c, h : PushedOf(fields', FieldAt(stack), h, c)
<1>1. /\ more /\ member.exported /\ ~Entered(call)
      /\ fields' = PushBack([name |-> member.name, at |-> stack])
  BY DEF Push
<1>2. pc = "parse" /\ decl \in Decls /\ StackOK
  BY <1>1 DEF LayoutIInv, more
<1>3. stack \in Seq(AnyStep) /\ call = stack[Len(stack)]
  BY <1>2, StackFacts
<1>4. member.name \in STRING
  BY <1>1, <1>2, MoreFacts DEF Members
<1>5. FieldAt(stack) = [name |-> member.name, at |-> stack]
  BY <1>3 DEF FieldAt, member
<1>6. FieldAt(stack) \in FieldType /\ FieldAt(stack).name = member.name /\ FieldAt(stack).at = stack
  BY <1>3, <1>4, <1>5 DEF FieldType
<1>7. fields' = Append(Left, FieldAt(stack))
  BY <1>1, <1>5 DEF PushBack, Left
<1>8. PICK t : t = Left
  OBVIOUS
<1>9. LeftOf(t)
  BY <1>1, <1>8, LeftIs
<1>10. PICK h \in [1 .. Len(t) -> 1 .. Len(fields)] :
       /\ \A i \in 1 .. Len(t) : t[i] = fields[h[i]] /\ fields[h[i]].name # member.name
       /\ \A i, j \in 1 .. Len(t) : i < j => h[i] < h[j]
       /\ \A m \in 1 .. Len(fields) : fields[m].name # member.name => \E i \in 1 .. Len(t) : h[i] = m
  BY <1>9 DEF LeftOf
<1>11. t \in Seq(FieldType) /\ Len(t) \in Nat
  BY <1>9, SeqFacts DEF LeftOf
<1>12. PICK f : f = FieldAt(stack)
  OBVIOUS
<1>13. PICK u : u = Append(t, f)
  OBVIOUS
<1>14. /\ u \in Seq(FieldType) /\ Len(u) = Len(t) + 1 /\ u[Len(t) + 1] = f
       /\ \A k \in 1 .. Len(t) : u[k] = t[k]
  BY <1>6, <1>11, <1>12, <1>13, AppendProperties
<1>15. DOMAIN u = 1 .. (Len(t) + 1)
  BY <1>14, SeqFacts
<1>16. PushedOf(u, f, h, Len(t))
  BY <1>10, <1>11, <1>14, <1>15 DEF PushedOf
<1>17. PushedOf(fields', FieldAt(stack), h, Len(t))
  BY <1>7, <1>8, <1>12, <1>13, <1>16
<1>18. QED BY <1>6, <1>17

LEMMA PushStep ==
  ASSUME LayoutIInv, Push
  PROVE  LayoutIInv'
<1>1. /\ more /\ member.exported /\ ~Entered(call) /\ ~Hidden
      /\ depths' = IF ~flatten THEN depths
                   ELSE [n \in DOMAIN depths \cup {member.name} |->
                           IF n = member.name THEN depth ELSE depths[n]]
      /\ stack' = Advance(stack)
      /\ UNCHANGED <<decl, flatten, embeds, live, pc>>
  BY DEF Push
<1>2. pc = "parse" /\ pc' = "parse" /\ decl \in Decls /\ StackOK /\ embeds' = embeds /\ flatten' = flatten
  BY <1>1 DEF more, LayoutIInv
<1>3. /\ StackOK' /\ EmbedsOK'
      /\ \A p \in FieldPlaces : Seen(p)' <=> Seen(p) \/ Through(p, stack)
  BY <1>1, <1>2, StackAdvances
<1>4. \A p \in FieldPlaces : Through(p, stack) => p = stack
  BY <1>1, <1>2, PassedMember
<1>5. stack \in FieldPlaces /\ Through(stack, stack)
  BY <1>1, <1>2, FieldHere
<1>6. /\ AnyStep' = AnyStep /\ FieldPlaces' = FieldPlaces
      /\ \A p : FieldAt(p)' = FieldAt(p)
  BY <1>1, Rigid
<1>7. FieldAt(stack) \in FieldType /\ FieldAt(stack).name = member.name /\ FieldAt(stack).at = stack
  BY PushedIs
<1>8. PICK c, h : PushedOf(fields', FieldAt(stack), h, c)
  BY PushedIs
<1>9. PICK f : f = FieldAt(stack)
  OBVIOUS
<1>10. PICK u : u = fields'
  OBVIOUS
<1>11. /\ c \in Nat
       /\ u \in Seq(FieldType) /\ DOMAIN u = 1 .. (c + 1) /\ u[c + 1] = f
       /\ h \in [1 .. c -> 1 .. Len(fields)]
       /\ \A i \in 1 .. c : u[i] = fields[h[i]] /\ fields[h[i]].name # member.name
       /\ \A i, j \in 1 .. c : i < j => h[i] < h[j]
       /\ \A m \in 1 .. Len(fields) : fields[m].name # member.name => \E i \in 1 .. c : h[i] = m
  BY <1>8, <1>9, <1>10 DEF PushedOf
<1>12. /\ fields \in Seq(FieldType) /\ Len(fields) \in Nat /\ DOMAIN fields = 1 .. Len(fields)
       /\ \A j \in 1 .. Len(fields) : /\ fields[j].at \in FieldPlaces
                                      /\ fields[j] = FieldAt(fields[j].at)
                                      /\ Seen(fields[j].at)
       /\ \A i, j \in 1 .. Len(fields) : fields[i].name = fields[j].name => i = j
  <2>1. /\ fields \in Seq(FieldType)
        /\ \A j \in DOMAIN fields : /\ fields[j].at \in FieldPlaces
                                    /\ fields[j] = FieldAt(fields[j].at)
                                    /\ Seen(fields[j].at)
        /\ \A i, j \in DOMAIN fields : fields[i].name = fields[j].name => i = j
    BY DEF LayoutIInv, FieldsOK, FieldType
  <2>2. Len(fields) \in Nat /\ DOMAIN fields = 1 .. Len(fields)
    BY <2>1, SeqFacts
  <2>3. QED BY <2>1, <2>2
<1>13. \A j \in 1 .. (c + 1) : j = c + 1 \/ j \in 1 .. c
  BY <1>11
<1>14. c + 1 \in 1 .. (c + 1) /\ \A i \in 1 .. c : i \in 1 .. (c + 1) /\ i < c + 1
  BY <1>11
<1>15. ASSUME NEW j \in 1 .. (c + 1)
       PROVE  u[j].at \in FieldPlaces /\ u[j] = FieldAt(u[j].at) /\ Seen(u[j].at)'
  <2>1. CASE j = c + 1
    BY <1>3, <1>5, <1>7, <1>9, <1>11, <2>1
  <2>2. CASE j # c + 1
    <3>1. j \in 1 .. c
      BY <1>13, <2>2
    <3>2. u[j] = fields[h[j]] /\ h[j] \in 1 .. Len(fields)
      BY <1>11, <3>1
    <3>3. QED BY <1>3, <1>12, <3>2
  <2>3. QED BY <2>1, <2>2
<1>16. ASSUME NEW i \in 1 .. (c + 1), NEW j \in 1 .. (c + 1), u[i].name = u[j].name
       PROVE  i = j
  <2>1. \A k \in 1 .. c : u[k].name # u[c + 1].name
    BY <1>7, <1>9, <1>11
  <2>2. CASE i \in 1 .. c /\ j \in 1 .. c
    <3>1. h[i] = h[j]
      <4>1. /\ h[i] \in 1 .. Len(fields) /\ h[j] \in 1 .. Len(fields)
            /\ u[i] = fields[h[i]] /\ u[j] = fields[h[j]]
        BY <1>11, <2>2
      <4>2. fields[h[i]].name = fields[h[j]].name
        BY <1>16, <4>1
      <4>3. QED BY <1>12, <4>1, <4>2
    <3>2. ~(i < j) /\ ~(j < i)
      BY <1>11, <2>2, <3>1
    <3>3. QED BY <1>11, <2>2, <3>2
  <2>3. QED BY <1>13, <1>16, <2>1, <2>2
<1>17. FieldsOK'
  <2>1. u \in Seq([name : STRING, at : Seq(AnyStep')])
    BY <1>6, <1>11 DEF FieldType
  <2>2. \A j \in DOMAIN u : /\ u[j].at \in FieldPlaces'
                            /\ u[j] = FieldAt(u[j].at)'
                            /\ Seen(u[j].at)'
    BY <1>6, <1>11, <1>15
  <2>3. \A i, j \in DOMAIN u : u[i].name = u[j].name => i = j
    BY <1>11, <1>16
  <2>4. QED BY <1>10, <2>1, <2>2, <2>3 DEF FieldsOK
<1>18. ASSUME flatten, NEW j \in 1 .. Len(fields), fields[j].name = member.name
       PROVE  Len(stack) <= Len(fields[j].at)
  <2>1. fields[j].name \in DOMAIN depths /\ depths[fields[j].name] = Len(fields[j].at) - 1
    BY <1>2, <1>12, <1>18 DEF LayoutIInv, DepthsOK
  <2>2. ~(depths[member.name] < depth)
    BY <1>1, <1>18, <2>1 DEF Hidden, FoundHigher
  <2>3. depth = Len(stack) - 1 /\ Len(stack) \in Nat
    BY <1>2, StackFacts
  <2>4. Len(fields[j].at) \in Nat
    BY <1>12, PlaceFacts
  <2>5. QED BY <1>18, <2>1, <2>2, <2>3, <2>4
<1>19. ASSUME NEW p \in FieldPlaces, Seen(p)'
       PROVE  \E i \in 1 .. (c + 1) : u[i].name = FieldAt(p).name /\ NoWorse(u[i].at, p)
  <2>1. CASE p = stack
    <3>1. u[c + 1].name = FieldAt(p).name /\ NoWorse(u[c + 1].at, p)
      BY <1>7, <1>9, <1>11, <2>1 DEF NoWorse
    <3>2. QED BY <1>14, <3>1
  <2>2. CASE Seen(p)
    <3>1. PICK j \in 1 .. Len(fields) : fields[j].name = FieldAt(p).name /\ NoWorse(fields[j].at, p)
      BY <1>12, <2>2 DEF LayoutIInv, SeenFound
    <3>2. CASE fields[j].name # member.name
      <4>1. PICK i \in 1 .. c : h[i] = j
        BY <1>11, <3>2
      <4>2. u[i].name = FieldAt(p).name /\ NoWorse(u[i].at, p)
        BY <1>11, <3>1, <4>1
      <4>3. QED BY <1>14, <4>2
    <3>3. CASE fields[j].name = member.name
      <4>1. flatten
        BY <1>1, <1>12, <3>3, FoundOnce
      <4>2. Len(stack) <= Len(fields[j].at)
        BY <1>18, <3>3, <4>1
      <4>3. Len(stack) \in Nat /\ Len(fields[j].at) \in Nat /\ Len(p) \in Nat
        BY <1>5, <1>12, PlaceFacts
      <4>4. Len(fields[j].at) <= Len(p)
        BY <3>1, <4>3 DEF NoWorse
      <4>5. Before(p, stack)
        BY <1>2, <2>2 DEF Seen
      <4>6. NoWorse(stack, p)
        <5>1. Len(stack) < Len(p) \/ Len(stack) = Len(p)
          BY <4>2, <4>3, <4>4
        <5>2. QED BY <4>5, <5>1 DEF NoWorse
      <4>7. u[c + 1].name = FieldAt(p).name /\ NoWorse(u[c + 1].at, p)
        BY <1>7, <1>9, <1>11, <3>1, <3>3, <4>6
      <4>8. QED BY <1>14, <4>7
    <3>4. QED BY <3>2, <3>3
  <2>3. QED BY <1>3, <1>4, <1>19, <2>1, <2>2
<1>20. SeenFound'
  <2>1. \A p \in FieldPlaces :
          Seen(p)' => \E j \in DOMAIN fields' : fields'[j].name = FieldAt(p).name /\ NoWorse(fields'[j].at, p)
    BY <1>10, <1>11, <1>19
  <2>2. QED BY <1>6, <2>1 DEF SeenFound
<1>21. DepthsOK'
  <2>1. SUFFICES ASSUME flatten
                 PROVE  /\ \A j \in 1 .. (c + 1) :
                             u[j].name \in DOMAIN depths' /\ depths'[u[j].name] = Len(u[j].at) - 1
                        /\ \A n \in DOMAIN depths' : \E j \in 1 .. (c + 1) : u[j].name = n
    BY <1>2, <1>10, <1>11 DEF DepthsOK
  <2>2. depths' = [n \in DOMAIN depths \cup {member.name} |-> IF n = member.name THEN depth ELSE depths[n]]
    BY <1>1, <2>1
  <2>3. /\ DOMAIN depths' = DOMAIN depths \cup {member.name} /\ depths'[member.name] = depth
        /\ \A n \in DOMAIN depths : n # member.name => depths'[n] = depths[n]
    BY <2>2
  <2>4. /\ \A j \in 1 .. Len(fields) :
             fields[j].name \in DOMAIN depths /\ depths[fields[j].name] = Len(fields[j].at) - 1
        /\ \A n \in DOMAIN depths : \E j \in 1 .. Len(fields) : fields[j].name = n
    BY <1>2, <1>12, <2>1 DEF LayoutIInv, DepthsOK
  <2>5. depth = Len(stack) - 1
    BY <1>2, StackFacts
  <2>6. ASSUME NEW j \in 1 .. (c + 1)
        PROVE  u[j].name \in DOMAIN depths' /\ depths'[u[j].name] = Len(u[j].at) - 1
    <3>1. CASE j = c + 1
      BY <1>7, <1>9, <1>11, <2>3, <2>5, <3>1
    <3>2. CASE j # c + 1
      <4>1. j \in 1 .. c
        BY <1>13, <3>2
      <4>2. u[j] = fields[h[j]] /\ u[j].name # member.name /\ h[j] \in 1 .. Len(fields)
        BY <1>11, <4>1
      <4>3. /\ u[j].name \in DOMAIN depths
            /\ depths[u[j].name] = Len(u[j].at) - 1
        BY <2>4, <4>2
      <4>4. u[j].name \in DOMAIN depths' /\ depths'[u[j].name] = depths[u[j].name]
        BY <2>3, <4>2, <4>3
      <4>5. QED BY <4>3, <4>4
    <3>3. QED BY <3>1, <3>2
  <2>7. ASSUME NEW n \in DOMAIN depths' PROVE \E j \in 1 .. (c + 1) : u[j].name = n
    <3>1. CASE n = member.name
      BY <1>7, <1>9, <1>11, <1>14, <3>1
    <3>2. CASE n # member.name
      <4>1. PICK m \in 1 .. Len(fields) : fields[m].name = n
        BY <2>3, <2>4, <2>7, <3>2
      <4>2. PICK i \in 1 .. c : h[i] = m
        BY <1>11, <3>2, <4>1
      <4>3. QED BY <1>11, <1>14, <4>1, <4>2
    <3>3. QED BY <3>1, <3>2
  <2>8. QED BY <2>6, <2>7
<1>22. DeclarationOrder'
  <2>1. ASSUME NEW j \in 1 .. (c + 1), NEW k \in 1 .. (c + 1), j < k
        PROVE  Before(u[j].at, u[k].at)
    <3>1. j \in 1 .. c
      BY <1>11, <2>1
    <3>2. u[j] = fields[h[j]] /\ h[j] \in 1 .. Len(fields)
      BY <1>11, <3>1
    <3>3. CASE k = c + 1
      <4>1. Before(fields[h[j]].at, stack)
        BY <1>2, <1>12, <3>2 DEF Seen
      <4>2. QED BY <1>7, <1>9, <1>11, <3>2, <3>3, <4>1
    <3>4. CASE k # c + 1
      <4>1. k \in 1 .. c
        BY <1>13, <3>4
      <4>2. u[k] = fields[h[k]] /\ h[k] \in 1 .. Len(fields) /\ h[j] < h[k]
        BY <1>11, <2>1, <3>1, <4>1
      <4>3. QED BY <1>2, <1>12, <3>2, <4>2 DEF LayoutIInv, DeclarationOrder
    <3>5. QED BY <3>3, <3>4
  <2>2. QED BY <1>10, <1>11, <2>1 DEF DeclarationOrder
<1>23. QED BY <1>1, <1>2, <1>3, <1>17, <1>20, <1>21, <1>22, StillParsing

\* As many of one as of the other.
OneForOne(f, a, n) ==
  /\ f \in [1 .. a -> 1 .. n]
  /\ \A i, j \in 1 .. a : f[i] = f[j] => i = j
  /\ \A m \in 1 .. n : \E i \in 1 .. a : f[i] = m

LEMMA SameLength ==
  ASSUME NEW a \in Nat, NEW n \in Nat, NEW f, OneForOne(f, a, n)
  PROVE  a = n
<1>1. f \in Bijection(1 .. a, 1 .. n)
  BY DEF OneForOne, Bijection, Injection, Surjection, IsInjective
<1>2. Cardinality(1 .. n) = a
  BY <1>1, FS_CountingElements DEF ExistsBijection
<1>3. Cardinality(1 .. n) = n
  BY FS_Interval
<1>4. QED BY <1>2, <1>3

OnceEach == \A i, j \in DOMAIN fields : fields[i].name = fields[j].name => i = j


LEMMA NamedIs ==
  ASSUME OnceEach, fields \in Seq(FieldType), NEW j \in DOMAIN fields
  PROVE  Named(fields[j].name) = fields[j]
<1> DEFINE name == fields[j].name
           IsLast(i) == fields[i].name = name /\ \A k \in DOMAIN fields : fields[k].name = name => k <= i
           c == CHOOSE i \in DOMAIN fields : IsLast(i)
<1>1. \A k \in DOMAIN fields : fields[k].name = name => k = j
  BY DEF OnceEach
<1>2. IsLast(j)
  <2>1. j \in Nat
    BY SeqFacts
  <2>2. QED BY <1>1, <2>1
<1>3. c \in DOMAIN fields /\ IsLast(c)
  <2> HIDE DEF IsLast
  <2>1. QED BY <1>2
<1>4. c = j
  BY <1>1, <1>3
<1>5. Named(name) = fields[c]
  BY DEF Named
<1>6. QED BY <1>4, <1>5

OrderedBy(order) ==
  LET picked == Picked(order)
  IN  [k \in DOMAIN picked |-> Named(picked[k])] \o Remaining(order)

\* The same fields in another order: o.
Reordered(o) ==
  /\ o \in Seq(FieldType) /\ Len(o) = Len(fields)
  /\ \E g \in [1 .. Len(o) -> 1 .. Len(fields)] :
       /\ \A i \in 1 .. Len(o) : o[i] = fields[g[i]]
       /\ \A i, j \in 1 .. Len(o) : g[i] = g[j] => i = j
       /\ \A m \in 1 .. Len(fields) : \E i \in 1 .. Len(o) : g[i] = m

\* The names that are picked: some of the fields', and all of those in the order.
LEMMA PickedIs ==
  ASSUME NEW order \in Seq(STRING)
  PROVE  LET picked == Picked(order) IN
         /\ picked \in Seq(STRING)
         /\ \A i \in 1 .. Len(picked) : picked[i] \in Names /\ \E k \in DOMAIN order : order[k] = picked[i]
         /\ \A i, j \in 1 .. Len(picked) : picked[i] = picked[j] => i = j
         /\ \A k \in DOMAIN order : order[k] \in Names => \E i \in 1 .. Len(picked) : picked[i] = order[k]
<1> DEFINE I == { k \in DOMAIN order : order[k] \in Names /\ \A j \in 1 .. (k - 1) : order[j] # order[k] }
<1>1. PICK t : t = Picked(order)
  OBVIOUS
<1>2. Len(order) \in Nat /\ DOMAIN order = 1 .. Len(order)
  BY SeqFacts
<1>3. KeptOf(t, order, I, Len(order), STRING)
  <2>1. Picked(order) = Kept(order, I)
    BY DEF Picked
  <2> HIDE DEF I
  <2>2. QED BY <1>1, <2>1, KeptIs
<1>4. \A k \in I : k \in 1 .. Len(order) /\ order[k] \in Names /\ \A j \in 1 .. (k - 1) : order[j] # order[k]
  BY <1>2
<1>5. ASSUME NEW k \in DOMAIN order, order[k] \in Names
      PROVE  \E m \in I : order[m] = order[k]
  <2> DEFINE T == { m \in DOMAIN order : order[m] = order[k] }
  <2>1. T \subseteq Nat /\ T # {}
    BY <1>2
  <2>2. PICK m \in T : \A l \in T : m <= l
    <3> HIDE DEF T
    <3>1. QED BY <2>1, LeastElement
  <2>3. m \in DOMAIN order /\ order[m] = order[k] /\ m \in 1 .. Len(order)
    BY <1>2
  <2>4. \A j \in 1 .. (m - 1) : order[j] # order[m]
    <3>1. ASSUME NEW j \in 1 .. (m - 1), order[j] = order[m] PROVE FALSE
      <4>1. j \in DOMAIN order /\ j < m
        BY <1>2, <2>3
      <4>2. j \in T
        BY <2>3, <3>1, <4>1
      <4>3. QED BY <1>2, <2>2, <2>3, <4>1, <4>2
    <3>2. QED BY <3>1
  <2>5. m \in I
    BY <1>5, <2>3, <2>4
  <2>6. QED BY <2>3, <2>5
<1> HIDE DEF I
<1>6. PICK h \in [1 .. Len(t) -> 1 .. Len(order)] :
        /\ \A i \in 1 .. Len(t) : h[i] \in I /\ t[i] = order[h[i]]
        /\ \A i, j \in 1 .. Len(t) : i < j => h[i] < h[j]
        /\ \A m \in 1 .. Len(order) : m \in I => \E i \in 1 .. Len(t) : h[i] = m
  BY <1>3 DEF KeptOf
<1>7. t \in Seq(STRING) /\ Len(t) \in Nat
  BY <1>3, SeqFacts DEF KeptOf
<1>8. \A i \in 1 .. Len(t) : t[i] \in Names /\ \E k \in DOMAIN order : order[k] = t[i]
  BY <1>2, <1>4, <1>6
<1>9. ASSUME NEW i \in 1 .. Len(t), NEW j \in 1 .. Len(t), i < j PROVE t[i] # t[j]
  <2>1. h[i] < h[j] /\ h[i] \in 1 .. Len(order) /\ h[j] \in I /\ t[i] = order[h[i]] /\ t[j] = order[h[j]]
    BY <1>6, <1>9
  <2>2. h[j] \in 1 .. Len(order)
    BY <1>4, <2>1
  <2>3. h[i] \in 1 .. (h[j] - 1)
    BY <1>2, <2>1, <2>2
  <2>4. QED BY <1>4, <2>1, <2>3
<1>10. \A i, j \in 1 .. Len(t) : t[i] = t[j] => i = j
  BY <1>7, <1>9
<1>11. ASSUME NEW k \in DOMAIN order, order[k] \in Names
       PROVE  \E i \in 1 .. Len(t) : t[i] = order[k]
  <2>1. PICK m \in I : order[m] = order[k]
    BY <1>5, <1>11
  <2>2. PICK i \in 1 .. Len(t) : h[i] = m
    BY <1>4, <1>6, <2>1
  <2>3. QED BY <1>6, <2>1, <2>2
<1>12. QED BY <1>1, <1>7, <1>8, <1>10, <1>11

\* An order of the fields is one of all of them, each once.
LEMMA OrderIs ==
  ASSUME OnceEach, fields \in Seq(FieldType), NEW order \in Seq(STRING)
  PROVE  Reordered(OrderedBy(order))
<1>1. Len(fields) \in Nat /\ DOMAIN fields = 1 .. Len(fields) /\ \A k \in 1 .. Len(fields) : fields[k] \in FieldType
  BY SeqFacts
<1>2. PICK p : p = Picked(order)
  OBVIOUS
<1>3. /\ p \in Seq(STRING)
      /\ \A i \in 1 .. Len(p) : p[i] \in Names /\ \E k \in DOMAIN order : order[k] = p[i]
      /\ \A i, j \in 1 .. Len(p) : p[i] = p[j] => i = j
      /\ \A k \in DOMAIN order : order[k] \in Names => \E i \in 1 .. Len(p) : p[i] = order[k]
  BY <1>2, PickedIs
<1> DEFINE a == Len(p)
           I == { j \in DOMAIN fields : \A k \in DOMAIN order : order[k] # fields[j].name }
           Index(name) == CHOOSE j \in 1 .. Len(fields) : fields[j].name = name
<1>4. a \in Nat /\ DOMAIN p = 1 .. a
  BY <1>3, SeqFacts
<1>5. PICK r : r = Remaining(order)
  OBVIOUS
<1>6. KeptOf(r, fields, I, Len(fields), FieldType)
  <2>1. Remaining(order) = Kept(fields, I)
    BY DEF Remaining
  <2> HIDE DEF I
  <2>2. QED BY <1>5, <2>1, KeptIs
<1>7. \A m \in 1 .. Len(fields) : m \in I <=> \A k \in DOMAIN order : order[k] # fields[m].name
  BY <1>1
<1> HIDE DEF I
<1>8. PICK h \in [1 .. Len(r) -> 1 .. Len(fields)] :
        /\ \A i \in 1 .. Len(r) : h[i] \in I /\ r[i] = fields[h[i]]
        /\ \A i, j \in 1 .. Len(r) : i < j => h[i] < h[j]
        /\ \A m \in 1 .. Len(fields) : m \in I => \E i \in 1 .. Len(r) : h[i] = m
  BY <1>6 DEF KeptOf
<1> DEFINE b == Len(r)
<1>9. r \in Seq(FieldType) /\ b \in Nat
  BY <1>6, SeqFacts DEF KeptOf
<1>10. \A name \in Names : Index(name) \in 1 .. Len(fields) /\ fields[Index(name)].name = name
  BY <1>1 DEF Names
<1> HIDE DEF Index
<1>11. \A i \in 1 .. a : /\ Index(p[i]) \in 1 .. Len(fields) /\ fields[Index(p[i])].name = p[i]
                         /\ Index(p[i]) \notin I
  BY <1>3, <1>7, <1>10
<1>12. PICK q : q = [k \in DOMAIN p |-> Named(p[k])]
  OBVIOUS
<1>13. q = [k \in 1 .. a |-> fields[Index(p[k])]]
  <2>1. ASSUME NEW k \in 1 .. a PROVE Named(p[k]) = fields[Index(p[k])]
    <3>1. Named(fields[Index(p[k])].name) = fields[Index(p[k])]
      BY <1>1, <1>11, NamedIs
    <3>2. QED BY <1>11, <3>1
  <2>2. QED BY <1>4, <1>12, <2>1
<1>14. q \in Seq(FieldType) /\ Len(q) = a /\ \A i \in 1 .. a : q[i] = fields[Index(p[i])]
  <2> HIDE DEF a
  <2>1. q \in [1 .. a -> FieldType]
    BY <1>1, <1>11, <1>13 DEF a
  <2>2. q \in Seq(FieldType)
    BY <1>4, <2>1, IsASeq
  <2>3. Len(q) = a
    BY <1>4, <1>13, <2>2, LenProperties
  <2>4. QED BY <1>13, <2>2, <2>3
<1>15. PICK o : o = q \o r
  OBVIOUS
<1>16. /\ o \in Seq(FieldType) /\ Len(o) = a + b
       /\ \A i \in 1 .. a + b : o[i] = IF i <= a THEN q[i] ELSE r[i - a]
  <2>1. /\ q \o r \in Seq(FieldType) /\ Len(q \o r) = Len(q) + Len(r)
        /\ \A i \in 1 .. Len(q) + Len(r) : (q \o r)[i] = IF i <= Len(q) THEN q[i] ELSE r[i - Len(q)]
    BY <1>9, <1>14, ConcatProperties
  <2>2. QED BY <1>14, <1>15, <2>1
<1>17. OrderedBy(order) = o
  BY <1>2, <1>5, <1>12, <1>15 DEF OrderedBy
<1> DEFINE n == Len(fields)
           g == [i \in 1 .. (a + b) |-> IF i <= a THEN Index(p[i]) ELSE h[i - a]]
<1>18. /\ \A i \in 1 .. (a + b) : i <= a => i \in 1 .. a
       /\ \A i \in 1 .. (a + b) : ~(i <= a) => i - a \in 1 .. b
       /\ \A i \in 1 .. a : i \in 1 .. (a + b) /\ i <= a
       /\ \A i \in 1 .. b : i + a \in 1 .. (a + b) /\ ~(i + a <= a) /\ (i + a) - a = i
  <2> HIDE DEF a, b
  <2>1. QED BY <1>4, <1>9
<1> HIDE DEF a, b, n
<1>19. \A i \in 1 .. (a + b) :
         g[i] = IF i <= a THEN Index(p[i]) ELSE h[i - a]
  OBVIOUS
<1>20. g \in [1 .. (a + b) -> 1 .. n]
  BY <1>8, <1>11, <1>18 DEF a, b, n
<1> HIDE DEF g
<1>21. \A i \in 1 .. (a + b) : o[i] = fields[g[i]]
  <2> SUFFICES ASSUME NEW i \in 1 .. (a + b) PROVE o[i] = fields[g[i]]
    OBVIOUS
  <2>1. CASE i <= a
    BY <1>14, <1>16, <1>18, <1>19, <2>1
  <2>2. CASE ~(i <= a)
    <3>1. i - a \in 1 .. b /\ g[i] = h[i - a] /\ o[i] = r[i - a]
      BY <1>16, <1>18, <1>19, <2>2
    <3>2. r[i - a] = fields[h[i - a]]
      BY <1>8, <3>1 DEF b
    <3>3. QED BY <3>1, <3>2
  <2>3. QED BY <2>1, <2>2
<1>22. ASSUME NEW i \in 1 .. (a + b), NEW j \in 1 .. (a + b), g[i] = g[j]
       PROVE  i = j
  <2>1. ASSUME NEW k \in 1 .. (a + b), k <= a PROVE g[k] \notin I /\ g[k] = Index(p[k]) /\ k \in 1 .. a
    BY <1>11, <1>18, <1>19, <2>1 DEF a
  <2>2. ASSUME NEW k \in 1 .. (a + b), ~(k <= a) PROVE g[k] \in I /\ g[k] = h[k - a] /\ k - a \in 1 .. b
    BY <1>8, <1>18, <1>19, <2>2 DEF b
  <2>3. CASE i <= a /\ j <= a
    <3>1. p[i] = p[j]
      BY <1>11, <1>22, <2>1, <2>3 DEF a
    <3>2. QED BY <1>3, <2>1, <2>3, <3>1 DEF a
  <2>4. CASE ~(i <= a) /\ ~(j <= a)
    <3>1. h[i - a] = h[j - a] /\ i - a \in 1 .. b /\ j - a \in 1 .. b
      BY <1>22, <2>2, <2>4
    <3>2. ~(i - a < j - a) /\ ~(j - a < i - a)
      <4>1. \A k \in 1 .. b : h[k] \in 1 .. n /\ h[k] \in Int
        BY <1>1, <1>8 DEF b, n
      <4>2. QED BY <1>8, <3>1, <4>1 DEF b
    <3>3. QED BY <1>4, <3>1, <3>2
  <2>5. QED BY <1>22, <2>1, <2>2, <2>3, <2>4
<1>23. ASSUME NEW m \in 1 .. n PROVE \E i \in 1 .. (a + b) : g[i] = m
  <2>1. CASE m \in I
    <3>1. PICK i \in 1 .. b : h[i] = m
      BY <1>8, <2>1 DEF b, n
    <3>2. QED BY <1>18, <1>19, <3>1
  <2>2. CASE m \notin I
    <3>1. PICK k \in DOMAIN order : order[k] = fields[m].name
      BY <1>7, <2>2 DEF n
    <3>2. fields[m].name \in Names
      BY <1>1 DEF n, Names
    <3>3. PICK i \in 1 .. a : p[i] = fields[m].name
      BY <1>3, <3>1, <3>2 DEF a
    <3>4. Index(p[i]) = m
      BY <1>1, <1>11, <3>3 DEF OnceEach, n
    <3>5. QED BY <1>18, <1>19, <3>3, <3>4
  <2>3. QED BY <2>1, <2>2
<1>24. a + b = n
  <2>1. PICK c \in Nat : c = a + b
    BY <1>4, <1>9 DEF a, b
  <2>2. n \in Nat
    BY <1>1 DEF n
  <2>3. OneForOne(g, c, n)
    BY <1>20, <1>22, <1>23, <2>1 DEF OneForOne
  <2>4. c = n
    BY <2>2, <2>3, SameLength
  <2>5. QED BY <2>1, <2>4
<1>25. Reordered(o)
  <2>1. g \in [1 .. Len(o) -> 1 .. Len(fields)]
    BY <1>16, <1>20 DEF n
  <2>2. \A i \in 1 .. Len(o) : o[i] = fields[g[i]]
    BY <1>16, <1>21
  <2>3. \A i, j \in 1 .. Len(o) : g[i] = g[j] => i = j
    BY <1>16, <1>22
  <2>4. \A m \in 1 .. Len(fields) : \E i \in 1 .. Len(o) : g[i] = m
    BY <1>16, <1>23 DEF n
  <2>5. o \in Seq(FieldType) /\ Len(o) = Len(fields)
    BY <1>16, <1>24 DEF n
  <2>6. QED BY <2>1, <2>2, <2>3, <2>4, <2>5, Zenon DEF Reordered
<1>26. QED BY <1>17, <1>25

LEMMA OrderStep ==
  ASSUME LayoutIInv, NEW order \in FieldOrders, Order(order)
  PROVE  LayoutIInv'
<1>0. PICK o : o = OrderedBy(order)
  OBVIOUS
<1>1. /\ pc = "order"
      /\ IF Len(o) # Len(fields) THEN pc' = "panic" /\ UNCHANGED fields ELSE pc' = "emit" /\ fields' = o
      /\ UNCHANGED <<decl, flatten, stack, depths, embeds, live>>
  BY <1>0, Zenon DEF Order, OrderedBy
<1>2. fields \in Seq(FieldType) /\ OnceEach
  BY DEF LayoutIInv, FieldsOK, FieldType, OnceEach
<1>3. Reordered(o)
  BY <1>0, <1>2, OrderIs, OrdersAssumption
<1>4. pc' = "emit" /\ fields' = o
  BY <1>1, <1>3 DEF Reordered
<1>5. /\ AnyStep' = AnyStep /\ FieldPlaces' = FieldPlaces /\ Exported' = Exported
      /\ \A p : FieldAt(p)' = FieldAt(p)
      /\ \A s : Member(s)' = Member(s)
  BY <1>1, Rigid
<1>6. StackOK' /\ DepthsOK' /\ DeclarationOrder' /\ NeverPanics' /\ AllLive'
  BY <1>4 DEF StackOK, DepthsOK, DeclarationOrder, NeverPanics, AllLive
<1>7. EmbedsOK'
  BY <1>1, <1>4, <1>5 DEF LayoutIInv, EmbedsOK, EmbeddingSeen
<1>8. /\ Len(fields) \in Nat /\ DOMAIN fields = 1 .. Len(fields)
      /\ \A j \in 1 .. Len(fields) : fields[j].at \in FieldPlaces /\ fields[j] = FieldAt(fields[j].at)
  BY <1>2, SeqFacts DEF LayoutIInv, FieldsOK
<1>9. PICK g \in [1 .. Len(o) -> 1 .. Len(fields)] :
       /\ \A i \in 1 .. Len(o) : o[i] = fields[g[i]]
       /\ \A i, j \in 1 .. Len(o) : g[i] = g[j] => i = j
       /\ \A m \in 1 .. Len(fields) : \E i \in 1 .. Len(o) : g[i] = m
  BY <1>3 DEF Reordered
<1>10. o \in Seq(FieldType) /\ DOMAIN o = 1 .. Len(o)
  BY <1>3, SeqFacts DEF Reordered
<1>11. \A p : Seen(p)'
  BY <1>4 DEF Seen
<1>12. FieldsOK'
  <2>1. o \in Seq([name : STRING, at : Seq(AnyStep')])
    BY <1>5, <1>10 DEF FieldType
  <2>2. \A j \in DOMAIN o : o[j].at \in FieldPlaces' /\ o[j] = FieldAt(o[j].at)' /\ Seen(o[j].at)'
    BY <1>5, <1>8, <1>9, <1>10, <1>11
  <2>3. ASSUME NEW i \in DOMAIN o, NEW j \in DOMAIN o, o[i].name = o[j].name PROVE i = j
    <3>1. g[i] \in DOMAIN fields /\ g[j] \in DOMAIN fields /\ o[i] = fields[g[i]] /\ o[j] = fields[g[j]]
      BY <1>8, <1>9, <1>10
    <3>2. g[i] = g[j]
      BY <1>2, <2>3, <3>1 DEF OnceEach
    <3>3. QED BY <1>9, <1>10, <3>2
  <2>4. QED BY <1>4, <2>1, <2>2, <2>3 DEF FieldsOK
<1>13. ASSUME NEW p \in FieldPlaces
       PROVE  \E i \in DOMAIN o : o[i].name = FieldAt(p).name /\ NoWorse(o[i].at, p)
  <2>1. Seen(p)
    BY <1>1 DEF Seen
  <2>2. PICK m \in 1 .. Len(fields) : fields[m].name = FieldAt(p).name /\ NoWorse(fields[m].at, p)
    BY <1>8, <2>1 DEF LayoutIInv, SeenFound
  <2>3. PICK i \in 1 .. Len(o) : g[i] = m
    BY <1>9
  <2>4. QED BY <1>9, <1>10, <2>2, <2>3
<1>14. SeenFound'
  BY <1>4, <1>5, <1>13 DEF SeenFound
<1>15. decl' \in Decls /\ flatten' \in BOOLEAN
  BY <1>1 DEF LayoutIInv
<1>16. QED BY <1>6, <1>7, <1>12, <1>14, <1>15 DEF LayoutIInv

\* Once the type is parsed, what the fields are does not depend on the rest.
LEMMA Settled ==
  ASSUME LayoutIInv, pc \in {"emit", "emitted"}, pc' \in {"emitted", "error", "ready"},
         UNCHANGED <<decl, flatten, stack, fields, depths, embeds>>
  PROVE  /\ decl' \in Decls /\ flatten' \in BOOLEAN
         /\ StackOK' /\ FieldsOK' /\ SeenFound' /\ DepthsOK' /\ DeclarationOrder' /\ EmbedsOK' /\ NeverPanics'
<1>1. /\ AnyStep' = AnyStep /\ FieldPlaces' = FieldPlaces /\ Exported' = Exported
      /\ \A p : FieldAt(p)' = FieldAt(p)
      /\ \A s : Member(s)' = Member(s)
  BY Rigid
<1>2. decl' \in Decls /\ flatten' \in BOOLEAN
  BY DEF LayoutIInv
<1>3. StackOK' /\ DepthsOK' /\ DeclarationOrder' /\ NeverPanics'
  BY DEF StackOK, DepthsOK, DeclarationOrder, NeverPanics
<1>4. EmbedsOK'
  BY <1>1 DEF LayoutIInv, EmbedsOK, EmbeddingSeen
<1>5. FieldsOK'
  <2>1. /\ fields \in Seq([name : STRING, at : Seq(AnyStep)])
        /\ \A j \in DOMAIN fields : fields[j].at \in FieldPlaces /\ fields[j] = FieldAt(fields[j].at)
        /\ \A i, j \in DOMAIN fields : fields[i].name = fields[j].name => i = j
    BY DEF LayoutIInv, FieldsOK
  <2>2. \A p : Seen(p)'
    BY DEF Seen
  <2>3. fields' = fields
    OBVIOUS
  <2>4. \A j \in DOMAIN fields : FieldAt(fields[j].at)' = FieldAt(fields[j].at)
    BY <1>1, <2>3
  <2>5. QED BY <1>1, <2>1, <2>2, <2>3, <2>4 DEF FieldsOK
<1>6. SeenFound'
  <2>1. \A p \in FieldPlaces : \E j \in DOMAIN fields : fields[j].name = FieldAt(p).name /\ NoWorse(fields[j].at, p)
    BY DEF LayoutIInv, SeenFound, Seen
  <2>2. fields' = fields
    OBVIOUS
  <2>3. QED BY <1>1, <2>1, <2>2 DEF SeenFound
<1>7. QED BY <1>2, <1>3, <1>4, <1>5, <1>6

LEMMA EmitStep ==
  ASSUME LayoutIInv, Emit
  PROVE  LayoutIInv'
<1>1. /\ pc = "emit" /\ pc' \in {"emitted", "error"}
      /\ UNCHANGED <<decl, flatten, stack, fields, depths, embeds>>
  BY DEF Emit
<1>2. AllLive'
  BY <1>1 DEF AllLive
<1>3. QED BY <1>1, <1>2, Settled DEF LayoutIInv

\* A pointer above a field is itself in nothing but pointers.
LEMMA InPointers ==
  ASSUME LayoutIInv, NoPointerInValue, NEW p \in FieldPlaces, NEW k \in 1 .. (Len(p) - 1),
         Member(p[k]).kind = "embed*"
  PROVE  \A i \in 1 .. k : Member(p[i]).kind = "embed*"
<1>1. /\ Len(p) \in Nat /\ IsPath(p)
      /\ \A i \in 1 .. Len(p) : p[i] \in Exported
      /\ \A i \in 1 .. (Len(p) - 1) : Entered(p[i])
  BY PlaceFacts
<1>2. SUFFICES ASSUME NEW i \in 1 .. k, Member(p[i]).kind # "embed*" PROVE FALSE
  OBVIOUS
<1> DEFINE S == { m \in Nat : Member(p[i + m]).kind # "embed*" }
<1>3. 0 \in S
  <2>1. i + 0 = i
    BY <1>1
  <2>2. QED BY <1>2, <2>1
<1>4. ASSUME NEW m \in 0 .. ((k - i) - 1), m \in S PROVE m + 1 \in S
  <2>1. PICK j \in 1 .. (Len(p) - 1) : j = i + m
    BY <1>1
  <2>2. i + (m + 1) = j + 1 /\ j \in 1 .. Len(p) /\ j + 1 \in 1 .. Len(p) /\ m + 1 \in Nat
    BY <1>1, <2>1
  <2>3. p[j + 1].type = Member(p[j]).type
    BY <1>1 DEF IsPath
  <2>4. p[j] \in Exported /\ p[j + 1] \in Exported /\ Entered(p[j]) /\ Member(p[j]).kind # "embed*"
    BY <1>1, <1>4, <2>1, <2>2
  <2>5. Member(p[j]).kind = "embed"
    <3>1. decl \in Decls
      BY DEF LayoutIInv
    <3>2. p[j].type \in DOMAIN decl /\ p[j].next \in 1 .. Len(decl[p[j].type])
      BY <2>4, <3>1, StepsAre DEF AnyStep
    <3>3. Member(p[j]) \in Members
      BY <3>1, <3>2, Declared DEF Member
    <3>4. QED BY <2>4, <3>3 DEF Members, Kinds, Entered
  <2>6. Member(p[j + 1]).kind # "embed*"
    BY <2>3, <2>4, <2>5 DEF NoPointerInValue
  <2>7. QED BY <2>2, <2>6
<1>5. \A m \in 0 .. (k - i) : m \in S
  <2> HIDE DEF S
  <2>1. k - i \in Nat
    BY <1>1
  <2>2. QED BY <1>3, <1>4, <2>1, Upward
<1>6. k - i \in 0 .. (k - i) /\ i + (k - i) = k
  BY <1>1
<1>7. Member(p[i + (k - i)]).kind # "embed*"
  BY <1>5, <1>6
<1>8. QED BY <1>6, <1>7

LEMMA InitNilStep ==
  ASSUME LayoutIInv, InitNilEmbeddedStruct
  PROVE  LayoutIInv'
<1>1. /\ pc = "emitted" /\ pc' = "ready"
      /\ live' = { p \in Pointers : /\ SubSeq(p, 1, 1) \in { embeds[j] : j \in DOMAIN embeds }
                                    /\ \A q \in Upto(p) : IsPointer(q) }
      /\ UNCHANGED <<decl, flatten, stack, fields, depths, embeds>>
  BY DEF InitNilEmbeddedStruct
<1>2. NoPointerInValue' = NoPointerInValue
  BY <1>1, Rigid
<1>3. Pointers' = Pointers
  BY <1>1 DEF Pointers, Upto, IsPointer, Member
<1>4. ASSUME NoPointerInValue, NEW p \in Pointers
      PROVE  /\ SubSeq(p, 1, 1) \in { embeds[j] : j \in DOMAIN embeds }
             /\ \A q \in Upto(p) : IsPointer(q)
  <2>1. PICK j \in DOMAIN fields : p \in Upto(fields[j].at) /\ p # fields[j].at /\ IsPointer(p)
    BY <1>4 DEF Pointers
  <2>2. PICK w \in FieldPlaces : w = fields[j].at
    BY DEF LayoutIInv, FieldsOK
  <2>3. /\ w \in Seq(AnyStep) /\ Len(w) \in Nat /\ IsPath(w)
        /\ \A i \in 1 .. Len(w) : w[i] \in Exported
        /\ \A i \in 1 .. (Len(w) - 1) : Entered(w[i])
    BY PlaceFacts
  <2>4. PICK k \in 1 .. Len(w) : p = SubSeq(w, 1, k)
    BY <2>1, <2>2 DEF Upto
  <2>5. p \in Seq(AnyStep) /\ Len(p) = k /\ \A i \in 1 .. k : p[i] = w[i]
    BY <2>3, <2>4, PrefixIs
  <2>6. k # Len(w)
    BY <2>1, <2>2, <2>3, <2>5, SeqEqual
  <2>7. k \in 1 .. (Len(w) - 1) /\ k \in 1 .. k /\ 1 \in 1 .. k
    BY <2>3, <2>6
  <2>8. Member(w[k]).kind = "embed*"
    BY <2>1, <2>5, <2>7 DEF IsPointer
  <2>9. \A i \in 1 .. k : Member(w[i]).kind = "embed*"
    BY <1>4, <2>7, <2>8, InPointers
  <2>10. SubSeq(p, 1, 1) = << w[1] >>
    <3>1. /\ SubSeq(p, 1, 1) \in Seq(AnyStep) /\ Len(SubSeq(p, 1, 1)) = 1
          /\ \A i \in 1 .. 1 : SubSeq(p, 1, 1)[i] = p[i]
      BY <2>5, <2>7, PrefixIs
    <3>2. << w[1] >> \in Seq(AnyStep) /\ Len(<< w[1] >>) = 1 /\ << w[1] >>[1] = w[1] /\ w[1] = p[1]
      <4>1. w[1] \in AnyStep
        BY <2>3, <2>7, SeqFacts
      <4>2. QED BY <2>5, <2>7, <4>1
    <3>3. SubSeq(p, 1, 1)[1] = w[1]
      BY <3>1, <3>2
    <3>4. \A i \in 1 .. Len(SubSeq(p, 1, 1)) : SubSeq(p, 1, 1)[i] = << w[1] >>[i]
      BY <3>1, <3>2, <3>3
    <3>5. QED BY <3>1, <3>2, <3>4, SeqEqual
  <2>11. flatten /\ w[1] \in Exported /\ w[1].type = Root
    <3>1. 1 \in 1 .. (Len(w) - 1) /\ 1 \in 1 .. Len(w)
      BY <2>3, <2>7
    <3>2. QED BY <2>3, <3>1 DEF IsPath, Entered
  <2>12. EmbeddingSeen(w[1])
    BY <1>1 DEF EmbeddingSeen
  <2>13. \E i \in DOMAIN embeds : embeds[i] = << w[1] >>
    BY <2>7, <2>9, <2>11, <2>12 DEF LayoutIInv, EmbedsOK
  <2>14. ASSUME NEW q \in Upto(p) PROVE IsPointer(q)
    <3>1. PICK l \in 1 .. k : q = SubSeq(p, 1, l)
      BY <2>5 DEF Upto
    <3>2. Len(q) = l /\ q[l] = w[l]
      <4>1. l \in 1 .. l
        BY <3>1
      <4>2. QED BY <2>5, <3>1, <4>1, PrefixIs
    <3>3. QED BY <2>9, <3>2 DEF IsPointer
  <2>15. QED BY <2>10, <2>13, <2>14
<1>5. NoPointerInValue' => AllLive'
  <2>1. ASSUME NoPointerInValue PROVE Pointers \subseteq live'
    BY <1>1, <1>4, <2>1
  <2>2. QED BY <1>2, <1>3, <2>1 DEF AllLive
<1>6. QED BY <1>1, <1>5, Settled DEF LayoutIInv

LEMMA LayoutInit ==
  ASSUME Init
  PROVE  LayoutIInv
<1>1. /\ decl \in Decls /\ flatten \in BOOLEAN /\ stack = << Call(Root) >>
      /\ fields = << >> /\ depths = << >> /\ embeds = << >> /\ pc = "parse"
  BY DEF Init
<1>2. Root \in DOMAIN decl /\ decl[Root] \in Seq(Members) /\ Len(decl[Root]) \in Nat
  BY <1>1, Declared
<1>3. Call(Root) \in AnyStep /\ Call(Root).type = Root /\ Call(Root).next = 1
  BY <1>2 DEF AnyStep, Call
<1>4. stack \in Seq(AnyStep) /\ Len(stack) = 1 /\ stack[1] = Call(Root)
  BY <1>1, <1>3
<1>5. StackOK
  <2>1. depth = 0 /\ call = Call(Root)
    BY <1>4 DEF depth, call
  <2>2. IsPath(stack)
    BY <1>3, <1>4 DEF IsPath
  <2>3. call.next \in 1 .. (Len(decl[call.type]) + 1)
    BY <1>2, <1>3, <2>1
  <2>4. QED BY <1>4, <2>1, <2>2, <2>3 DEF StackOK
<1>6. ASSUME NEW s \in Exported PROVE ~(s.next < 1)
  <2>1. s \in AnyStep /\ s.next \in 1 .. Len(decl[s.type])
    BY <1>1, StepsAre
  <2>2. QED BY <2>1 DEF AnyStep
<1>7. ASSUME NEW p \in FieldPlaces PROVE ~Seen(p)
  <2>1. SUFFICES ASSUME Before(p, stack) PROVE FALSE
    BY <1>1 DEF Seen
  <2>2. PICK k \in 1 .. Len(p) : k <= Len(stack) /\ p[k].next < stack[k].next
    BY <2>1 DEF Before
  <2>3. p[k] \in Exported /\ Len(p) \in Nat
    BY PlaceFacts
  <2>4. k = 1
    BY <1>4, <2>2, <2>3
  <2>5. QED BY <1>3, <1>4, <1>6, <2>2, <2>3, <2>4
<1>8. FieldsOK
  <2>1. fields \in Seq([name : STRING, at : Seq(AnyStep)]) /\ DOMAIN fields = {}
    BY <1>1
  <2>2. QED BY <2>1 DEF FieldsOK
<1>9. SeenFound
  BY <1>7 DEF SeenFound
<1>10. DepthsOK /\ DeclarationOrder
  <2>1. DOMAIN fields = {} /\ DOMAIN depths = {}
    BY <1>1
  <2>2. QED BY <2>1 DEF DepthsOK, DeclarationOrder
<1>11. EmbedsOK
  <2>1. \A s \in Exported : ~EmbeddingSeen(s)
    BY <1>1, <1>3, <1>4, <1>6 DEF EmbeddingSeen
  <2>2. embeds \in Seq(Seq(AnyStep))
    BY <1>1
  <2>3. QED BY <2>1, <2>2 DEF EmbedsOK
<1>12. NeverPanics /\ AllLive
  BY <1>1 DEF NeverPanics, AllLive
<1>13. QED BY <1>1, <1>5, <1>8, <1>9, <1>10, <1>11, <1>12 DEF LayoutIInv

LEMMA LayoutStutters ==
  ASSUME LayoutIInv, UNCHANGED vars
  PROVE  LayoutIInv'
<1>1. /\ decl' = decl /\ flatten' = flatten /\ stack' = stack /\ fields' = fields
      /\ depths' = depths /\ embeds' = embeds /\ live' = live /\ pc' = pc
  BY DEF vars
<1>2. /\ AnyStep' = AnyStep /\ FieldPlaces' = FieldPlaces /\ Exported' = Exported
      /\ \A p : FieldAt(p)' = FieldAt(p) /\ IsPath(p)' = IsPath(p)
      /\ \A s : Member(s)' = Member(s) /\ Entered(s)' = Entered(s)
      /\ NoPointerInValue' = NoPointerInValue
  BY <1>1, Rigid
<1>3. StackOK'
  BY <1>1 DEF LayoutIInv, StackOK, depth, call, IsPath, AnyStep, Exported, Steps, Member, Entered
<1>4. FieldsOK'
  <2>1. /\ fields \in Seq([name : STRING, at : Seq(AnyStep)])
        /\ \A j \in DOMAIN fields : fields[j].at \in FieldPlaces /\ fields[j] = FieldAt(fields[j].at) /\ Seen(fields[j].at)
        /\ \A i, j \in DOMAIN fields : fields[i].name = fields[j].name => i = j
    BY DEF LayoutIInv, FieldsOK
  <2>2. \A j \in DOMAIN fields : FieldAt(fields[j].at)' = FieldAt(fields[j].at) /\ (Seen(fields[j].at)' <=> Seen(fields[j].at))
    BY <1>1 DEF FieldAt, Member, Seen
  <2>3. QED BY <1>1, <1>2, <2>1, <2>2 DEF FieldsOK
<1>5. SeenFound'
  <2>1. \A p : Seen(p)' <=> Seen(p)
    BY <1>1 DEF Seen
  <2>2. QED BY <1>1, <1>2, <2>1 DEF LayoutIInv, SeenFound
<1>6. DepthsOK' /\ DeclarationOrder' /\ NeverPanics'
  BY <1>1 DEF LayoutIInv, DepthsOK, DeclarationOrder, NeverPanics
<1>7. EmbedsOK'
  BY <1>1, <1>2 DEF LayoutIInv, EmbedsOK, EmbeddingSeen
<1>8. NoPointerInValue' => AllLive'
  BY <1>1, <1>2 DEF LayoutIInv, AllLive, Pointers, Upto, IsPointer, Member
<1>9. QED BY <1>1, <1>3, <1>4, <1>5, <1>6, <1>7, <1>8 DEF LayoutIInv

LEMMA LayoutStep ==
  ASSUME LayoutIInv, [Next]_vars
  PROVE  LayoutIInv'
<1>1. CASE Unexported
  BY <1>1, UnexportedStep
<1>2. CASE Enter
  BY <1>2, EnterStep
<1>3. CASE Hide
  BY <1>3, HideStep
<1>4. CASE Push
  BY <1>4, PushStep
<1>5. CASE Return
  BY <1>5, ReturnStep
<1>6. CASE Parsed
  BY <1>6, ParsedStep
<1>7. ASSUME NEW order \in FieldOrders, Order(order) PROVE LayoutIInv'
  BY <1>7, OrderStep
<1>8. CASE Emit
  BY <1>8, EmitStep
<1>9. CASE InitNilEmbeddedStruct
  BY <1>9, InitNilStep
<1>10. CASE UNCHANGED vars
  BY <1>10, LayoutStutters
<1>11. QED BY <1>1, <1>2, <1>3, <1>4, <1>5, <1>6, <1>7, <1>8, <1>9, <1>10 DEF Next

LEMMA AlwaysLayoutIInv == Spec => []LayoutIInv
<1>1. Init => LayoutIInv
  BY LayoutInit
<1>2. LayoutIInv /\ [Next]_vars => LayoutIInv'
  BY LayoutStep
<1>3. QED BY <1>1, <1>2, PTL DEF Spec

\* Whatever order is asked for, each field is in it once: the assertion holds
\* (writefile.go:28-54).
THEOREM OrderNeverPanics == Spec => []NeverPanics
<1>1. LayoutIInv => NeverPanics
  BY DEF LayoutIInv
<1>2. QED BY <1>1, AlwaysLayoutIInv, PTL

\* The fields that are found are where they are declared last (gen.go:224-280).
THEOREM AlwaysDeclarationOrder == Spec => []DeclarationOrder
<1>1. LayoutIInv => DeclarationOrder
  BY DEF LayoutIInv
<1>2. QED BY <1>1, AlwaysLayoutIInv, PTL

\* Where no pointer is embedded in what is embedded by value, no field is behind a
\* nil pointer after InitNilEmbeddedStruct (gen.go:79-95).
THEOREM AlwaysAllLive == Spec => [](NoPointerInValue => AllLive)
<1>1. LayoutIInv => (NoPointerInValue => AllLive)
  BY DEF LayoutIInv
<1>2. QED BY <1>1, AlwaysLayoutIInv, PTL
-----------------------------------------------------------------------------

\* No struct embeds itself, so a place is no deeper than there are structs.
LEMMA NotTooDeep ==
  ASSUME decl \in Decls, NEW p \in FieldPlaces
  PROVE  Len(p) - 1 \in 0 .. Cardinality(DOMAIN decl)
<1> DEFINE C == Cardinality(DOMAIN decl)
           n == Len(p)
<1>1. C \in Nat /\ \A T \in DOMAIN decl : DOMAIN decl[T] = 1 .. Len(decl[T])
  BY Declared
<1>2. /\ n \in Nat /\ n > 0 /\ IsPath(p)
      /\ \A k \in 1 .. n : p[k] \in AnyStep /\ p[k] \in Exported
      /\ \A k \in 1 .. (n - 1) : Entered(p[k])
  BY PlaceFacts
<1>3. PICK rank \in [DOMAIN decl -> 0 .. C] :
        \A T \in DOMAIN decl : \A i \in DOMAIN decl[T] :
          decl[T][i].kind # "field" => rank[decl[T][i].type] < rank[T]
  BY DeclsAssumption
<1> HIDE DEF C
<1> DEFINE S == { m \in Nat : rank[p[m + 1].type] <= C - m }
<1>4. \A k \in 1 .. n : p[k].type \in DOMAIN decl /\ rank[p[k].type] \in 0 .. C
  <2>1. \A k \in 1 .. n : p[k].type \in DOMAIN decl
    BY <1>2 DEF AnyStep
  <2>2. QED BY <1>3, <2>1
<1>5. 0 \in S
  <2>1. 0 + 1 = 1 /\ 1 \in 1 .. n
    BY <1>2
  <2>2. rank[p[1].type] \in 0 .. C
    BY <1>4, <2>1
  <2>3. QED BY <1>1, <2>1, <2>2
<1>6. ASSUME NEW m \in 0 .. ((n - 1) - 1), m \in S PROVE m + 1 \in S
  <2>1. PICK k \in 1 .. (n - 1) : k = m + 1
    BY <1>2
  <2>2. k \in 1 .. n /\ k + 1 \in 1 .. n
    BY <1>2
  <2>3. p[k + 1].type = Member(p[k]).type /\ Member(p[k]).kind # "field"
    BY <1>2, <2>2 DEF IsPath, Entered
  <2>4. p[k].next \in DOMAIN decl[p[k].type]
    BY <1>1, <1>2, <1>4, <2>2, StepsAre
  <2>5. rank[p[k + 1].type] < rank[p[k].type]
    BY <1>3, <1>4, <2>2, <2>3, <2>4 DEF Member
  <2>6. rank[p[k].type] <= C - m
    BY <1>6, <2>1
  <2>7. rank[p[k + 1].type] \in 0 .. C /\ rank[p[k].type] \in 0 .. C
    BY <1>4, <2>2
  <2>8. rank[p[k + 1].type] <= C - k
    BY <1>1, <2>1, <2>5, <2>6, <2>7
  <2>9. QED BY <2>1, <2>8
<1>7. n - 1 \in Nat
  BY <1>2
<1>8. \A m \in 0 .. (n - 1) : m \in S
  <2> HIDE DEF S, n
  <2>1. QED BY <1>5, <1>6, <1>7, Upward
<1>9. rank[p[n].type] <= C - (n - 1) /\ rank[p[n].type] \in 0 .. C
  <2>1. n - 1 \in S /\ (n - 1) + 1 = n /\ n \in 1 .. n
    BY <1>2, <1>7, <1>8
  <2>2. QED BY <1>4, <2>1
<1>10. n - 1 \in 0 .. C
  <2> HIDE DEF n
  <2>1. QED BY <1>1, <1>7, <1>9
<1>11. QED BY <1>10 DEF C

\* The selectors that the generator comes to: no step of one is unexported.
Reached(p) == \A k \in 1 .. Len(p) : Member(p[k]).exported

LEMMA SelectorsReached ==
  ASSUME decl \in Decls, NEW p \in Selectors, IsField(p), Reached(p)
  PROVE  p \in FieldPlaces
<1> DEFINE E == { s \in Steps : Entered(s) }
           F == { s \in Steps : Member(s).exported }
<1>1. \A s \in Steps : s \in AnyStep
  <2>1. \A T \in DOMAIN decl : DOMAIN decl[T] \subseteq Nat
    BY Declared
  <2>2. QED BY <2>1 DEF Steps, AnyStep
<1>2. PICK c \in Chains, s \in F : p = Append(c, s) /\ IsPath(p)
  BY DEF Selectors
<1>3. PICK k \in 0 .. Cardinality(DOMAIN decl) : c \in [1 .. k -> E]
  BY <1>2 DEF Chains
<1>4. k \in Nat
  BY Declared
<1>5. c \in Seq(AnyStep) /\ Len(c) = k /\ \A i \in 1 .. k : c[i] \in E
  <2>1. c \in [1 .. k -> AnyStep] /\ DOMAIN c = 1 .. k
    BY <1>1, <1>3
  <2>2. c \in Seq(AnyStep)
    BY <1>4, <2>1, IsASeq
  <2>3. QED BY <1>3, <1>4, <2>1, <2>2, LenProperties
<1>6. /\ p \in Seq(AnyStep) /\ Len(p) = k + 1 /\ p[k + 1] = s
      /\ \A i \in 1 .. k : p[i] = c[i]
  <2>1. s \in AnyStep
    BY <1>1
  <2>2. QED BY <1>2, <1>5, <2>1, AppendProperties
<1>7. \A i \in 1 .. (k + 1) : i = k + 1 \/ i \in 1 .. k
  BY <1>4
<1>8. \A i \in 1 .. (k + 1) : p[i] \in Steps
  BY <1>5, <1>6, <1>7
<1>9. \A i \in 1 .. Len(p) : p[i] \in Exported
  BY <1>6, <1>8 DEF Reached, Exported
<1>10. (k + 1) - 1 = k /\ k + 1 > 0
  BY <1>4
<1>11. QED BY <1>2, <1>5, <1>6, <1>9, <1>10 DEF FieldPlaces, IsField

LEMMA PlacesSelect ==
  ASSUME decl \in Decls, NEW p \in FieldPlaces
  PROVE  p \in Selectors /\ IsField(p) /\ Reached(p)
<1> DEFINE n == Len(p)
           c == [i \in 1 .. (n - 1) |-> p[i]]
           s == p[n]
           E == { r \in Steps : Entered(r) }
           F == { r \in Steps : Member(r).exported }
<1>1. /\ p \in Seq(AnyStep) /\ n \in Nat /\ n > 0 /\ IsPath(p)
      /\ \A k \in 1 .. n : p[k] \in AnyStep /\ p[k] \in Exported
      /\ \A k \in 1 .. (n - 1) : Entered(p[k])
      /\ ~Entered(p[n])
  BY PlaceFacts
<1>2. n - 1 \in 0 .. Cardinality(DOMAIN decl)
  BY NotTooDeep
<1>3. n \in 1 .. n /\ \A k \in 1 .. (n - 1) : k \in 1 .. n
  <2> HIDE DEF n
  <2>1. QED BY <1>1
<1>4. c \in [1 .. (n - 1) -> E] /\ c \in [1 .. (n - 1) -> AnyStep]
  BY <1>1, <1>3 DEF Exported
<1>5. s \in F
  BY <1>1, <1>3 DEF Exported
<1>6. c \in Chains
  BY <1>2, <1>4 DEF Chains
<1>7. p = Append(c, s)
  <2>1. PICK m \in Nat : m = n - 1 /\ m + 1 = n
    <3>1. \A l \in Nat : l > 0 => l - 1 \in Nat /\ (l - 1) + 1 = l
      OBVIOUS
    <3>2. n - 1 \in Nat /\ (n - 1) + 1 = n
      BY <1>1, <3>1
    <3>3. QED BY <3>2
  <2>2. PICK t : t = c
    OBVIOUS
  <2>3. t \in [1 .. m -> AnyStep] /\ DOMAIN t = 1 .. m /\ \A i \in 1 .. m : t[i] = p[i]
    BY <1>4, <2>1, <2>2
  <2>4. t \in Seq(AnyStep) /\ Len(t) = m
    <3>1. t \in Seq(AnyStep)
      BY <2>3, IsASeq
    <3>2. QED BY <2>3, <3>1, LenProperties
  <2>5. PICK a : a = Append(t, p[n])
    OBVIOUS
  <2>6. /\ a \in Seq(AnyStep) /\ Len(a) = n /\ a[n] = p[n]
        /\ \A i \in 1 .. (n - 1) : a[i] = p[i]
    <3>1. p[n] \in AnyStep
      BY <1>1, <1>3
    <3>2. /\ a \in Seq(AnyStep) /\ Len(a) = m + 1 /\ a[m + 1] = p[n]
          /\ \A i \in 1 .. m : a[i] = t[i]
      BY <2>4, <2>5, <3>1, AppendProperties
    <3>3. QED BY <2>1, <2>3, <3>2
  <2>7. \A i \in 1 .. n : i = n \/ i \in 1 .. (n - 1)
    BY <1>1
  <2>8. \A i \in 1 .. n : a[i] = p[i]
    BY <2>6, <2>7
  <2>9. a = p
    BY <1>1, <2>6, <2>8, SeqEqual
  <2>10. QED BY <2>2, <2>5, <2>9
<1>8. IsField(p) /\ Reached(p)
  BY <1>1 DEF IsField, Reached, Exported
<1>9. QED BY <1>1, <1>5, <1>6, <1>7, <1>8 DEF Selectors

\* Go selects something by the name of each field that the generator comes to; or the
\* generated code does not compile.
Unambiguous ==
  \A p \in Selectors : IsField(p) /\ Reached(p) =>
    \E q \in Selectors : FieldAt(q).name = FieldAt(p).name /\ Selected(q)

\* No field that Go selects is in an unexported embedded struct, which the generator
\* skips (gen.go:229).
NoneBehindUnexported == \A p \in Selectors : IsField(p) /\ Selected(p) => Reached(p)

\* What Go selects by the name of a field that the generator comes to is no embedded
\* struct: the generator has no depth of those (gen.go:240-246).
NoneHiddenByEmbedded ==
  \A p, q \in Selectors :
    IsField(p) /\ Reached(p) /\ Selected(q) /\ FieldAt(q).name = FieldAt(p).name => IsField(q)

LEMMA SelectsThem ==
  ASSUME LayoutIInv, Unambiguous, NoneBehindUnexported, NoneHiddenByEmbedded
  PROVE  SelectsTheSame
<1>1. SUFFICES ASSUME pc \notin {"parse", "panic"}
               PROVE  { fields[j] : j \in DOMAIN fields } = Promoted /\ Len(fields) = Cardinality(Promoted)
  BY DEF SelectsTheSame
<1>2. decl \in Decls
  BY DEF LayoutIInv
<1>3. /\ fields \in Seq(FieldType) /\ Len(fields) \in Nat /\ DOMAIN fields = 1 .. Len(fields)
      /\ OnceEach
      /\ \A j \in DOMAIN fields : fields[j].at \in FieldPlaces /\ fields[j] = FieldAt(fields[j].at)
  <2>1. fields \in Seq(FieldType)
    BY DEF LayoutIInv, FieldsOK, FieldType
  <2>2. QED BY <2>1, SeqFacts DEF LayoutIInv, FieldsOK, OnceEach
<1>4. \A p \in FieldPlaces : \E j \in DOMAIN fields : fields[j].name = FieldAt(p).name /\ NoWorse(fields[j].at, p)
  BY <1>1 DEF LayoutIInv, SeenFound, Seen
<1>5. \A p : FieldAt(p).at = p
  BY DEF FieldAt
<1>6. ASSUME NEW j \in DOMAIN fields, NEW p \in Selectors, IsField(p), Selected(p),
             FieldAt(p).name = fields[j].name
      PROVE  fields[j] = FieldAt(p)
  <2>1. p \in FieldPlaces
    BY <1>2, <1>6, SelectorsReached DEF NoneBehindUnexported
  <2>2. PICK k \in DOMAIN fields : fields[k].name = FieldAt(p).name /\ NoWorse(fields[k].at, p)
    BY <1>4, <2>1
  <2>3. k = j
    BY <1>3, <1>6, <2>2 DEF OnceEach
  <2>4. fields[j].at \in Selectors /\ fields[j] = FieldAt(fields[j].at)
    BY <1>2, <1>3, PlacesSelect
  <2>5. Len(p) \in Nat /\ Len(fields[j].at) \in Nat
    BY <1>3, <2>1, PlaceFacts
  <2>6. ~(Len(p) < Len(fields[j].at))
    BY <2>2, <2>3, <2>5 DEF NoWorse
  <2>7. fields[j].at = p
    BY <1>6, <2>4, <2>6 DEF Selected
  <2>8. QED BY <2>4, <2>7
<1>7. ASSUME NEW j \in DOMAIN fields PROVE fields[j] \in Promoted
  <2>1. PICK w \in FieldPlaces : w = fields[j].at /\ fields[j] = FieldAt(w)
    BY <1>3
  <2>2. w \in Selectors /\ IsField(w) /\ Reached(w)
    BY <1>2, PlacesSelect
  <2>3. PICK p \in Selectors : FieldAt(p).name = FieldAt(w).name /\ Selected(p)
    BY <2>2 DEF Unambiguous
  <2>4. IsField(p)
    BY <2>2, <2>3 DEF NoneHiddenByEmbedded
  <2>5. fields[j] = FieldAt(p)
    BY <1>6, <2>1, <2>3, <2>4
  <2>6. QED BY <2>3, <2>4, <2>5 DEF Promoted
<1>8. ASSUME NEW f \in Promoted PROVE \E j \in DOMAIN fields : fields[j] = f
  <2>1. PICK p \in Selectors : IsField(p) /\ Selected(p) /\ f = FieldAt(p)
    BY DEF Promoted
  <2>2. p \in FieldPlaces
    BY <1>2, <2>1, SelectorsReached DEF NoneBehindUnexported
  <2>3. PICK j \in DOMAIN fields : fields[j].name = FieldAt(p).name
    BY <1>4, <2>2
  <2>4. QED BY <1>6, <2>1, <2>3
<1>9. { fields[j] : j \in DOMAIN fields } = Promoted
  BY <1>7, <1>8
<1>10. fields \in Bijection(1 .. Len(fields), Promoted)
  <2>1. fields \in [1 .. Len(fields) -> Promoted]
    <3>1. fields \in [1 .. Len(fields) -> FieldType]
      BY <1>3, LenProperties
    <3>2. QED BY <1>3, <1>7, <3>1
  <2>2. \A i, j \in 1 .. Len(fields) : fields[i] = fields[j] => i = j
    BY <1>3 DEF OnceEach
  <2>3. \A f \in Promoted : \E j \in 1 .. Len(fields) : fields[j] = f
    BY <1>3, <1>8
  <2>4. QED BY <1>3, <2>1, <2>2, <2>3 DEF Bijection, Injection, Surjection, IsInjective
<1>11. Cardinality(Promoted) = Len(fields)
  BY <1>3, <1>10, FS_CountingElements DEF ExistsBijection
<1>12. QED BY <1>9, <1>11

\* The fields are those that Go selects by their names, each once, unless Go selects
\* nothing by the name of a field, or what it selects is a field of an unexported
\* embedded struct or an embedded struct itself (gen.go:224-280).
THEOREM AlwaysSelectsTheSame ==
  Spec => [](Unambiguous /\ NoneBehindUnexported /\ NoneHiddenByEmbedded => SelectsTheSame)
<1>1. LayoutIInv => (Unambiguous /\ NoneBehindUnexported /\ NoneHiddenByEmbedded => SelectsTheSame)
  BY SelectsThem
<1>2. QED BY <1>1, AlwaysLayoutIInv, PTL
-----------------------------------------------------------------------------

\* The structs that were given are linked for ever, and no other is linked to them.
GivenChain ==
  \A o \in Who \X (0..deepest) :
    next[o] = Giver <=> o[1] = Giver /\ o[2] < given

FieldsBelow == \A j \in DOMAIN levels : levels[j] <= deepest

Fresh(m) == mpc[m] \in {"none", "idle"} => cur[m] = Top /\ seen[m] = <<>>

\* A goroutine is in a struct that was given exactly as deep as those go.
Placed(m) == cur[m][1] = Giver <=> cur[m][2] <= given

Holding(m) ==
  /\ mpc[m] = "assign" => given <= cur[m][2] /\ cur[m][2] < deepest
  /\ mpc[m] = "enter" =>
       /\ cur[m][2] < deepest
       /\ next[cur[m]] # Nil /\ held[m] # Nil
       /\ held[m] = Giver <=> cur[m][2] < given

\* Whoever has passed the deepest struct that was given has seen its pointer set.
Passed(m) ==
  (mpc[m] \in {"fields", "panic", "done"} \/ cur[m][2] > given) /\ given < deepest =>
    next[<<Giver, given>>] # Nil

Saw(m) == \A j \in DOMAIN seen[m] : j \in DOMAIN levels /\ (seen[m][j] = Giver <=> levels[j] <= given)

TwoNil(m) == mpc[m] = "panic" => given + 2 <= deepest

Good(m) == Fresh(m) /\ Placed(m) /\ Holding(m) /\ Passed(m) /\ Saw(m) /\ TwoNil(m)

\* The structs on the way of a goroutine that nobody disturbs.
Own(m, k) == IF k <= given THEN Giver ELSE m

OwnChain(m) ==
  \A k \in Nat : k < deepest =>
    /\ next[<<Own(m, k), k>>] \in {Nil, Own(m, k + 1)}
    /\ mpc[m] \in {"fields", "done"} \/ k < cur[m][2] => next[<<Own(m, k), k>>] # Nil

Alone(m) ==
  /\ mpc[m] # "panic"
  /\ cur[m][1] = Own(m, cur[m][2])
  /\ mpc[m] = "enter" => held[m] = Own(m, cur[m][2] + 1) /\ next[cur[m]] = held[m]
  /\ OwnChain(m)

OthersIdle(m) == \A o \in Marshallers \ {m} : mpc[o] = "idle"

EInv ==
  /\ ShareTypeOK
  /\ GivenChain
  /\ FieldsBelow
  /\ \A m \in Marshallers : Good(m) /\ (OthersIdle(m) => Alone(m))

LEMMA InitEInv == ShareInit => EInv
<1> SUFFICES ASSUME ShareInit PROVE EInv
  OBVIOUS
<1>1. ShareTypeOK
  BY DEF ShareInit, ShareTypeOK, Who, Top
<1>2. GivenChain /\ FieldsBelow
  BY WhoAssumption DEF ShareInit, GivenChain, FieldsBelow, Who
<1>3. ASSUME NEW m \in Marshallers PROVE Good(m) /\ Alone(m)
  BY DEF ShareInit, Good, Fresh, Placed, Holding, Passed, Saw, TwoNil, Top, Alone, OwnChain, Own
<1>4. QED BY <1>1, <1>2, <1>3 DEF EInv

LEMMA ShareStep ==
  ASSUME EInv, NEW d \in Nat, NEW k \in Nat, NEW ls \in Seq(Nat), Share(ls, d, k)
  PROVE  EInv'
<1>1. /\ \A m \in Marshallers : mpc[m] = "none"
      /\ k <= d /\ \A j \in DOMAIN ls : ls[j] <= d
      /\ levels' = ls /\ deepest' = d /\ given' = k
      /\ next' = [o \in Who \X (0..d) |-> IF o[1] = Giver /\ o[2] < k THEN Giver ELSE Nil]
      /\ mpc' = [m \in Marshallers |-> "idle"]
      /\ UNCHANGED <<cur, held, seen>>
  BY DEF Share
<1>2. \A m \in Marshallers : cur[m] = Top /\ seen[m] = <<>>
  BY <1>1 DEF EInv, Good, Fresh
<1>3. ShareTypeOK'
  BY <1>1, <1>2 DEF EInv, ShareTypeOK, Who, Top
<1>4. GivenChain' /\ FieldsBelow'
  BY <1>1, WhoAssumption DEF GivenChain, FieldsBelow, Who
<1>5. ASSUME NEW m \in Marshallers PROVE Good(m)'
  BY <1>1, <1>2 DEF Good, Fresh, Placed, Holding, Passed, Saw, TwoNil, Top
<1>6. ASSUME NEW m \in Marshallers PROVE Alone(m)'
  <2>1. ASSUME NEW i \in Nat, i < d
        PROVE  next'[<<Own(m, i)', i>>] \in {Nil, Own(m, i + 1)'}
    BY <1>1, <2>1, WhoAssumption DEF Own, Who
  <2>2. mpc'[m] = "idle" /\ cur'[m] = <<Giver, 0>> /\ deepest' = d /\ Own(m, 0)' = Giver
    BY <1>1, <1>2 DEF Own, Top
  <2>3. OwnChain(m)'
    BY <2>1, <2>2 DEF OwnChain
  <2>4. QED BY <2>2, <2>3 DEF Alone
<1>7. QED BY <1>3, <1>4, <1>5, <1>6 DEF EInv

\* What the others know is not disturbed while pointers that are set stay set.
LEMMA OthersGood ==
  ASSUME EInv, NEW m \in Marshallers, UNCHANGED <<levels, deepest, given>>,
         \A o \in Marshallers \ {m} :
           mpc'[o] = mpc[o] /\ cur'[o] = cur[o] /\ held'[o] = held[o] /\ seen'[o] = seen[o],
         \A o \in Who \X (0..deepest) : next[o] # Nil => next'[o] # Nil,
         mpc'[m] # "idle",
         ShareTypeOK', GivenChain', Good(m)', OthersIdle(m) => Alone(m)'
  PROVE  EInv'
<1>1. ASSUME NEW o \in Marshallers, o # m PROVE Good(o)'
  <2>1. Good(o) /\ cur[o] \in Who \X (0..deepest)
    BY DEF EInv, ShareTypeOK
  <2>2. Fresh(o)' /\ Placed(o)' /\ Saw(o)' /\ TwoNil(o)'
    BY <1>1, <2>1 DEF Good, Fresh, Placed, Saw, TwoNil
  <2>3. Holding(o)'
    BY <1>1, <2>1 DEF Good, Holding
  <2>4. Passed(o)'
    <3>1. given < deepest => <<Giver, given>> \in Who \X (0..deepest)
      BY DEF EInv, ShareTypeOK, Who
    <3>2. QED BY <1>1, <2>1, <3>1 DEF Good, Passed
  <2>5. QED BY <2>2, <2>3, <2>4 DEF Good
<1>2. ASSUME NEW o \in Marshallers, o # m PROVE ~OthersIdle(o)'
  BY <1>2 DEF OthersIdle
<1>3. OthersIdle(m)' => OthersIdle(m)
  BY DEF OthersIdle
<1>4. FieldsBelow'
  BY DEF EInv, FieldsBelow
<1>5. QED BY <1>1, <1>2, <1>3, <1>4 DEF EInv

\* A step that assigns no pointer.
LEMMA QuietStep ==
  ASSUME EInv, NEW m \in Marshallers, UNCHANGED <<shared, next>>,
         \A o \in Marshallers \ {m} :
           mpc'[o] = mpc[o] /\ cur'[o] = cur[o] /\ held'[o] = held[o] /\ seen'[o] = seen[o],
         mpc'[m] # "idle",
         ShareTypeOK', Good(m)', OthersIdle(m) => Alone(m)'
  PROVE  EInv'
<1>1. GivenChain'
  BY DEF EInv, GivenChain, shared
<1>2. QED BY <1>1, OthersGood DEF shared

LEMMA BeginStep ==
  ASSUME EInv, NEW m \in Marshallers, Begin(m)
  PROVE  EInv'
<1>1. /\ mpc[m] = "idle" /\ mpc' = [mpc EXCEPT ![m] = "init"]
      /\ UNCHANGED <<levels, deepest, given, next, cur, held, seen>>
  BY DEF Begin, Goto, shared
<1>2. ShareTypeOK'
  BY <1>1 DEF EInv, ShareTypeOK
<1>3. Good(m)'
  BY <1>1, <1>2 DEF EInv, ShareTypeOK, Good, Fresh, Placed, Holding, Passed, Saw, TwoNil
<1>4. OthersIdle(m) => Alone(m)'
  BY <1>1 DEF EInv, ShareTypeOK, Alone, OwnChain, Own
<1>5. QED BY <1>1, <1>2, <1>3, <1>4, QuietStep DEF shared, EInv, ShareTypeOK

LEMMA SetStep ==
  ASSUME EInv, NEW m \in Marshallers, Set(m)
  PROVE  EInv'
<1>1. /\ mpc[m] = "init" /\ cur[m][2] # deepest /\ next[cur[m]] # Nil
      /\ held' = [held EXCEPT ![m] = next[cur[m]]]
      /\ mpc' = [mpc EXCEPT ![m] = "enter"]
      /\ UNCHANGED <<levels, deepest, given, next, cur, seen>>
  BY DEF Set, Innermost, IsNil, Goto, shared
<1>2. cur[m] \in Who \X (0..deepest) /\ cur[m][2] < deepest /\ given \in Nat
  BY <1>1 DEF EInv, ShareTypeOK
<1>3. ShareTypeOK'
  BY <1>1, <1>2 DEF EInv, ShareTypeOK
<1>4. Good(m)'
  <2>1. held'[m] = next[cur[m]] /\ mpc'[m] = "enter"
    BY <1>1 DEF EInv, ShareTypeOK
  <2>2. next[cur[m]] = Giver <=> cur[m][2] < given
    BY <1>2 DEF EInv, Good, Placed, GivenChain
  <2>3. Holding(m)'
    BY <1>1, <1>2, <2>1, <2>2 DEF Holding
  <2>4. QED BY <1>1, <2>1, <2>3 DEF EInv, Good, Fresh, Placed, Passed, Saw, TwoNil
<1>5. ASSUME OthersIdle(m) PROVE Alone(m)'
  <2>1. cur[m] = <<Own(m, cur[m][2]), cur[m][2]>>
    BY <1>2, <1>5 DEF EInv, Alone
  <2>2. next[cur[m]] = Own(m, cur[m][2] + 1)
    BY <1>1, <1>2, <1>5, <2>1 DEF EInv, Alone, OwnChain
  <2>3. QED BY <1>1, <1>2, <1>5, <2>2 DEF EInv, ShareTypeOK, Alone, OwnChain, Own
<1>6. QED BY <1>1, <1>3, <1>4, <1>5, QuietStep DEF shared, EInv, ShareTypeOK

LEMMA UnsetStep ==
  ASSUME EInv, NEW m \in Marshallers, Unset(m)
  PROVE  EInv'
<1>1. /\ mpc[m] = "init" /\ cur[m][2] # deepest /\ next[cur[m]] = Nil
      /\ mpc' = [mpc EXCEPT ![m] = "assign"]
      /\ UNCHANGED <<levels, deepest, given, next, cur, held, seen>>
  BY DEF Unset, Innermost, IsNil, Goto, shared
<1>2. cur[m] \in Who \X (0..deepest) /\ cur[m][2] < deepest /\ given \in Nat
  BY <1>1 DEF EInv, ShareTypeOK
<1>3. ShareTypeOK'
  BY <1>1 DEF EInv, ShareTypeOK
<1>4. given <= cur[m][2]
  <2>1. ~(cur[m][1] = Giver /\ cur[m][2] < given)
    BY <1>1, <1>2, WhoAssumption DEF EInv, GivenChain, Who
  <2>2. cur[m][1] = Giver <=> cur[m][2] <= given
    BY DEF EInv, Good, Placed
  <2>3. QED BY <1>2, <2>1, <2>2
<1>5. Good(m)'
  BY <1>1, <1>2, <1>3, <1>4
     DEF EInv, ShareTypeOK, Good, Fresh, Placed, Holding, Passed, Saw, TwoNil
<1>6. OthersIdle(m) => Alone(m)'
  BY <1>1 DEF EInv, ShareTypeOK, Alone, OwnChain, Own
<1>7. QED BY <1>1, <1>3, <1>5, <1>6, QuietStep DEF shared, EInv, ShareTypeOK

LEMMA AssignStep ==
  ASSUME EInv, NEW m \in Marshallers, Assign(m)
  PROVE  EInv'
<1>1. /\ mpc[m] = "assign"
      /\ next' = [next EXCEPT ![cur[m]] = m]
      /\ held' = [held EXCEPT ![m] = m]
      /\ mpc' = [mpc EXCEPT ![m] = "enter"]
      /\ UNCHANGED <<levels, deepest, given, cur, seen>>
  BY DEF Assign, Goto, shared
<1>2. /\ cur[m] \in Who \X (0..deepest) /\ cur[m][2] < deepest /\ given <= cur[m][2]
      /\ given \in Nat /\ m # Giver /\ m # Nil /\ m \in Who
  BY <1>1, WhoAssumption DEF EInv, ShareTypeOK, Good, Holding, Who
<1>3. ShareTypeOK'
  BY <1>1, <1>2 DEF EInv, ShareTypeOK
<1>4. next'[cur[m]] = m /\ \A o \in Who \X (0..deepest) : o # cur[m] => next'[o] = next[o]
  BY <1>1, <1>2 DEF EInv, ShareTypeOK
<1>5. GivenChain'
  BY <1>1, <1>2, <1>4 DEF EInv, GivenChain
<1>6. held'[m] = m /\ mpc'[m] = "enter"
  BY <1>1 DEF EInv, ShareTypeOK
<1>7. Good(m)'
  <2>1. Holding(m)'
    BY <1>1, <1>2, <1>4, <1>6 DEF Holding
  <2>2. Passed(m)'
    <3>1. given < deepest => <<Giver, given>> \in Who \X (0..deepest)
      BY <1>2 DEF EInv, ShareTypeOK, Who
    <3>2. QED BY <1>1, <1>2, <1>4, <1>6, <3>1 DEF EInv, Good, Passed
  <2>3. QED BY <1>1, <1>6, <2>1, <2>2 DEF EInv, Good, Fresh, Placed, Saw, TwoNil
<1>8. ASSUME OthersIdle(m) PROVE Alone(m)'
  <2>1. Alone(m) /\ cur[m] = <<Own(m, cur[m][2]), cur[m][2]>> /\ cur[m][2] \in Nat
    BY <1>2, <1>8 DEF EInv, Alone
  <2>2. Own(m, cur[m][2] + 1) = m
    BY <1>2 DEF Own
  <2>3. ASSUME NEW k \in Nat, k < deepest
        PROVE  /\ next'[<<Own(m, k), k>>] \in {Nil, Own(m, k + 1)}
               /\ k < cur[m][2] => next'[<<Own(m, k), k>>] # Nil
    <3>1. <<Own(m, k), k>> \in Who \X (0..deepest)
      BY <1>2, <2>3 DEF EInv, ShareTypeOK, Own, Who
    <3>2. CASE k = cur[m][2]
      BY <1>4, <2>1, <2>2, <3>2
    <3>3. CASE k # cur[m][2]
      <4>1. next'[<<Own(m, k), k>>] = next[<<Own(m, k), k>>]
        BY <1>4, <3>1, <3>3, <2>1
      <4>2. QED BY <4>1, <2>1, <2>3 DEF Alone, OwnChain
    <3>4. QED BY <3>2, <3>3
  <2>4. OwnChain(m)'
    BY <1>1, <1>6, <2>3 DEF OwnChain, Own
  <2>5. QED BY <1>1, <1>4, <1>6, <2>1, <2>2, <2>4 DEF Alone, Own
<1>9. \A o \in Who \X (0..deepest) : next[o] # Nil => next'[o] # Nil
  BY <1>2, <1>4
<1>10. \A o \in Marshallers \ {m} :
         mpc'[o] = mpc[o] /\ cur'[o] = cur[o] /\ held'[o] = held[o] /\ seen'[o] = seen[o]
  BY <1>1 DEF EInv, ShareTypeOK
<1>11. QED BY <1>1, <1>3, <1>5, <1>6, <1>7, <1>8, <1>9, <1>10, OthersGood

LEMMA DescendStep ==
  ASSUME EInv, NEW m \in Marshallers, Descend(m)
  PROVE  EInv'
<1>1. PICK w \in {held[m], next[cur[m]]} : cur' = [cur EXCEPT ![m] = <<w, @[2] + 1>>]
  BY DEF Descend
<1>2. /\ mpc[m] = "enter" /\ mpc' = [mpc EXCEPT ![m] = "init"]
      /\ UNCHANGED <<levels, deepest, given, next, held, seen>>
  BY DEF Descend, Goto, shared
<1>3. /\ cur[m] \in Who \X (0..deepest) /\ cur[m][2] < deepest /\ given \in Nat
      /\ deepest \in Nat /\ next[cur[m]] # Nil /\ held[m] # Nil
      /\ held[m] = Giver <=> cur[m][2] < given
      /\ next[cur[m]] \in Who \cup {Nil} /\ held[m] \in Who \cup {Nil}
  BY <1>2 DEF EInv, ShareTypeOK, Good, Holding
<1>4. next[cur[m]] = Giver <=> cur[m][2] < given
  BY <1>3 DEF EInv, Good, Placed, GivenChain
<1>5. /\ w \in Who /\ (w = Giver <=> cur[m][2] + 1 <= given)
      /\ cur'[m] = <<w, cur[m][2] + 1>> /\ mpc'[m] = "init"
  BY <1>1, <1>2, <1>3, <1>4 DEF EInv, ShareTypeOK
<1>6. ShareTypeOK'
  BY <1>1, <1>2, <1>3, <1>5 DEF EInv, ShareTypeOK
<1>7. Good(m)'
  <2>1. Placed(m)'
    BY <1>2, <1>5 DEF Placed
  <2>2. Passed(m)'
    <3>1. cur[m][2] = given => cur[m] = <<Giver, given>>
      BY <1>3 DEF EInv, Good, Placed
    <3>2. cur'[m][2] > given => cur[m][2] = given \/ cur[m][2] > given
      BY <1>3, <1>5
    <3>3. QED BY <1>2, <1>3, <1>5, <3>1, <3>2 DEF EInv, Good, Passed
  <2>3. QED BY <1>2, <1>5, <2>1, <2>2 DEF EInv, Good, Fresh, Holding, Saw, TwoNil
<1>8. ASSUME OthersIdle(m) PROVE Alone(m)'
  <2>1. /\ Alone(m) /\ cur[m] = <<Own(m, cur[m][2]), cur[m][2]>>
        /\ w = Own(m, cur[m][2] + 1) /\ cur[m][2] \in Nat
    BY <1>1, <1>2, <1>3, <1>8 DEF EInv, Alone
  <2>2. ASSUME NEW k \in Nat, k < cur[m][2] + 1
        PROVE  next[<<Own(m, k), k>>] # Nil
    <3>1. k < cur[m][2] \/ k = cur[m][2]
      BY <2>1, <2>2
    <3>2. QED BY <3>1, <2>1, <1>3 DEF Alone, OwnChain
  <2>3. OwnChain(m)'
    BY <1>2, <1>3, <1>5, <2>1, <2>2 DEF Alone, OwnChain, Own
  <2>4. QED BY <1>2, <1>5, <2>1, <2>3 DEF Alone, Own
<1>9. \A o \in Marshallers \ {m} :
         mpc'[o] = mpc[o] /\ cur'[o] = cur[o] /\ held'[o] = held[o] /\ seen'[o] = seen[o]
  BY <1>1, <1>2 DEF EInv, ShareTypeOK
<1>10. QED BY <1>2, <1>5, <1>6, <1>7, <1>8, <1>9, QuietStep DEF shared

LEMMA LeaveStep ==
  ASSUME EInv, NEW m \in Marshallers, Leave(m)
  PROVE  EInv'
<1>1. /\ mpc[m] = "init" /\ cur[m][2] = deepest
      /\ cur' = [cur EXCEPT ![m] = Top]
      /\ mpc' = [mpc EXCEPT ![m] = "fields"]
      /\ UNCHANGED <<levels, deepest, given, next, held, seen>>
  BY DEF Leave, Innermost, Goto, shared
<1>2. cur'[m] = Top /\ mpc'[m] = "fields" /\ given \in Nat /\ deepest \in Nat
  BY <1>1 DEF EInv, ShareTypeOK
<1>3. ShareTypeOK'
  BY <1>1, <1>2 DEF EInv, ShareTypeOK, Who, Top
<1>4. Good(m)'
  BY <1>1, <1>2 DEF EInv, Good, Fresh, Placed, Holding, Passed, Saw, TwoNil, Top
<1>5. ASSUME OthersIdle(m) PROVE Alone(m)'
  <2>1. Alone(m) /\ Own(m, 0) = Giver
    BY <1>2, <1>5 DEF EInv, Own
  <2>2. OwnChain(m)'
    BY <1>1, <1>2, <2>1 DEF Alone, OwnChain, Own
  <2>3. QED BY <1>1, <1>2, <2>1, <2>2 DEF Alone, Own, Top
<1>6. \A o \in Marshallers \ {m} :
         mpc'[o] = mpc[o] /\ cur'[o] = cur[o] /\ held'[o] = held[o] /\ seen'[o] = seen[o]
  BY <1>1 DEF EInv, ShareTypeOK
<1>7. QED BY <1>1, <1>2, <1>3, <1>4, <1>5, <1>6, QuietStep DEF shared

LEMMA FieldTypes ==
  ASSUME EInv, NEW m \in Marshallers, AtField(m)
  PROVE  /\ mpc[m] = "fields" /\ Len(seen[m]) + 1 \in DOMAIN levels
         /\ level(m) \in Nat /\ level(m) <= deepest
         /\ cur[m] \in Who \X (0..deepest) /\ deepest \in Nat /\ given \in Nat
<1>1. levels \in Seq(Nat) /\ seen[m] \in Seq(Who)
  BY DEF EInv, ShareTypeOK
<1>2. Len(seen[m]) < Len(levels) /\ mpc[m] = "fields"
  BY DEF AtField
<1>3. Len(seen[m]) + 1 \in DOMAIN levels
  BY <1>1, <1>2
<1>4. level(m) \in Nat /\ level(m) <= deepest
  BY <1>1, <1>3 DEF level, EInv, FieldsBelow
<1>5. QED BY <1>2, <1>3, <1>4 DEF EInv, ShareTypeOK

LEMMA LoadStep ==
  ASSUME EInv, NEW m \in Marshallers, Load(m)
  PROVE  EInv'
<1>1. /\ AtField(m) /\ cur[m][2] < level(m) /\ next[cur[m]] # Nil
      /\ cur' = [cur EXCEPT ![m] = <<next[cur[m]], cur[m][2] + 1>>]
      /\ UNCHANGED <<levels, deepest, given, next, mpc, held, seen>>
  BY DEF Load, shared
<1>2. /\ mpc[m] = "fields" /\ cur[m] \in Who \X (0..deepest) /\ cur[m][2] < deepest
      /\ deepest \in Nat /\ given \in Nat
  BY <1>1, FieldTypes
<1>3. next[cur[m]] \in Who /\ (next[cur[m]] = Giver <=> cur[m][2] < given)
  BY <1>1, <1>2 DEF EInv, ShareTypeOK, Good, Placed, GivenChain
<1>4. cur'[m] = <<next[cur[m]], cur[m][2] + 1>>
  BY <1>1 DEF EInv, ShareTypeOK
<1>5. ShareTypeOK'
  BY <1>1, <1>2, <1>3 DEF EInv, ShareTypeOK
<1>6. Good(m)'
  BY <1>1, <1>2, <1>3, <1>4 DEF EInv, Good, Fresh, Placed, Holding, Passed, Saw, TwoNil
<1>7. ASSUME OthersIdle(m) PROVE Alone(m)'
  <2>1. Alone(m) /\ cur[m] = <<Own(m, cur[m][2]), cur[m][2]>> /\ cur[m][2] \in Nat
    BY <1>2, <1>7 DEF EInv, Alone
  <2>2. next[cur[m]] = Own(m, cur[m][2] + 1)
    BY <1>1, <1>2, <2>1 DEF Alone, OwnChain
  <2>3. OwnChain(m)'
    BY <1>1, <1>2, <2>1 DEF Alone, OwnChain, Own
  <2>4. QED BY <1>1, <1>2, <1>4, <2>1, <2>2, <2>3 DEF Alone, Own
<1>8. \A o \in Marshallers \ {m} :
         mpc'[o] = mpc[o] /\ cur'[o] = cur[o] /\ held'[o] = held[o] /\ seen'[o] = seen[o]
  BY <1>1 DEF EInv, ShareTypeOK
<1>9. QED BY <1>1, <1>2, <1>5, <1>6, <1>7, <1>8, QuietStep DEF shared

\* A pointer that is nil here was replaced meanwhile, and another is deeper.
LEMMA PanicStep ==
  ASSUME EInv, NEW m \in Marshallers, Panic(m)
  PROVE  EInv'
<1>1. /\ AtField(m) /\ cur[m][2] < level(m) /\ next[cur[m]] = Nil
      /\ mpc' = [mpc EXCEPT ![m] = "panic"]
      /\ UNCHANGED <<levels, deepest, given, next, cur, held, seen>>
  BY DEF Panic, Goto, shared
<1>2. /\ mpc[m] = "fields" /\ cur[m] \in Who \X (0..deepest) /\ cur[m][2] < deepest
      /\ deepest \in Nat /\ given \in Nat
  BY <1>1, FieldTypes
<1>3. given + 2 <= deepest
  <2>1. ~(cur[m][1] = Giver /\ cur[m][2] < given)
    BY <1>1, <1>2, WhoAssumption DEF EInv, GivenChain, Who
  <2>2. cur[m][1] = Giver <=> cur[m][2] <= given
    BY DEF EInv, Good, Placed
  <2>3. cur[m][2] # given
    <3>1. cur[m][2] = given => cur[m] = <<Giver, given>>
      BY <1>2, <2>2
    <3>2. QED BY <3>1, <1>1, <1>2 DEF EInv, Good, Passed
  <2>4. QED BY <1>2, <2>1, <2>2, <2>3
<1>4. ~OthersIdle(m)
  <2>1. SUFFICES ASSUME OthersIdle(m) PROVE FALSE
    OBVIOUS
  <2>2. Alone(m) /\ cur[m] = <<Own(m, cur[m][2]), cur[m][2]>> /\ cur[m][2] \in Nat
    BY <1>2, <2>1 DEF EInv, Alone
  <2>3. QED BY <1>1, <1>2, <2>2 DEF Alone, OwnChain
<1>5. ShareTypeOK'
  BY <1>1 DEF EInv, ShareTypeOK
<1>6. mpc'[m] = "panic"
  BY <1>1 DEF EInv, ShareTypeOK
<1>7. Good(m)'
  BY <1>1, <1>2, <1>3, <1>6 DEF EInv, Good, Fresh, Placed, Holding, Passed, Saw, TwoNil
<1>8. \A o \in Marshallers \ {m} :
         mpc'[o] = mpc[o] /\ cur'[o] = cur[o] /\ held'[o] = held[o] /\ seen'[o] = seen[o]
  BY <1>1 DEF EInv, ShareTypeOK
<1>9. QED BY <1>1, <1>4, <1>5, <1>6, <1>7, <1>8, QuietStep DEF shared

LEMMA WriteFieldStep ==
  ASSUME EInv, NEW m \in Marshallers, WriteField(m)
  PROVE  EInv'
<1>1. /\ AtField(m) /\ cur[m][2] = level(m)
      /\ seen' = [seen EXCEPT ![m] = Append(seen[m], cur[m][1])]
      /\ cur' = [cur EXCEPT ![m] = Top]
      /\ UNCHANGED <<levels, deepest, given, next, mpc, held>>
  BY DEF WriteField, shared
<1>2. /\ mpc[m] = "fields" /\ cur[m] \in Who \X (0..deepest)
      /\ Len(seen[m]) + 1 \in DOMAIN levels /\ deepest \in Nat /\ given \in Nat
  BY <1>1, FieldTypes
<1>3. /\ seen[m] \in Seq(Who) /\ seen'[m] = Append(seen[m], cur[m][1])
      /\ cur'[m] = Top
  BY <1>1 DEF EInv, ShareTypeOK
<1>4. ShareTypeOK'
  BY <1>1, <1>2, <1>3 DEF EInv, ShareTypeOK, Who, Top
<1>5. Saw(m)'
  <2>1. cur[m][1] = Giver <=> levels[Len(seen[m]) + 1] <= given
    BY <1>1 DEF EInv, Good, Placed, level
  <2>2. ASSUME NEW j \in DOMAIN seen'[m]
        PROVE  j \in DOMAIN levels /\ (seen'[m][j] = Giver <=> levels[j] <= given)
    <3>1. CASE j \in DOMAIN seen[m]
      BY <3>1, <1>3 DEF EInv, Good, Saw
    <3>2. CASE j = Len(seen[m]) + 1
      BY <3>2, <2>1, <1>2, <1>3
    <3>3. QED BY <3>1, <3>2, <1>3
  <2>3. QED BY <2>2, <1>1 DEF Saw
<1>6. Good(m)'
  <2>1. Passed(m)'
    BY <1>1, <1>2, <1>3 DEF EInv, Good, Passed
  <2>2. QED BY <1>1, <1>2, <1>3, <1>5, <2>1 DEF Good, Fresh, Placed, Holding, TwoNil, Top
<1>7. ASSUME OthersIdle(m) PROVE Alone(m)'
  <2>1. Alone(m) /\ Own(m, 0) = Giver
    BY <1>2, <1>7 DEF EInv, Own
  <2>2. OwnChain(m)'
    BY <1>1, <1>2, <2>1 DEF Alone, OwnChain, Own
  <2>3. QED BY <1>1, <1>2, <1>3, <2>1, <2>2 DEF Alone, Own, Top
<1>8. \A o \in Marshallers \ {m} :
         mpc'[o] = mpc[o] /\ cur'[o] = cur[o] /\ held'[o] = held[o] /\ seen'[o] = seen[o]
  BY <1>1 DEF EInv, ShareTypeOK
<1>9. QED BY <1>1, <1>2, <1>4, <1>6, <1>7, <1>8, QuietStep DEF shared

LEMMA DoneStep ==
  ASSUME EInv, NEW m \in Marshallers, Done(m)
  PROVE  EInv'
<1>1. /\ mpc[m] = "fields" /\ mpc' = [mpc EXCEPT ![m] = "done"]
      /\ UNCHANGED <<levels, deepest, given, next, cur, held, seen>>
  BY DEF Done, Goto, shared
<1>2. ShareTypeOK' /\ mpc'[m] = "done"
  BY <1>1 DEF EInv, ShareTypeOK
<1>3. Good(m)'
  <2>1. Passed(m)' /\ Saw(m)' /\ Placed(m)'
    BY <1>1, <1>2 DEF EInv, Good, Passed, Saw, Placed
  <2>2. QED BY <1>2, <2>1 DEF Good, Fresh, Holding, TwoNil
<1>4. OthersIdle(m) => Alone(m)'
  BY <1>1, <1>2 DEF EInv, Alone, OwnChain, Own
<1>5. \A o \in Marshallers \ {m} :
         mpc'[o] = mpc[o] /\ cur'[o] = cur[o] /\ held'[o] = held[o] /\ seen'[o] = seen[o]
  BY <1>1 DEF EInv, ShareTypeOK
<1>6. QED BY <1>1, <1>2, <1>3, <1>4, <1>5, QuietStep DEF shared

LEMMA StepEInv == EInv /\ [ShareNext]_shareVars => EInv'
<1> SUFFICES ASSUME EInv, [ShareNext]_shareVars PROVE EInv'
  OBVIOUS
<1>1. CASE UNCHANGED shareVars
  <2>1. UNCHANGED <<levels, deepest, given, next, mpc, cur, held, seen>>
    BY <1>1 DEF shareVars
  <2>2. ShareTypeOK' /\ GivenChain' /\ FieldsBelow'
    BY <2>1 DEF EInv, ShareTypeOK, GivenChain, FieldsBelow
  <2>3. ASSUME NEW m \in Marshallers PROVE Good(m)'
    <3>1. Fresh(m)' /\ Placed(m)' /\ Holding(m)'
      BY <2>1 DEF EInv, Good, Fresh, Placed, Holding
    <3>2. Passed(m)' /\ Saw(m)' /\ TwoNil(m)'
      BY <2>1 DEF EInv, Good, Passed, Saw, TwoNil
    <3>3. QED BY <3>1, <3>2 DEF Good
  <2>4. ASSUME NEW m \in Marshallers, OthersIdle(m)' PROVE Alone(m)'
    <3>1. Alone(m)
      BY <2>1, <2>4 DEF EInv, OthersIdle
    <3>2. QED BY <2>1, <3>1 DEF Alone, OwnChain, Own
  <2>5. QED BY <2>2, <2>3, <2>4 DEF EInv
<1>2. CASE \E d, k \in Nat, ls \in Seq(Nat) : Share(ls, d, k)
  BY <1>2, ShareStep
<1>3. ASSUME NEW m \in Marshallers, MarshalCBOR(m) PROVE EInv'
  BY <1>3, BeginStep, SetStep, UnsetStep, AssignStep, DescendStep, LeaveStep, LoadStep, PanicStep,
     WriteFieldStep, DoneStep DEF MarshalCBOR
<1>4. QED BY <1>1, <1>2, <1>3 DEF ShareNext

-----------------------------------------------------------------------------

\* Every variable keeps its type: no goroutine goes deeper than the deepest struct
\* (gen.go:79-95).
THEOREM ShareTypeCorrect == ShareSpec => []ShareTypeOK
<1>1. EInv => ShareTypeOK
  BY DEF EInv
<1>2. QED BY <1>1, InitEInv, StepEInv, PTL DEF ShareSpec

\* Whatever the others do, each goroutine writes the value that it was given
\* (gen.go:85-92, 619-622).
THEOREM AlwaysSawTheValue == ShareSpec => []SawTheValue
<1>1. EInv => SawTheValue
  BY DEF EInv, Good, Saw, SawTheValue
<1>2. QED BY <1>1, InitEInv, StepEInv, PTL DEF ShareSpec

\* No nil pointer is dereferenced by a goroutine alone, nor where at most one of
\* the nested pointers was nil (gen.go:86-90).
THEOREM AlwaysNoNilPanic == ShareSpec => []NoNilPanic
<1>1. EInv => NoNilPanic
  BY DEF EInv, Good, TwoNil, OthersIdle, Alone, NoNilPanic
<1>2. QED BY <1>1, InitEInv, StepEInv, PTL DEF ShareSpec
-----------------------------------------------------------------------------

\* What is generated for a declaration does not depend on the goroutines that run it
\* (gen.go:79-95, 224-280).
THEOREM FlatImplementsLayout == FlatSpec => Spec
<1>1. FlatInit => Init
  BY DEF FlatInit
<1>2. [FlatNext]_<<vars, shareVars>> => [Next]_vars
  BY DEF FlatNext, Generate, Give, Marshal, vars
<1>3. QED BY <1>1, <1>2, PTL DEF Spec, FlatSpec

LEMMA UptoFinite ==
  ASSUME NEW p, Len(p) \in Nat
  PROVE  IsFiniteSet(Upto(p))
<1> DEFINE f == [k \in 1 .. Len(p) |-> SubSeq(p, 1, k)]
<1>1. f \in Surjection(1 .. Len(p), Upto(p))
  BY DEF Surjection, Upto
<1>2. IsFiniteSet(1 .. Len(p))
  BY FS_Interval
<1>3. QED BY <1>1, <1>2, FS_Surjection

LEMMA PointersFinite ==
  ASSUME LayoutIInv
  PROVE  IsFiniteSet(Pointers) /\ fields \in Seq(FieldType)
<1> DEFINE Above1(j) == { p \in Upto(fields[j].at) : p # fields[j].at /\ IsPointer(p) }
           All == { Above1(j) : j \in DOMAIN fields }
           f == [j \in DOMAIN fields |-> Above1(j)]
<1>1. /\ fields \in Seq(FieldType) /\ Len(fields) \in Nat /\ DOMAIN fields = 1 .. Len(fields)
      /\ \A j \in DOMAIN fields : fields[j].at \in FieldPlaces
  <2>1. fields \in Seq(FieldType)
    BY DEF LayoutIInv, FieldsOK, FieldType
  <2>2. QED BY <2>1, SeqFacts DEF LayoutIInv, FieldsOK
<1>2. ASSUME NEW j \in DOMAIN fields PROVE IsFiniteSet(Above1(j))
  <2>1. Len(fields[j].at) \in Nat
    BY <1>1, PlaceFacts
  <2>2. IsFiniteSet(Upto(fields[j].at))
    BY <2>1, UptoFinite
  <2>3. Above1(j) \in SUBSET Upto(fields[j].at)
    OBVIOUS
  <2> HIDE DEF Above1
  <2>4. QED BY <2>2, <2>3, FS_Subset
<1> HIDE DEF Above1
<1>3. IsFiniteSet(All)
  <2>1. f \in Surjection(DOMAIN fields, All)
    BY DEF Surjection
  <2>2. IsFiniteSet(DOMAIN fields)
    BY <1>1, FS_Interval
  <2> HIDE DEF All, f
  <2>3. QED BY <2>1, <2>2, FS_Surjection
<1>4. \A T \in All : IsFiniteSet(T)
  BY <1>2
<1>5. Pointers = UNION All
  BY DEF Pointers, Above1
<1> HIDE DEF All
<1>6. IsFiniteSet(UNION All)
  BY <1>3, <1>4, FS_UNION
<1>7. QED BY <1>1, <1>5, <1>6

\* The goroutines that marshal a value of a generated type do nothing else than those
\* of EmbeddedPointers, which is given any pointers and fields (gen.go:85-92).
THEOREM FlatImplementsShare == FlatSpec => ShareSpec
<1>1. FlatInit => ShareInit
  BY DEF FlatInit
<1>2. ASSUME LayoutIInv, Give PROVE ShareNext
  <2>1. PICK k \in 0 .. Cardinality(Pointers) :
          Share([j \in DOMAIN fields |-> Above(fields[j])], Cardinality(Pointers), k)
    BY <1>2 DEF Give
  <2>2. IsFiniteSet(Pointers) /\ fields \in Seq(FieldType)
    BY <1>2, PointersFinite
  <2>3. Cardinality(Pointers) \in Nat
    BY <2>2, FS_CardinalityType
  <2>4. \A g : Above(g) \in Nat
    <3>1. SUFFICES ASSUME NEW g PROVE Above(g) \in Nat
      OBVIOUS
    <3> DEFINE T == { p \in Pointers : IsPrefix(p, g.at) }
    <3>2. T \in SUBSET Pointers
      OBVIOUS
    <3>3. IsFiniteSet(T)
      BY <2>2, <3>2, FS_Subset
    <3>4. QED BY <3>3, FS_CardinalityType DEF Above
  <2>5. [j \in DOMAIN fields |-> Above(fields[j])] \in Seq(Nat)
    <3>1. Len(fields) \in Nat /\ DOMAIN fields = 1 .. Len(fields)
      BY <2>2, SeqFacts
    <3>2. [j \in DOMAIN fields |-> Above(fields[j])] \in [1 .. Len(fields) -> Nat]
      BY <2>4, <3>1
    <3>3. QED BY <3>1, <3>2, IsASeq
  <2>6. k \in Nat
    BY <2>3
  <2>7. QED BY <2>1, <2>3, <2>5, <2>6 DEF ShareNext
<1>3. LayoutIInv /\ [FlatNext]_<<vars, shareVars>> => [ShareNext]_shareVars
  <2>1. Marshal => ShareNext
    BY DEF Marshal, ShareNext
  <2>2. UNCHANGED <<vars, shareVars>> => UNCHANGED shareVars
    OBVIOUS
  <2>3. QED BY <1>2, <2>1, <2>2 DEF FlatNext, Generate
<1>4. QED BY <1>1, <1>3, FlatImplementsLayout, AlwaysLayoutIInv, PTL DEF FlatSpec, ShareSpec
=============================================================================
