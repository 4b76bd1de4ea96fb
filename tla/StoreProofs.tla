---------------------------- MODULE StoreProofs ----------------------------
(***************************************************************************)
(* Proofs about Store and HandlerCounter for any finite sets of stores,    *)
(* keys and connections, any sizes and any budget.                         *)
(***************************************************************************)
EXTENDS HandlerCounter, FiniteSetTheorems, WellFoundedInduction, TLAPS

-----------------------------------------------------------------------------
(* Sums over finite sets: SumFunctionOnSet adds each element once, whatever  *)
(* the order.  The induction is by a smallest counterexample.                *)

LEMMA SmallestNumber ==
  ASSUME NEW T, T \subseteq Nat, T # {}
  PROVE  \E m \in T : \A k \in T : m <= k
<1>1. PICK m \in T : \A k \in T : ~(<<k, m>> \in OpToRel(<, Nat))
  BY NatLessThanWellFounded, WFMin
<1>2. \A k \in T : ~(k < m)
  BY <1>1 DEF OpToRel
<1> QED BY <1>2

LEMMA SmallestSubset ==
  ASSUME NEW S, IsFiniteSet(S), NEW T, T \subseteq SUBSET S, T # {}
  PROVE  \E s \in T : \A t \in T : ~(t \subseteq s /\ t # s)
<1>1. IsWellFoundedOn(StrictSubsetOrdering(S), SUBSET S)
  BY FS_StrictSubsetOrderingWellFounded, FS_FiniteSubsetsOfFinite
<1>2. PICK s \in T : \A t \in T : ~(<<t, s>> \in StrictSubsetOrdering(S))
  BY <1>1, WFMin
<1> QED BY <1>2 DEF StrictSubsetOrdering

Pick(s) == CHOOSE x \in s : TRUE

\* g holds the sum of f over every set of the family D, one element at a time.
SumsOn(f, D, g) ==
  g = [s \in D |-> IF s = {} THEN 0 ELSE f[Pick(s)] + g[s \ {Pick(s)}]]

LEMMA PickType == ASSUME NEW s, s # {} PROVE Pick(s) \in s
BY DEF Pick

LEMMA SumsExist ==
  ASSUME NEW f, NEW S, IsFiniteSet(S)
  PROVE  \E g : SumsOn(f, SUBSET S, g)
<1> DEFINE D(n) == {s \in SUBSET S : Cardinality(s) <= n}
           bad == {n \in Nat : ~ \E g : SumsOn(f, D(n), g)}
<1>0. \A s \in SUBSET S : IsFiniteSet(s) /\ Cardinality(s) \in Nat /\ Cardinality(s) <= Cardinality(S)
  BY FS_Subset, FS_CardinalityType
<1>1. bad = {}
  <2> SUFFICES ASSUME bad # {} PROVE FALSE
    OBVIOUS
  <2>0. bad \subseteq Nat
    OBVIOUS
  <2> HIDE DEF bad
  <2>1. PICK m \in bad : \A k \in bad : m <= k
    BY <2>0, SmallestNumber
  <2> m \in Nat
    BY <2>0, <2>1
  <2>4. m - 1 \notin bad
    BY <2>1
  <2> USE DEF bad
  <2>2. CASE m = 0
    <3>1. \A s \in D(m) : s = {}
      BY <1>0, <2>2, FS_EmptySet
    <3>2. SumsOn(f, D(m), [s \in D(m) |-> 0])
      BY <3>1 DEF SumsOn
    <3> QED BY <3>2
  <2>3. CASE m # 0
    <3>0. m - 1 \in Nat
      BY <2>3
    <3>2. PICK g : SumsOn(f, D(m - 1), g)
      BY <3>0, <2>4
    <3> DEFINE h == [s \in D(m) |-> IF s = {} THEN 0 ELSE f[Pick(s)] + g[s \ {Pick(s)}]]
    <3>3. \A t \in D(m - 1) : t \in D(m) /\ h[t] = g[t]
      <4> SUFFICES ASSUME NEW t \in D(m - 1) PROVE t \in D(m) /\ h[t] = g[t]
        OBVIOUS
      <4>1. t \in D(m)
        BY <1>0, <2>1
      <4>2. g[t] = IF t = {} THEN 0 ELSE f[Pick(t)] + g[t \ {Pick(t)}]
        BY <3>2 DEF SumsOn
      <4> QED BY <4>1, <4>2
    <3>4. \A s \in D(m) : s # {} => s \ {Pick(s)} \in D(m - 1)
      <4> SUFFICES ASSUME NEW s \in D(m), s # {} PROVE s \ {Pick(s)} \in D(m - 1)
        OBVIOUS
      <4>1. Cardinality(s \ {Pick(s)}) = Cardinality(s) - 1
        BY <1>0, PickType, FS_RemoveElement
      <4> QED BY <1>0, <2>1, <4>1
    <3>5. \A s \in D(m) : h[s] = IF s = {} THEN 0 ELSE f[Pick(s)] + h[s \ {Pick(s)}]
      BY <3>3, <3>4
    <3>6. h = [s \in D(m) |-> h[s]]
      OBVIOUS
    <3> HIDE DEF h, D
    <3>7. SumsOn(f, D(m), h)
      BY <3>5, <3>6 DEF SumsOn
    <3> QED BY <2>1, <3>7
  <2> QED BY <2>2, <2>3
<1>2. D(Cardinality(S)) = SUBSET S
  BY <1>0
<1>3. Cardinality(S) \in Nat
  BY FS_CardinalityType
<1> HIDE DEF D
<1> QED BY <1>1, <1>2, <1>3

\* The sums over the subsets of T are those of any other table that has them.
LEMMA SumsUnique ==
  ASSUME NEW f, NEW S, IsFiniteSet(S), NEW T \in SUBSET S, NEW g, NEW h,
         SumsOn(f, SUBSET S, g), SumsOn(f, SUBSET T, h), NEW R \in SUBSET T
  PROVE  h[R] = g[R]
<1> DEFINE bad == {s \in SUBSET T : h[s] # g[s]}
<1> SUFFICES ASSUME bad # {} PROVE FALSE
  OBVIOUS
<1>1. IsFiniteSet(T) /\ bad \subseteq SUBSET T
  BY FS_Subset
<1> HIDE DEF bad
<1>2. PICK s \in bad : \A t \in bad : ~(t \subseteq s /\ t # s)
  BY <1>1, SmallestSubset
<1> USE DEF bad
<1>3. /\ h[s] = IF s = {} THEN 0 ELSE f[Pick(s)] + h[s \ {Pick(s)}]
      /\ g[s] = IF s = {} THEN 0 ELSE f[Pick(s)] + g[s \ {Pick(s)}]
  BY DEF SumsOn
<1>4. s # {}
  BY <1>3
<1>5. s \ {Pick(s)} \in SUBSET T /\ s \ {Pick(s)} # s
  BY <1>4, PickType
<1>6. h[s \ {Pick(s)}] = g[s \ {Pick(s)}]
  BY <1>2, <1>5
<1> QED BY <1>3, <1>4, <1>6

LEMMA SumIsChosen ==
  ASSUME NEW f, NEW S, IsFiniteSet(S)
  PROVE  \E g : SumsOn(f, SUBSET S, g) /\ SumFunctionOnSet(f, S) = g[S]
<1>1. SumFunctionOnSet(f, S) = (CHOOSE g : SumsOn(f, SUBSET S, g))[S]
  BY DEF SumFunctionOnSet, FoldFunctionOnSet, MapThenFoldSet, SumsOn, Pick
<1> QED BY <1>1, SumsExist

\* Every sum over a subset is in the same table.
LEMMA SumOfSubset ==
  ASSUME NEW f, NEW S, IsFiniteSet(S), NEW g, SumsOn(f, SUBSET S, g), NEW T \in SUBSET S
  PROVE  SumFunctionOnSet(f, T) = g[T]
<1>1. IsFiniteSet(T)
  BY FS_Subset
<1>2. PICK h : SumsOn(f, SUBSET T, h) /\ SumFunctionOnSet(f, T) = h[T]
  BY <1>1, SumIsChosen
<1>3. SumsOn(f, SUBSET T, h)
  BY <1>2
<1>4. T \in SUBSET T
  OBVIOUS
<1>5. h[T] = g[T]
  BY <1>3, <1>4, SumsUnique
<1> QED BY <1>2, <1>5

LEMMA SumsType ==
  ASSUME NEW f, NEW S, IsFiniteSet(S), \A x \in S : f[x] \in Int, NEW g, SumsOn(f, SUBSET S, g)
  PROVE  \A s \in SUBSET S : g[s] \in Int
<1> DEFINE bad == {s \in SUBSET S : g[s] \notin Int}
<1> SUFFICES ASSUME bad # {} PROVE FALSE
  OBVIOUS
<1>0. bad \subseteq SUBSET S
  OBVIOUS
<1> HIDE DEF bad
<1>1. PICK s \in bad : \A t \in bad : ~(t \subseteq s /\ t # s)
  BY <1>0, SmallestSubset
<1> USE DEF bad
<1>2. g[s] = IF s = {} THEN 0 ELSE f[Pick(s)] + g[s \ {Pick(s)}]
  BY DEF SumsOn
<1>3. s # {}
  BY <1>2
<1>4. Pick(s) \in S /\ s \ {Pick(s)} \in SUBSET S /\ s \ {Pick(s)} # s
  BY <1>3, PickType
<1>5. g[s \ {Pick(s)}] \in Int
  BY <1>1, <1>4
<1> QED BY <1>2, <1>3, <1>4, <1>5

\* Any element may be taken first.
LEMMA SumsSplit ==
  ASSUME NEW f, NEW S, IsFiniteSet(S), \A x \in S : f[x] \in Int, NEW g, SumsOn(f, SUBSET S, g),
         NEW T \in SUBSET S, NEW b \in T
  PROVE  g[T] = f[b] + g[T \ {b}]
<1> DEFINE bad == {s \in SUBSET S : \E a \in s : g[s] # f[a] + g[s \ {a}]}
<1> SUFFICES ASSUME bad # {} PROVE FALSE
  OBVIOUS
<1>0. bad \subseteq SUBSET S
  OBVIOUS
<1> HIDE DEF bad
<1>1. PICK s \in bad : \A t \in bad : ~(t \subseteq s /\ t # s)
  BY <1>0, SmallestSubset
<1> USE DEF bad
<1>2. PICK a \in s : g[s] # f[a] + g[s \ {a}]
  OBVIOUS
<1> DEFINE p == Pick(s)
           rest == (s \ {p}) \ {a}
<1>3. p \in s /\ g[s] = f[p] + g[s \ {p}]
  BY PickType DEF SumsOn
<1> HIDE DEF p
<1>4. p # a
  BY <1>2, <1>3
<1>5. /\ s \ {p} \in SUBSET S /\ s \ {p} # s /\ a \in s \ {p}
      /\ s \ {a} \in SUBSET S /\ s \ {a} # s /\ p \in s \ {a}
      /\ rest \in SUBSET S /\ rest = (s \ {a}) \ {p}
  BY <1>3, <1>4
<1>6. g[s \ {p}] = f[a] + g[rest]
  BY <1>1, <1>5
<1>7. g[s \ {a}] = f[p] + g[rest]
  BY <1>1, <1>5
<1>8. f[a] \in Int /\ f[p] \in Int /\ g[rest] \in Int
  BY <1>3, <1>5, SumsType
<1> QED BY <1>2, <1>3, <1>6, <1>7, <1>8

LEMMA SumType ==
  ASSUME NEW f, NEW S, IsFiniteSet(S), \A x \in S : f[x] \in Int
  PROVE  SumFunctionOnSet(f, S) \in Int
<1>1. PICK g : SumsOn(f, SUBSET S, g) /\ SumFunctionOnSet(f, S) = g[S]
  BY SumIsChosen
<1> QED BY <1>1, SumsType, S \in SUBSET S

LEMMA SumSplit ==
  ASSUME NEW f, NEW S, IsFiniteSet(S), \A x \in S : f[x] \in Int, NEW a \in S
  PROVE  SumFunctionOnSet(f, S) = f[a] + SumFunctionOnSet(f, S \ {a})
<1>1. PICK g : SumsOn(f, SUBSET S, g) /\ SumFunctionOnSet(f, S) = g[S]
  BY SumIsChosen
<1>2. g[S] = f[a] + g[S \ {a}]
  <2>1. SumsOn(f, SUBSET S, g) /\ S \in SUBSET S
    BY <1>1
  <2> QED BY <2>1, SumsSplit
<1>3. SumFunctionOnSet(f, S \ {a}) = g[S \ {a}]
  BY <1>1, SumOfSubset
<1> QED BY <1>1, <1>2, <1>3

\* Functions that agree on a set have the same sum over it.
LEMMA SumAgree ==
  ASSUME NEW f, NEW h, NEW S, IsFiniteSet(S), \A x \in S : f[x] = h[x]
  PROVE  SumFunctionOnSet(f, S) = SumFunctionOnSet(h, S)
<1>1. PICK g : SumsOn(f, SUBSET S, g) /\ SumFunctionOnSet(f, S) = g[S]
  BY SumIsChosen
<1>2. \A s \in SUBSET S : s # {} => Pick(s) \in S
  BY PickType
<1>3. SumsOn(h, SUBSET S, g)
  BY <1>1, <1>2 DEF SumsOn
<1>4. SumFunctionOnSet(h, S) = g[S]
  BY <1>3, SumOfSubset
<1> QED BY <1>1, <1>4

LEMMA SumZero ==
  ASSUME NEW f, NEW S, IsFiniteSet(S), \A x \in S : f[x] = 0
  PROVE  SumFunctionOnSet(f, S) = 0
<1> DEFINE g == [s \in SUBSET S |-> 0]
<1>1. \A s \in SUBSET S : s # {} => Pick(s) \in S /\ s \ {Pick(s)} \in SUBSET S
  BY PickType
<1>2. \A s \in SUBSET S : 0 = IF s = {} THEN 0 ELSE f[Pick(s)] + g[s \ {Pick(s)}]
  BY <1>1
<1>3. SumsOn(f, SUBSET S, g)
  BY <1>2 DEF SumsOn
<1> QED BY <1>3, SumOfSubset

\* A sum changes by what one of its terms does.
LEMMA SumUpdate ==
  ASSUME NEW f, NEW h, NEW S, IsFiniteSet(S), \A x \in S : f[x] \in Int /\ h[x] \in Int,
         NEW a \in S, \A x \in S \ {a} : h[x] = f[x]
  PROVE  SumFunctionOnSet(h, S) = SumFunctionOnSet(f, S) + (h[a] - f[a])
<1>1. IsFiniteSet(S \ {a})
  BY FS_RemoveElement
<1>2. SumFunctionOnSet(h, S \ {a}) = SumFunctionOnSet(f, S \ {a})
  BY <1>1, SumAgree
<1>3. SumFunctionOnSet(f, S \ {a}) \in Int
  BY <1>1, SumType
<1>4. /\ SumFunctionOnSet(f, S) = f[a] + SumFunctionOnSet(f, S \ {a})
      /\ SumFunctionOnSet(h, S) = h[a] + SumFunctionOnSet(h, S \ {a})
  BY SumSplit
<1> QED BY <1>2, <1>3, <1>4

-----------------------------------------------------------------------------
(* The budget.                                                              *)

\* The bytes of the values in the stores' contents d.
Bytes(d, st) == SumFunctionOnSet([k \in Keys |-> SizeOf(d[st][k])], Keys)
Total(d) == SumFunctionOnSet([st \in Stores |-> Bytes(d, st)], Stores)

Contents == [Stores -> [Keys -> Values \cup {Absent}]]

LEMMA StoresFinite == IsFiniteSet(Stores) /\ IsFiniteSet(Keys)
BY StoreAssumption, FS_Union DEF Stores

LEMMA SizeType == ASSUME NEW v \in Values \cup {Absent} PROVE SizeOf(v) \in Nat
BY StoreAssumption DEF SizeOf

LEMMA BytesType ==
  ASSUME NEW d \in Contents, NEW st \in Stores
  PROVE  Bytes(d, st) \in Int
<1> DEFINE f == [k \in Keys |-> SizeOf(d[st][k])]
<1>1. \A k \in Keys : f[k] \in Int
  BY SizeType DEF Contents
<1> HIDE DEF f
<1>2. SumFunctionOnSet(f, Keys) \in Int
  BY <1>1, StoresFinite, SumType
<1> QED BY <1>2 DEF f, Bytes

\* Changing one value changes the bytes of its store by the difference of the
\* two sizes, and those of no other store.
LEMMA BytesUpdate ==
  ASSUME NEW d \in Contents, NEW e \in Contents, NEW st \in Stores, NEW k \in Keys,
         NEW v \in Values \cup {Absent},
         e[st] = [d[st] EXCEPT ![k] = v], \A o \in Stores \ {st} : e[o] = d[o]
  PROVE  /\ Bytes(e, st) = Bytes(d, st) + (SizeOf(v) - SizeOf(d[st][k]))
         /\ \A o \in Stores \ {st} : Bytes(e, o) = Bytes(d, o)
<1> DEFINE f == [j \in Keys |-> SizeOf(d[st][j])]
           h == [j \in Keys |-> SizeOf(e[st][j])]
<1>1. \A j \in Keys : f[j] \in Int /\ h[j] \in Int
  BY SizeType DEF Contents
<1>2. /\ \A j \in Keys \ {k} : h[j] = f[j]
      /\ h[k] = SizeOf(v) /\ f[k] = SizeOf(d[st][k])
      /\ \A o \in Stores \ {st} : e[o] = d[o]
  BY DEF Contents
<1>3. \A o \in Stores \ {st} : Bytes(e, o) = Bytes(d, o)
  BY <1>2 DEF Bytes
<1>4. Bytes(d, st) = SumFunctionOnSet(f, Keys) /\ Bytes(e, st) = SumFunctionOnSet(h, Keys)
  BY DEF Bytes
<1> HIDE DEF f, h
<1>5. SumFunctionOnSet(h, Keys) = SumFunctionOnSet(f, Keys) + (h[k] - f[k])
  BY <1>1, <1>2, StoresFinite, SumUpdate
<1> QED BY <1>2, <1>3, <1>4, <1>5

LEMMA TotalUpdate ==
  ASSUME NEW d \in Contents, NEW st \in Stores, NEW k \in Keys,
         NEW v \in Values \cup {Absent}
  PROVE  /\ [d EXCEPT ![st][k] = v] \in Contents
         /\ Total([d EXCEPT ![st][k] = v]) = Total(d) + (SizeOf(v) - SizeOf(d[st][k]))
<1> DEFINE e == [d EXCEPT ![st][k] = v]
           f == [s \in Stores |-> Bytes(d, s)]
           h == [s \in Stores |-> Bytes(e, s)]
<1>1. e \in Contents
  BY DEF Contents
<1>2. \A s \in Stores : f[s] \in Int /\ h[s] \in Int
  BY <1>1, BytesType
<1>0. e = [d EXCEPT ![st][k] = v]
  OBVIOUS
<1> HIDE DEF e
<1>3. /\ Bytes(e, st) = Bytes(d, st) + (SizeOf(v) - SizeOf(d[st][k]))
      /\ \A o \in Stores \ {st} : Bytes(e, o) = Bytes(d, o)
  <2>1. e[st] = [d[st] EXCEPT ![k] = v] /\ \A o \in Stores \ {st} : e[o] = d[o]
    BY <1>0 DEF Contents
  <2> QED BY <1>1, <2>1, BytesUpdate
<1>4. /\ f[st] = Bytes(d, st) /\ h[st] = Bytes(e, st)
      /\ \A s \in Stores \ {st} : h[s] = f[s]
  BY <1>3
<1>5. Total(d) = SumFunctionOnSet(f, Stores) /\ Total(e) = SumFunctionOnSet(h, Stores)
  BY DEF Total
<1>6. Bytes(d, st) \in Int /\ SizeOf(v) \in Int /\ SizeOf(d[st][k]) \in Int
  BY BytesType, SizeType DEF Contents
<1> HIDE DEF f, h
<1>7. SumFunctionOnSet(h, Stores) = SumFunctionOnSet(f, Stores) + (h[st] - f[st])
  BY <1>2, <1>4, StoresFinite, SumUpdate
<1>8. SumFunctionOnSet(f, Stores) \in Int
  BY <1>2, StoresFinite, SumType
<1> QED BY <1>0, <1>1, <1>3, <1>4, <1>5, <1>6, <1>7, <1>8

LEMMA TotalEmpty == Total([st \in Stores |-> [k \in Keys |-> Absent]]) = 0
<1> DEFINE d == [st \in Stores |-> [k \in Keys |-> Absent]]
           f == [st \in Stores |-> Bytes(d, st)]
<1>1. \A st \in Stores : Bytes(d, st) = 0
  <2> TAKE st \in Stores
  <2> DEFINE b == [k \in Keys |-> SizeOf(d[st][k])]
  <2>1. \A k \in Keys : b[k] = 0
    BY DEF SizeOf
  <2>2. Bytes(d, st) = SumFunctionOnSet(b, Keys)
    BY DEF Bytes
  <2> HIDE DEF b
  <2> QED BY <2>1, <2>2, StoresFinite, SumZero
<1>2. \A st \in Stores : f[st] = 0
  BY <1>1
<1>3. Total(d) = SumFunctionOnSet(f, Stores)
  BY DEF Total
<1> HIDE DEF f
<1> QED BY <1>2, <1>3, StoresFinite, SumZero

LEMMA TotalType == ASSUME NEW d \in Contents PROVE Total(d) \in Int
<1> DEFINE f == [st \in Stores |-> Bytes(d, st)]
<1>1. \A st \in Stores : f[st] \in Int
  BY BytesType
<1> HIDE DEF f
<1>2. SumFunctionOnSet(f, Stores) \in Int
  BY <1>1, StoresFinite, SumType
<1> QED BY <1>2 DEF f, Total

LEMMA HeldIsTotal == Held(Stores) = Total(data) /\ Held(Stores)' = Total(data')
<1>1. Held(Stores) = Total(data)
  BY DEF Held, HeldBy, Total, Bytes
<1>2. Held(Stores)' = Total(data')
  BY DEF Held, HeldBy, Total, Bytes
<1> QED BY <1>1, <1>2

StoreInv == TypeOK /\ BudgetExact

LEMMA StoreInit == Init => StoreInv
<1> SUFFICES ASSUME Init PROVE StoreInv
  OBVIOUS
<1>1. TypeOK
  BY DEF Init, TypeOK
<1>2. BudgetExact
  BY TotalEmpty, HeldIsTotal, StoreAssumption DEF Init, BudgetExact
<1> QED BY <1>1, <1>2 DEF StoreInv

\* The parts of one write: of a value that was accepted, or of nothing.
LEMMA WriteStep ==
  ASSUME StoreInv, NEW st \in Stores, NEW k \in Keys, NEW v \in Values \cup {Absent},
         data' = [data EXCEPT ![st][k] = v], UNCHANGED conn,
         used' = used + (SizeOf(v) - SizeOf(data[st][k])), used' <= Limit,
         v # Absent => ValidSizes(k, v)
  PROVE  StoreInv'
<1> USE DEF StoreInv
<1>1. data \in Contents /\ used = Total(data)
  BY HeldIsTotal DEF TypeOK, BudgetExact, Contents
<1>2. data' \in Contents /\ used' = Total(data')
  BY <1>1, TotalUpdate
<1>3. used' \in Int
  BY <1>2, TotalType
<1>4. \A s \in Stores, j \in Keys : data'[s][j] # Absent =>
        KeySize[j] \in 1 .. MaxKeyLen /\ ValueSize[data'[s][j]] <= MaxValueLen
  <2> TAKE s \in Stores, j \in Keys
  <2>1. data'[s][j] = IF s = st /\ j = k THEN v ELSE data[s][j]
    BY <1>1 DEF Contents
  <2> QED BY <2>1 DEF TypeOK, ValidSizes
<1>5. TypeOK'
  BY <1>2, <1>3, <1>4 DEF TypeOK, Contents
<1>6. BudgetExact'
  BY <1>2, HeldIsTotal DEF BudgetExact
<1> QED BY <1>5, <1>6

LEMMA SetStep ==
  ASSUME StoreInv, NEW st \in Stores, NEW k \in Keys, NEW v \in Values, Set(st, k, v)
  PROVE  StoreInv'
<1>1. v # Absent /\ SizeOf(v) = ValueSize[v]
  BY StoreAssumption DEF SizeOf
<1>2. /\ used' = used + (SizeOf(v) - SizeOf(data[st][k])) /\ used' <= Limit
      /\ data' = [data EXCEPT ![st][k] = v] /\ UNCHANGED conn /\ ValidSizes(k, v)
  BY <1>1 DEF Set, Accepted, Affordable, Delta
<1> QED BY <1>2, WriteStep

LEMMA DeleteStep ==
  ASSUME StoreInv, NEW st \in Stores, NEW k \in Keys, Delete(st, k)
  PROVE  StoreInv'
<1>1. data[st][k] \in Values \cup {Absent} /\ used \in Int /\ used <= Limit
  BY DEF StoreInv, TypeOK, BudgetExact
<1>2. SizeOf(Absent) = 0 /\ SizeOf(data[st][k]) \in Nat
  BY <1>1, SizeType DEF SizeOf
<1>3. /\ used' = used + (SizeOf(Absent) - SizeOf(data[st][k])) /\ used' <= Limit
      /\ data' = [data EXCEPT ![st][k] = Absent] /\ UNCHANGED conn
  BY <1>1, <1>2, StoreAssumption DEF Delete
<1> QED BY <1>3, WriteStep

LEMMA ConnStep ==
  ASSUME StoreInv, NEW c \in Connections, ConnStart(c) \/ ConnEnd(c)
  PROVE  StoreInv'
<1>1. UNCHANGED <<data, used>> /\ conn' \in [Connections -> {"new", "running", "ended"}]
  BY DEF ConnStart, ConnEnd, StoreInv, TypeOK
<1>2. TypeOK'
  BY <1>1 DEF StoreInv, TypeOK
<1>3. BudgetExact'
  BY <1>1, HeldIsTotal DEF StoreInv, BudgetExact
<1> QED BY <1>2, <1>3 DEF StoreInv

LEMMA StoreStutter == ASSUME StoreInv, UNCHANGED vars PROVE StoreInv'
<1>1. TypeOK'
  BY DEF StoreInv, TypeOK, vars
<1>2. BudgetExact'
  BY HeldIsTotal DEF StoreInv, BudgetExact, vars
<1> QED BY <1>1, <1>2 DEF StoreInv

LEMMA StoreStep == StoreInv /\ [Next]_vars => StoreInv'
<1> SUFFICES ASSUME StoreInv, [Next]_vars PROVE StoreInv'
  OBVIOUS
<1>1. ASSUME NEW st \in Stores, NEW k \in Keys, Delete(st, k) PROVE StoreInv'
  BY <1>1, DeleteStep
<1>2. ASSUME NEW st \in Stores, NEW k \in Keys, NEW v \in Values, Set(st, k, v) PROVE StoreInv'
  BY <1>2, SetStep
<1>3. ASSUME NEW c \in Connections, ConnStart(c) \/ ConnEnd(c) PROVE StoreInv'
  BY <1>3, ConnStep
<1>4. CASE UNCHANGED vars
  BY <1>4, StoreStutter
<1> QED BY <1>1, <1>2, <1>3, <1>4 DEF Next

\* The budget is exact whatever the operations of the scopes: the sum of what
\* the stores hold, within the limit (Store.Set and Delete).
THEOREM StoreBudgetExact == Spec => []BudgetExact
<1>1. StoreInv => BudgetExact
  BY DEF StoreInv
<1> QED BY <1>1, StoreInit, StoreStep, PTL DEF Spec

-----------------------------------------------------------------------------
(* The counter of a handler.                                                 *)

Reading(c) == read[c] # Absent

\* A script has seen no more than the connections counted before it, and has
\* not counted itself yet.
Seen == \A c \in Connections : Reading(c) =>
  read[c] \in Nat /\ read[c] <= Cardinality(counted) /\ c \notin counted

\* As long as no two scripts overlapped at most one is between its calls, and
\* unless a set was refused what it has seen is the number of those counted.
OneAtATime == ~overlapped =>
  \A c, d \in Connections : Reading(c) /\ Reading(d) => c = d
Exact == ~overlapped /\ ~refused =>
  /\ Stored = Cardinality(counted)
  /\ \A c \in Connections : Reading(c) => read[c] = Stored

CounterInv ==
  /\ CounterTypeOK /\ Seen /\ OneAtATime /\ Exact
  /\ Stored \in Nat /\ Stored <= Cardinality(counted)

\* A script that is between its calls sets a value that can be stored.
LEMMA NextValue ==
  ASSUME CounterInv, NEW c \in Connections, Reading(c)
  PROVE  read[c] + 1 \in Values /\ Cardinality(counted \cup {c}) = Cardinality(counted) + 1
<1>1. IsFiniteSet(Connections) /\ counted \subseteq Connections /\ c \notin counted
  BY StoreAssumption DEF CounterInv, CounterTypeOK, Seen
<1>2. IsFiniteSet(counted) /\ IsFiniteSet(counted \cup {c})
  BY <1>1, FS_Subset, FS_AddElement
<1>3. Cardinality(counted \cup {c}) = Cardinality(counted) + 1
  BY <1>1, <1>2, FS_AddElement
<1>4. counted \cup {c} \subseteq Connections
  BY <1>1
<1>5. Cardinality(counted \cup {c}) <= Cardinality(Connections)
  BY <1>1, <1>4, FS_Subset
<1>6. Cardinality(counted) \in Nat /\ Cardinality(Connections) \in Nat
  BY <1>1, <1>2, FS_CardinalityType
<1>7. read[c] \in Nat /\ read[c] <= Cardinality(counted)
  BY DEF CounterInv, Seen
<1>8. read[c] + 1 \in 0 .. Cardinality(Connections)
  BY <1>3, <1>5, <1>6, <1>7
<1> QED BY <1>3, <1>8, CounterAssumption

\* Every step of a script is a step of the stores.
LEMMA CounterStepIsStore == ASSUME CounterInv, [CounterNext]_allVars PROVE [Next]_vars
<1>1. handler \in Stores /\ count \in Keys /\ Shared \subseteq Stores /\ Connections \subseteq Stores
  BY CounterAssumption DEF Stores
<1>2. ASSUME NEW c \in Connections, GetCount(c) PROVE [Next]_vars
  BY <1>2 DEF GetCount
<1>3. ASSUME NEW c \in Connections, SetCount(c) PROVE [Next]_vars
  <2>1. read[c] + 1 \in Values
    BY <1>3, NextValue DEF SetCount, Reading
  <2>2. CASE Set(Scope(c), count, read[c] + 1)
    BY <1>1, <2>1, <2>2 DEF Scope, Next
  <2>3. CASE UNCHANGED vars
    BY <2>3
  <2> QED BY <1>3, <2>2, <2>3 DEF SetCount
<1>4. ASSUME NEW c \in Connections, Other(c) PROVE [Next]_vars
  <2>1. CASE ConnStart(c) \/ ConnEnd(c)
    BY <2>1 DEF Next
  <2>2. ASSUME NEW st \in Shared \cup {c}, NEW k \in Keys,
               Delete(st, k) \/ \E v \in Values : Set(st, k, v)
        PROVE  [Next]_vars
    BY <1>1, <2>2 DEF Next
  <2> QED BY <1>4, <2>1, <2>2 DEF Other
<1>5. CASE UNCHANGED allVars
  BY <1>5 DEF allVars
<1> QED BY <1>2, <1>3, <1>4, <1>5 DEF CounterNext

LEMMA CounterStart == CounterInit => CounterInv
<1> SUFFICES ASSUME CounterInit PROVE CounterInv
  OBVIOUS
<1>1. TypeOK
  BY StoreInit DEF CounterInit, StoreInv
<1>2. handler \in Stores /\ count \in Keys
  BY CounterAssumption DEF Stores
<1>3. Stored = 0 /\ Cardinality(counted) = 0
  BY <1>2, FS_EmptySet DEF CounterInit, Init, Stored
<1>4. \A c \in Connections : ~Reading(c)
  BY DEF CounterInit, Reading
<1>5. CounterTypeOK
  BY <1>1, <1>4 DEF CounterInit, CounterTypeOK, Reading
<1> QED BY <1>3, <1>4, <1>5 DEF CounterInv, Seen, OneAtATime, Exact

LEMMA GetCountStep ==
  ASSUME CounterInv, TypeOK', NEW c \in Connections, GetCount(c)
  PROVE  CounterInv'
<1>1. handler \in Stores /\ count \in Keys /\ 0 \in Values
  <2>1. Cardinality(Connections) \in Nat
    BY StoreAssumption, FS_CardinalityType
  <2> QED BY <2>1, CounterAssumption DEF Stores
<1>2. Number(data[Scope(c)][count]) = Stored /\ Stored \in Values
  BY <1>1 DEF Scope, Number, Stored, CounterInv, CounterTypeOK, TypeOK
<1>3. Stored' = Stored /\ counted' = counted /\ conn' = conn /\ refused' = refused
  BY DEF GetCount, vars, Stored
<1>4. /\ read' = [read EXCEPT ![c] = Stored] /\ read[c] = Absent /\ c \notin counted
      /\ conn[c] = "running" /\ read \in [Connections -> Values \cup {Absent}]
  BY <1>2 DEF GetCount, CounterInv, CounterTypeOK
<1>5. /\ read'[c] = Stored
      /\ \A d \in Connections \ {c} : read'[d] = read[d]
  BY <1>4
<1>6. overlapped' \in BOOLEAN /\ (~overlapped' => ~overlapped /\ \A d \in Connections : ~Reading(d))
  BY Zenon DEF GetCount, Reading
<1>7. CounterTypeOK'
  BY <1>2, <1>3, <1>4, <1>5, <1>6 DEF CounterInv, CounterTypeOK
<1>8. Seen'
  <2> SUFFICES ASSUME NEW d \in Connections, Reading(d)'
               PROVE  (read[d] \in Nat /\ read[d] <= Cardinality(counted) /\ d \notin counted)'
    BY DEF Seen
  <2>1. CASE d = c
    BY <1>3, <1>4, <1>5, <2>1 DEF CounterInv
  <2>2. CASE d # c
    BY <1>3, <1>5, <2>2 DEF CounterInv, Seen, Reading
  <2> QED BY <2>1, <2>2
<1>9. OneAtATime'
  BY <1>5, <1>6 DEF OneAtATime, Reading
<1>10. Exact'
  BY <1>3, <1>5, <1>6 DEF CounterInv, Exact, Reading
<1> QED BY <1>3, <1>7, <1>8, <1>9, <1>10 DEF CounterInv

LEMMA SetCountStep ==
  ASSUME CounterInv, TypeOK', NEW c \in Connections, SetCount(c)
  PROVE  CounterInv'
<1>1. handler \in Stores /\ count \in Keys
  BY CounterAssumption DEF Stores
<1>2. Reading(c) /\ conn' = conn /\ overlapped' = overlapped /\ counted' = counted \cup {c}
  BY DEF SetCount, Reading, Set, vars
<1>3. read[c] + 1 \in Values /\ Cardinality(counted') = Cardinality(counted) + 1
  BY <1>2, NextValue
<1>4. read[c] \in Nat /\ read[c] <= Cardinality(counted) /\ Cardinality(counted) \in Nat
  <2>1. IsFiniteSet(counted)
    BY StoreAssumption, FS_Subset DEF CounterInv, CounterTypeOK
  <2> QED BY <1>2, <2>1, FS_CardinalityType DEF CounterInv, Seen
<1>5. read' = [read EXCEPT ![c] = Absent] /\ read \in [Connections -> Values \cup {Absent}]
  BY DEF SetCount, CounterInv, CounterTypeOK
<1>6. ~Reading(c)' /\ \A d \in Connections \ {c} : read'[d] = read[d]
  BY <1>5 DEF Reading
<1>7. \/ Stored' = read[c] + 1 /\ refused' = refused
      \/ Stored' = Stored /\ refused' = TRUE
  <2>1. CASE Set(Scope(c), count, read[c] + 1) /\ UNCHANGED refused
    <3>1. data'[handler][count] = read[c] + 1
      BY <1>1, <2>1 DEF Set, Scope, CounterInv, CounterTypeOK, TypeOK
    <3>2. read[c] + 1 # Absent
      BY <1>3, StoreAssumption
    <3> QED BY <2>1, <3>1, <3>2 DEF Stored
  <2>2. CASE refused' = TRUE /\ UNCHANGED vars
    BY <2>2 DEF Stored, vars
  <2> QED BY <2>1, <2>2 DEF SetCount
<1>8. CounterTypeOK'
  BY <1>2, <1>5, <1>6, <1>7 DEF CounterInv, CounterTypeOK, Reading
<1>9. Seen'
  <2> SUFFICES ASSUME NEW d \in Connections, Reading(d)'
               PROVE  read'[d] \in Nat /\ read'[d] <= Cardinality(counted') /\ d \notin counted'
    BY DEF Seen
  <2>1. d # c /\ read'[d] = read[d] /\ Reading(d)
    BY <1>6 DEF Reading
  <2>2. read[d] \in Nat /\ read[d] <= Cardinality(counted) /\ d \notin counted
    BY <2>1 DEF CounterInv, Seen
  <2> QED BY <1>2, <1>3, <1>4, <2>1, <2>2
<1>10. OneAtATime'
  BY <1>2, <1>6 DEF CounterInv, OneAtATime, Reading
<1>11. Exact'
  <2> SUFFICES ASSUME ~overlapped', ~refused'
               PROVE  /\ Stored' = Cardinality(counted')
                      /\ \A d \in Connections : ~Reading(d)'
    BY DEF Exact
  <2>1. ~overlapped /\ ~refused /\ Stored' = read[c] + 1
    BY <1>2, <1>7
  <2>2. read[c] = Cardinality(counted)
    BY <1>2, <2>1 DEF CounterInv, Exact
  <2>3. \A d \in Connections : ~Reading(d)'
    BY <1>2, <1>6, <2>1 DEF CounterInv, OneAtATime, Reading
  <2> QED BY <1>3, <2>1, <2>2, <2>3
<1>12. Stored' \in Nat /\ Stored' <= Cardinality(counted')
  BY <1>3, <1>4, <1>7 DEF CounterInv
<1> QED BY <1>8, <1>9, <1>10, <1>11, <1>12 DEF CounterInv

\* Whatever else a script does leaves the counter and what was read of it.
LEMMA OtherStep ==
  ASSUME CounterInv, TypeOK', NEW c \in Connections, Other(c)
  PROVE  CounterInv'
<1>1. handler \in Stores /\ count \in Keys
  BY CounterAssumption DEF Stores
<1>2. UNCHANGED <<read, counted, overlapped, refused>>
  BY DEF Other, counterVars
<1>3. data'[handler][count] = data[handler][count]
  <2>1. CASE ConnStart(c) \/ ConnEnd(c)
    BY <2>1 DEF ConnStart, ConnEnd
  <2>2. ASSUME NEW st \in Shared \cup {c}, NEW k \in Keys, <<st, k>> # <<handler, count>>,
               Delete(st, k) \/ \E v \in Values : Set(st, k, v)
        PROVE  data'[handler][count] = data[handler][count]
    <3>1. PICK v : data' = [data EXCEPT ![st][k] = v]
      BY <2>2 DEF Delete, Set
    <3> QED BY <1>1, <2>2, <3>1 DEF CounterInv, CounterTypeOK, TypeOK
  <2> QED BY <2>1, <2>2 DEF Other
<1>4. Stored' = Stored
  BY <1>3 DEF Stored
<1>5. \A d \in Connections : Reading(d) => conn'[d] = "running"
  <2> SUFFICES ASSUME NEW d \in Connections, Reading(d) PROVE conn'[d] = "running"
    OBVIOUS
  <2>1. conn[d] = "running" /\ conn \in [Connections -> {"new", "running", "ended"}]
    BY DEF CounterInv, CounterTypeOK, TypeOK, Reading
  <2>2. CASE ConnStart(c)
    BY <2>1, <2>2 DEF ConnStart
  <2>3. CASE BetweenVisits(c) /\ ConnEnd(c)
    BY <2>1, <2>3 DEF ConnEnd, BetweenVisits, Reading
  <2>4. CASE conn' = conn
    BY <2>1, <2>4
  <2> QED BY <2>2, <2>3, <2>4 DEF Other, Delete, Set
<1>6. CounterTypeOK'
  BY <1>2, <1>5 DEF CounterInv, CounterTypeOK, Reading
<1>7. Seen' /\ OneAtATime' /\ Exact'
  BY <1>2, <1>4 DEF CounterInv, Seen, OneAtATime, Exact, Reading
<1> QED BY <1>2, <1>4, <1>6, <1>7 DEF CounterInv

LEMMA CounterStutter == ASSUME CounterInv, UNCHANGED allVars PROVE CounterInv'
<1>1. UNCHANGED <<data, used, conn, read, counted, overlapped, refused>>
  BY DEF allVars, vars, counterVars
<1>2. Stored' = Stored
  BY <1>1 DEF Stored
<1>3. CounterTypeOK'
  BY <1>1 DEF CounterInv, CounterTypeOK, TypeOK
<1> QED BY <1>1, <1>2, <1>3 DEF CounterInv, Seen, OneAtATime, Exact, Reading

LEMMA CounterStep ==
  ASSUME StoreInv, CounterInv, [CounterNext]_allVars
  PROVE  StoreInv' /\ CounterInv'
<1>1. StoreInv'
  BY CounterStepIsStore, StoreStep
<1>2. TypeOK'
  BY <1>1 DEF StoreInv
<1>3. ASSUME NEW c \in Connections, GetCount(c) PROVE CounterInv'
  BY <1>2, <1>3, GetCountStep
<1>4. ASSUME NEW c \in Connections, SetCount(c) PROVE CounterInv'
  BY <1>2, <1>4, SetCountStep
<1>5. ASSUME NEW c \in Connections, Other(c) PROVE CounterInv'
  BY <1>2, <1>5, OtherStep
<1>6. CASE UNCHANGED allVars
  BY <1>1, <1>6, CounterStutter
<1> QED BY <1>1, <1>3, <1>4, <1>5, <1>6 DEF CounterNext

LEMMA CounterInvariant == CounterSpec => [](StoreInv /\ CounterInv)
<1>1. CounterInit => StoreInv /\ CounterInv
  BY StoreInit, CounterStart DEF CounterInit
<1>2. StoreInv /\ CounterInv /\ [CounterNext]_allVars => (StoreInv /\ CounterInv)'
  BY CounterStep
<1> QED BY <1>1, <1>2, PTL DEF CounterSpec

\* The scripts that keep a counter use the stores by their operations alone, so
\* what holds of every use of the stores holds of theirs.
THEOREM CounterIsStore == CounterSpec => Spec
<1>1. CounterInit => Init
  BY DEF CounterInit
<1>2. CounterInv /\ [CounterNext]_allVars => [Next]_vars
  BY CounterStepIsStore
<1> QED BY <1>1, <1>2, CounterInvariant, PTL DEF CounterSpec, Spec

\* Store.Set never lets in an empty or oversized key or an oversized value, and
\* only a script that is running is between its get and its set.
THEOREM CounterTypeCorrect == CounterSpec => []CounterTypeOK
<1>1. CounterInv => CounterTypeOK
  BY DEF CounterInv
<1> QED BY <1>1, CounterInvariant, PTL

\* A counter kept with one get and one set per connection (handlers/smtp.lua)
\* never runs ahead of the connections, and is exact when no two of them
\* overlapped and no set was refused.
THEOREM CountHonestHolds == CounterSpec => []CountHonest
<1>1. CounterInv => CountHonest
  BY DEF CounterInv, Exact, CountHonest
<1> QED BY <1>1, CounterInvariant, PTL

=============================================================================
