---- MODULE BackendRequests_proofs ----
(***************************************************************************)
(* Proofs about the contact attributes that BackendRequests computes, for  *)
(* any allowed keys, sizes and requests.                                   *)
(*                                                                         *)
(* The bytes of the attributes are a fold over a set, the attributes a     *)
(* recursion over the context.  What they compute is proved by looking at  *)
(* a smallest set, or a smallest number, for which it would be wrong.      *)
(***************************************************************************)
EXTENDS BackendRequests, FiniteSetTheorems, TLAPS

----
(***************************************************************************)
(* Smallest counterexamples                                                *)
(***************************************************************************)

\* A set of numbers that is not empty has a smallest element.
LEMMA SmallestNumber ==
  ASSUME NEW N \in SUBSET Nat, N # {}
  PROVE  \E n \in N : \A m \in N : n <= m
<1>1. PICK n \in N : \A m \in N : <<m, n>> \notin OpToRel(<, Nat)
  BY WFMin, NatLessThanWellFounded, Zenon
<1>2. \A m \in N : ~(m < n)
  BY <1>1, Zenon DEF OpToRel
<1> QED
  BY <1>2

\* A set of finite sets that is not empty has an element without a part in it.
LEMMA SmallestSet ==
  ASSUME NEW B, B # {}, \A s \in B : IsFiniteSet(s)
  PROVE  \E s \in B : \A x \in s : s \ {x} \notin B
<1> DEFINE N == {n \in Nat : \E s \in B : Cardinality(s) = n}
<1>1. \A s \in B : Cardinality(s) \in N
  BY FS_CardinalityType
<1>2. PICK n \in N : \A m \in N : n <= m
  BY <1>1, SmallestNumber
<1>3. PICK s \in B : Cardinality(s) = n
  BY <1>2
<1>4. ASSUME NEW x \in s, s \ {x} \in B PROVE FALSE
  <2>1. Cardinality(s \ {x}) = n - 1
    BY <1>3, FS_RemoveElement
  <2>2. n - 1 \in N
    BY <1>1, <1>4, <2>1
  <2> QED
    BY <1>2, <2>2
<1> QED
  BY <1>3, <1>4

----
(***************************************************************************)
(* The bytes of the attributes                                             *)
(***************************************************************************)
weight(f, k) == KeyBytes + f[k].chars * f[k].width

\* The fold of totalBytes, over the keys in S.
first(s) == CHOOSE x \in s : TRUE
rest(s) == s \ {first(s)}
bytesStep(f, g, s) == IF s = {} THEN 0 ELSE weight(f, first(s)) + g[rest(s)]
folds(f, g, S) == g = [s \in SUBSET S |-> bytesStep(f, g, s)]
bytesOf(f, S) == (CHOOSE g : folds(f, g, S))[S]

LEMMA BytesFolded == ASSUME NEW f PROVE totalBytes(f) = bytesOf(f, DOMAIN f)
BY Zenon DEF totalBytes, bytesOf, folds, bytesStep, first, rest, weight, MapThenSumSet, MapThenFoldSet

LEMMA FirstOf == ASSUME NEW s, s # {} PROVE first(s) \in s
BY Zenon DEF first

\* What it says at each subset.
LEMMA FoldAt ==
  ASSUME NEW f, NEW g, NEW S, folds(f, g, S), NEW s \in SUBSET S
  PROVE  g[s] = bytesStep(f, g, s)
BY Zenon DEF folds

\* Two folds agree where both are defined.
LEMMA FoldUnique ==
  ASSUME NEW f, NEW g, NEW S, folds(f, g, S),
         NEW h, NEW T, folds(f, h, T),
         NEW s \in SUBSET S, s \in SUBSET T, IsFiniteSet(s)
  PROVE  g[s] = h[s]
<1> DEFINE B == {t \in SUBSET s : g[t] # h[t]}
<1> SUFFICES ASSUME B # {} PROVE FALSE
  OBVIOUS
<1>1. \A t \in B : IsFiniteSet(t)
  BY FS_Subset
<1>2. PICK t \in B : \A x \in t : t \ {x} \notin B
  BY <1>1, SmallestSet
<1>3. g[t] = bytesStep(f, g, t) /\ h[t] = bytesStep(f, h, t)
  BY FoldAt
<1>4. t # {}
  BY <1>3 DEF bytesStep
<1>5. g[rest(t)] = h[rest(t)]
  BY <1>2, <1>4, FirstOf DEF rest
<1> QED
  BY <1>3, <1>4, <1>5 DEF bytesStep

\* The fold over a set is one over its parts.
LEMMA FoldWithin ==
  ASSUME NEW f, NEW g, NEW S, folds(f, g, S), NEW T \in SUBSET S
  PROVE  folds(f, [s \in SUBSET T |-> g[s]], T)
<1> DEFINE h == [s \in SUBSET T |-> g[s]]
<1>1. ASSUME NEW s \in SUBSET T PROVE h[s] = bytesStep(f, h, s)
  <2>1. h[s] = g[s] /\ g[s] = bytesStep(f, g, s)
    BY FoldAt
  <2>2. s # {} => h[rest(s)] = g[rest(s)]
    BY DEF rest
  <2> QED
    BY <2>1, <2>2 DEF bytesStep
<1> HIDE DEF h
<1>2. h = [s \in SUBSET T |-> h[s]]
  BY DEF h
<1>3. h = [s \in SUBSET T |-> bytesStep(f, h, s)]
  BY <1>1, <1>2
<1> QED
  BY <1>3 DEF folds, h

\* Every finite set of keys has its fold.
LEMMA FoldExists ==
  ASSUME NEW f, NEW S, IsFiniteSet(S)
  PROVE  \E g : folds(f, g, S)
<1> DEFINE B == {s \in SUBSET S : ~\E g : folds(f, g, s)}
<1> SUFFICES ASSUME B # {} PROVE FALSE
  OBVIOUS
<1>1. \A s \in B : IsFiniteSet(s)
  BY FS_Subset
<1>2. PICK s \in B : \A x \in s : s \ {x} \notin B
  BY <1>1, SmallestSet
<1> DEFINE part(t) == CHOOSE g : folds(f, g, t)
<1>3. ASSUME NEW t \in SUBSET s, t # {}
      PROVE  folds(f, part(rest(t)), rest(t))
  <2>1. first(t) \in s /\ rest(t) \in SUBSET (s \ {first(t)})
    BY <1>3, FirstOf DEF rest
  <2>2. PICK g : folds(f, g, s \ {first(t)})
    BY <1>2, <2>1
  <2>3. \E h : folds(f, h, rest(t))
    BY <2>1, <2>2, FoldWithin
  <2> QED
    BY <2>3, Zenon
<1> DEFINE h == [t \in SUBSET s |->
                   IF t = {} THEN 0 ELSE weight(f, first(t)) + part(rest(t))[rest(t)]]
<1> HIDE DEF part
<1>4. ASSUME NEW t \in SUBSET s PROVE h[t] = bytesStep(f, h, t)
  <2>1. CASE t = {}
    BY <2>1 DEF bytesStep
  <2>2. CASE t # {}
    <3> DEFINE r == rest(t)
    <3>1. r \in SUBSET s /\ IsFiniteSet(r)
      BY <1>1, <2>2, FS_Subset DEF rest
    <3>2. folds(f, part(r), r) /\ part(r)[r] = bytesStep(f, part(r), r)
      BY <1>3, <2>2, FoldAt
    <3>3. r # {} => part(r)[rest(r)] = part(rest(r))[rest(r)]
      <4> SUFFICES ASSUME r # {} PROVE part(r)[rest(r)] = part(rest(r))[rest(r)]
        OBVIOUS
      <4>1. folds(f, part(rest(r)), rest(r))
        BY <1>3, <3>1
      <4>2. rest(r) \in SUBSET r /\ IsFiniteSet(rest(r))
        BY <3>1, FS_Subset DEF rest
      <4> HIDE DEF r
      <4> QED
        BY <3>2, <4>1, <4>2, FoldUnique
    <3>4. h[r] = part(r)[r]
      BY <3>1, <3>2, <3>3 DEF bytesStep
    <3> QED
      BY <2>2, <3>4 DEF bytesStep
  <2> QED
    BY <2>1, <2>2
<1>5. h = [t \in SUBSET s |-> h[t]]
  OBVIOUS
<1> HIDE DEF h
<1>6. h = [t \in SUBSET s |-> bytesStep(f, h, t)]
  BY <1>4, <1>5
<1> QED
  BY <1>6 DEF folds

LEMMA FoldChosen ==
  ASSUME NEW f, NEW S, IsFiniteSet(S)
  PROVE  folds(f, CHOOSE g : folds(f, g, S), S)
BY FoldExists, Zenon

\* So the bytes of some keys are those of the first and those of the rest,
LEMMA BytesStep ==
  ASSUME NEW f, NEW S, IsFiniteSet(S)
  PROVE  bytesOf(f, S) = IF S = {} THEN 0 ELSE weight(f, first(S)) + bytesOf(f, rest(S))
<1> DEFINE part(t) == CHOOSE g : folds(f, g, t)
<1>1. folds(f, part(S), S) /\ bytesOf(f, S) = part(S)[S] /\ bytesOf(f, rest(S)) = part(rest(S))[rest(S)]
  BY FoldChosen DEF bytesOf
<1>2. rest(S) \in SUBSET S /\ IsFiniteSet(rest(S))
  BY FS_Subset DEF rest
<1>3. folds(f, part(rest(S)), rest(S))
  BY <1>2, FoldChosen
<1> HIDE DEF part
<1>4. part(S)[rest(S)] = part(rest(S))[rest(S)]
  BY <1>1, <1>2, <1>3, FoldUnique
<1>5. part(S)[S] = bytesStep(f, part(S), S)
  BY <1>1, FoldAt
<1> QED
  BY <1>1, <1>4, <1>5 DEF bytesStep

\* and it only matters what they are.
LEMMA BytesNat ==
  ASSUME NEW f, NEW S, IsFiniteSet(S), \A k \in S : weight(f, k) \in Nat
  PROVE  bytesOf(f, S) \in Nat
<1> DEFINE B == {s \in SUBSET S : bytesOf(f, s) \notin Nat}
<1> SUFFICES ASSUME B # {} PROVE FALSE
  OBVIOUS
<1>1. \A s \in B : IsFiniteSet(s)
  BY FS_Subset
<1>2. PICK s \in B : \A x \in s : s \ {x} \notin B
  BY <1>1, SmallestSet
<1>3. bytesOf(f, s) = IF s = {} THEN 0 ELSE weight(f, first(s)) + bytesOf(f, rest(s))
  BY <1>1, BytesStep
<1>4. s # {} => first(s) \in s /\ bytesOf(f, rest(s)) \in Nat
  BY <1>2, FirstOf DEF rest
<1> QED
  BY <1>3, <1>4

LEMMA BytesSame ==
  ASSUME NEW f, NEW g, NEW S, IsFiniteSet(S), \A k \in S : f[k] = g[k]
  PROVE  bytesOf(f, S) = bytesOf(g, S)
<1> DEFINE B == {s \in SUBSET S : bytesOf(f, s) # bytesOf(g, s)}
<1> SUFFICES ASSUME B # {} PROVE FALSE
  OBVIOUS
<1>1. \A s \in B : IsFiniteSet(s)
  BY FS_Subset
<1>2. PICK s \in B : \A x \in s : s \ {x} \notin B
  BY <1>1, SmallestSet
<1>3. /\ bytesOf(f, s) = IF s = {} THEN 0 ELSE weight(f, first(s)) + bytesOf(f, rest(s))
      /\ bytesOf(g, s) = IF s = {} THEN 0 ELSE weight(g, first(s)) + bytesOf(g, rest(s))
  BY <1>1, BytesStep
<1>4. s # {} => first(s) \in s /\ bytesOf(f, rest(s)) = bytesOf(g, rest(s))
  BY <1>2, FirstOf DEF rest
<1>5. s # {} => weight(f, first(s)) = weight(g, first(s))
  BY <1>4 DEF weight
<1> QED
  BY <1>3, <1>4, <1>5

\* In whatever order they are counted.
LEMMA BytesOfOne ==
  ASSUME NEW f, NEW S, IsFiniteSet(S), \A k \in S : weight(f, k) \in Nat, NEW x \in S
  PROVE  bytesOf(f, S) = weight(f, x) + bytesOf(f, S \ {x})
<1> DEFINE B == {s \in SUBSET S : \E y \in s : bytesOf(f, s) # weight(f, y) + bytesOf(f, s \ {y})}
<1> SUFFICES ASSUME B # {} PROVE FALSE
  OBVIOUS
<1>1. \A s \in SUBSET S : IsFiniteSet(s)
  BY FS_Subset
<1>2. PICK s \in B : \A y \in s : s \ {y} \notin B
  BY <1>1, SmallestSet
<1>3. PICK y \in s : bytesOf(f, s) # weight(f, y) + bytesOf(f, s \ {y})
  BY <1>2
<1> DEFINE z == first(s)
<1>4. /\ z \in s /\ bytesOf(f, s) = weight(f, z) + bytesOf(f, s \ {z}) /\ y # z
  BY <1>1, <1>3, FirstOf, BytesStep DEF rest
<1> HIDE DEF z
<1>5. bytesOf(f, s \ {z}) = weight(f, y) + bytesOf(f, (s \ {z}) \ {y})
  BY <1>2, <1>4
<1>6. bytesOf(f, s \ {y}) = weight(f, z) + bytesOf(f, (s \ {y}) \ {z})
  BY <1>2, <1>4
<1>7. (s \ {z}) \ {y} = (s \ {y}) \ {z}
  OBVIOUS
<1>8. bytesOf(f, (s \ {z}) \ {y}) \in Nat
  <2>1. (s \ {z}) \ {y} \in SUBSET S
    OBVIOUS
  <2> QED
    BY <1>1, <2>1, BytesNat
<1> QED
  BY <1>3, <1>4, <1>5, <1>6, <1>7, <1>8

----
(***************************************************************************)
(* The merge of the context                                                *)
(***************************************************************************)
Weighed(v) == v.chars \in Nat /\ v.width \in Nat

LEMMA WeighedCost ==
  ASSUME NEW v, Weighed(v)
  PROVE  cost(v) \in Nat
<1>1. \A a, b \in Nat : a * b \in Nat
  OBVIOUS
<1> QED
  BY <1>1, RequestAssumption DEF Weighed, cost

LEMMA TruncatedWeighed ==
  ASSUME NEW from, NEW v \in AttributeValues(from)
  PROVE  /\ Weighed(truncated(v)) /\ truncated(v).from = from
         /\ truncated(v).chars > 0 <=> v.chars > 0
BY RequestAssumption DEF AttributeValues, truncated, Weighed

\* What the recursion of buildContactAttributes says.
mergeStep(m, critical, context, n) ==
  IF n = 0 THEN critical ELSE addContext(m[n - 1], critical, context[n])
merges(m, critical, context, l) == m = [n \in 0 .. l |-> mergeStep(m, critical, context, n)]

LEMMA MergeExists ==
  ASSUME NEW critical, NEW context, NEW l \in Nat
  PROVE  \E m : merges(m, critical, context, l)
<1> DEFINE B == {n \in Nat : ~\E m : merges(m, critical, context, n)}
<1> SUFFICES ASSUME B # {} PROVE FALSE
  OBVIOUS
<1>1. PICK n \in B : \A k \in B : n <= k
  BY SmallestNumber
<1>2. n # 0
  <2> SUFFICES ASSUME n = 0 PROVE FALSE
    OBVIOUS
  <2> DEFINE h == [i \in 0 .. 0 |-> critical]
  <2>1. h = [i \in 0 .. 0 |-> mergeStep(h, critical, context, i)]
    BY DEF mergeStep
  <2> QED
    BY <2>1 DEF merges
<1>3. PICK g : merges(g, critical, context, n - 1)
  <2>1. n - 1 \in Nat /\ n - 1 \notin B
    BY <1>1, <1>2
  <2> QED
    BY <2>1
<1>4. \A i \in 0 .. n - 1 : g[i] = mergeStep(g, critical, context, i)
  BY <1>3, Zenon DEF merges
<1> DEFINE h == [i \in 0 .. n |-> IF i = n THEN mergeStep(g, critical, context, n) ELSE g[i]]
<1>5. ASSUME NEW i \in 0 .. n PROVE h[i] = mergeStep(h, critical, context, i)
  <2>1. i # 0 => h[i - 1] = g[i - 1]
    OBVIOUS
  <2> HIDE DEF h
  <2>2. mergeStep(h, critical, context, i) = mergeStep(g, critical, context, i)
    BY <2>1 DEF mergeStep
  <2>3. h[i] = IF i = n THEN mergeStep(g, critical, context, n) ELSE g[i]
    BY DEF h
  <2>4. i # n => i \in 0 .. n - 1
    OBVIOUS
  <2> QED
    BY <1>4, <2>2, <2>3, <2>4
<1>6. h = [i \in 0 .. n |-> h[i]]
  OBVIOUS
<1> HIDE DEF h
<1>7. h = [i \in 0 .. n |-> mergeStep(h, critical, context, i)]
  BY <1>5, <1>6
<1> QED
  BY <1>7 DEF merges

LEMMA Merged ==
  ASSUME NEW r, Len(r.context) \in Nat
  PROVE  \E m : /\ merges(m, criticalAttributes(r), r.context, Len(r.context))
                /\ buildContactAttributes(r) = m[Len(r.context)]
<1> DEFINE m == CHOOSE g : merges(g, criticalAttributes(r), r.context, Len(r.context))
<1>1. merges(m, criticalAttributes(r), r.context, Len(r.context))
  BY MergeExists, Zenon
<1>2. buildContactAttributes(r) = m[Len(r.context)]
  BY Zenon DEF buildContactAttributes, merges, mergeStep
<1> QED
  BY <1>1, <1>2

\* What holds of the attributes after each pair of the context: they still hold what
\* is critical, the rest is allowed, and nothing was added beyond the budget.
Built(f, critical) ==
  /\ IsFiniteSet(DOMAIN f) /\ \A k \in DOMAIN f : Weighed(f[k])
  /\ \A k \in DOMAIN critical : k \in DOMAIN f /\ f[k] = critical[k]
  /\ \A k \in DOMAIN f \ DOMAIN critical : k \in AllowedKeys \ BadKeys
  /\ f = critical \/ totalBytes(f) <= MaxTotal

LEMMA AddedBytes ==
  ASSUME NEW f, IsFiniteSet(DOMAIN f), \A j \in DOMAIN f : Weighed(f[j]), NEW k, NEW v, Weighed(v)
  PROVE  /\ totalBytes(over([key \in {k} |-> v], f)) <= totalBytes(f) + cost(v)
         /\ totalBytes(over([key \in {k} |-> v], f)) \in Nat
         /\ totalBytes(f) \in Nat /\ cost(v) \in Nat
<1> DEFINE g == over([key \in {k} |-> v], f)
           D == DOMAIN f
<1>1. /\ DOMAIN g = D \cup {k} /\ g[k] = v /\ IsFiniteSet(D \cup {k}) /\ IsFiniteSet(D \ {k})
      /\ \A j \in D \ {k} : g[j] = f[j]
  BY FS_AddElement, FS_RemoveElement DEF over
<1> HIDE DEF g
<1>2. /\ \A j \in D \cup {k} : weight(g, j) \in Nat
      /\ \A j \in D : weight(f, j) \in Nat
      /\ weight(g, k) = cost(v)
  BY <1>1, WeighedCost DEF weight, cost
<1>3. totalBytes(g) = cost(v) + bytesOf(g, (D \cup {k}) \ {k})
  BY <1>1, <1>2, BytesFolded, BytesOfOne
<1>4. bytesOf(g, (D \cup {k}) \ {k}) = bytesOf(f, D \ {k})
  <2>1. (D \cup {k}) \ {k} = D \ {k}
    OBVIOUS
  <2>2. bytesOf(g, D \ {k}) = bytesOf(f, D \ {k})
    BY <1>1, BytesSame
  <2> QED
    BY <2>1, <2>2
<1>5. bytesOf(f, D \ {k}) <= totalBytes(f)
  <2>1. bytesOf(f, D \ {k}) \in Nat /\ totalBytes(f) = bytesOf(f, D)
    BY <1>1, <1>2, BytesNat, BytesFolded
  <2>2. CASE k \in D
    BY <1>2, <2>1, <2>2, BytesOfOne
  <2>3. CASE k \notin D
    <3>1. D \ {k} = D
      BY <2>3
    <3> QED
      BY <2>1, <3>1
  <2> QED
    BY <2>2, <2>3
<1>6. bytesOf(f, D \ {k}) \in Nat /\ totalBytes(f) \in Nat /\ cost(v) \in Nat
  BY <1>1, <1>2, BytesNat, BytesFolded, WeighedCost
<1> QED
  BY <1>3, <1>4, <1>5, <1>6 DEF g

LEMMA AddKeeps ==
  ASSUME NEW f, NEW critical, Built(f, critical), NEW pair, NEW from,
         pair[2] \in AttributeValues(from)
  PROVE  Built(addContext(f, critical, pair), critical)
<1> DEFINE k == pair[1]
           v == truncated(pair[2])
           g == over([key \in {k} |-> v], f)
<1>1. Weighed(v)
  BY TruncatedWeighed
<1>2. CASE addContext(f, critical, pair) = f
  BY <1>2
<1>3. CASE /\ addContext(f, critical, pair) = g /\ admits(f, critical, k, v)
           /\ totalBytes(f) + cost(v) <= MaxTotal
  <2>1. k \in AllowedKeys \ BadKeys /\ k \notin DOMAIN critical
    BY <1>3 DEF admits
  <2>2. /\ totalBytes(g) <= totalBytes(f) + cost(v)
        /\ totalBytes(g) \in Nat /\ totalBytes(f) \in Nat /\ cost(v) \in Nat
    BY <1>1, AddedBytes DEF Built
  <2>3. totalBytes(g) <= MaxTotal
    BY <1>3, <2>2, RequestAssumption
  <2>4. DOMAIN g = DOMAIN f \cup {k} /\ g[k] = v /\ \A j \in DOMAIN f \ {k} : g[j] = f[j]
    BY DEF over
  <2>5. IsFiniteSet(DOMAIN g)
    BY <2>4, FS_AddElement DEF Built
  <2> QED
    BY <1>1, <1>3, <2>1, <2>2, <2>3, <2>4, <2>5, RequestAssumption DEF Built
<1> QED
  BY <1>2, <1>3 DEF addContext

\* What is critical: everything that the claims, the device and the server say, of
\* these origins only, and a claim before the rest.
LEMMA CriticalFacts ==
  ASSUME NEW r, attributesRead(r)
  PROVE  LET critical == criticalAttributes(r)
         IN  /\ IsFiniteSet(DOMAIN critical) /\ \A k \in DOMAIN critical : Weighed(critical[k])
             /\ \A k \in DOMAIN critical : critical[k].from # "context"
             /\ (DOMAIN fixedAttributes \cup DOMAIN r.device) \ BadKeys \subseteq DOMAIN critical
             /\ \A k \in DOMAIN r.claims \ BadKeys :
                  r.claims[k].chars > 0 =>
                    k \in DOMAIN critical /\ critical[k].from = r.claims[k].from
<1> DEFINE c == normalisePairs(r.claims)
           d == normalisePairs(r.device)
           f == normalisePairs(fixedAttributes)
<1>1. /\ DOMAIN c = {k \in DOMAIN r.claims \ BadKeys : r.claims[k].chars > 0}
      /\ \A k \in DOMAIN c : c[k] = truncated(r.claims[k])
  BY DEF normalisePairs
<1>2. /\ DOMAIN d = {k \in DOMAIN r.device \ BadKeys : r.device[k].chars > 0}
      /\ \A k \in DOMAIN d : d[k] = truncated(r.device[k])
  BY DEF normalisePairs
<1>3. /\ DOMAIN f = {k \in DOMAIN fixedAttributes \ BadKeys : fixedAttributes[k].chars > 0}
      /\ \A k \in DOMAIN f : f[k] = truncated(fixedAttributes[k])
  BY DEF normalisePairs
<1>4. /\ DOMAIN fixedAttributes = {"source", "correlationId"}
      /\ \A k \in DOMAIN fixedAttributes :
           fixedAttributes[k] \in AttributeValues("server") /\ fixedAttributes[k].chars > 0
  BY DEF fixedAttributes, serverValue, AttributeValues
<1>5. /\ \A k \in DOMAIN c : Weighed(c[k]) /\ c[k].from = "claim" /\ r.claims[k].from = "claim"
      /\ \A k \in DOMAIN d : Weighed(d[k]) /\ d[k].from = "device"
      /\ \A k \in DOMAIN f : Weighed(f[k]) /\ f[k].from = "server"
  <2>1. /\ \A k \in DOMAIN c : r.claims[k] \in AttributeValues("claim")
        /\ \A k \in DOMAIN d : r.device[k] \in AttributeValues("device")
        /\ \A k \in DOMAIN f : fixedAttributes[k] \in AttributeValues("server")
    BY <1>1, <1>2, <1>3, <1>4 DEF attributesRead
  <2> HIDE DEF c, d, f
  <2> QED
    BY <1>1, <1>2, <1>3, <2>1, TruncatedWeighed DEF AttributeValues
<1>6. IsFiniteSet(DOMAIN c) /\ IsFiniteSet(DOMAIN d) /\ IsFiniteSet(DOMAIN f)
  <2>1. IsFiniteSet({"source", "correlationId"})
    <3>1. IsFiniteSet({"source"})
      BY FS_Singleton, Zenon
    <3>2. IsFiniteSet({"source"} \cup {"correlationId"})
      BY <3>1, FS_AddElement, Zenon
    <3>3. {"source", "correlationId"} = {"source"} \cup {"correlationId"}
      OBVIOUS
    <3> QED
      BY <3>2, <3>3, Zenon
  <2>2. /\ DOMAIN c \in SUBSET DOMAIN r.claims /\ DOMAIN d \in SUBSET DOMAIN r.device
        /\ DOMAIN f \in SUBSET {"source", "correlationId"}
    BY <1>1, <1>2, <1>3, <1>4
  <2> HIDE DEF c, d, f
  <2> QED
    BY <2>1, <2>2, FS_Subset DEF attributesRead
<1>7. criticalAttributes(r) = over(c, over(d, f))
  BY DEF criticalAttributes
<1>8. /\ DOMAIN criticalAttributes(r) = DOMAIN c \cup (DOMAIN d \cup DOMAIN f)
      /\ \A k \in DOMAIN criticalAttributes(r) :
           criticalAttributes(r)[k] = IF k \in DOMAIN c THEN c[k] ELSE IF k \in DOMAIN d THEN d[k] ELSE f[k]
  <2> HIDE DEF c, d, f
  <2> QED
    BY <1>7 DEF over
<1>9. DOMAIN d = DOMAIN r.device \ BadKeys /\ DOMAIN f = DOMAIN fixedAttributes \ BadKeys
  BY <1>2, <1>3, <1>4 DEF attributesRead
<1>10. IsFiniteSet(DOMAIN criticalAttributes(r))
  <2> HIDE DEF c, d, f
  <2> QED
    BY <1>6, <1>8, FS_Union
<1>11. \A k \in DOMAIN criticalAttributes(r) :
         Weighed(criticalAttributes(r)[k]) /\ criticalAttributes(r)[k].from # "context"
  <2> HIDE DEF c, d, f
  <2> QED
    BY <1>5, <1>8
<1>12. \A k \in DOMAIN r.claims \ BadKeys : r.claims[k].chars > 0 =>
         k \in DOMAIN criticalAttributes(r) /\ criticalAttributes(r)[k].from = r.claims[k].from
  <2>1. \A k \in DOMAIN r.claims \ BadKeys : r.claims[k].chars > 0 => k \in DOMAIN c
    BY <1>1
  <2> HIDE DEF c, d, f
  <2> QED
    BY <1>5, <1>8, <2>1
<1>13. (DOMAIN fixedAttributes \cup DOMAIN r.device) \ BadKeys \subseteq DOMAIN criticalAttributes(r)
  <2> HIDE DEF c, d, f
  <2> QED
    BY <1>8, <1>9
<1> QED
  BY <1>10, <1>11, <1>12, <1>13

----
(***************************************************************************)
(* The theorem                                                             *)
(***************************************************************************)

\* Whatever the context holds, and however long it is: what is critical stays as it
\* is, what is added is allowed, and it is added within the budget, byte for byte
\* (buildContactAttributes).
THEOREM AttributesBuilt ==
  ASSUME NEW r, attributesRead(r)
  PROVE  Built(buildContactAttributes(r), criticalAttributes(r))
<1> DEFINE critical == criticalAttributes(r)
           context == r.context
           l == Len(context)
<1>1. l \in Nat /\ \A i \in 1 .. l : context[i][2] \in AttributeValues("context")
  BY DEF attributesRead
<1>2. PICK m : merges(m, critical, context, l) /\ buildContactAttributes(r) = m[l]
  BY <1>1, Merged
<1> HIDE DEF critical, context, l
<1>3. \A n \in 0 .. l : m[n] = mergeStep(m, critical, context, n)
  BY <1>2, Zenon DEF merges
<1> DEFINE B == {n \in 0 .. l : ~Built(m[n], critical)}
<1>4. B = {}
  <2> SUFFICES ASSUME B # {} PROVE FALSE
    OBVIOUS
  <2>1. B \in SUBSET Nat
    BY <1>1
  <2>2. PICK n \in B : \A k \in B : n <= k
    BY <2>1, SmallestNumber
  <2>3. n # 0
    <3>1. m[0] = critical
      BY <1>1, <1>3 DEF mergeStep
    <3>2. Built(critical, critical)
      BY CriticalFacts DEF Built, critical
    <3> QED
      BY <2>2, <3>1, <3>2
  <2>4. n - 1 \in 0 .. l /\ n \in 1 .. l /\ n - 1 \notin B
    BY <1>1, <2>2, <2>3
  <2>5. m[n] = addContext(m[n - 1], critical, context[n])
    BY <1>3, <2>3, <2>4 DEF mergeStep
  <2>6. Built(m[n - 1], critical)
    BY <2>4
  <2> QED
    BY <1>1, <2>2, <2>4, <2>5, <2>6, AddKeeps
<1>5. l \in 0 .. l
  BY <1>1
<1> QED
  BY <1>2, <1>4, <1>5 DEF critical
====
