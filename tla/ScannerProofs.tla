----------------------------- MODULE ScannerProofs -----------------------------
(***************************************************************************)
(* Theorems about Scanner, for any projects and any order of their files.  *)
(***************************************************************************)
EXTENDS Scanner, Integers, Induction, SequenceTheorems, TLAPS

LEMMA IsSequence ==
    ASSUME NEW S, NEW n \in Nat, NEW s \in [1 .. n -> S]
    PROVE  s \in Seq(S) /\ Len(s) = n /\ DOMAIN s = 1 .. n
OBVIOUS

LEMMA OneOrNone ==
    ASSUME NEW S, NEW x \in S
    PROVE  <<x>> \in Seq(S) /\ <<>> \in Seq(S)
OBVIOUS

-----------------------------------------------------------------------------
(* Parts of sequences. *)

\* t lists the elements of s at the positions in I, in their order.
IsPart(t, s, I) ==
    \E at \in [1 .. Len(t) -> I] :
        /\ \A k \in 1 .. Len(t) : t[k] = s[at[k]]
        /\ \A j, k \in 1 .. Len(t) : j < k => at[j] < at[k]
        /\ \A i \in I : \E k \in 1 .. Len(t) : at[k] = i

\* One more position, after the others.
LEMMA PartGrows ==
    ASSUME NEW S, NEW s \in Seq(S), NEW t \in Seq(S), NEW I \in SUBSET (1 .. Len(s)),
           NEW n \in 1 .. Len(s), \A i \in I : i < n, IsPart(t, s, I)
    PROVE  IsPart(Append(t, s[n]), s, I \cup {n})
<1> DEFINE m == Len(t) + 1
           u == Append(t, s[n])
<1>1. /\ Len(t) \in Nat /\ Len(s) \in Nat /\ s[n] \in S
      /\ Len(u) = m
      /\ u[m] = s[n] /\ \A k \in 1 .. Len(t) : u[k] = t[k]
  OBVIOUS
<1>2. PICK at \in [1 .. Len(t) -> I] :
         /\ \A k \in 1 .. Len(t) : t[k] = s[at[k]]
         /\ \A j, k \in 1 .. Len(t) : j < k => at[j] < at[k]
         /\ \A i \in I : \E k \in 1 .. Len(t) : at[k] = i
  BY DEF IsPart
<1> DEFINE bt == [k \in 1 .. m |-> IF k = m THEN n ELSE at[k]]
<1>3. \A k \in 1 .. m : k = m \/ (k \in 1 .. Len(t) /\ k # m)
  BY <1>1
<1>4. bt \in [1 .. m -> I \cup {n}]
  BY <1>3
<1>5. bt[m] = n /\ \A k \in 1 .. Len(t) : k # m /\ k \in 1 .. m /\ bt[k] = at[k]
  BY <1>1
<1> HIDE DEF bt, u
<1>6. \A k \in 1 .. m : u[k] = s[bt[k]]
  BY <1>1, <1>2, <1>3, <1>5
<1>7. ASSUME NEW j \in 1 .. m, NEW k \in 1 .. m, j < k PROVE bt[j] < bt[k]
  <2>1. j \in 1 .. Len(t) /\ at[j] < n
    <3>1. j \in 1 .. Len(t)
      BY <1>1, <1>7
    <3> QED
      BY <1>2, <3>1
  <2>2. CASE k = m
    BY <1>5, <2>1, <2>2
  <2>3. CASE k # m
    BY <1>2, <1>3, <1>5, <1>7, <2>1, <2>3
  <2> QED
    BY <2>2, <2>3
<1>8. \A i \in I \cup {n} : \E k \in 1 .. m : bt[k] = i
  <2>1. m \in 1 .. m
    BY <1>1
  <2> QED
    BY <1>2, <1>5, <2>1
<1> HIDE DEF m
<1>9. /\ bt \in [1 .. Len(u) -> I \cup {n}]
      /\ \A k \in 1 .. Len(u) : u[k] = s[bt[k]]
      /\ \A j, k \in 1 .. Len(u) : j < k => bt[j] < bt[k]
      /\ \A i \in I \cup {n} : \E k \in 1 .. Len(u) : bt[k] = i
  BY <1>1, <1>4, <1>6, <1>7, <1>8
<1>10. IsPart(u, s, I \cup {n})
  BY <1>9, Zenon DEF IsPart
<1> QED
  BY <1>10 DEF u

PickSteps(s, I, kept) ==
    /\ kept[0] = <<>>
    /\ \A n \in 1 .. Len(s) :
          kept[n] = IF n \in I THEN Append(kept[n - 1], s[n]) ELSE kept[n - 1]

\* Pick takes the elements at the given positions, and no other.
LEMMA PickIsPart ==
    ASSUME NEW S, NEW s \in Seq(S), NEW I \in SUBSET (1 .. Len(s))
    PROVE  Pick(s, I) \in Seq(S) /\ IsPart(Pick(s, I), s, I)
<1> DEFINE m == Len(s)
           V == Seq(S)
           step == [n \in Nat |-> [t \in V |-> IF n \in I THEN Append(t, s[n]) ELSE t]]
           IsKept(g) == g = [n \in 0 .. m |->
                               IF n = 0 THEN <<>>
                               ELSE IF n \in I THEN Append(g[n - 1], s[n]) ELSE g[n - 1]]
           kept == CHOOSE h : IsKept(h)
<1>1. m \in Nat /\ <<>> \in V
  OBVIOUS
<1>2. step \in [Nat -> [V -> V]]
  <2>1. ASSUME NEW n \in Nat, NEW t \in V
        PROVE  (IF n \in I THEN Append(t, s[n]) ELSE t) \in V
    OBVIOUS
  <2> HIDE DEF V
  <2> QED
    BY <2>1
<1>3. PICK g \in [0 .. m -> V] : Recursion(g, m, <<>>, step)
  <2> HIDE DEF step, V, m
  <2> QED
    BY <1>1, <1>2, RecursionExists
<1>4. IsKept(g)
  <2> HIDE DEF V
  <2>1. ASSUME NEW n \in 1 .. m
        PROVE  g[n] = IF n \in I THEN Append(g[n - 1], s[n]) ELSE g[n - 1]
    <3>1. n \in Nat /\ n - 1 \in 0 .. m
      BY <1>1
    <3>2. g[n] = step[n][g[n - 1]]
      BY <1>3 DEF Recursion
    <3> QED
      BY <3>1, <3>2
  <2>2. g[0] = <<>>
    BY <1>3 DEF Recursion
  <2>3. \A n \in 0 .. m : n = 0 \/ n \in 1 .. m
    BY <1>1
  <2> HIDE DEF m
  <2> QED
    BY <2>1, <2>2, <2>3
<1>5. IsKept(kept)
  <2> HIDE DEF IsKept
  <2> QED
    BY <1>4
<1>6. Pick(s, I) = kept[m]
  BY DEF Pick
<1>7. kept[0] = <<>> /\ \A n \in 1 .. m :
         kept[n] = IF n \in I THEN Append(kept[n - 1], s[n]) ELSE kept[n - 1]
  <2>1. 0 \in 0 .. m /\ \A n \in 1 .. m : n \in 0 .. m /\ n # 0
    BY <1>1
  <2> HIDE DEF kept, m
  <2> QED
    BY <1>5, <2>1
<1> HIDE DEF kept, IsKept
<1> DEFINE Upto(n) == I \cap (1 .. n)
           T == {n \in 0 .. m : kept[n] \in Seq(S) /\ IsPart(kept[n], s, Upto(n))}
<1>8. 0 \in T
  <2>1. Upto(0) = {} /\ Len(<<>>) = 0 /\ 1 .. 0 = {}
    OBVIOUS
  <2>2. [k \in {} |-> 0] \in [{} -> {}]
    OBVIOUS
  <2>3. IsPart(<<>>, s, {})
    BY <2>1, <2>2 DEF IsPart
  <2>4. 0 \in 0 .. m
    BY <1>1
  <2> HIDE DEF Upto, m
  <2> QED
    BY <1>1, <1>7, <2>1, <2>3, <2>4
<1>9. ASSUME NEW n \in 0 .. m - 1, n \in T PROVE n + 1 \in T
  <2>1. n + 1 \in 1 .. m /\ n + 1 \in 0 .. m /\ (n + 1) - 1 = n
    BY <1>1
  <2>2. kept[n] \in Seq(S) /\ IsPart(kept[n], s, Upto(n))
    BY <1>9
  <2>3. CASE n + 1 \in I
    <3>1. kept[n + 1] = Append(kept[n], s[n + 1])
      BY <1>7, <2>1, <2>3
    <3>2. Upto(n + 1) = Upto(n) \cup {n + 1}
      BY <2>1, <2>3
    <3>3. Upto(n) \in SUBSET (1 .. Len(s)) /\ \A i \in Upto(n) : i < n + 1
      BY <2>1
    <3> HIDE DEF Upto
    <3>4. IsPart(Append(kept[n], s[n + 1]), s, Upto(n) \cup {n + 1})
      BY <2>1, <2>2, <3>3, PartGrows
    <3>5. kept[n + 1] \in Seq(S)
      BY <2>1, <2>2, <3>1
    <3> QED
      BY <2>1, <3>1, <3>2, <3>4, <3>5
  <2>4. CASE n + 1 \notin I
    <3>1. kept[n + 1] = kept[n]
      BY <1>7, <2>1, <2>4
    <3>2. Upto(n + 1) = Upto(n)
      BY <2>1, <2>4
    <3> HIDE DEF Upto
    <3> QED
      BY <2>1, <2>2, <3>1, <3>2
  <2> QED
    BY <2>3, <2>4
<1>10. 0 .. m \subseteq T
  <2> HIDE DEF T, m
  <2> QED
    BY <1>1, <1>8, <1>9, IntervalInSet
<1>11. m \in T /\ Upto(m) = I
  <2>1. m \in 0 .. m
    BY <1>1
  <2> QED
    BY <1>10, <2>1
<1> QED
  BY <1>6, <1>11

LEMMA PartElements ==
    ASSUME NEW s, NEW I, NEW t, IsPart(t, s, I)
    PROVE  /\ \A k \in 1 .. Len(t) : \E i \in I : t[k] = s[i]
           /\ \A i \in I : \E k \in 1 .. Len(t) : t[k] = s[i]
BY DEF IsPart

\* u has the elements of found that no earlier one has the name of.
IsFirstOf(u, found) ==
    /\ \A j, k \in DOMAIN u : u[j].name = u[k].name => j = k
    /\ \A k \in DOMAIN u : \E i \in DOMAIN found : u[k] = found[i]
    /\ \A i \in DOMAIN found : \E k \in DOMAIN u, j \in 1 .. i :
          u[k] = found[j] /\ found[j].name = found[i].name

\* Deduplication keeps the first finding of every name, once.
LEMMA FirstOfKeepsFirst ==
    ASSUME NEW S, NEW found \in Seq(S)
    PROVE  FirstOf(found) \in Seq(S) /\ IsFirstOf(FirstOf(found), found)
<1> DEFINE I == {i \in DOMAIN found : \A k \in 1 .. i - 1 : found[k].name # found[i].name}
           u == FirstOf(found)
<1>1. Len(found) \in Nat /\ DOMAIN found = 1 .. Len(found) /\ I \in SUBSET (1 .. Len(found))
  OBVIOUS
<1>2. u = Pick(found, I)
  BY DEF FirstOf
<1>3. \A i \in I : \A k \in 1 .. i - 1 : found[k].name # found[i].name
  OBVIOUS
<1>4. \A i \in DOMAIN found : (\A k \in 1 .. i - 1 : found[k].name # found[i].name) => i \in I
  OBVIOUS
<1> HIDE DEF I, u
<1>5. u \in Seq(S) /\ IsPart(u, found, I)
  BY <1>1, <1>2, PickIsPart
<1>6. DOMAIN u = 1 .. Len(u) /\ Len(u) \in Nat
  BY <1>5
<1>7. ASSUME NEW j \in DOMAIN u, NEW k \in DOMAIN u, j < k PROVE u[j].name # u[k].name
  <2>1. PICK at \in [1 .. Len(u) -> I] :
           /\ \A n \in 1 .. Len(u) : u[n] = found[at[n]]
           /\ \A a, b \in 1 .. Len(u) : a < b => at[a] < at[b]
    BY <1>5 DEF IsPart
  <2>2. at[j] \in I /\ at[k] \in I /\ at[j] < at[k] /\ u[j] = found[at[j]] /\ u[k] = found[at[k]]
    BY <1>6, <1>7, <2>1
  <2>3. at[j] \in 1 .. at[k] - 1
    BY <1>1, <2>2
  <2> QED
    BY <1>3, <2>2, <2>3
<1>8. \A j, k \in DOMAIN u : u[j].name = u[k].name => j = k
  <2>1. \A j, k \in DOMAIN u : j = k \/ j < k \/ k < j
    BY <1>6
  <2> QED
    BY <1>7, <2>1
<1>9. ASSUME NEW i \in DOMAIN found
      PROVE  \E k \in DOMAIN u, j \in 1 .. i : u[k] = found[j] /\ found[j].name = found[i].name
  <2> DEFINE T == {j \in 1 .. i : found[j].name = found[i].name}
  <2>1. T \in SUBSET Nat /\ i \in T
    BY <1>1
  <2>2. PICK j \in T : \A k \in T : j <= k
    <3> HIDE DEF T
    <3> QED
      BY <2>1, LeastElement
  <2>3. j \in 1 .. i /\ j \in DOMAIN found /\ found[j].name = found[i].name
    BY <1>1, <2>2
  <2>4. \A k \in 1 .. j - 1 : k \in 1 .. i /\ ~(j <= k)
    BY <1>1, <2>3
  <2>5. \A k \in 1 .. j - 1 : found[k].name # found[j].name
    BY <2>2, <2>3, <2>4
  <2>6. j \in I
    BY <1>4, <2>3, <2>5
  <2>7. PICK k \in 1 .. Len(u) : u[k] = found[j]
    BY <1>5, <2>6, PartElements
  <2> QED
    BY <1>6, <2>3, <2>7
<1>10. \A k \in DOMAIN u : \E i \in DOMAIN found : u[k] = found[i]
  BY <1>1, <1>5, <1>6, PartElements
<1>11. IsFirstOf(u, found)
  BY <1>8, <1>9, <1>10 DEF IsFirstOf
<1> QED
  BY <1>5, <1>11 DEF u

-----------------------------------------------------------------------------
(* What a file yields. *)

LEMMA InferPlatformType == \A hints : InferPlatform(hints) \in ToSet(PlatformOrder) \cup {"unknown"}
<1> SUFFICES ASSUME NEW hints PROVE InferPlatform(hints) \in ToSet(PlatformOrder) \cup {"unknown"}
  OBVIOUS
<1> DEFINE S == ToSet(PlatformOrder)
           I == {i \in DOMAIN PlatformOrder : PlatformOrder[i] \in hints}
           found == Pick(PlatformOrder, I)
<1>1. PlatformOrder \in Seq(S) /\ I \in SUBSET (1 .. Len(PlatformOrder))
  <2>1. DOMAIN PlatformOrder = 1 .. 10 /\ Len(PlatformOrder) = 10
    BY DEF PlatformOrder
  <2>2. PlatformOrder \in [1 .. 10 -> S]
    BY <2>1 DEF ToSet, PlatformOrder
  <2> QED
    BY <2>1, <2>2, IsSequence
<1>2. found \in Seq(S)
  <2> HIDE DEF S, I
  <2> QED
    BY <1>1, PickIsPart
<1>3. InferPlatform(hints) = IF found = <<>> THEN "unknown" ELSE Head(found)
  BY DEF InferPlatform
<1> HIDE DEF found, S
<1>4. found # <<>> => Head(found) \in S
  BY <1>2
<1> QED
  BY <1>3, <1>4 DEF S

LEMMA SlugifyNotEmpty == \A s : Slugify(s) # <<>>
BY DEF Slugify

\* What the scanners report of a connection found in f: a name, and the properties
\* its platform requires only if they are Kafka's.
Finding(f) ==
    {c \in [name: (Names \ {<<>>}), platform: ToSet(PlatformOrder) \cup {"unknown"}, props: Props,
            host: Hosts \cup {NULL}, source: {f}] :
        c.props = "empty" \/ (c.props = "kafka" /\ c.platform = "kafka")}

\* A line the dict keeps is one of the file.
LEMMA VariablesAreLines ==
    ASSUME NEW f \in Files, f.kind = "env", NEW var
    PROVE  Variables(f, var) \in Seq(Lines)
<1> DEFINE m == Len(f.lines)
           V == Seq(Lines)
           step == [n \in Nat |-> [t \in V |-> IF n \in 1 .. m /\ f.lines[n].var = var
                                               THEN Put(t, f.lines[n]) ELSE t]]
           IsDict(g) == g = [n \in 0 .. m |->
                               IF n = 0 THEN <<>>
                               ELSE IF f.lines[n].var = var THEN Put(g[n - 1], f.lines[n])
                               ELSE g[n - 1]]
           dict == CHOOSE h : IsDict(h)
<1>1. f.lines \in Seq(Lines)
  BY DEF Files
<1>2. m \in Nat /\ <<>> \in V /\ \A n \in 1 .. m : f.lines[n] \in Lines
  BY <1>1
<1>3. ASSUME NEW t \in V, NEW e \in Lines PROVE Put(t, e) \in V
  <2>1. CASE \E i \in DOMAIN t : t[i].prefix = e.prefix
    <3> DEFINE u == [i \in DOMAIN t |-> IF t[i].prefix = e.prefix THEN e ELSE t[i]]
    <3>1. Len(t) \in Nat /\ DOMAIN t = 1 .. Len(t) /\ \A i \in 1 .. Len(t) : t[i] \in Lines
      OBVIOUS
    <3>2. u \in [1 .. Len(t) -> Lines]
      BY <3>1
    <3>3. u \in Seq(Lines)
      <4> HIDE DEF u
      <4> QED
        BY <3>1, <3>2, IsSequence
    <3> QED
      BY <2>1, <3>3 DEF Put
  <2>2. CASE ~\E i \in DOMAIN t : t[i].prefix = e.prefix
    BY <2>2 DEF Put
  <2> QED
    BY <2>1, <2>2
<1>4. step \in [Nat -> [V -> V]]
  <2>1. ASSUME NEW n \in Nat, NEW t \in V
        PROVE  (IF n \in 1 .. m /\ f.lines[n].var = var THEN Put(t, f.lines[n]) ELSE t) \in V
    BY <1>2, <1>3
  <2> HIDE DEF V
  <2> QED
    BY <2>1
<1>5. PICK g \in [0 .. m -> V] : Recursion(g, m, <<>>, step)
  <2> HIDE DEF step, V, m
  <2> QED
    BY <1>2, <1>4, RecursionExists
<1>6. IsDict(g)
  <2> HIDE DEF V
  <2>1. ASSUME NEW n \in 1 .. m
        PROVE  g[n] = IF f.lines[n].var = var THEN Put(g[n - 1], f.lines[n]) ELSE g[n - 1]
    <3>1. n \in Nat /\ n - 1 \in 0 .. m
      BY <1>2
    <3>2. g[n] = step[n][g[n - 1]]
      BY <1>5 DEF Recursion
    <3> QED
      BY <3>1, <3>2
  <2>2. g[0] = <<>>
    BY <1>5 DEF Recursion
  <2>3. \A n \in 0 .. m : n = 0 \/ n \in 1 .. m
    BY <1>2
  <2> HIDE DEF m
  <2> QED
    BY <2>1, <2>2, <2>3
<1>7. IsDict(dict)
  <2> HIDE DEF IsDict
  <2> QED
    BY <1>6
<1>8. Variables(f, var) = dict[m]
  BY DEF Variables
<1>9. dict[0] = <<>> /\ \A n \in 1 .. m :
         dict[n] = IF f.lines[n].var = var THEN Put(dict[n - 1], f.lines[n]) ELSE dict[n - 1]
  <2>1. 0 \in 0 .. m /\ \A n \in 1 .. m : n \in 0 .. m /\ n # 0
    BY <1>2
  <2> HIDE DEF dict, m
  <2> QED
    BY <1>7, <2>1
<1> HIDE DEF dict, IsDict
<1> DEFINE T == {n \in 0 .. m : dict[n] \in V}
<1>10. 0 \in T
  <2>1. 0 \in 0 .. m
    BY <1>2
  <2> HIDE DEF V, m
  <2> QED
    BY <1>2, <1>9, <2>1
<1>11. ASSUME NEW n \in 0 .. m - 1, n \in T PROVE n + 1 \in T
  <2>1. n + 1 \in 1 .. m /\ n + 1 \in 0 .. m /\ (n + 1) - 1 = n
    BY <1>2
  <2> HIDE DEF V, m
  <2> QED
    BY <1>2, <1>3, <1>9, <1>11, <2>1
<1>12. 0 .. m \subseteq T
  <2> HIDE DEF T, m
  <2> QED
    BY <1>2, <1>10, <1>11, IntervalInSet
<1>13. m \in 0 .. m
  BY <1>2
<1> QED
  BY <1>8, <1>12, <1>13

LEMMA FilesTyped == ASSUME NEW p \in Projects, NEW f \in p PROVE f \in Files
BY ScannerAssumption

LEMMA FoundNames ==
    ASSUME NEW p \in Projects, NEW f \in p
    PROVE  /\ f.kind = "env" => NamesOf(FromEnv(f)) \subseteq Names
           /\ f.kind = "compose" => NamesOf(FromCompose(f)) \subseteq Names
BY DEF Names, AllFound

LEMMA FromEnvType ==
    ASSUME NEW p \in Projects, NEW f \in p, f.kind = "env"
    PROVE  FromEnv(f) \in Seq(Finding(f))
<1> DEFINE all == Variables(f, "url")
           urls == Pick(all, {i \in DOMAIN all : all[i].parses})
           brokers == Variables(f, "brokers")
           one(i) == Found(Slugify(<<InferPlatform(urls[i].hints), "-">> \o urls[i].prefix),
                           InferPlatform(urls[i].hints), "empty", urls[i].host, f)
           two(i) == Found(Slugify(<<"kafka", "-">> \o brokers[i].prefix), "kafka", "kafka", NULL, f)
           u == [i \in DOMAIN urls |-> one(i)]
           b == [i \in DOMAIN brokers |-> two(i)]
           N == {one(i).name : i \in DOMAIN urls} \cup {two(i).name : i \in DOMAIN brokers}
           V == {c \in [name: N, platform: ToSet(PlatformOrder) \cup {"unknown"}, props: Props,
                        host: Hosts \cup {NULL}, source: {f}] :
                    c.props = "empty" \/ (c.props = "kafka" /\ c.platform = "kafka")}
<1>1. f \in Files
  BY FilesTyped
<1>2. all \in Seq(Lines) /\ brokers \in Seq(Lines)
  BY <1>1, VariablesAreLines
<1>3. urls \in Seq(Lines)
  <2>1. {i \in DOMAIN all : all[i].parses} \in SUBSET (1 .. Len(all))
    BY <1>2
  <2> QED
    BY <1>2, <2>1, PickIsPart
<1>4. FromEnv(f) = u \o b
  BY DEF FromEnv
<1> HIDE DEF all, urls, brokers
<1>5. /\ Len(urls) \in Nat /\ DOMAIN urls = 1 .. Len(urls)
      /\ Len(brokers) \in Nat /\ DOMAIN brokers = 1 .. Len(brokers)
      /\ \A i \in DOMAIN urls : urls[i].host \in Hosts \cup {NULL}
  <2>1. \A e \in Lines : e.host \in Hosts \cup {NULL}
    BY DEF Lines
  <2> QED
    BY <1>2, <1>3, <2>1
<1>6. "kafka" \in ToSet(PlatformOrder) /\ {"empty", "kafka"} \subseteq Props
  BY DEF ToSet, PlatformOrder, Props, Strict
<1>7. \A i \in DOMAIN urls : one(i) \in V
  BY <1>5, <1>6, InferPlatformType DEF Found
<1>8. \A i \in DOMAIN brokers : two(i) \in V
  BY <1>6 DEF Found
<1>9. \A n \in N : n # <<>>
  BY SlugifyNotEmpty DEF Found
<1> HIDE DEF one, two, N
<1>10. u \in Seq(V) /\ b \in Seq(V)
  <2>1. u \in [1 .. Len(urls) -> V] /\ b \in [1 .. Len(brokers) -> V]
    BY <1>5, <1>7, <1>8
  <2> HIDE DEF u, b, V
  <2> QED
    BY <1>5, <2>1, IsSequence
<1>11. FromEnv(f) \in Seq(V)
  <2> HIDE DEF u, b, V
  <2> QED
    BY <1>4, <1>10, ConcatProperties
<1>12. Len(FromEnv(f)) \in Nat /\ DOMAIN FromEnv(f) = 1 .. Len(FromEnv(f))
       /\ \A i \in DOMAIN FromEnv(f) : FromEnv(f)[i] \in V
  BY <1>11
<1>13. \A i \in DOMAIN FromEnv(f) : FromEnv(f)[i].name \in Names
  BY FoundNames DEF NamesOf
<1>14. \A i \in DOMAIN FromEnv(f) : FromEnv(f)[i] \in Finding(f)
  BY <1>9, <1>12, <1>13 DEF Finding
<1>15. FromEnv(f) \in [1 .. Len(FromEnv(f)) -> Finding(f)]
  <2>1. FromEnv(f) = [i \in DOMAIN FromEnv(f) |-> FromEnv(f)[i]]
    BY <1>11
  <2> QED
    BY <1>12, <1>14, <2>1
<1> QED
  BY <1>12, <1>15, IsSequence

LEMMA FromComposeType ==
    ASSUME NEW p \in Projects, NEW f \in p, f.kind = "compose"
    PROVE  FromCompose(f) \in Seq(Finding(f))
<1> DEFINE I == {i \in Reached(f) : InferPlatform(f.services[i].hints) # "unknown"}
           kept == Pick(f.services, I)
           one(i) == Found(Slugify(kept[i].name), InferPlatform(kept[i].hints), "empty",
                           kept[i].host, f)
           u == [i \in DOMAIN kept |-> one(i)]
<1>1. f.services \in Seq(Services)
  BY FilesTyped DEF Files
<1>2. I \in SUBSET (1 .. Len(f.services))
  BY <1>1 DEF Reached
<1>3. kept \in Seq(Services)
  <2> HIDE DEF I
  <2> QED
    BY <1>1, <1>2, PickIsPart
<1>4. FromCompose(f) = u
  BY DEF FromCompose
<1> HIDE DEF kept
<1>5. /\ Len(kept) \in Nat /\ DOMAIN kept = 1 .. Len(kept)
      /\ \A i \in DOMAIN kept : kept[i].host \in Hosts
  <2>1. \A e \in Services : e.host \in Hosts
    BY DEF Services
  <2> QED
    BY <1>3, <2>1
<1>6. \A i \in DOMAIN kept : u[i] = one(i) /\ u[i].name \in Names
  BY <1>4, FoundNames DEF NamesOf
<1>7. ASSUME NEW i \in DOMAIN kept PROVE one(i) \in Finding(f)
  <2>1. one(i).name \in Names
    BY <1>6
  <2>2. one(i).name # <<>>
    BY SlugifyNotEmpty DEF Found
  <2>3. "empty" \in Props
    BY DEF Props
  <2> QED
    BY <1>5, <2>1, <2>2, <2>3, InferPlatformType DEF Found, Finding
<1>8. u \in [1 .. Len(kept) -> Finding(f)]
  BY <1>5, <1>7
<1> QED
  <2> HIDE DEF u
  <2> QED
    BY <1>4, <1>5, <1>8, IsSequence

-----------------------------------------------------------------------------
(* The inputs and outputs of a Python file. *)

\* What _infer_io finds in the first n mentions: in a file that reads, every table
\* as an input, and one mentioned again as an output too.
InputsOf(f, known, n) ==
    IF f.reads THEN {Dataset(f.mentions[i], known) : i \in 1 .. n} ELSE {}
OutputsOf(f, known, n) ==
    IF ~f.writes THEN {}
    ELSE {Dataset(f.mentions[i], known) :
             i \in {k \in 1 .. n : f.reads => \E l \in 1 .. k - 1 :
                       Dataset(f.mentions[l], known) = Dataset(f.mentions[k], known)}}

LEMMA InferIoFinds ==
    ASSUME NEW f \in Files, f.kind = "py", NEW known
    PROVE  InferIo(f, known) = [inputs |-> InputsOf(f, known, Len(f.mentions)),
                                outputs |-> OutputsOf(f, known, Len(f.mentions))]
<1> DEFINE m == Len(f.mentions)
           D == {Dataset(f.mentions[i], known) : i \in 1 .. m}
           V == [inputs: SUBSET D, outputs: SUBSET D]
           base == [inputs |-> {}, outputs |-> {}]
           place(d, io) == IF f.reads /\ d \notin io.inputs THEN [io EXCEPT !.inputs = @ \cup {d}]
                           ELSE IF f.writes THEN [io EXCEPT !.outputs = @ \cup {d}] ELSE io
           ds(n) == Dataset(f.mentions[n], known)
           step == [n \in Nat |-> [t \in V |-> IF n \in 1 .. m THEN place(ds(n), t) ELSE t]]
           IsIo(g) == g = [n \in 0 .. m |-> IF n = 0 THEN base ELSE place(ds(n), g[n - 1])]
           io == CHOOSE h : IsIo(h)
<1>1. m \in Nat
  BY DEF Files
<1>2. \A n \in 1 .. m : ds(n) \in D
  OBVIOUS
<1> HIDE DEF D
<1>3. base \in V /\ \A d \in D, t \in V : place(d, t) \in V
  OBVIOUS
<1>4. step \in [Nat -> [V -> V]]
  <2> HIDE DEF V, place, ds
  <2> QED
    BY <1>2, <1>3
<1>5. PICK g \in [0 .. m -> V] : Recursion(g, m, base, step)
  <2> HIDE DEF step, V, m, base
  <2> QED
    BY <1>1, <1>3, <1>4, RecursionExists
<1>6. IsIo(g)
  <2> HIDE DEF V, place, ds, base
  <2>1. ASSUME NEW n \in 1 .. m PROVE g[n] = place(ds(n), g[n - 1])
    <3>1. n \in Nat /\ n - 1 \in 0 .. m
      BY <1>1
    <3>2. g[n] = step[n][g[n - 1]]
      BY <1>5 DEF Recursion
    <3> QED
      BY <3>1, <3>2
  <2>2. g[0] = base
    BY <1>5 DEF Recursion
  <2>3. \A n \in 0 .. m : n = 0 \/ n \in 1 .. m
    BY <1>1
  <2> HIDE DEF m
  <2> QED
    BY <2>1, <2>2, <2>3
<1>7. IsIo(io)
  <2> HIDE DEF IsIo
  <2> QED
    BY <1>6
<1>8. InferIo(f, known) = io[m]
  BY DEF InferIo
<1>9. io[0] = base /\ \A n \in 1 .. m : io[n] = place(ds(n), io[n - 1])
  <2>1. 0 \in 0 .. m /\ \A n \in 1 .. m : n \in 0 .. m /\ n # 0
    BY <1>1
  <2> HIDE DEF io, m, place, ds, base
  <2> QED
    BY <1>7, <2>1
<1> HIDE DEF io, IsIo
<1> DEFINE is(n) == [inputs |-> InputsOf(f, known, n), outputs |-> OutputsOf(f, known, n)]
           T == {n \in 0 .. m : io[n] = is(n)}
<1>10. 0 \in T
  <2>1. is(0) = base
    <3>1. 1 .. 0 = {}
      OBVIOUS
    <3> QED
      BY <3>1 DEF InputsOf, OutputsOf
  <2>2. 0 \in 0 .. m
    BY <1>1
  <2> HIDE DEF is, base, m
  <2> QED
    BY <1>9, <2>1, <2>2
<1>11. ASSUME NEW n \in 0 .. m - 1, n \in T PROVE n + 1 \in T
  <2>1. n \in Nat /\ n + 1 \in 1 .. m /\ n + 1 \in 0 .. m /\ (n + 1) - 1 = n
    BY <1>1
  <2>2. \A i \in 1 .. n + 1 : i = n + 1 \/ i \in 1 .. n
    BY <2>1
  <2>3. n + 1 \in 1 .. n + 1 /\ \A i \in 1 .. n : i \in 1 .. n + 1 /\ i # n + 1
    BY <2>1
  <2>4. io[n + 1] = place(ds(n + 1), is(n))
    <3> HIDE DEF place, ds, is
    <3> QED
      BY <1>9, <1>11, <2>1
  <2>5. InputsOf(f, known, n + 1) = IF f.reads THEN InputsOf(f, known, n) \cup {ds(n + 1)} ELSE {}
    BY <2>2, <2>3 DEF InputsOf
  <2>6. f.reads => (ds(n + 1) \in InputsOf(f, known, n) <=> \E l \in 1 .. n : ds(l) = ds(n + 1))
    BY DEF InputsOf
  <2>7. OutputsOf(f, known, n + 1) =
           IF f.writes /\ (f.reads => ds(n + 1) \in InputsOf(f, known, n))
             THEN OutputsOf(f, known, n) \cup {ds(n + 1)} ELSE OutputsOf(f, known, n)
    BY <2>1, <2>2, <2>3, <2>6 DEF OutputsOf
  <2>8. place(ds(n + 1), is(n)) = is(n + 1)
    <3> HIDE DEF ds
    <3>1. ~f.reads => InputsOf(f, known, n) = {}
      BY DEF InputsOf
    <3>2. ds(n + 1) \in InputsOf(f, known, n)
             => InputsOf(f, known, n) \cup {ds(n + 1)} = InputsOf(f, known, n)
      OBVIOUS
    <3> QED
      BY <2>5, <2>7, <3>1, <3>2
  <2> HIDE DEF is, place, ds
  <2> QED
    BY <2>1, <2>4, <2>8
<1>12. 0 .. m \subseteq T
  <2> HIDE DEF T, m
  <2> QED
    BY <1>1, <1>10, <1>11, IntervalInSet
<1>13. m \in 0 .. m
  BY <1>1
<1> QED
  BY <1>8, <1>12, <1>13

-----------------------------------------------------------------------------
(* The order of the scanners. *)

Phases == {"env", "compose", "python", "dags", "publish"}

LEMMA ScannersAre ==
    /\ DOMAIN Scanners = 1 .. 4 /\ Len(Scanners) = 4
    /\ Scanners[1] = "env" /\ Scanners[2] = "compose" /\ Scanners[3] = "python" /\ Scanners[4] = "dags"
    /\ ToSet(Scanners) = {"env", "compose", "python", "dags"}
<1>1. /\ DOMAIN Scanners = 1 .. 4 /\ Len(Scanners) = 4
      /\ Scanners[1] = "env" /\ Scanners[2] = "compose" /\ Scanners[3] = "python" /\ Scanners[4] = "dags"
  BY DEF Scanners
<1>2. \A i \in 1 .. 4 : i = 1 \/ i = 2 \/ i = 3 \/ i = 4
  OBVIOUS
<1>3. 1 \in 1 .. 4 /\ 2 \in 1 .. 4 /\ 3 \in 1 .. 4 /\ 4 \in 1 .. 4
  OBVIOUS
<1> QED
  BY <1>1, <1>2, <1>3 DEF ToSet

\* The scanners that have ended.
Past(ph) == CASE ph = "env"     -> {}
              [] ph = "compose" -> {"env"}
              [] ph = "python"  -> {"env", "compose"}
              [] ph = "dags"    -> {"env", "compose", "python"}
              [] OTHER          -> {"env", "compose", "python", "dags"}

\* A scanner has visited a file, or has left it.
Done(scanner, f) == scanner \in Past(phase) \/ (phase = scanner /\ f \notin todo)

LEMMA EndScannerIs ==
    ASSUME NEW k \in DOMAIN Scanners, EndScanner(k)
    PROVE  /\ \/ phase = "env" /\ phase' = "compose"
              \/ phase = "compose" /\ phase' = "python"
              \/ phase = "python" /\ phase' = "dags"
           /\ Past(phase') = Past(phase) \cup {phase}
           /\ todo = {} /\ todo' = {f \in project : Covers(phase', f)}
           /\ UNCHANGED <<project, conns, jobs, missed, push>>
<1>1. k = 1 \/ k = 2 \/ k = 3
  BY ScannersAre DEF EndScanner
<1>2. \/ phase = "env" /\ phase' = "compose"
      \/ phase = "compose" /\ phase' = "python"
      \/ phase = "python" /\ phase' = "dags"
  BY <1>1, ScannersAre DEF EndScanner
<1> QED
  BY <1>2 DEF EndScanner, Past

LEMMA CoversKinds ==
    ASSUME NEW f, NEW scanner, Covers(scanner, f)
    PROVE  /\ scanner \in {"env", "compose", "python", "dags"}
           /\ scanner \in {"env", "compose"} => f.kind = scanner
           /\ scanner \in {"python", "dags"} => f.kind = "py"
<1>1. ~Covers("publish", f)
  BY DEF Covers
<1> QED
  BY <1>1 DEF Covers

-----------------------------------------------------------------------------
(* Types. *)

Findings(p) == UNION {Finding(f) : f \in {g \in p : g.kind # "py"}}
JobsIn(p)   == [name: JobNames, inputs: SUBSET [ns: Names, table: Tables],
                outputs: SUBSET [ns: Names, table: Tables], source: p]
Answers     == {"201", "202", "409", "422", "500", "lost", NULL}

TypeInv ==
    /\ project \in Projects /\ phase \in Phases
    /\ todo \subseteq {f \in project : Covers(phase, f)}
    /\ conns \in Seq(Findings(project))
    /\ jobs \in Seq(JobsIn(project))
    /\ missed \subseteq [scanner: ToSet(Scanners), file: project, why: {"unreadable", "left"}]
    /\ table \in [Names -> Rows \cup {NULL}] /\ edges \subseteq Edge
    /\ told \in Seq(Answers) /\ next \in 1 .. Len(told) + 1
    /\ IF phase = "publish" THEN Len(told) = Len(conns) + Len(jobs) ELSE next = 1

LEMMA NamesOfTyped ==
    ASSUME NEW p, NEW s \in Seq(Findings(p))
    PROVE  NamesOf(s) \subseteq Names
<1>1. \A c \in Findings(p) : c.name \in Names
  BY DEF Findings, Finding
<1> QED
  BY <1>1 DEF NamesOf

LEMMA MentionedTables ==
    ASSUME NEW p \in Projects, NEW f \in p, f.kind = "py"
    PROVE  {f.mentions[i].table : i \in DOMAIN f.mentions} \subseteq Tables
BY DEF Tables

LEMMA FromPythonType ==
    ASSUME NEW p \in Projects, NEW f \in p, f.kind = "py", NEW known, known \subseteq Names
    PROVE  FromPython(f, known) \in Seq(JobsIn(p))
<1> DEFINE D == [ns: Names, table: Tables]
           n == Len(f.mentions)
           io == InferIo(f, known)
           j == Job(Slugify(f.stem), io, f)
<1>1. f \in Files
  BY FilesTyped
<1>2. n \in Nat /\ DOMAIN f.mentions = 1 .. n
  BY <1>1 DEF Files
<1>3. \A i \in 1 .. n : Dataset(f.mentions[i], known) \in D
  <2>1. \A i \in 1 .. n : f.mentions[i].table \in Tables
    BY <1>2, MentionedTables
  <2> QED
    BY <2>1 DEF Dataset, Names
<1>4. InputsOf(f, known, n) \subseteq D /\ OutputsOf(f, known, n) \subseteq D
  BY <1>2, <1>3 DEF InputsOf, OutputsOf
<1>5. io.inputs \subseteq D /\ io.outputs \subseteq D
  BY <1>1, <1>4, InferIoFinds
<1>6. Slugify(f.stem) \in JobNames
  BY DEF JobNames
<1> HIDE DEF D, io
<1>7. j \in JobsIn(p)
  BY <1>5, <1>6 DEF Job, JobsIn, D
<1>8. FromPython(f, known) = <<j>> \/ FromPython(f, known) = <<>>
  BY DEF FromPython, io
<1> HIDE DEF j
<1>9. <<j>> \in Seq(JobsIn(p)) /\ <<>> \in Seq(JobsIn(p))
  BY <1>7, OneOrNone
<1> QED
  BY <1>8, <1>9

LEMMA FromDagType ==
    ASSUME NEW p \in Projects, NEW f \in p, f.kind = "py"
    PROVE  FromDag(f) \in Seq(JobsIn(p))
<1> DEFINE tables == {f.mentions[i].table : i \in {k \in DOMAIN f.mentions : f.mentions[k].by # "table"}}
           side(T) == {[ns |-> Home, table |-> t] : t \in T}
           j == Job(f.dag, [inputs |-> side(tables \cap SourceLike),
                            outputs |-> side(tables \ SourceLike)], f)
<1>1. tables \subseteq Tables
  BY MentionedTables
<1>2. side(tables \cap SourceLike) \subseteq [ns: Names, table: Tables]
      /\ side(tables \ SourceLike) \subseteq [ns: Names, table: Tables]
  BY <1>1 DEF Names
<1>3. f.dag # NULL => f.dag \in JobNames
  BY DEF JobNames
<1>4. f.dag # NULL => j \in JobsIn(p)
  <2> HIDE DEF side
  <2> QED
    BY <1>2, <1>3 DEF Job, JobsIn
<1>5. FromDag(f) = <<>> \/ (f.dag # NULL /\ FromDag(f) = <<j>>)
  BY DEF FromDag
<1> HIDE DEF j
<1>6. <<>> \in Seq(JobsIn(p))
  OBVIOUS
<1>7. f.dag # NULL => <<j>> \in Seq(JobsIn(p))
  BY <1>4, OneOrNone
<1> QED
  BY <1>5, <1>6, <1>7

LEMMA WiderSeq ==
    ASSUME NEW S, NEW T, S \subseteq T, NEW s \in Seq(S)
    PROVE  s \in Seq(T)
<1>1. Len(s) \in Nat /\ DOMAIN s = 1 .. Len(s) /\ \A i \in 1 .. Len(s) : s[i] \in T
  OBVIOUS
<1>2. s = [i \in 1 .. Len(s) |-> s[i]]
  OBVIOUS
<1>3. s \in [1 .. Len(s) -> T]
  BY <1>1, <1>2
<1> QED
  BY <1>1, <1>3, IsSequence

LEMMA YieldType ==
    ASSUME NEW p \in Projects, NEW f \in p
    PROVE  /\ f.kind = "env" => FromEnv(f) \in Seq(Findings(p))
           /\ f.kind = "compose" => FromCompose(f) \in Seq(Findings(p))
<1>1. f.kind # "py" => Finding(f) \subseteq Findings(p)
  BY DEF Findings
<1>2. f.kind = "env" => FromEnv(f) \in Seq(Findings(p))
  BY <1>1, FromEnvType, WiderSeq
<1>3. f.kind = "compose" => FromCompose(f) \in Seq(Findings(p))
  BY <1>1, FromComposeType, WiderSeq
<1> QED
  BY <1>2, <1>3

\* The rows that requests write.
LEMMA RowsWritten ==
    /\ \A r \in Rows \cup {NULL} : UpsertMinimal(r) \in Rows
    /\ \A p \in Projects : \A c \in Findings(p) : \A r : Outcome(Payload(c), r) \in Rows
    /\ \A r \in Rows \cup {NULL} : Live(r) # NULL => r \in Rows
<1>1. ASSUME NEW r \in Rows \cup {NULL} PROVE UpsertMinimal(r) \in Rows
  BY DEF UpsertMinimal, Rows, Props
<1>2. ASSUME NEW p \in Projects, NEW c \in Findings(p), NEW r PROVE Outcome(Payload(c), r) \in Rows
  <2>1. c.platform \in Platforms \cup {"unknown"} /\ c.props \in Props /\ c.host \in Hosts \cup {NULL}
    BY ScannerAssumption DEF Findings, Finding
  <2> QED
    BY <2>1 DEF Outcome, Payload, Rows
<1>3. ASSUME NEW r \in Rows \cup {NULL}, Live(r) # NULL PROVE r \in Rows
  BY <1>3 DEF Live
<1> QED
  BY <1>1, <1>2, <1>3

LEMMA EdgesOfType ==
    ASSUME NEW p, NEW j \in JobsIn(p)
    PROVE  EdgesOf(j) \subseteq Edge
BY DEF JobsIn, EdgesOf, Edge

LEMMA InitTypeInv == Init => TypeInv
<1> SUFFICES ASSUME Init PROVE TypeInv
  OBVIOUS
<1>1. table \in [Names -> Rows \cup {NULL}]
  BY DEF Init
<1>2. conns = <<>> /\ jobs = <<>> /\ told = <<>> /\ next = 1 /\ Len(<<>>) = 0
  BY DEF Init
<1>3. conns \in Seq(Findings(project)) /\ jobs \in Seq(JobsIn(project)) /\ told \in Seq(Answers)
  BY <1>2
<1>4. 1 \in 1 .. 0 + 1
  OBVIOUS
<1> QED
  BY <1>1, <1>2, <1>3, <1>4 DEF Init, TypeInv, Phases

\* While the scanners run the client has not started.
LEMMA Visits ==
    ASSUME TypeInv, NEW scanner, NEW f, Visiting(scanner, f)
    PROVE  /\ phase = scanner /\ f \in todo /\ f \in project /\ Covers(scanner, f)
           /\ phase # "publish" /\ project \in Projects
           /\ scanner \in {"env", "compose", "python", "dags"}
           /\ scanner \in {"env", "compose"} => f.kind = scanner
           /\ scanner \in {"python", "dags"} => f.kind = "py"
BY CoversKinds DEF Visiting, TypeInv

LEMMA TypeUnreadable == ASSUME TypeInv, NEW f, Unreadable(f) PROVE TypeInv'
<1>1. phase \in ToSet(Scanners) /\ f \in project
  BY Visits, ScannersAre DEF Unreadable
<1>2. missed' \subseteq [scanner: ToSet(Scanners), file: project, why: {"unreadable", "left"}]
  BY <1>1 DEF Unreadable, TypeInv
<1> QED
  BY <1>2 DEF Unreadable, TypeInv, push

LEMMA TypeParseEnv == ASSUME TypeInv, NEW f, ParseEnv(f) PROVE TypeInv'
<1>1. FromEnv(f) \in Seq(Findings(project)) /\ phase # "publish"
  BY Visits, YieldType DEF ParseEnv
<1>2. conns' \in Seq(Findings(project))
  BY <1>1, ConcatProperties DEF ParseEnv, TypeInv
<1> QED
  BY <1>1, <1>2 DEF ParseEnv, TypeInv, push

LEMMA TypeParseCompose == ASSUME TypeInv, NEW f, ParseCompose(f) PROVE TypeInv'
<1>1. FromCompose(f) \in Seq(Findings(project)) /\ phase # "publish"
  BY Visits, YieldType DEF ParseCompose
<1>2. conns' \in Seq(Findings(project))
  BY <1>1, ConcatProperties DEF ParseCompose, TypeInv
<1>3. todo' \subseteq todo
  BY DEF ParseCompose
<1>4. missed' \subseteq [scanner: ToSet(Scanners), file: project, why: {"unreadable", "left"}]
  BY ScannersAre DEF ParseCompose, TypeInv
<1> QED
  BY <1>1, <1>2, <1>3, <1>4 DEF ParseCompose, TypeInv, push

LEMMA TypeScanPython == ASSUME TypeInv, NEW f, ScanPython(f) PROVE TypeInv'
<1>1. NamesOf(conns) \subseteq Names
  BY NamesOfTyped DEF TypeInv
<1>2. FromPython(f, NamesOf(conns)) \in Seq(JobsIn(project)) /\ phase # "publish"
  BY <1>1, Visits, FromPythonType DEF ScanPython
<1>3. jobs' \in Seq(JobsIn(project))
  BY <1>2, ConcatProperties DEF ScanPython, TypeInv
<1> QED
  BY <1>2, <1>3 DEF ScanPython, TypeInv, push

LEMMA TypeScanDag == ASSUME TypeInv, NEW f, ScanDag(f) PROVE TypeInv'
<1>1. FromDag(f) \in Seq(JobsIn(project)) /\ phase # "publish"
  BY Visits, FromDagType DEF ScanDag
<1>2. jobs' \in Seq(JobsIn(project))
  BY <1>1, ConcatProperties DEF ScanDag, TypeInv
<1> QED
  BY <1>1, <1>2 DEF ScanDag, TypeInv, push

LEMMA TypeEndScanner == ASSUME TypeInv, NEW k \in DOMAIN Scanners, EndScanner(k) PROVE TypeInv'
BY EndScannerIs DEF TypeInv, push, Phases

LEMMA TypeDeduplicate == ASSUME TypeInv, Deduplicate PROVE TypeInv'
<1>1. conns' \in Seq(Findings(project))
  BY FirstOfKeepsFirst DEF Deduplicate, TypeInv
<1>2. Len(conns') \in Nat /\ Len(jobs) \in Nat
  BY <1>1 DEF TypeInv
<1> DEFINE n == Len(conns') + Len(jobs)
<1>3. n \in Nat /\ told' = [i \in 1 .. n |-> NULL] /\ NULL \in Answers
  BY <1>2 DEF Deduplicate, Answers
<1>4. told' \in [1 .. n -> Answers]
  BY <1>3
<1>5. told' \in Seq(Answers) /\ Len(told') = n
  <2> HIDE DEF n
  <2> QED
    BY <1>3, <1>4, IsSequence
<1>6. phase' = "publish" /\ next' = 1 /\ next' \in 1 .. Len(told') + 1
  BY <1>3, <1>5 DEF Deduplicate, TypeInv
<1>7. UNCHANGED <<project, todo, jobs, missed, table, edges>> /\ todo = {}
  BY DEF Deduplicate
<1> QED
  BY <1>1, <1>5, <1>6, <1>7 DEF TypeInv, Phases

\* An answer to a POST of the client.
LEMMA Told ==
    ASSUME TypeInv, phase = "publish", NEW a \in Answers, next \in DOMAIN told,
           next' = next + 1, told' = [told EXCEPT ![next] = a]
    PROVE  told' \in Seq(Answers) /\ Len(told') = Len(told) /\ next' \in 1 .. Len(told') + 1
<1>1. told \in Seq(Answers) /\ Len(told) \in Nat /\ DOMAIN told = 1 .. Len(told)
  BY DEF TypeInv
<1>2. told' \in [1 .. Len(told) -> Answers]
  BY <1>1
<1>3. told' \in Seq(Answers) /\ Len(told') = Len(told)
  BY <1>1, <1>2, IsSequence
<1> QED
  BY <1>1, <1>3

LEMMA TypePushed ==
    ASSUME TypeInv, phase = "publish", UNCHANGED scan,
           table' \in [Names -> Rows \cup {NULL}], edges' \subseteq Edge,
           told' \in Seq(Answers), Len(told') = Len(told), next' \in 1 .. Len(told') + 1
    PROVE  TypeInv'
BY DEF TypeInv, scan

\* The positions of the client.
LEMMA Positions ==
    ASSUME TypeInv, phase = "publish"
    PROVE  /\ Len(conns) \in Nat /\ DOMAIN conns = 1 .. Len(conns)
           /\ Len(jobs) \in Nat /\ DOMAIN jobs = 1 .. Len(jobs)
           /\ Len(told) = Len(conns) + Len(jobs) /\ DOMAIN told = 1 .. Len(told)
           /\ DOMAIN conns \subseteq DOMAIN told
           /\ \A i \in DOMAIN conns : conns[i] \in Findings(project) /\ conns[i].name \in Names
           /\ \A i \in DOMAIN jobs : jobs[i] \in JobsIn(project)
           /\ \A i \in DOMAIN told \ DOMAIN conns : i - Len(conns) \in DOMAIN jobs
<1>1. /\ Len(conns) \in Nat /\ DOMAIN conns = 1 .. Len(conns)
      /\ Len(jobs) \in Nat /\ DOMAIN jobs = 1 .. Len(jobs)
      /\ Len(told) = Len(conns) + Len(jobs) /\ DOMAIN told = 1 .. Len(told)
      /\ \A i \in DOMAIN conns : conns[i] \in Findings(project)
      /\ \A i \in DOMAIN jobs : jobs[i] \in JobsIn(project)
  BY DEF TypeInv
<1>2. DOMAIN conns \subseteq DOMAIN told /\ \A i \in DOMAIN told \ DOMAIN conns : i - Len(conns) \in DOMAIN jobs
  BY <1>1
<1>3. \A i \in DOMAIN conns : conns[i].name \in Names
  BY NamesOfTyped DEF NamesOf, TypeInv
<1> QED
  BY <1>1, <1>2, <1>3

LEMMA TypePostConnection == ASSUME TypeInv, PostConnection PROVE TypeInv'
<1> DEFINE c == conns[next]
<1>1. phase = "publish" /\ next \in DOMAIN conns /\ next \in DOMAIN told /\ UNCHANGED <<scan, edges>>
  BY Positions DEF PostConnection
<1>2. PICK a \in Answers : next' = next + 1 /\ told' = [told EXCEPT ![next] = a]
  BY DEF PostConnection, Deliver, Verdict, Answers
<1>3. c \in Findings(project) /\ c.name \in Names /\ project \in Projects
  BY <1>1, Positions DEF TypeInv
<1>4. Outcome(Payload(c), table[c.name]) \in Rows
  BY <1>3, RowsWritten
<1>5. table' = table \/ table' = [table EXCEPT ![c.name] = Outcome(Payload(c), table[c.name])]
  BY DEF PostConnection
<1> HIDE DEF c
<1>6. table' \in [Names -> Rows \cup {NULL}]
  BY <1>3, <1>4, <1>5 DEF TypeInv
<1>7. edges' \subseteq Edge
  BY <1>1 DEF TypeInv
<1> QED
  BY <1>1, <1>2, <1>6, <1>7, Told, TypePushed

LEMMA TypePostJob == ASSUME TypeInv, PostJob PROVE TypeInv'
<1> DEFINE new == EdgesOf(jobs[next - Len(conns)])
<1>1. phase = "publish" /\ next \in DOMAIN told \ DOMAIN conns /\ UNCHANGED scan
  BY DEF PostJob
<1>2. PICK a \in Answers : next' = next + 1 /\ told' = [told EXCEPT ![next] = a]
  BY DEF PostJob, Deliver, Answers
<1>3. new \subseteq Edge
  BY <1>1, Positions, EdgesOfType
<1>4. edges' = edges \cup new
      /\ table' = [n \in Names |-> IF \E e \in new : e.ns = n THEN UpsertMinimal(table[n]) ELSE table[n]]
  BY DEF PostJob
<1> HIDE DEF new
<1>5. edges' \subseteq Edge
  BY <1>3, <1>4 DEF TypeInv
<1>6. \A n \in Names : UpsertMinimal(table[n]) \in Rows /\ table[n] \in Rows \cup {NULL}
  BY RowsWritten DEF TypeInv
<1>7. table' \in [Names -> Rows \cup {NULL}]
  BY <1>4, <1>6
<1> QED
  BY <1>1, <1>2, <1>5, <1>7, Told, TypePushed

LEMMA TypePostLost == ASSUME TypeInv, PostLost PROVE TypeInv'
<1>1. /\ phase = "publish" /\ next \in DOMAIN told /\ UNCHANGED <<scan, table, edges>>
      /\ "lost" \in Answers /\ next' = next + 1 /\ told' = [told EXCEPT ![next] = "lost"]
  BY DEF PostLost, Answers
<1>2. told' \in Seq(Answers) /\ Len(told') = Len(told) /\ next' \in 1 .. Len(told') + 1
  BY <1>1, Told
<1>3. table' \in [Names -> Rows \cup {NULL}] /\ edges' \subseteq Edge
  BY <1>1 DEF TypeInv
<1> QED
  BY <1>1, <1>2, <1>3, TypePushed

LEMMA TypePushAgain == ASSUME TypeInv, PushAgain PROVE TypeInv'
<1>1. /\ phase = "publish" /\ UNCHANGED <<scan, table, edges>>
      /\ next' = 1 /\ told' = [i \in DOMAIN told |-> NULL]
  BY DEF PushAgain
<1>2. Len(told) \in Nat /\ DOMAIN told = 1 .. Len(told)
  BY DEF TypeInv
<1>3. told' \in [1 .. Len(told) -> Answers]
  BY <1>1, <1>2 DEF Answers
<1>4. told' \in Seq(Answers) /\ Len(told') = Len(told) /\ next' \in 1 .. Len(told') + 1
  BY <1>1, <1>2, <1>3, IsSequence
<1>5. table' \in [Names -> Rows \cup {NULL}] /\ edges' \subseteq Edge
  BY <1>1 DEF TypeInv
<1> QED
  BY <1>1, <1>4, <1>5, TypePushed

LEMMA TypeOthers == ASSUME TypeInv, NEW n \in Names, OthersStub(n) \/ OthersDelete(n) PROVE TypeInv'
<1>1. phase = "publish" /\ UNCHANGED <<scan, edges, next, told>>
  BY DEF OthersStub, OthersDelete
<1>2. table[n] \in Rows \cup {NULL} /\ UpsertMinimal(table[n]) \in Rows
  BY RowsWritten DEF TypeInv
<1>3. table' \in [Names -> Rows \cup {NULL}]
  <2>1. CASE OthersStub(n)
    BY <1>2, <2>1 DEF OthersStub, TypeInv
  <2>2. CASE OthersDelete(n)
    <3>1. table[n] \in Rows /\ table' = [table EXCEPT ![n] = [table[n] EXCEPT !.deleted = TRUE]]
      BY <1>2, <2>2, RowsWritten DEF OthersDelete
    <3>2. [table[n] EXCEPT !.deleted = TRUE] \in Rows
      BY <3>1 DEF Rows
    <3> QED
      BY <3>1, <3>2 DEF TypeInv
  <2> QED
    BY <2>1, <2>2
<1>4. edges' \subseteq Edge /\ told' \in Seq(Answers) /\ Len(told') = Len(told) /\ next' \in 1 .. Len(told') + 1
  BY <1>1 DEF TypeInv
<1> QED
  BY <1>1, <1>3, <1>4, TypePushed

LEMMA TypeInvIsInductive == TypeInv /\ [Next]_vars => TypeInv'
<1> SUFFICES ASSUME TypeInv, [Next]_vars PROVE TypeInv'
  OBVIOUS
<1>1. CASE UNCHANGED vars
  BY <1>1 DEF vars, scan, push, TypeInv
<1>2. ASSUME NEW f \in project, Unreadable(f) PROVE TypeInv'
  BY <1>2, TypeUnreadable
<1>3. ASSUME NEW f \in project, ParseEnv(f) PROVE TypeInv'
  BY <1>3, TypeParseEnv
<1>4. ASSUME NEW f \in project, ParseCompose(f) PROVE TypeInv'
  BY <1>4, TypeParseCompose
<1>5. ASSUME NEW f \in project, ScanPython(f) PROVE TypeInv'
  BY <1>5, TypeScanPython
<1>6. ASSUME NEW f \in project, ScanDag(f) PROVE TypeInv'
  BY <1>6, TypeScanDag
<1>7. ASSUME NEW k \in DOMAIN Scanners, EndScanner(k) PROVE TypeInv'
  BY <1>7, TypeEndScanner
<1>8. CASE Deduplicate
  BY <1>8, TypeDeduplicate
<1>9. CASE PostConnection
  BY <1>9, TypePostConnection
<1>10. CASE PostJob
  BY <1>10, TypePostJob
<1>11. CASE PostLost
  BY <1>11, TypePostLost
<1>12. CASE PushAgain
  BY <1>12, TypePushAgain
<1>13. ASSUME NEW n \in Names, OthersStub(n) \/ OthersDelete(n) PROVE TypeInv'
  BY <1>13, TypeOthers
<1> QED
  BY <1>1, <1>2, <1>3, <1>4, <1>5, <1>6, <1>7, <1>8, <1>9, <1>10, <1>11, <1>12, <1>13 DEF Next

LEMMA TypeInvImpliesTypeOK == TypeInv => TypeOK
<1> SUFFICES ASSUME TypeInv PROVE TypeOK
  OBVIOUS
<1>1. \A i \in DOMAIN conns : conns[i] \in Findings(project)
  BY DEF TypeInv
<1>2. ASSUME NEW i \in DOMAIN conns
      PROVE  /\ conns[i].name \in Names /\ conns[i].name # <<>> /\ conns[i].source \in project
             /\ conns[i].platform \in ToSet(PlatformOrder) \cup {"unknown"}
             /\ conns[i].props \in Props /\ conns[i].host \in Hosts \cup {NULL}
  BY <1>1 DEF Findings, Finding
<1>3. \A i \in DOMAIN jobs : jobs[i] \in JobsIn(project)
  BY DEF TypeInv
<1>4. ASSUME NEW i \in DOMAIN jobs
      PROVE  /\ jobs[i].name \in JobNames /\ jobs[i].source \in project
             /\ \A d \in jobs[i].inputs \cup jobs[i].outputs : d.table \in Tables
  BY <1>3 DEF JobsIn
<1>5. \A i \in DOMAIN told : told[i] \in Answers
  BY DEF TypeInv
<1>6. phase \in ToSet(Scanners) \cup {"publish"} /\ todo \subseteq project
  BY ScannersAre DEF TypeInv, Phases
<1>7. /\ project \in Projects
      /\ missed \subseteq [scanner: ToSet(Scanners), file: project, why: {"unreadable", "left"}]
      /\ table \in [Names -> Rows \cup {NULL}] /\ edges \subseteq Edge
      /\ next \in 1 .. Len(told) + 1
  BY DEF TypeInv
<1> QED
  BY <1>2, <1>4, <1>5, <1>6, <1>7 DEF TypeOK, Answers

\* Every variable keeps its type: connections have names from the files of the project,
\* rows have a platform the collector accepts, and the client's position and its answers
\* match what it has to post (scan, main).
THEOREM TypeCorrect == Spec => []TypeOK
<1>1. Spec => []TypeInv
  BY InitTypeInv, TypeInvIsInductive, PTL DEF Spec
<1> QED
  BY <1>1, TypeInvImpliesTypeOK, PTL

-----------------------------------------------------------------------------
(* The finding that is kept for a name. *)

\* The order the program fixes between the files connections come from.
Earlier(f, g) == \/ f.kind = "env" /\ g.kind = "compose"
                 \/ f.kind = g.kind /\ Rank(f.kind, f) < Rank(f.kind, g)

\* n has been found, and f is not before any file it was found in until then.
KeptFor(f, n) ==
    \E i \in DOMAIN conns : /\ conns[i].name = n
                            /\ \A j \in 1 .. i : conns[j].name = n => ~Earlier(f, conns[j].source)

\* f was parsed for connections.
Parsed(f) == f.kind # "py" /\ Covers(f.kind, f) /\ Done(f.kind, f) /\ ~Missed(f.kind, f)

\* What has been found comes from files that no file still to visit is before.
FoundInv ==
    /\ phase = "env" => \A i \in DOMAIN conns : conns[i].source.kind = "env"
    /\ phase \in {"env", "compose"} =>
          \A i \in DOMAIN conns, g \in todo : ~Earlier(g, conns[i].source)
    /\ \A f \in project : Parsed(f) => \A n \in NamesOf(Yield(f)) : KeptFor(f, n)
    /\ phase = "publish" => \A i, k \in DOMAIN conns : conns[i].name = conns[k].name => i = k

LEMMA RankType ==
    ASSUME NEW p \in Projects, NEW f \in p, f.kind # "py"
    PROVE  /\ f.kind \in {"env", "compose"} /\ Rank(f.kind, f) \in Int
           /\ \A g \in p : f.kind = g.kind /\ Rank(f.kind, f) <= Rank(f.kind, g) => ~Earlier(g, f)
<1>1. ASSUME NEW g \in p, g.kind # "py"
      PROVE  g.kind \in {"env", "compose"} /\ Rank(g.kind, g) \in Int
  <2>1. g \in Files
    BY FilesTyped
  <2>2. g.kind \in {"env", "compose"}
    BY <1>1, <2>1 DEF Files
  <2>3. g.kind = "compose" => g.fname \in 1 .. 4
    BY <2>1 DEF Files
  <2>4. /\ g.kind = "env" => Rank(g.kind, g) = IF g.plain THEN 1 ELSE 2
        /\ g.kind = "compose" => Rank(g.kind, g) = g.fname
    BY DEF Rank
  <2> QED
    BY <2>2, <2>3, <2>4
<1>2. ASSUME NEW g \in p, f.kind = g.kind, Rank(f.kind, f) <= Rank(f.kind, g) PROVE ~Earlier(g, f)
  BY <1>1, <1>2 DEF Earlier
<1> QED
  BY <1>1, <1>2

\* u has the elements of s in their place, then those of t.
IsAfter(u, s, t) ==
    /\ \A i \in DOMAIN s : i \in DOMAIN u /\ u[i] = s[i] /\ 1 .. i \subseteq DOMAIN s
    /\ \A i \in DOMAIN t : \E k \in DOMAIN u : u[k] = t[i]
    /\ \A i \in DOMAIN u : (i \in DOMAIN s /\ u[i] = s[i]) \/ \E k \in DOMAIN t : u[i] = t[k]
    /\ \A i \in DOMAIN u : 1 .. i \subseteq DOMAIN u

LEMMA Appended ==
    ASSUME NEW S, NEW s \in Seq(S), NEW t \in Seq(S)
    PROVE  IsAfter(s \o t, s, t)
<1> DEFINE m == Len(s)
           n == Len(t)
           u == s \o t
<1>1. /\ m \in Nat /\ n \in Nat /\ DOMAIN s = 1 .. m /\ DOMAIN t = 1 .. n
      /\ u \in Seq(S) /\ Len(u) = m + n /\ DOMAIN u = 1 .. m + n
      /\ \A i \in 1 .. m + n : u[i] = IF i <= m THEN s[i] ELSE t[i - m]
  <2>1. u \in Seq(S) /\ Len(u) = m + n
        /\ \A i \in 1 .. m + n : u[i] = IF i <= m THEN s[i] ELSE t[i - m]
    BY ConcatProperties
  <2> HIDE DEF u
  <2> QED
    BY <2>1
<1> HIDE DEF m, n, u
<1>2. ASSUME NEW i \in 1 .. m PROVE i \in 1 .. m + n /\ u[i] = s[i] /\ 1 .. i \subseteq 1 .. m
  BY <1>1
<1>3. ASSUME NEW i \in 1 .. n PROVE \E k \in 1 .. m + n : u[k] = t[i]
  <2>1. m + i \in 1 .. m + n /\ ~(m + i <= m) /\ (m + i) - m = i
    BY <1>1
  <2>2. u[m + i] = t[i]
    BY <1>1, <2>1
  <2> QED
    BY <2>1, <2>2
<1>4. ASSUME NEW i \in 1 .. m + n
      PROVE  (i \in 1 .. m /\ u[i] = s[i]) \/ \E k \in 1 .. n : u[i] = t[k]
  <2>1. CASE i <= m
    BY <1>1, <2>1
  <2>2. CASE ~(i <= m)
    <3>1. i - m \in 1 .. n
      BY <1>1, <2>2
    <3>2. u[i] = t[i - m]
      BY <1>1, <2>2
    <3> QED
      BY <3>1, <3>2
  <2> QED
    BY <2>1, <2>2
<1>5. \A i \in 1 .. m + n : 1 .. i \subseteq 1 .. m + n
  BY <1>1
<1> QED
  BY <1>1, <1>2, <1>3, <1>4, <1>5 DEF u, IsAfter

\* A file visited for connections, with all that follow from it.
LEMMA FoundVisit ==
    ASSUME TypeInv, FoundInv, NEW scanner \in {"env", "compose"}, NEW f, Visiting(scanner, f),
           conns' = conns \o Yield(f), todo' \subseteq todo \ {f}, missed \subseteq missed',
           \A g \in todo : g = f \/ g \in todo' \/ Missed(scanner, g)',
           UNCHANGED <<project, phase>>
    PROVE  FoundInv'
<1> DEFINE new == Yield(f)
<1>1. /\ phase = scanner /\ f \in todo /\ f \in project /\ Covers(scanner, f) /\ f.kind = scanner
      /\ phase # "publish" /\ project \in Projects
  BY Visits
<1>2. /\ conns \in Seq(Findings(project)) /\ new \in Seq(Findings(project))
      /\ \A i \in DOMAIN new : new[i].source = f
  <2>1. new \in Seq(Finding(f))
    BY <1>1, FromEnvType, FromComposeType DEF Yield
  <2>2. new \in Seq(Findings(project))
    BY <1>1, YieldType DEF Yield
  <2>3. \A i \in DOMAIN new : new[i] \in Finding(f)
    BY <2>1
  <2> QED
    BY <2>2, <2>3 DEF TypeInv, Finding
<1>3. IsAfter(conns', conns, new)
  <2> HIDE DEF new
  <2>1. conns' = conns \o new
    BY DEF new
  <2> QED
    BY <1>2, <2>1, Appended
<1> HIDE DEF new
<1>4. \A i \in DOMAIN conns' : (i \in DOMAIN conns /\ conns'[i] = conns[i]) \/ conns'[i].source = f
  BY <1>2, <1>3 DEF IsAfter
<1>5. ASSUME phase = "env", NEW i \in DOMAIN conns' PROVE conns'[i].source.kind = "env"
  BY <1>1, <1>4, <1>5 DEF FoundInv
<1>6. \A g \in todo : g.kind = f.kind /\ ~Earlier(g, f)
  <2>1. ASSUME NEW g \in todo PROVE g.kind = f.kind /\ g \in project /\ Rank(f.kind, f) <= Rank(f.kind, g)
    BY <1>1, CoversKinds DEF Visiting, TypeInv
  <2> QED
    BY <1>1, <2>1, RankType
<1>7. ASSUME NEW i \in DOMAIN conns', NEW g \in todo PROVE ~Earlier(g, conns'[i].source)
  BY <1>1, <1>4, <1>6 DEF FoundInv
<1>8. ASSUME NEW g \in project, Parsed(g)', NEW n \in NamesOf(Yield(g)) PROVE KeptFor(g, n)'
  <2>1. CASE g = f
    <3>1. \A j \in DOMAIN conns' : ~Earlier(f, conns'[j].source)
      BY <1>1, <1>7
    <3>2. PICK i \in DOMAIN new : new[i].name = n
      BY <2>1 DEF NamesOf, new
    <3>3. PICK k \in DOMAIN conns' : conns'[k] = new[i]
      BY <1>3 DEF IsAfter
    <3> QED
      BY <1>3, <2>1, <3>1, <3>2, <3>3 DEF KeptFor, IsAfter
  <2>2. CASE g # f
    <3>1. Parsed(g)
      <4>1. g.kind # "py" /\ Covers(g.kind, g) /\ ~Missed(g.kind, g)
        BY <1>8 DEF Parsed, Missed
      <4>2. Done(g.kind, g)
        <5>1. g.kind \in Past(phase) \/ (phase = g.kind /\ g \notin todo')
          BY <1>8 DEF Parsed, Done
        <5>2. CASE g \in todo
          <6>1. g.kind = scanner
            BY <1>1, <1>6, <5>2
          <6>2. ~Missed(scanner, g)'
            BY <1>8, <6>1 DEF Parsed
          <6>3. g \in todo'
            BY <2>2, <5>2, <6>2
          <6>4. g.kind \notin Past(phase)
            BY <1>1, <6>1 DEF Past
          <6> QED
            BY <5>1, <6>3, <6>4
        <5>3. CASE g \notin todo
          BY <5>1, <5>3 DEF Done
        <5> QED
          BY <5>2, <5>3
      <4> QED
        BY <4>1, <4>2 DEF Parsed
    <3>2. PICK i \in DOMAIN conns :
             conns[i].name = n /\ \A j \in 1 .. i : conns[j].name = n => ~Earlier(g, conns[j].source)
      BY <3>1 DEF FoundInv, KeptFor
    <3>3. \A j \in 1 .. i : j \in DOMAIN conns /\ conns'[j] = conns[j]
      BY <1>3 DEF IsAfter
    <3>4. i \in DOMAIN conns' /\ conns'[i].name = n
      BY <1>3, <3>2 DEF IsAfter
    <3>5. \A j \in 1 .. i : conns'[j].name = n => ~Earlier(g, conns'[j].source)
      BY <3>2, <3>3
    <3> QED
      BY <3>4, <3>5 DEF KeptFor
  <2> QED
    BY <2>1, <2>2
<1>9. todo' \subseteq todo /\ phase' = phase /\ project' = project /\ phase # "publish"
  BY <1>1
<1> QED
  BY <1>5, <1>7, <1>8, <1>9 DEF FoundInv

\* Nothing found, and no file visited for connections unless it is missed.
LEMMA FoundFrame ==
    ASSUME TypeInv, FoundInv, UNCHANGED <<project, phase, conns>>, todo' \subseteq todo,
           missed \subseteq missed',
           \A g \in todo : g.kind = phase => g \in todo' \/ Missed(phase, g)'
    PROVE  FoundInv'
<1>1. ASSUME NEW g \in project, Parsed(g)' PROVE Parsed(g)
  <2>1. g.kind # "py" /\ Covers(g.kind, g) /\ ~Missed(g.kind, g)
    BY <1>1 DEF Parsed, Missed
  <2>2. g.kind \in Past(phase) \/ (phase = g.kind /\ g \notin todo')
    BY <1>1 DEF Parsed, Done
  <2>3. phase = g.kind /\ g \in todo => Missed(g.kind, g)' \/ g \in todo'
    OBVIOUS
  <2>4. ~Missed(g.kind, g)'
    BY <1>1 DEF Parsed
  <2>5. Done(g.kind, g)
    BY <2>2, <2>3, <2>4 DEF Done
  <2> QED
    BY <2>1, <2>5 DEF Parsed
<1>2. \A g, n : KeptFor(g, n) => KeptFor(g, n)'
  BY DEF KeptFor
<1>3. \A g \in project : Parsed(g)' => \A n \in NamesOf(Yield(g)) : KeptFor(g, n)'
  BY <1>1, <1>2 DEF FoundInv
<1> QED
  BY <1>3 DEF FoundInv

LEMMA FoundEndScanner == ASSUME TypeInv, FoundInv, NEW k \in DOMAIN Scanners, EndScanner(k) PROVE FoundInv'
<1>1. /\ \/ phase = "env" /\ phase' = "compose"
         \/ phase = "compose" /\ phase' = "python"
         \/ phase = "python" /\ phase' = "dags"
      /\ Past(phase') = Past(phase) \cup {phase}
      /\ todo = {} /\ todo' = {f \in project : Covers(phase', f)}
      /\ UNCHANGED <<project, conns, jobs, missed, push>>
  BY EndScannerIs
<1>2. ASSUME phase' = "compose", NEW i \in DOMAIN conns, NEW g \in todo' PROVE ~Earlier(g, conns[i].source)
  <2>1. phase = "env" /\ g.kind = "compose"
    BY <1>1, <1>2, CoversKinds
  <2>2. conns[i].source.kind = "env"
    BY <2>1 DEF FoundInv
  <2> QED
    BY <2>1, <2>2 DEF Earlier
<1>3. ASSUME NEW g \in project, Parsed(g)' PROVE Parsed(g)
  <2>1. g.kind # "py" /\ Covers(g.kind, g) /\ ~Missed(g.kind, g)
    BY <1>1, <1>3 DEF Parsed, Missed
  <2>2. g.kind \in Past(phase) \cup {phase} \/ (phase' = g.kind /\ g \notin todo')
    BY <1>1, <1>3 DEF Parsed, Done
  <2>3. phase' = g.kind => g \in todo'
    BY <1>1, <2>1
  <2>4. Done(g.kind, g)
    BY <1>1, <2>2, <2>3 DEF Done
  <2> QED
    BY <2>1, <2>4 DEF Parsed
<1>4. \A g, n : KeptFor(g, n) => KeptFor(g, n)'
  BY <1>1 DEF KeptFor
<1>5. \A g \in project : Parsed(g)' => \A n \in NamesOf(Yield(g)) : KeptFor(g, n)'
  BY <1>3, <1>4 DEF FoundInv
<1>6. phase' # "env" /\ phase' # "publish"
  BY <1>1
<1>7. UNCHANGED <<project, conns>>
  BY <1>1
<1>8. phase' \in {"env", "compose"} =>
         \A i \in DOMAIN conns', g \in todo' : ~Earlier(g, conns'[i].source)
  BY <1>2, <1>6, <1>7
<1> QED
  BY <1>5, <1>6, <1>7, <1>8 DEF FoundInv

LEMMA FoundDeduplicate == ASSUME TypeInv, FoundInv, Deduplicate PROVE FoundInv'
<1>1. phase = "dags" /\ phase' = "publish" /\ conns' = FirstOf(conns) /\ UNCHANGED <<project, todo, missed>>
      /\ todo = {}
  BY DEF Deduplicate
<1>2. conns \in Seq(Findings(project))
  BY DEF TypeInv
<1>3. IsFirstOf(conns', conns) /\ conns' \in Seq(Findings(project))
  BY <1>1, <1>2, FirstOfKeepsFirst
<1>4. \A i, k \in DOMAIN conns' : conns'[i].name = conns'[k].name => i = k
  BY <1>3 DEF IsFirstOf
<1>5. \A k \in DOMAIN conns' : 1 .. k \subseteq DOMAIN conns'
  BY <1>3
<1>6. ASSUME NEW g \in project, Parsed(g)', NEW n \in NamesOf(Yield(g)) PROVE KeptFor(g, n)'
  <2>1. Parsed(g)
    <3>1. g.kind # "py" /\ Covers(g.kind, g) /\ ~Missed(g.kind, g)
      BY <1>1, <1>6 DEF Parsed, Missed
    <3>2. g.kind \in {"env", "compose", "python", "dags"}
      BY <3>1, CoversKinds
    <3>3. Done(g.kind, g)
      BY <1>1, <3>2 DEF Done, Past
    <3> QED
      BY <3>1, <3>3 DEF Parsed
  <2>2. PICK i \in DOMAIN conns :
           conns[i].name = n /\ \A j \in 1 .. i : conns[j].name = n => ~Earlier(g, conns[j].source)
    BY <2>1 DEF FoundInv, KeptFor
  <2>3. PICK k \in DOMAIN conns', j \in 1 .. i : conns'[k] = conns[j] /\ conns[j].name = conns[i].name
    BY <1>3 DEF IsFirstOf
  <2>4. conns'[k].name = n /\ ~Earlier(g, conns'[k].source)
    BY <2>2, <2>3
  <2>5. \A l \in 1 .. k : conns'[l].name = n => l = k
    BY <1>4, <1>5, <2>4
  <2> QED
    BY <2>4, <2>5 DEF KeptFor
<1> QED
  BY <1>1, <1>4, <1>6 DEF FoundInv

LEMMA FoundInvIsInductive == TypeInv /\ FoundInv /\ [Next]_vars => FoundInv'
<1> SUFFICES ASSUME TypeInv, FoundInv, [Next]_vars PROVE FoundInv'
  OBVIOUS
<1>1. CASE UNCHANGED <<scan>>
  BY <1>1, FoundFrame DEF scan
<1>2. ASSUME NEW f \in project, Unreadable(f) PROVE FoundInv'
  <2>1. Missed(phase, f)'
    <3> DEFINE m == [scanner |-> phase, file |-> f, why |-> "unreadable"]
    <3>1. m.scanner = phase /\ m.file = f /\ m \in missed' /\ phase' = phase
      BY <1>2 DEF Unreadable
    <3> HIDE DEF m
    <3> QED
      BY <3>1 DEF Missed
  <2> QED
    BY <1>2, <2>1, FoundFrame DEF Unreadable
<1>3. ASSUME NEW f \in project, ParseEnv(f) PROVE FoundInv'
  <2>1. Visiting("env", f) /\ f.kind = "env"
    BY <1>3, Visits DEF ParseEnv
  <2>2. /\ conns' = conns \o Yield(f) /\ todo' = todo \ {f} /\ missed' = missed
        /\ UNCHANGED <<project, phase>>
    BY <1>3, <2>1 DEF ParseEnv, Yield
  <2> QED
    BY <2>1, <2>2, FoundVisit
<1>4. ASSUME NEW f \in project, ParseCompose(f) PROVE FoundInv'
  <2>1. Visiting("compose", f) /\ f.kind = "compose"
    BY <1>4, Visits DEF ParseCompose
  <2>2. /\ conns' = conns \o Yield(f) /\ todo' \subseteq todo \ {f} /\ missed \subseteq missed'
        /\ UNCHANGED <<project, phase>>
    BY <1>4, <2>1 DEF ParseCompose, Yield
  <2>3. ASSUME NEW g \in todo, g # f, g \notin todo' PROVE Missed("compose", g)'
    <3> DEFINE m == [scanner |-> "compose", file |-> g, why |-> "left"]
    <3>1. Crashes(f)
      BY <1>4, <2>3 DEF ParseCompose
    <3>2. m.scanner = "compose" /\ m.file = g /\ m \in missed'
      BY <1>4, <2>3, <3>1 DEF ParseCompose
    <3> HIDE DEF m
    <3> QED
      BY <3>2 DEF Missed
  <2> QED
    BY <2>1, <2>2, <2>3, FoundVisit
<1>5. ASSUME NEW f \in project, ScanPython(f) \/ ScanDag(f) PROVE FoundInv'
  <2>1. /\ UNCHANGED <<project, phase, conns, missed>> /\ todo' \subseteq todo
        /\ phase \in {"python", "dags"}
    BY <1>5 DEF ScanPython, ScanDag, Visiting
  <2>2. \A g \in todo : g.kind # phase
    BY <2>1, CoversKinds DEF TypeInv
  <2> QED
    BY <2>1, <2>2, FoundFrame
<1>6. ASSUME NEW k \in DOMAIN Scanners, EndScanner(k) PROVE FoundInv'
  BY <1>6, FoundEndScanner
<1>7. CASE Deduplicate
  BY <1>7, FoundDeduplicate
<1>8. CASE PostConnection \/ PostJob \/ PostLost \/ PushAgain
  BY <1>1, <1>8 DEF PostConnection, PostJob, PostLost, PushAgain
<1>9. ASSUME NEW n \in Names, OthersStub(n) \/ OthersDelete(n) PROVE FoundInv'
  BY <1>1, <1>9 DEF OthersStub, OthersDelete
<1>10. CASE UNCHANGED vars
  BY <1>1, <1>10 DEF vars
<1> QED
  BY <1>2, <1>3, <1>4, <1>5, <1>6, <1>7, <1>8, <1>9, <1>10 DEF Next

LEMMA InitFoundInv == Init => FoundInv
<1> SUFFICES ASSUME Init PROVE FoundInv
  OBVIOUS
<1>1. phase = "env" /\ conns = <<>> /\ todo = {f \in project : Covers("env", f)} /\ DOMAIN <<>> = {}
  BY DEF Init
<1>2. ~\E f \in project : Parsed(f)
  <2>1. ASSUME NEW f \in project, Parsed(f) PROVE FALSE
    <3>1. f.kind = "env" /\ f \notin todo /\ Covers(f.kind, f)
      BY <1>1, <2>1 DEF Parsed, Done, Past
    <3> QED
      BY <1>1, <3>1
  <2> QED
    BY <2>1
<1> QED
  BY <1>1, <1>2 DEF FoundInv

\* Whatever order the files of equal rank come in, deduplication keeps for every name one
\* finding, and it is from one of the first files in the order the program fixes: .env,
\* .env.*, then the compose file names (_scan_env_files, _scan_docker_compose,
\* _deduplicate_connections).
THEOREM FirstFindingIsAlwaysKept == Spec => []FirstFindingIsKept
<1>1. Init => TypeInv /\ FoundInv
  BY InitTypeInv, InitFoundInv
<1>2. TypeInv /\ FoundInv /\ [Next]_vars => TypeInv' /\ FoundInv'
  BY TypeInvIsInductive, FoundInvIsInductive
<1>3. TypeInv /\ FoundInv => FirstFindingIsKept
  <2> SUFFICES ASSUME TypeInv, FoundInv, phase = "publish" PROVE FirstFindingIsKept
    BY DEF FirstFindingIsKept
  <2>1. \A i, k \in DOMAIN conns : conns[i].name = conns[k].name => i = k
    BY DEF FoundInv
  <2>2. ASSUME NEW f \in project, f.kind # "py", Covers(f.kind, f), ~Missed(f.kind, f),
               NEW n \in NamesOf(Yield(f))
        PROVE  \E i \in DOMAIN conns : conns[i].name = n /\ ~Earlier(f, conns[i].source)
    <3>1. Parsed(f)
      <4>1. f.kind \in Past(phase)
        BY <2>2, CoversKinds DEF Past
      <4> QED
        BY <2>2, <4>1 DEF Parsed, Done
    <3>2. PICK i \in DOMAIN conns :
             conns[i].name = n /\ \A j \in 1 .. i : conns[j].name = n => ~Earlier(f, conns[j].source)
      BY <3>1 DEF FoundInv, KeptFor
    <3>3. i \in 1 .. i
      BY DEF TypeInv
    <3> QED
      BY <3>2, <3>3
  <2> QED
    BY <2>1, <2>2 DEF FirstFindingIsKept, Earlier
<1> QED
  BY <1>1, <1>2, <1>3, PTL DEF Spec

-----------------------------------------------------------------------------
(* What a failure costs. *)

\* A file left was behind one, visited and not missed itself, that makes the scanner
\* of compose files fail.
MissInv ==
    \A m \in missed :
        /\ Done(m.scanner, m.file)
        /\ m.why = "left" =>
              /\ m.scanner = "compose"
              /\ \E g \in project : /\ g.kind = "compose" /\ Crashes(g) /\ g.fname <= m.file.fname
                                    /\ Done("compose", g) /\ ~Missed("compose", g)

\* What is visited stays so.
LEMMA DoneStays ==
    ASSUME TypeInv, [Next]_vars, NEW scanner, NEW f, Done(scanner, f)
    PROVE  Done(scanner, f)'
<1>1. CASE phase' = phase /\ todo' \subseteq todo
  BY <1>1 DEF Done
<1>2. ASSUME NEW k \in DOMAIN Scanners, EndScanner(k) PROVE Done(scanner, f)'
  <2>1. Past(phase') = Past(phase) \cup {phase}
    BY <1>2, EndScannerIs
  <2> QED
    BY <2>1 DEF Done
<1>3. CASE Deduplicate
  BY <1>3 DEF Deduplicate, Done, Past
<1>4. CASE UNCHANGED scan
  BY <1>1, <1>4 DEF scan
<1>5. ASSUME NEW n \in Names, OthersStub(n) \/ OthersDelete(n) PROVE Done(scanner, f)'
  BY <1>4, <1>5 DEF OthersStub, OthersDelete
<1>6. CASE PostConnection \/ PostJob \/ PostLost \/ PushAgain
  BY <1>4, <1>6 DEF PostConnection, PostJob, PostLost, PushAgain
<1>7. CASE UNCHANGED vars
  BY <1>4, <1>7 DEF vars
<1>8. ASSUME NEW g \in project,
             Unreadable(g) \/ ParseEnv(g) \/ ParseCompose(g) \/ ScanPython(g) \/ ScanDag(g)
      PROVE  Done(scanner, f)'
  BY <1>1, <1>8 DEF Unreadable, ParseEnv, ParseCompose, ScanPython, ScanDag
<1> QED
  BY <1>2, <1>3, <1>5, <1>6, <1>7, <1>8 DEF Next

\* A step that adds to missed adds files of the running scanner that were still to visit.
LEMMA NewlyMissed ==
    ASSUME TypeInv, [Next]_vars
    PROVE  /\ project' = project
           /\ \/ missed' = missed
              \/ \E f \in todo :
                    /\ phase' = phase /\ phase # "publish" /\ f \notin todo' /\ todo' \subseteq todo
                    /\ \/ missed' = missed \cup {[scanner |-> phase, file |-> f, why |-> "unreadable"]}
                       \/ /\ phase = "compose" /\ Crashes(f) /\ f.kind = "compose" /\ todo' = {}
                          /\ \A g \in todo : f.fname <= g.fname
                          /\ missed' = missed \cup {[scanner |-> "compose", file |-> g, why |-> "left"]
                                                       : g \in todo \ {f}}
<1>1. ASSUME NEW f \in project, Unreadable(f)
      PROVE  f \in todo /\ phase' = phase /\ phase # "publish" /\ f \notin todo' /\ todo' \subseteq todo
             /\ missed' = missed \cup {[scanner |-> phase, file |-> f, why |-> "unreadable"]}
             /\ project' = project
  BY <1>1, Visits DEF Unreadable
<1>2. ASSUME NEW f \in project, ParseCompose(f), Crashes(f)
      PROVE  f \in todo /\ phase' = phase /\ phase # "publish" /\ f \notin todo' /\ todo' \subseteq todo
             /\ phase = "compose" /\ f.kind = "compose" /\ todo' = {}
             /\ (\A g \in todo : f.fname <= g.fname)
             /\ missed' = missed \cup {[scanner |-> "compose", file |-> g, why |-> "left"]
                                          : g \in todo \ {f}}
             /\ project' = project
  <2>1. Visiting("compose", f) /\ phase = "compose" /\ f \in todo /\ f.kind = "compose"
    BY <1>2, Visits DEF ParseCompose
  <2>2. \A g : Rank("compose", g) = g.fname
    BY DEF Rank
  <2>3. \A g \in todo : f.fname <= g.fname
    BY <2>1, <2>2 DEF Visiting
  <2> QED
    BY <1>2, <2>1, <2>3 DEF ParseCompose
<1>3. ASSUME NEW f \in project, ParseCompose(f), ~Crashes(f) PROVE missed' = missed /\ project' = project
  BY <1>3 DEF ParseCompose
<1>4. ASSUME NEW f \in project, ParseEnv(f) \/ ScanPython(f) \/ ScanDag(f)
      PROVE  missed' = missed /\ project' = project
  BY <1>4 DEF ParseEnv, ScanPython, ScanDag
<1>5. ASSUME \/ Deduplicate \/ PostConnection \/ PostJob \/ PostLost \/ PushAgain \/ UNCHANGED vars
             \/ \E k \in DOMAIN Scanners : EndScanner(k)
             \/ \E n \in Names : OthersStub(n) \/ OthersDelete(n)
      PROVE  missed' = missed /\ project' = project
  BY <1>5 DEF Deduplicate, PostConnection, PostJob, PostLost, PushAgain, vars, EndScanner,
              OthersStub, OthersDelete, scan
<1>6. CASE \E f \in project : Unreadable(f)
  BY <1>1, <1>6
<1>7. CASE \E f \in project : ParseCompose(f) /\ Crashes(f)
  BY <1>2, <1>7
<1>8. CASE missed' = missed /\ project' = project
  BY <1>8
<1> QED
  BY <1>3, <1>4, <1>5, <1>6, <1>7, <1>8 DEF Next

LEMMA MissInvIsInductive == TypeInv /\ MissInv /\ [Next]_vars => MissInv'
<1> SUFFICES ASSUME TypeInv, MissInv, [Next]_vars PROVE MissInv'
  OBVIOUS
<1>1. project' = project /\ \A m \in missed' : m \in missed \/ (m.scanner = phase /\ m.file \in todo)
  BY NewlyMissed
<1>2. ASSUME NEW m \in missed' PROVE Done(m.scanner, m.file)'
  <2>1. CASE m \in missed
    BY <2>1, DoneStays DEF MissInv
  <2>2. CASE m \notin missed
    <3>1. m.scanner = phase /\ phase' = phase /\ m.file \notin todo'
      BY <2>2, NewlyMissed
    <3> QED
      BY <3>1 DEF Done
  <2> QED
    BY <2>1, <2>2
<1>3. ASSUME NEW g, Done("compose", g), ~Missed("compose", g) PROVE ~Missed("compose", g)'
  <2>1. phase = "compose" => g \notin todo
    BY <1>3 DEF Done, Past
  <2> QED
    BY <1>1, <1>3, <2>1 DEF Missed
<1>4. ASSUME NEW m \in missed', m.why = "left"
      PROVE  /\ m.scanner = "compose"
             /\ \E g \in project : /\ g.kind = "compose" /\ Crashes(g) /\ g.fname <= m.file.fname
                                   /\ Done("compose", g)' /\ ~Missed("compose", g)'
  <2>1. CASE m \in missed
    <3>1. m.scanner = "compose"
      BY <1>4, <2>1 DEF MissInv
    <3>2. PICK g \in project : /\ g.kind = "compose" /\ Crashes(g) /\ g.fname <= m.file.fname
                               /\ Done("compose", g) /\ ~Missed("compose", g)
      BY <1>4, <2>1 DEF MissInv
    <3> QED
      BY <1>3, <3>1, <3>2, DoneStays
  <2>2. CASE m \notin missed
    <3>1. PICK f \in todo :
             /\ phase' = phase /\ f \notin todo'
             /\ phase = "compose" /\ Crashes(f) /\ f.kind = "compose"
             /\ \A g \in todo : f.fname <= g.fname
             /\ missed' = missed \cup {[scanner |-> "compose", file |-> g, why |-> "left"]
                                          : g \in todo \ {f}}
      BY <1>4, <2>2, NewlyMissed
    <3>2. m.scanner = "compose" /\ m.file \in todo
      BY <2>2, <3>1
    <3>3. ~Missed("compose", f)
      BY <3>1 DEF MissInv, Missed, Done, Past
    <3>4. ~Missed("compose", f)'
      BY <3>1, <3>3 DEF Missed
    <3>5. Done("compose", f)' /\ f \in project
      BY <3>1 DEF Done, TypeInv
    <3> QED
      BY <3>1, <3>2, <3>4, <3>5
  <2> QED
    BY <2>1, <2>2
<1> QED
  BY <1>1, <1>2, <1>4 DEF MissInv

\* A Python file was visited and could give a job.
Read(f) == Covers("python", f) /\ Done("python", f) /\ ~Missed("python", f) /\ f.imports

\* Jobs name connections of the result; the names are complete when jobs are found.
JobInv ==
    /\ phase \in {"env", "compose"} => jobs = <<>>
    /\ \A i \in DOMAIN jobs : \A d \in jobs[i].inputs \cup jobs[i].outputs :
          d.ns \in NamesOf(conns) \cup {Home}
    /\ \A f \in project : Read(f) =>
          LET io == InferIo(f, NamesOf(conns))
          IN  io.inputs \cup io.outputs # {} =>
                  \E i \in DOMAIN jobs : jobs[i] = Job(Slugify(f.stem), io, f)

\* New jobs, at most from the file visited.
LEMMA JobsGrow ==
    ASSUME TypeInv, JobInv, NEW f, NEW new \in Seq(JobsIn(project)), jobs' = jobs \o new,
           phase \in {"python", "dags"}, todo' = todo \ {f},
           \A i \in DOMAIN new : \A d \in new[i].inputs \cup new[i].outputs :
              d.ns \in NamesOf(conns) \cup {Home},
           phase = "dags" \/ new = FromPython(f, NamesOf(conns)),
           UNCHANGED <<project, phase, conns, missed>>
    PROVE  JobInv'
<1>1. IsAfter(jobs', jobs, new)
  BY Appended DEF TypeInv
<1>2. ASSUME NEW i \in DOMAIN jobs', NEW d \in jobs'[i].inputs \cup jobs'[i].outputs
      PROVE  d.ns \in NamesOf(conns) \cup {Home}
  BY <1>1 DEF IsAfter, JobInv
<1>3. ASSUME NEW g \in project, Read(g)',
             InferIo(g, NamesOf(conns)).inputs \cup InferIo(g, NamesOf(conns)).outputs # {}
      PROVE  \E i \in DOMAIN jobs' : jobs'[i] = Job(Slugify(g.stem), InferIo(g, NamesOf(conns)), g)
  <2>1. CASE Read(g)
    <3>1. PICK i \in DOMAIN jobs : jobs[i] = Job(Slugify(g.stem), InferIo(g, NamesOf(conns)), g)
      BY <1>3, <2>1 DEF JobInv
    <3> QED
      BY <1>1, <3>1 DEF IsAfter
  <2>2. CASE ~Read(g)
    <3>1. Covers("python", g) /\ ~Missed("python", g) /\ g.imports
      BY <1>3 DEF Read, Missed
    <3>2. ~Done("python", g) /\ ("python" \in Past(phase) \/ (phase = "python" /\ g \notin todo'))
      BY <1>3, <2>2, <3>1 DEF Read, Done
    <3>3. phase = "python" /\ g = f
      BY <3>2 DEF Done, Past
    <3>4. new = <<Job(Slugify(g.stem), InferIo(g, NamesOf(conns)), g)>>
      BY <1>3, <3>1, <3>3 DEF FromPython
    <3>5. 1 \in DOMAIN new /\ new[1] = Job(Slugify(g.stem), InferIo(g, NamesOf(conns)), g)
      BY <3>4
    <3>6. PICK k \in DOMAIN jobs' : jobs'[k] = new[1]
      BY <1>1, <3>5 DEF IsAfter
    <3> QED
      BY <3>5, <3>6
  <2> QED
    BY <2>1, <2>2
<1> QED
  BY <1>2, <1>3 DEF JobInv

\* No new job, and the names stay.
LEMMA JobsStay ==
    ASSUME TypeInv, JobInv, UNCHANGED <<project, jobs>>, NamesOf(conns') = NamesOf(conns),
           phase' \in {"env", "compose"} => phase \in {"env", "compose"},
           \A g \in project : Read(g)' => Read(g)
    PROVE  JobInv'
BY DEF JobInv

\* Before the Python files no job is known, and none is due.
LEMMA JobsNotYet ==
    ASSUME TypeInv, JobInv, phase \in {"env", "compose"}, UNCHANGED <<jobs, phase>>
    PROVE  JobInv'
<1>1. jobs = <<>> /\ DOMAIN <<>> = {}
  BY DEF JobInv
<1>2. \A f : ~Read(f)'
  BY DEF Read, Done, Past
<1> QED
  BY <1>1, <1>2 DEF JobInv

LEMMA DatasetNamespace ==
    ASSUME NEW f \in Files, f.kind = "py", NEW known
    PROVE  \A d \in InferIo(f, known).inputs \cup InferIo(f, known).outputs : d.ns \in known \cup {Home}
<1>1. \A i : Dataset(f.mentions[i], known).ns \in known \cup {Home}
  BY DEF Dataset
<1>2. \A d \in InputsOf(f, known, Len(f.mentions)) \cup OutputsOf(f, known, Len(f.mentions)) :
         d.ns \in known \cup {Home}
  BY <1>1 DEF InputsOf, OutputsOf
<1>3. InferIo(f, known) = [inputs |-> InputsOf(f, known, Len(f.mentions)),
                           outputs |-> OutputsOf(f, known, Len(f.mentions))]
  BY InferIoFinds
<1> QED
  BY <1>2, <1>3

LEMMA JobScanPython == ASSUME TypeInv, JobInv, NEW f \in project, ScanPython(f) PROVE JobInv'
<1> DEFINE known == NamesOf(conns)
           new == FromPython(f, known)
           j == Job(Slugify(f.stem), InferIo(f, known), f)
<1>1. /\ phase = "python" /\ f.kind = "py" /\ project \in Projects /\ f \in Files
      /\ todo' = todo \ {f} /\ jobs' = jobs \o new /\ UNCHANGED <<project, phase, conns, missed>>
  BY Visits, FilesTyped DEF ScanPython
<1>2. new \in Seq(JobsIn(project))
  <2>1. known \subseteq Names
    BY NamesOfTyped DEF TypeInv
  <2> QED
    BY <1>1, <2>1, FromPythonType
<1>3. \A d \in j.inputs \cup j.outputs : d.ns \in known \cup {Home}
  BY <1>1, DatasetNamespace DEF Job
<1>4. new = <<j>> \/ new = <<>>
  BY DEF FromPython
<1>5. \A i \in DOMAIN new : new[i] = j
  <2> HIDE DEF j, new
  <2> QED
    BY <1>4
<1>6. \A i \in DOMAIN new : \A d \in new[i].inputs \cup new[i].outputs : d.ns \in known \cup {Home}
  <2> HIDE DEF j, new, known
  <2> QED
    BY <1>3, <1>5
<1>7. new = FromPython(f, NamesOf(conns))
  OBVIOUS
<1> HIDE DEF new
<1> QED
  BY <1>1, <1>2, <1>6, <1>7, JobsGrow

LEMMA JobScanDag == ASSUME TypeInv, JobInv, NEW f \in project, ScanDag(f) PROVE JobInv'
<1> DEFINE new == FromDag(f)
<1>1. /\ phase = "dags" /\ f.kind = "py" /\ project \in Projects
      /\ todo' = todo \ {f} /\ jobs' = jobs \o new /\ UNCHANGED <<project, phase, conns, missed>>
  BY Visits DEF ScanDag
<1>2. new \in Seq(JobsIn(project))
  BY <1>1, FromDagType
<1>3. ASSUME NEW i \in DOMAIN new, NEW d \in new[i].inputs \cup new[i].outputs PROVE d.ns = Home
  <2> DEFINE tables == {f.mentions[k].table : k \in {l \in DOMAIN f.mentions : f.mentions[l].by # "table"}}
             side(T) == {[ns |-> Home, table |-> t] : t \in T}
             j == Job(f.dag, [inputs |-> side(tables \cap SourceLike),
                              outputs |-> side(tables \ SourceLike)], f)
  <2>1. new = <<>> \/ new = <<j>>
    BY DEF FromDag
  <2>2. \A e \in j.inputs \cup j.outputs : e.ns = Home
    BY DEF Job
  <2> HIDE DEF j, new
  <2>3. new[i] = j
    BY <2>1
  <2> QED
    BY <2>2, <2>3
<1> HIDE DEF new
<1> QED
  BY <1>1, <1>2, <1>3, JobsGrow

LEMMA JobUnreadable == ASSUME TypeInv, JobInv, NEW f, Unreadable(f) PROVE JobInv'
<1> DEFINE m == [scanner |-> phase, file |-> f, why |-> "unreadable"]
<1>1. /\ todo' = todo \ {f} /\ m \in missed' /\ missed \subseteq missed' /\ m.scanner = phase /\ m.file = f
      /\ UNCHANGED <<project, phase, conns, jobs>>
  BY DEF Unreadable
<1> HIDE DEF m
<1>2. ASSUME NEW g \in project, Read(g)' PROVE Read(g)
  <2>1. ~\E a \in missed' : a.scanner = "python" /\ a.file = g
    BY <1>2 DEF Read, Missed
  <2>2. Covers("python", g) /\ ~Missed("python", g) /\ g.imports
    BY <1>1, <1>2, <2>1 DEF Read, Missed
  <2>3. "python" \in Past(phase) \/ (phase = "python" /\ g \notin todo')
    BY <1>1, <1>2 DEF Read, Done
  <2>4. phase = "python" => g # f
    BY <1>1, <2>1
  <2>5. Done("python", g)
    BY <1>1, <2>3, <2>4 DEF Done
  <2> QED
    BY <2>2, <2>5 DEF Read
<1> QED
  BY <1>1, <1>2, JobsStay

LEMMA JobEndScanner == ASSUME TypeInv, JobInv, NEW k \in DOMAIN Scanners, EndScanner(k) PROVE JobInv'
<1>1. /\ \/ phase = "env" /\ phase' = "compose"
         \/ phase = "compose" /\ phase' = "python"
         \/ phase = "python" /\ phase' = "dags"
      /\ Past(phase') = Past(phase) \cup {phase}
      /\ todo = {} /\ todo' = {f \in project : Covers(phase', f)}
      /\ UNCHANGED <<project, conns, jobs, missed, push>>
  BY EndScannerIs
<1>2. ASSUME NEW g \in project, Read(g)' PROVE Read(g)
  <2>1. Covers("python", g) /\ ~Missed("python", g) /\ g.imports
    BY <1>1, <1>2 DEF Read, Missed
  <2>2. "python" \in Past(phase) \cup {phase} \/ (phase' = "python" /\ g \notin todo')
    BY <1>1, <1>2 DEF Read, Done
  <2>3. phase' = "python" => g \in todo'
    BY <1>1, <2>1
  <2>4. Done("python", g)
    BY <1>1, <2>2, <2>3 DEF Done
  <2> QED
    BY <2>1, <2>4 DEF Read
<1>3. phase' \in {"env", "compose"} => phase \in {"env", "compose"}
  BY <1>1
<1> QED
  BY <1>1, <1>2, <1>3, JobsStay

\* Deduplication loses no name.
LEMMA FirstOfNames ==
    ASSUME NEW S, NEW found \in Seq(S)
    PROVE  NamesOf(FirstOf(found)) = NamesOf(found)
<1>1. IsFirstOf(FirstOf(found), found) /\ \A i \in DOMAIN found : 1 .. i \subseteq DOMAIN found
  BY FirstOfKeepsFirst
<1> DEFINE u == FirstOf(found)
<1> HIDE DEF u
<1>2. ASSUME NEW k \in DOMAIN u PROVE u[k].name \in NamesOf(found)
  BY <1>1 DEF NamesOf, IsFirstOf, u
<1>3. ASSUME NEW i \in DOMAIN found PROVE found[i].name \in NamesOf(u)
  <2>1. PICK k \in DOMAIN u, j \in 1 .. i : u[k] = found[j] /\ found[j].name = found[i].name
    BY <1>1 DEF IsFirstOf, u
  <2> QED
    BY <2>1 DEF NamesOf
<1>4. NamesOf(u) \subseteq NamesOf(found) /\ NamesOf(found) \subseteq NamesOf(u)
  BY <1>2, <1>3 DEF NamesOf
<1> QED
  BY <1>4 DEF u

LEMMA JobDeduplicate == ASSUME TypeInv, JobInv, Deduplicate PROVE JobInv'
<1>1. /\ phase = "dags" /\ phase' = "publish" /\ conns' = FirstOf(conns)
      /\ UNCHANGED <<project, jobs, missed>>
  BY DEF Deduplicate
<1>2. NamesOf(conns') = NamesOf(conns)
  BY <1>1, FirstOfNames DEF TypeInv
<1>3. ASSUME NEW g \in project, Read(g)' PROVE Read(g)
  BY <1>1, <1>3 DEF Read, Missed, Done, Past
<1> QED
  BY <1>1, <1>2, <1>3, JobsStay

LEMMA JobInvIsInductive == TypeInv /\ JobInv /\ [Next]_vars => JobInv'
<1> SUFFICES ASSUME TypeInv, JobInv, [Next]_vars PROVE JobInv'
  OBVIOUS
<1>1. CASE UNCHANGED scan
  BY <1>1 DEF scan, JobInv, Read, Done, Missed
<1>2. ASSUME NEW f \in project, Unreadable(f) PROVE JobInv'
  BY <1>2, JobUnreadable
<1>3. ASSUME NEW f \in project, ParseEnv(f) \/ ParseCompose(f) PROVE JobInv'
  BY <1>3, JobsNotYet DEF ParseEnv, ParseCompose, Visiting
<1>4. ASSUME NEW f \in project, ScanPython(f) PROVE JobInv'
  BY <1>4, JobScanPython
<1>5. ASSUME NEW f \in project, ScanDag(f) PROVE JobInv'
  BY <1>5, JobScanDag
<1>6. ASSUME NEW k \in DOMAIN Scanners, EndScanner(k) PROVE JobInv'
  BY <1>6, JobEndScanner
<1>7. CASE Deduplicate
  BY <1>7, JobDeduplicate
<1>8. CASE PostConnection \/ PostJob \/ PostLost \/ PushAgain
  BY <1>1, <1>8 DEF PostConnection, PostJob, PostLost, PushAgain
<1>9. ASSUME NEW n \in Names, OthersStub(n) \/ OthersDelete(n) PROVE JobInv'
  BY <1>1, <1>9 DEF OthersStub, OthersDelete
<1>10. CASE UNCHANGED vars
  BY <1>1, <1>10 DEF vars
<1> QED
  BY <1>2, <1>3, <1>4, <1>5, <1>6, <1>7, <1>8, <1>9, <1>10 DEF Next

LEMMA InitMissJob == Init => MissInv /\ JobInv
<1> SUFFICES ASSUME Init PROVE MissInv /\ JobInv
  OBVIOUS
<1>1. phase = "env" /\ missed = {} /\ jobs = <<>> /\ DOMAIN <<>> = {}
  BY DEF Init
<1>2. \A f : ~Read(f)
  BY <1>1 DEF Read, Done, Past
<1> QED
  BY <1>1, <1>2 DEF MissInv, JobInv

\* The inputs and outputs FailuresStayLocal names are those _infer_io finds.
LEMMA InputsOutputs ==
    ASSUME NEW f \in Files, f.kind = "py", NEW known
    PROVE  LET of      == {Dataset(f.mentions[i], known) : i \in DOMAIN f.mentions}
               twice   == {d \in of : \E i, k \in DOMAIN f.mentions :
                              i # k /\ Dataset(f.mentions[i], known) = d
                                    /\ Dataset(f.mentions[k], known) = d}
           IN  /\ InferIo(f, known).inputs = IF f.reads THEN of ELSE {}
               /\ InferIo(f, known).outputs = IF ~f.writes THEN {} ELSE IF f.reads THEN twice ELSE of
<1> DEFINE ds(i) == Dataset(f.mentions[i], known)
           n == Len(f.mentions)
           of == {ds(i) : i \in DOMAIN f.mentions}
           twice == {d \in of : \E i, k \in DOMAIN f.mentions : i # k /\ ds(i) = d /\ ds(k) = d}
<1>1. n \in Nat /\ DOMAIN f.mentions = 1 .. n
  BY DEF Files
<1>2. InferIo(f, known) = [inputs |-> InputsOf(f, known, n), outputs |-> OutputsOf(f, known, n)]
  BY InferIoFinds
<1>3. InputsOf(f, known, n) = IF f.reads THEN of ELSE {}
  BY <1>1 DEF InputsOf
<1>4. OutputsOf(f, known, n) =
         IF ~f.writes THEN {} ELSE {ds(i) : i \in {k \in 1 .. n : f.reads => \E l \in 1 .. k - 1 : ds(l) = ds(k)}}
  BY DEF OutputsOf
<1> DEFINE again == {ds(i) : i \in {k \in 1 .. n : \E l \in 1 .. k - 1 : ds(l) = ds(k)}}
<1>5. again = twice
  <2> HIDE DEF ds, n
  <2>1. ASSUME NEW i \in 1 .. n, NEW k \in 1 .. n, i # k, ds(i) = ds(k) PROVE ds(i) \in again
    <3>1. CASE i < k
      <4>1. i \in 1 .. k - 1
        BY <1>1, <3>1
      <4> QED
        BY <2>1, <4>1
    <3>2. CASE k < i
      <4>1. k \in 1 .. i - 1
        BY <1>1, <3>2
      <4> QED
        BY <2>1, <4>1
    <3> QED
      BY <1>1, <2>1, <3>1, <3>2
  <2>2. ASSUME NEW i \in 1 .. n, NEW l \in 1 .. i - 1, ds(l) = ds(i) PROVE ds(i) \in twice
    <3>1. l \in 1 .. n /\ l # i
      BY <1>1
    <3> QED
      BY <1>1, <2>2, <3>1
  <2>3. twice \subseteq again
    BY <1>1, <2>1
  <2>4. again \subseteq twice
    BY <2>2
  <2> QED
    BY <2>3, <2>4
<1>6. OutputsOf(f, known, n) = IF ~f.writes THEN {} ELSE IF f.reads THEN again ELSE of
  BY <1>1, <1>4
<1> HIDE DEF n, again
<1> QED
  BY <1>2, <1>3, <1>5, <1>6

\* The name of a dataset of a scanned job can be resolved: it is the project's namespace
\* or a connection of the result (_infer_io, _parse_dag_file).
THEOREM NamespacesAreAlwaysConnections == Spec => []NamespacesAreConnections
<1>1. Init => TypeInv /\ JobInv
  BY InitTypeInv, InitMissJob
<1>2. TypeInv /\ JobInv /\ [Next]_vars => TypeInv' /\ JobInv'
  BY TypeInvIsInductive, JobInvIsInductive
<1>3. TypeInv /\ JobInv => NamespacesAreConnections
  BY DEF JobInv, NamespacesAreConnections
<1> QED
  BY <1>1, <1>2, <1>3, PTL DEF Spec

\* Only a compose file that breaks its scanner costs other files their findings, and only
\* compose files at or after its place; every other Python file that could be read gives
\* its job, with the inputs and outputs that the final names imply (scan, _infer_io).
THEOREM FailuresAlwaysStayLocal == Spec => []FailuresStayLocal
<1>1. Init => TypeInv /\ MissInv /\ JobInv
  BY InitTypeInv, InitMissJob
<1>2. TypeInv /\ MissInv /\ JobInv /\ [Next]_vars => TypeInv' /\ MissInv' /\ JobInv'
  BY TypeInvIsInductive, MissInvIsInductive, JobInvIsInductive
<1>3. TypeInv /\ MissInv /\ JobInv => FailuresStayLocal
  <2> SUFFICES ASSUME TypeInv, MissInv, JobInv, phase = "publish" PROVE FailuresStayLocal
    BY DEF FailuresStayLocal
  <2> DEFINE known == NamesOf(conns)
             of(f) == {Dataset(f.mentions[i], known) : i \in DOMAIN f.mentions}
             twice(f) == {d \in of(f) : \E i, k \in DOMAIN f.mentions :
                             i # k /\ Dataset(f.mentions[i], known) = d
                                   /\ Dataset(f.mentions[k], known) = d}
             inputs(f) == IF f.reads THEN of(f) ELSE {}
             outputs(f) == IF ~f.writes THEN {} ELSE IF f.reads THEN twice(f) ELSE of(f)
  <2>1. \A m \in missed : m.why = "left" =>
           \E g \in project : /\ m.scanner = "compose" /\ g.kind = "compose" /\ Crashes(g)
                              /\ ~Missed("compose", g) /\ g.fname <= m.file.fname
    BY DEF MissInv
  <2>2. ASSUME NEW f \in project, Covers("python", f), f.imports, ~Missed("python", f),
               inputs(f) \cup outputs(f) # {}
        PROVE  \E i \in DOMAIN jobs : jobs[i] = [name |-> Slugify(f.stem), inputs |-> inputs(f),
                                                 outputs |-> outputs(f), source |-> f]
    <3>1. f \in Files /\ f.kind = "py"
      BY <2>2, FilesTyped, CoversKinds DEF TypeInv
    <3>2. InferIo(f, known).inputs = inputs(f) /\ InferIo(f, known).outputs = outputs(f)
      BY <3>1, InputsOutputs
    <3>3. Read(f)
      BY <2>2 DEF Read, Done, Past
    <3> HIDE DEF inputs, outputs
    <3>4. PICK i \in DOMAIN jobs : jobs[i] = Job(Slugify(f.stem), InferIo(f, known), f)
      BY <2>2, <3>2, <3>3 DEF JobInv
    <3> QED
      BY <3>2, <3>4 DEF Job
  <2> QED
    BY <2>1, <2>2 DEF FailuresStayLocal
<1> QED
  BY <1>1, <1>2, <1>3, PTL DEF Spec

-----------------------------------------------------------------------------
(* What the collector holds after the push. *)

\* What the answer to connection i says is still so.
Settled(i) ==
    LET c   == conns[i]
        row == table[c.name]
    IN  told[i] # "lost" =>
            /\ told[i] = "422" <=> ~ValidName(c.name) \/ (c.platform \in Strict /\ c.props = "empty")
            /\ told[i] = "500" => row # NULL /\ row.deleted
            /\ told[i] \in {"201", "409"} =>
                  row # NULL /\ (IsStub(row) => c.platform = "unknown" \/ row.deleted)

Answered(i) == told[Len(conns) + i] = "lost" \/ EdgesOf(jobs[i]) \subseteq edges

PushInv ==
    /\ \A e \in edges : table[e.ns] # NULL
    /\ phase = "publish" =>
          /\ \A i \in DOMAIN conns : i < next => Settled(i)
          /\ \A i \in DOMAIN jobs : Len(conns) + i < next => Answered(i)

LEMMA NullIsNoRow == NULL \notin Rows /\ \A r \in Rows \cup {NULL} : UpsertMinimal(r) # NULL
<1>1. NULL \notin Rows
  BY NullRowAssumption
<1> QED
  BY <1>1, RowsWritten

\* A finding is refused for its body if its platform requires properties the scanner
\* does not give.
LEMMA RefusedBody ==
    ASSUME NEW p \in Projects, NEW c \in Findings(p)
    PROVE  Invalid(Payload(c)) <=> c.platform \in Strict /\ c.props = "empty"
<1>1. /\ c.platform \in Platforms \cup {"unknown"} /\ c.props \in Props
      /\ c.props = "empty" \/ (c.props = "kafka" /\ c.platform = "kafka")
  BY ScannerAssumption DEF Findings, Finding
<1>2. c.platform # NULL /\ c.props # NULL
  BY <1>1, NullRowAssumption
<1>3. "empty" \notin Strict
  BY DEF Strict
<1>4. Invalid(Payload(c)) <=> ~Conforms(c.platform, c.props)
  BY <1>2 DEF Invalid, Payload
<1> QED
  BY <1>1, <1>3, <1>4 DEF Conforms

\* The answer stays right while others only create rows and delete.
LEMMA SettledStays ==
    ASSUME TypeInv, NEW i \in DOMAIN conns, Settled(i), conns' = conns, told'[i] = told[i],
           LET n == conns[i].name
           IN  table[n] # NULL => table'[n] = table[n] \/ (table'[n] # NULL /\ table'[n].deleted = TRUE)
    PROVE  Settled(i)'
<1> DEFINE n == conns[i].name
<1>1. CASE table[n] = NULL
  BY <1>1 DEF Settled
<1>2. CASE table'[n] = table[n]
  BY <1>2 DEF Settled
<1>3. CASE table[n] # NULL /\ table'[n] # NULL /\ table'[n].deleted = TRUE
  BY <1>3 DEF Settled
<1> QED
  BY <1>1, <1>2, <1>3

\* What each answer says of the request and the row.
LEMMA VerdictIs ==
    ASSUME NEW c, NEW row
    PROVE  /\ Verdict(c, row) = "422" <=> ~ValidName(c.name) \/ Invalid(Payload(c))
           /\ Verdict(c, row) = "409" => row # NULL /\ ~IsStub(row)
           /\ Verdict(c, row) = "500" => row # NULL /\ row.deleted
<1>1. Verdict(c, row) = IF ~ValidName(c.name) \/ Invalid(Payload(c)) THEN "422"
                        ELSE IF Live(row) # NULL /\ ~IsStub(row) THEN "409"
                        ELSE IF row # NULL /\ row.deleted THEN "500" ELSE "201"
  BY DEF Verdict
<1>2. Live(row) # NULL => row # NULL
  BY DEF Live
<1> QED
  BY <1>1, <1>2

LEMMA PushPostConnection == ASSUME TypeInv, FoundInv, PushInv, PostConnection PROVE PushInv'
<1> DEFINE c == conns[next]
           row == table[c.name]
           answer == Verdict(c, row)
<1>1. /\ phase = "publish" /\ next \in DOMAIN conns /\ next' = next + 1
      /\ UNCHANGED <<project, phase, conns, jobs, edges>>
      /\ \E heard \in {answer, "lost"} : told' = [told EXCEPT ![next] = heard]
      /\ table' = IF answer = "201" THEN [table EXCEPT ![c.name] = Outcome(Payload(c), row)] ELSE table
  BY DEF PostConnection, Deliver, scan
<1>2. /\ Len(conns) \in Nat /\ DOMAIN conns = 1 .. Len(conns) /\ next \in DOMAIN told
      /\ DOMAIN told = 1 .. Len(told) /\ DOMAIN conns \subseteq DOMAIN told
      /\ Len(jobs) \in Nat /\ DOMAIN jobs = 1 .. Len(jobs)
      /\ c \in Findings(project) /\ c.name \in Names /\ project \in Projects
  BY <1>1, Positions DEF TypeInv
<1>3. /\ row \in Rows \cup {NULL} /\ table \in [Names -> Rows \cup {NULL}]
      /\ Outcome(Payload(c), row) \in Rows
      /\ Outcome(Payload(c), row).platform = c.platform
  BY <1>2, RowsWritten DEF TypeInv, Outcome, Payload
<1>4. \A n \in Names : table'[n] = table[n] \/ (n = c.name /\ table'[n] \in Rows)
  <2> HIDE DEF c, row, answer
  <2> QED
    BY <1>1, <1>2, <1>3
<1>5. \A e \in edges' : table'[e.ns] # NULL
  BY <1>1, <1>4, NullIsNoRow DEF PushInv, TypeInv, Edge
<1>6. \A i \in DOMAIN told : i # next => told'[i] = told[i]
  BY <1>1
<1>7. ASSUME NEW i \in DOMAIN conns, i < next PROVE Settled(i)'
  <2>1. Settled(i) /\ i # next
    BY <1>1, <1>2, <1>7 DEF PushInv
  <2>2. told'[i] = told[i]
    BY <1>2, <1>6, <2>1
  <2>3. conns[i].name # c.name /\ conns[i].name \in Names
    BY <1>1, <2>1, Positions DEF FoundInv
  <2>4. table'[conns[i].name] = table[conns[i].name]
    BY <1>4, <2>3
  <2> QED
    BY <1>1, <2>1, <2>2, <2>4, SettledStays
<1>8. ASSUME NEW i \in DOMAIN conns, i = next PROVE Settled(i)'
  <2>1. told'[next] \in {answer, "lost"}
    BY <1>1, <1>2 DEF TypeInv
  <2>2. answer = "422" <=> ~ValidName(c.name) \/ (c.platform \in Strict /\ c.props = "empty")
    <3>1. Invalid(Payload(c)) <=> c.platform \in Strict /\ c.props = "empty"
      BY <1>2, RefusedBody
    <3> QED
      BY <3>1, VerdictIs
  <2>3. answer = "500" => table'[c.name] # NULL /\ table'[c.name].deleted
    <3>1. ASSUME answer = "500" PROVE row # NULL /\ row.deleted /\ table' = table
      BY <1>1, <3>1, VerdictIs
    <3> QED
      BY <3>1
  <2>4. answer = "409" => table'[c.name] # NULL /\ ~IsStub(table'[c.name])
    <3>1. ASSUME answer = "409" PROVE row # NULL /\ ~IsStub(row) /\ table' = table
      BY <1>1, <3>1, VerdictIs
    <3> QED
      BY <3>1
  <2>5. answer = "201" => /\ table'[c.name] # NULL
                          /\ IsStub(table'[c.name]) => c.platform = "unknown"
    <3>1. ASSUME answer = "201" PROVE table'[c.name] = Outcome(Payload(c), row)
      BY <1>1, <1>2, <1>3, <3>1
    <3> QED
      BY <1>3, <3>1, NullIsNoRow DEF IsStub
  <2>6. told'[next] # "lost" => told'[next] = answer
    BY <2>1
  <2>7. conns'[i] = c /\ told'[i] = told'[next]
    BY <1>1, <1>8
  <2> HIDE DEF answer, row, c
  <2> QED
    BY <2>2, <2>3, <2>4, <2>5, <2>6, <2>7 DEF Settled
<1>9. ASSUME NEW i \in DOMAIN conns', i < next' PROVE Settled(i)'
  <2>1. i \in DOMAIN conns /\ (i < next \/ i = next)
    BY <1>1, <1>2, <1>9
  <2> QED
    BY <1>7, <1>8, <2>1
<1>10. \A i \in DOMAIN jobs' : ~(Len(conns') + i < next')
  BY <1>1, <1>2
<1> QED
  BY <1>5, <1>9, <1>10 DEF PushInv

\* The rows and answers of connections, when an answer to nothing but a job may be new.
LEMMA PushFrame ==
    ASSUME TypeInv, PushInv, phase = "publish", UNCHANGED <<phase, conns, jobs>>,
           edges \subseteq edges', \A e \in edges' : e \in edges \/ table'[e.ns] # NULL,
           \A n \in Names : table[n] # NULL =>
              table'[n] = table[n] \/ (table'[n] # NULL /\ table'[n].deleted = TRUE),
           \A i \in DOMAIN conns : i < next' => i < next /\ told'[i] = told[i],
           \A i \in DOMAIN jobs : Len(conns) + i < next' =>
              (Len(conns) + i < next /\ told'[Len(conns) + i] = told[Len(conns) + i]) \/ Answered(i)'
    PROVE  PushInv'
<1>1. \A e \in edges' : table'[e.ns] # NULL
  BY DEF PushInv, TypeInv, Edge
<1>2. ASSUME NEW i \in DOMAIN conns, i < next' PROVE Settled(i)'
  <2>1. Settled(i) /\ conns[i].name \in Names /\ told'[i] = told[i]
    BY <1>2, Positions DEF PushInv
  <2> QED
    BY <2>1, SettledStays
<1>3. ASSUME NEW i \in DOMAIN jobs, Len(conns) + i < next' PROVE Answered(i)'
  <2>1. CASE Len(conns) + i < next /\ told'[Len(conns) + i] = told[Len(conns) + i]
    <3>1. Answered(i)
      BY <2>1 DEF PushInv
    <3> QED
      BY <2>1, <3>1 DEF Answered
  <2>2. CASE Answered(i)'
    BY <2>2
  <2> QED
    BY <1>3, <2>1, <2>2
<1> QED
  BY <1>1, <1>2, <1>3 DEF PushInv

LEMMA PushPostJob == ASSUME TypeInv, PushInv, PostJob PROVE PushInv'
<1> DEFINE l == next - Len(conns)
           new == EdgesOf(jobs[l])
<1>1. /\ phase = "publish" /\ next \in DOMAIN told \ DOMAIN conns /\ next' = next + 1
      /\ UNCHANGED <<project, phase, conns, jobs>> /\ edges' = edges \cup new
      /\ \E heard \in {"202", "lost"} : told' = [told EXCEPT ![next] = heard]
      /\ table' = [n \in Names |-> IF \E e \in new : e.ns = n THEN UpsertMinimal(table[n])
                                                              ELSE table[n]]
  BY DEF PostJob, Deliver, scan
<1>2. /\ Len(conns) \in Nat /\ DOMAIN conns = 1 .. Len(conns) /\ DOMAIN conns \subseteq DOMAIN told
      /\ Len(jobs) \in Nat /\ DOMAIN jobs = 1 .. Len(jobs)
      /\ Len(told) = Len(conns) + Len(jobs) /\ DOMAIN told = 1 .. Len(told)
      /\ l \in DOMAIN jobs /\ new \subseteq Edge
  BY <1>1, Positions, EdgesOfType
<1> HIDE DEF new
<1>3. ASSUME NEW e \in new PROVE table'[e.ns] # NULL
  <2>1. e.ns \in Names /\ table[e.ns] \in Rows \cup {NULL}
    BY <1>2 DEF Edge, TypeInv
  <2>2. table'[e.ns] = UpsertMinimal(table[e.ns])
    BY <1>1, <2>1
  <2> QED
    BY <2>1, <2>2, NullIsNoRow
<1>4. \A n \in Names : table[n] # NULL => table'[n] = table[n]
  BY <1>1 DEF UpsertMinimal
<1>5. \A i \in DOMAIN told : i # next => told'[i] = told[i]
  BY <1>1
<1>6. ASSUME NEW i \in DOMAIN conns, i < next' PROVE i < next /\ told'[i] = told[i]
  <2>1. i # next /\ i < next
    BY <1>1, <1>2, <1>6
  <2> QED
    BY <1>2, <1>5, <2>1
<1>7. ASSUME NEW i \in DOMAIN jobs, Len(conns) + i < next'
      PROVE  (Len(conns) + i < next /\ told'[Len(conns) + i] = told[Len(conns) + i]) \/ Answered(i)'
  <2>1. CASE i = l
    BY <1>1, <2>1 DEF Answered, new
  <2>2. CASE i # l
    <3>1. Len(conns) + i \in DOMAIN told /\ Len(conns) + i # next /\ Len(conns) + i < next
      BY <1>1, <1>2, <1>7, <2>2
    <3> QED
      BY <1>5, <3>1
  <2> QED
    BY <2>1, <2>2
<1>8. edges \subseteq edges' /\ \A e \in edges' : e \in edges \/ table'[e.ns] # NULL
  BY <1>1, <1>3
<1> QED
  BY <1>1, <1>4, <1>6, <1>7, <1>8, PushFrame

LEMMA PushPostLost == ASSUME TypeInv, PushInv, PostLost PROVE PushInv'
<1>1. /\ phase = "publish" /\ next \in DOMAIN told /\ next' = next + 1
      /\ UNCHANGED <<project, phase, conns, jobs, table, edges>>
      /\ told' = [told EXCEPT ![next] = "lost"]
  BY DEF PostLost, scan
<1>2. /\ Len(conns) \in Nat /\ DOMAIN conns = 1 .. Len(conns) /\ DOMAIN conns \subseteq DOMAIN told
      /\ Len(jobs) \in Nat /\ DOMAIN jobs = 1 .. Len(jobs)
      /\ Len(told) = Len(conns) + Len(jobs) /\ DOMAIN told = 1 .. Len(told)
  BY <1>1, Positions
<1>3. told'[next] = "lost" /\ \A i \in DOMAIN told : i # next => told'[i] = told[i]
  BY <1>1
<1>4. ASSUME NEW i \in DOMAIN conns, i < next' PROVE Settled(i)'
  <2>1. CASE i = next
    BY <1>3, <2>1 DEF Settled
  <2>2. CASE i # next
    <3>1. i < next /\ told'[i] = told[i]
      BY <1>1, <1>2, <1>3, <1>4, <2>2
    <3>2. Settled(i)
      BY <1>1, <3>1 DEF PushInv
    <3> QED
      BY <1>1, <3>1, <3>2, SettledStays
  <2> QED
    BY <2>1, <2>2
<1>5. ASSUME NEW i \in DOMAIN jobs, Len(conns) + i < next' PROVE Answered(i)'
  <2>1. CASE Len(conns) + i = next
    BY <1>1, <1>3, <2>1 DEF Answered
  <2>2. CASE Len(conns) + i # next
    <3>1. Len(conns) + i < next /\ Len(conns) + i \in DOMAIN told
      BY <1>1, <1>2, <1>5, <2>2
    <3>2. Answered(i)
      BY <1>1, <3>1 DEF PushInv
    <3> QED
      BY <1>1, <1>3, <2>2, <3>1, <3>2 DEF Answered
  <2> QED
    BY <2>1, <2>2
<1> QED
  BY <1>1, <1>4, <1>5 DEF PushInv

LEMMA PushPushAgain == ASSUME TypeInv, PushInv, PushAgain PROVE PushInv'
<1>1. phase = "publish" /\ next' = 1 /\ UNCHANGED <<scan, table, edges>> /\ UNCHANGED <<conns, jobs>>
  BY DEF PushAgain, scan
<1>2. \A i \in DOMAIN conns : ~(i < next')
  BY <1>1, Positions
<1>3. \A i \in DOMAIN jobs : ~(Len(conns) + i < next')
  BY <1>1, Positions
<1> QED
  BY <1>1, <1>2, <1>3 DEF PushInv

LEMMA PushOthers == ASSUME TypeInv, PushInv, NEW n \in Names, OthersStub(n) \/ OthersDelete(n) PROVE PushInv'
<1>1. phase = "publish" /\ UNCHANGED <<phase, conns, jobs, edges, next, told>>
  BY DEF OthersStub, OthersDelete, scan
<1>2. \A k \in Names : table[k] # NULL =>
         table'[k] = table[k] \/ (table'[k] # NULL /\ table'[k].deleted = TRUE)
  <2>1. CASE OthersStub(n)
    BY <2>1 DEF OthersStub, UpsertMinimal, TypeInv
  <2>2. CASE OthersDelete(n)
    <3>1. /\ table[n] \in Rows /\ table \in [Names -> Rows \cup {NULL}]
          /\ table' = [table EXCEPT ![n] = [table[n] EXCEPT !.deleted = TRUE]]
      BY <2>2, RowsWritten DEF OthersDelete, TypeInv
    <3>2. [table[n] EXCEPT !.deleted = TRUE] \in Rows /\ [table[n] EXCEPT !.deleted = TRUE].deleted = TRUE
      BY <3>1 DEF Rows
    <3>3. \A k \in Names : k # n => table'[k] = table[k]
      BY <3>1
    <3>4. table'[n] = [table[n] EXCEPT !.deleted = TRUE]
      BY <3>1
    <3> QED
      BY <3>2, <3>3, <3>4, NullIsNoRow
  <2> QED
    BY <2>1, <2>2
<1>3. \A e \in edges' : e \in edges
  BY <1>1
<1>4. edges \subseteq edges'
  BY <1>1
<1>5. \A i \in DOMAIN conns : i < next' => i < next /\ told'[i] = told[i]
  BY <1>1
<1>6. \A i \in DOMAIN jobs : Len(conns) + i < next' =>
         Len(conns) + i < next /\ told'[Len(conns) + i] = told[Len(conns) + i]
  BY <1>1
<1>7. phase' = phase /\ conns' = conns /\ jobs' = jobs
  BY <1>1
<1> QED
  BY <1>1, <1>2, <1>3, <1>4, <1>5, <1>6, <1>7, PushFrame

LEMMA PushDeduplicate == ASSUME TypeInv, PushInv, Deduplicate PROVE PushInv'
<1>1. next' = 1 /\ UNCHANGED <<jobs, table, edges>> /\ conns' \in Seq(Findings(project))
  BY FirstOfKeepsFirst DEF Deduplicate, TypeInv
<1>2. DOMAIN conns' = 1 .. Len(conns') /\ Len(conns') \in Nat /\ DOMAIN jobs = 1 .. Len(jobs)
  BY <1>1 DEF TypeInv
<1>3. \A i \in DOMAIN conns' : ~(i < next')
  BY <1>1, <1>2
<1>4. \A i \in DOMAIN jobs' : ~(Len(conns') + i < next')
  BY <1>1, <1>2
<1> QED
  BY <1>1, <1>3, <1>4 DEF PushInv

LEMMA PushInvIsInductive == TypeInv /\ FoundInv /\ PushInv /\ [Next]_vars => PushInv'
<1> SUFFICES ASSUME TypeInv, FoundInv, PushInv, [Next]_vars PROVE PushInv'
  OBVIOUS
<1>1. CASE UNCHANGED push /\ phase' # "publish"
  BY <1>1 DEF push, PushInv
<1>2. ASSUME NEW f \in project,
             Unreadable(f) \/ ParseEnv(f) \/ ParseCompose(f) \/ ScanPython(f) \/ ScanDag(f)
      PROVE  UNCHANGED push /\ phase' # "publish"
  BY <1>2, Visits DEF Unreadable, ParseEnv, ParseCompose, ScanPython, ScanDag
<1>3. ASSUME NEW k \in DOMAIN Scanners, EndScanner(k) PROVE UNCHANGED push /\ phase' # "publish"
  BY <1>3, EndScannerIs
<1>4. CASE Deduplicate
  BY <1>4, PushDeduplicate
<1>5. CASE PostConnection
  BY <1>5, PushPostConnection
<1>6. CASE PostJob
  BY <1>6, PushPostJob
<1>7. CASE PostLost
  BY <1>7, PushPostLost
<1>8. CASE PushAgain
  BY <1>8, PushPushAgain
<1>9. ASSUME NEW n \in Names, OthersStub(n) \/ OthersDelete(n) PROVE PushInv'
  BY <1>9, PushOthers
<1>10. CASE UNCHANGED vars
  BY <1>10 DEF vars, scan, push, PushInv, Settled, Answered
<1> QED
  BY <1>1, <1>2, <1>3, <1>4, <1>5, <1>6, <1>7, <1>8, <1>9, <1>10 DEF Next

\* After a push in which nothing was lost, first or repeated and whatever others did
\* meanwhile, a scanned connection is registered, or was refused for a reason that still
\* holds, and the lineage of every job is there under names that have a row
\* (create_connection, ingest).
THEOREM PushAlwaysSettles == Spec => []PushSettles
<1>1. Init => TypeInv /\ FoundInv /\ PushInv
  <2>1. Init => PushInv
    BY DEF Init, PushInv
  <2> QED
    BY <2>1, InitTypeInv, InitFoundInv
<1>2. TypeInv /\ FoundInv /\ PushInv /\ [Next]_vars => TypeInv' /\ FoundInv' /\ PushInv'
  BY TypeInvIsInductive, FoundInvIsInductive, PushInvIsInductive
<1>3. TypeInv /\ FoundInv /\ PushInv => PushSettles
  <2> SUFFICES ASSUME TypeInv, PushInv, phase = "publish", next > Len(told),
                      \A i \in DOMAIN told : told[i] # "lost"
               PROVE  PushSettles
    BY DEF PushSettles
  <2>1. /\ Len(conns) \in Nat /\ DOMAIN conns = 1 .. Len(conns) /\ DOMAIN conns \subseteq DOMAIN told
        /\ Len(jobs) \in Nat /\ DOMAIN jobs = 1 .. Len(jobs)
        /\ Len(told) = Len(conns) + Len(jobs) /\ DOMAIN told = 1 .. Len(told) /\ next \in Int
    BY Positions DEF TypeInv
  <2>2. ASSUME NEW i \in DOMAIN conns PROVE Settled(i) /\ told[i] # "lost"
    <3>1. i < next /\ i \in DOMAIN told
      BY <2>1
    <3> QED
      BY <3>1 DEF PushInv
  <2>3. ASSUME NEW i \in DOMAIN jobs PROVE EdgesOf(jobs[i]) \subseteq edges
    <3>1. Len(conns) + i < next /\ Len(conns) + i \in DOMAIN told
      BY <2>1
    <3> QED
      BY <3>1 DEF PushInv, Answered
  <2>4. \A e \in edges : table[e.ns] # NULL
    BY DEF PushInv
  <2>5. ASSUME NEW i \in DOMAIN conns
        PROVE  LET c == conns[i]
                   row == table[c.name]
               IN  /\ told[i] = "422" <=> ~ValidName(c.name) \/ (c.platform \in Strict /\ c.props = "empty")
                   /\ told[i] = "500" => row.deleted
                   /\ told[i] \in {"201", "409"} =>
                          row # NULL /\ (IsStub(row) => c.platform = "unknown" \/ row.deleted)
    BY <2>2 DEF Settled
  <2> QED
    BY <2>3, <2>4, <2>5 DEF PushSettles
<1> QED
  BY <1>1, <1>2, <1>3, PTL DEF Spec
=============================================================================
