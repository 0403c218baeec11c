--------------------------- MODULE SettingsProofs ---------------------------
(***************************************************************************)
(* Proofs about Settings, for every configuration file, environment, list  *)
(* of entries and number of threads and of blocks.                         *)
(*                                                                         *)
(* Autoload: FoldLeft is a chain of loads (FoldLoads), and what the chain  *)
(* leaves in a setting is what the last entry that sets it gives           *)
(* (LastSets).                                                             *)
(*                                                                         *)
(* Blocks: what the stack of one thread knows of a setting (Knows) is kept *)
(* by each kind of step, whatever the thread (PushKnows to EndXmlKnows);   *)
(* as long as two threads do not have a setting saved at once, the other   *)
(* stacks do not mind (GuardedAfter).                                      *)
(***************************************************************************)
EXTENDS Settings, DataLemmas

-----------------------------------------------------------------------------
(***************************************************************************)
(* Settings: what autoload gives each of them.                             *)
(***************************************************************************)
Defaults == [x \in Known |-> "A"]
Sets(e, x) == e[1] = x /\ Accepts(e)
ValuesAccepted(v) == v \in [Known -> Values] /\ \A x \in Known : Accepts(<<x, v[x]>>)

(* An entry sets the setting it names, or nothing. *)
LEMMA LoadedSets ==
  ASSUME NEW v \in [Known -> Values], NEW e \in Entry
  PROVE  /\ Loaded(v, e) \in [Known -> Values]
         /\ \A x \in Known : Loaded(v, e)[x] = IF Sets(e, x) THEN e[2] ELSE v[x]
<1>1. CASE Accepts(e)
  <2>1. Loaded(v, e) = [v EXCEPT ![e[1]] = e[2]] /\ e[1] \in Known /\ e[2] \in Values
    BY <1>1 DEF Loaded, Accepts, Entry
  <2>2. \A x \in Known : Sets(e, x) <=> x = e[1]
    BY <1>1 DEF Sets
  <2> QED BY <2>1, <2>2
<1>2. CASE ~Accepts(e)
  BY <1>2 DEF Loaded, Sets
<1> QED BY <1>1, <1>2

(* Entries loaded one after another. *)
LoadsBy(L, n, v, g) ==
  /\ g \in [0..n -> [Known -> Values]] /\ g[0] = v
  /\ \A i \in 1..n : g[i] = Loaded(g[i - 1], L[i])

(* FoldLeft loads the entries one after another. *)
LEMMA FoldLoads ==
  ASSUME NEW n \in Nat, NEW L \in Seq(Entry), Len(L) = n, NEW v \in [Known -> Values]
  PROVE  \E g : LoadsBy(L, n, v, g) /\ g[n] = FoldLeft(Loaded, v, L)
<1> DEFINE V == [Known -> Values]
           F == [i \in 1..n |-> [x \in V |-> Loaded(x, L[i])]]
           C == CHOOSE f : f = [s \in SUBSET (1..n) |->
                  IF s = {} THEN v ELSE Loaded(f[s \ {Max(s)}], L[Max(s)])]
<1>1. \A i \in 1..n : L[i] \in Entry
  OBVIOUS
<1>2. F \in [1..n -> [V -> V]] /\ \A i \in 1..n : \A x \in V : F[i][x] = Loaded(x, L[i])
  BY <1>1, LoadedSets
<1> HIDE DEF F
<1>3. FoldLeft(Loaded, v, L) = C[1..n]
  <2>1. DOMAIN L = 1..n
    OBVIOUS
  <2> QED BY <2>1 DEF FoldLeft, MapThenFoldSet
<1>4. PICK h : LatestLast(V, v, n, F, h)
  <2> HIDE DEF V
  <2> QED BY <1>2, FoldsExist DEF V
<1>5. h = [s \in SUBSET (1..n) |-> IF s = {} THEN v ELSE Loaded(h[s \ {Max(s)}], L[Max(s)])]
  <2>1. ASSUME NEW s \in SUBSET (1..n), s # {}
        PROVE  h[s] = Loaded(h[s \ {Max(s)}], L[Max(s)])
    <3>1. PICK m \in 1..n : m = Max(s)
      <4>1. \E k \in s : \A i \in s : i <= k
        BY <2>1, GreatestNat
      <4>2. Max(s) \in s
        BY <4>1, MaxIs
      <4> QED BY <4>2
    <3>2. PICK r \in SUBSET (1..n) : r = s \ {Max(s)}
      OBVIOUS
    <3>3. h[s] = F[m][h[r]] /\ h[r] \in V
      BY <1>4, <2>1, <3>1, <3>2 DEF LatestLast
    <3>4. F[m][h[r]] = Loaded(h[r], L[m])
      BY <1>2, <3>3
    <3> QED BY <3>1, <3>2, <3>3, <3>4
  <2>2. h \in [SUBSET (1..n) -> V] /\ h[{}] = v
    BY <1>4 DEF LatestLast
  <2> HIDE DEF V
  <2> QED BY <2>1, <2>2
<1>6. C = [s \in SUBSET (1..n) |-> IF s = {} THEN v ELSE Loaded(C[s \ {Max(s)}], L[Max(s)])]
  BY <1>5
<1> HIDE DEF C
<1>7. \A s \in SUBSET (1..n) : C[s] = IF s = {} THEN v ELSE Loaded(C[s \ {Max(s)}], L[Max(s)])
  BY <1>6
<1> DEFINE g == [k \in 0..n |-> C[1..k]]
<1>8. g[0] = v
  <2>1. 1..0 = {} /\ 1..0 \in SUBSET (1..n) /\ g[0] = C[1..0]
    OBVIOUS
  <2> QED BY <1>7, <2>1
<1>9. ASSUME NEW k \in 1..n
      PROVE  g[k] = Loaded(g[k - 1], L[k])
  <2>1. PICK s : s = 1..k
    OBVIOUS
  <2>2. s \in SUBSET (1..n) /\ s # {} /\ Max(s) = k /\ s \ {k} = 1..(k - 1)
    BY <2>1, FirstPlaces
  <2>3. C[s] = Loaded(C[s \ {k}], L[k])
    BY <1>7, <2>2
  <2>4. g[k] = C[s] /\ g[k - 1] = C[s \ {k}]
    <3>1. k \in 0..n /\ k - 1 \in 0..n
      OBVIOUS
    <3> QED BY <2>1, <2>2, <3>1
  <2> QED BY <2>3, <2>4
<1>10. g[n] = C[1..n] /\ g = [k \in 0..n |-> g[k]]
  OBVIOUS
<1> HIDE DEF g
<1>11. \A k \in 0..n : g[k] \in V
  <2> DEFINE Q == {k \in Nat : k \in 0..n => g[k] \in V}
  <2>1. 0 \in Q
    BY <1>8
  <2>2. ASSUME NEW k \in Nat, k \in Q PROVE k + 1 \in Q
    <3>1. SUFFICES ASSUME k + 1 \in 0..n PROVE g[k + 1] \in V
      OBVIOUS
    <3>2. PICK i \in 1..n : i = k + 1 /\ i - 1 = k
      BY <3>1
    <3>3. g[k] \in V /\ g[i] = Loaded(g[k], L[i])
      BY <1>9, <2>2, <3>1, <3>2
    <3>4. Loaded(g[k], L[i]) \in V
      BY <1>1, <3>3, LoadedSets
    <3> QED BY <3>2, <3>3, <3>4
  <2> HIDE DEF Q
  <2>3. \A k \in Nat : k \in Q
    BY <2>1, <2>2, NatClosed
  <2> QED BY <2>3 DEF Q
<1>12. g \in [0..n -> V]
  <2> HIDE DEF V
  <2> QED BY <1>10, <1>11
<1>13. LoadsBy(L, n, v, g)
  BY <1>8, <1>9, <1>12 DEF LoadsBy
<1> QED BY <1>3, <1>10, <1>13

(* y is what the last of the first k entries that sets x gives it; else d. *)
LastOf(L, k, x, d, y) ==
  \/ (\A i \in 1..k : ~Sets(L[i], x)) /\ y = d
  \/ \E i \in 1..k : Sets(L[i], x) /\ (\A j \in (i + 1)..k : ~Sets(L[j], x)) /\ y = L[i][2]

(* What a chain of loads leaves in a setting: the value of the last entry *)
(* that sets it.                                                          *)
LEMMA LastSets ==
  ASSUME NEW n \in Nat, NEW L \in Seq(Entry), Len(L) = n, NEW v, NEW g, LoadsBy(L, n, v, g),
         NEW x \in Known
  PROVE  LastOf(L, n, x, v[x], g[n][x])
<1> DEFINE Q == {k \in Nat : k <= n => LastOf(L, k, x, v[x], g[k][x])}
<1>1. 0 \in Q
  <2>1. g[0] = v
    BY DEF LoadsBy
  <2> QED BY <2>1 DEF LastOf
<1>2. ASSUME NEW k \in Nat, k \in Q PROVE k + 1 \in Q
  <2>1. SUFFICES ASSUME k + 1 <= n PROVE LastOf(L, k + 1, x, v[x], g[k + 1][x])
    OBVIOUS
  <2>2. PICK m \in 1..n : m = k + 1 /\ m - 1 = k
    BY <2>1
  <2>3. LastOf(L, k, x, v[x], g[k][x])
    BY <1>2, <2>1
  <2>4. g[m] = Loaded(g[k], L[m]) /\ g[k] \in [Known -> Values]
    <3>1. k \in 0..n
      BY <2>1
    <3> QED BY <2>2, <3>1 DEF LoadsBy
  <2>5. L[m] \in Entry
    OBVIOUS
  <2>6. g[m][x] = IF Sets(L[m], x) THEN L[m][2] ELSE g[k][x]
    BY <2>4, <2>5, LoadedSets
  <2>7. \A i \in 1..m : i = m \/ i \in 1..k
    BY <2>2
  <2>8. CASE Sets(L[m], x)
    <3>1. m \in 1..m /\ \A j \in (m + 1)..m : FALSE
      OBVIOUS
    <3>2. LastOf(L, m, x, v[x], g[m][x])
      BY <2>6, <2>8, <3>1 DEF LastOf
    <3> QED BY <2>2, <3>2
  <2>9. CASE ~Sets(L[m], x)
    <3>1. CASE (\A i \in 1..k : ~Sets(L[i], x)) /\ g[k][x] = v[x]
      <4>1. LastOf(L, m, x, v[x], g[m][x])
        BY <2>6, <2>7, <2>9, <3>1 DEF LastOf
      <4> QED BY <2>2, <4>1
    <3>2. ASSUME NEW i \in 1..k, Sets(L[i], x), \A j \in (i + 1)..k : ~Sets(L[j], x), g[k][x] = L[i][2]
          PROVE  LastOf(L, m, x, v[x], g[m][x])
      <4>1. i \in 1..m /\ \A j \in (i + 1)..m : j = m \/ j \in (i + 1)..k
        BY <2>2
      <4>2. \A j \in (i + 1)..m : ~Sets(L[j], x)
        BY <2>9, <3>2, <4>1
      <4>3. g[m][x] = L[i][2]
        BY <2>6, <2>9, <3>2
      <4> QED BY <3>2, <4>1, <4>2, <4>3 DEF LastOf
    <3>3. CASE \E i \in 1..k : /\ Sets(L[i], x) /\ (\A j \in (i + 1)..k : ~Sets(L[j], x))
                               /\ g[k][x] = L[i][2]
      <4>1. LastOf(L, m, x, v[x], g[m][x])
        BY <3>2, <3>3
      <4> QED BY <2>2, <4>1
    <3> QED BY <2>3, <3>1, <3>3 DEF LastOf
  <2> QED BY <2>8, <2>9
<1> HIDE DEF Q
<1>3. n \in Q
  BY <1>1, <1>2, NatClosed
<1> QED BY <1>3 DEF Q

(* The lines the environment amounts to: each of its settings, once. *)
EnvLinesAre(L) ==
  /\ L \in Seq(Entry)
  /\ \A i \in 1..Len(L) : /\ L[i][1] \in Known /\ env[L[i][1]] # "none"
                          /\ L[i] = <<L[i][1], env[L[i][1]]>>
  /\ \A x \in Known : env[x] # "none" => \E i \in 1..Len(L) : L[i][1] = x

(* EnvLines lists what the environment gives, whatever order SetToSeq *)
(* chooses.                                                           *)
LEMMA EnvLinesList == env \in Environment => EnvLinesAre(EnvLines)
<1> SUFFICES ASSUME env \in Environment PROVE EnvLinesAre(EnvLines)
  OBVIOUS
<1>1. PICK S : S = {x \in Known : env[x] # "none"}
  OBVIOUS
<1>2. IsFiniteSet(S) /\ S \subseteq Known
  <2>1. IsFiniteSet({"slot"}) 
    BY FS_Singleton
  <2>2. IsFiniteSet({"slot"} \cup {"limit"})
    BY <2>1, FS_AddElement
  <2>3. IsFiniteSet(({"slot"} \cup {"limit"}) \cup {"parser"})
    BY <2>2, FS_AddElement
  <2>4. Known = ({"slot"} \cup {"limit"}) \cup {"parser"}
    BY DEF Known
  <2>5. S \in SUBSET Known
    BY <1>1
  <2> QED BY <2>3, <2>4, <2>5, FS_Subset
<1>3. PICK m \in Nat : m = Cardinality(S) /\ ExistsBijection(1..m, S)
  BY <1>2, FS_CardinalityType
<1>4. PICK q : q = SetToSeq(S)
  OBVIOUS
<1>5. q \in [1..m -> S] /\ IsInjective(q)
  <2>1. PICK f \in Bijection(1..m, S) : TRUE
    BY <1>3 DEF ExistsBijection
  <2>2. f \in [1..m -> S] /\ IsInjective(f)
    BY <2>1 DEF Bijection, Injection
  <2> QED BY <1>3, <1>4, <2>2 DEF SetToSeq
<1>6. \A x \in S : \E i \in 1..m : q[i] = x
  <2>1. q \in Injection(1..m, S)
    BY <1>5 DEF Injection
  <2>2. Cardinality(1..m) = m
    BY FS_Interval
  <2>3. q \in Surjection(1..m, S)
    BY <1>2, <1>3, <2>1, <2>2, FS_Injection
  <2> QED BY <2>3 DEF Surjection
<1>7. Len(q) = m
  BY <1>5
<1>8. EnvLines = [i \in 1..m |-> <<q[i], env[q[i]]>>]
  BY <1>1, <1>4, <1>7 DEF EnvLines
<1>9. \A i \in 1..m : /\ q[i] \in Known /\ env[q[i]] # "none"
                      /\ <<q[i], env[q[i]]>> \in Entry
  BY <1>1, <1>5 DEF Environment, Entry
<1>10. PICK L : L = EnvLines
  OBVIOUS
<1>11. \A i \in 1..m : L[i] = <<q[i], env[q[i]]>> /\ L[i] \in Entry
  BY <1>8, <1>9, <1>10
<1>12. L \in Seq(Entry) /\ Len(L) = m
  <2>1. PICK E : E = Entry
    OBVIOUS
  <2>2. L \in [1..m -> E]
    BY <1>8, <1>10, <1>11, <2>1
  <2>3. L \in Seq(E) /\ Len(L) = m
    BY <2>2
  <2> QED BY <2>1, <2>3
<1>13. \A i \in 1..m : L[i][1] = q[i] /\ L[i] = <<L[i][1], env[L[i][1]]>>
  BY <1>11
<1>14. \A x \in Known : env[x] # "none" => \E i \in 1..m : L[i][1] = x
  BY <1>1, <1>6, <1>13
<1>15. \A i \in 1..m : /\ L[i][1] \in Known /\ env[L[i][1]] # "none"
                       /\ L[i] = <<L[i][1], env[L[i][1]]>>
  <2>1. \A i \in 1..m : q[i] \in Known /\ env[q[i]] # "none"
    BY <1>9
  <2> QED BY <1>13, <2>1
<1>16. EnvLinesAre(L)
  BY <1>12, <1>14, <1>15 DEF EnvLinesAre
<1> QED BY <1>10, <1>16

(***************************************************************************)
(* After autoload every setting has the value Configured gives it, and its *)
(* setter accepts it.                                                      *)
(***************************************************************************)
AsConfigured(w) == ValuesAccepted(w) /\ \A x \in Known : w[x] = Configured(x)

(* Loading the file and then the environment gives each setting its *)
(* Configured value.                                                *)
LEMMA AutoloadConfigures ==
  env \in Environment /\ confFile \in Seq(Entry) => AsConfigured(FoldLeft(Loaded, Defaults, AllLines))
<1> SUFFICES ASSUME env \in Environment, confFile \in Seq(Entry)
             PROVE  AsConfigured(FoldLeft(Loaded, Defaults, AllLines))
  OBVIOUS
<1>1. PICK C : C = confFile
  OBVIOUS
<1>2. PICK V : V = EnvLines
  OBVIOUS
<1>3. PICK L : L = AllLines
  OBVIOUS
<1>4. PICK m \in Nat : m = Len(C)
  BY <1>1
<1>5. EnvLinesAre(V)
  BY <1>2, EnvLinesList
<1>6. PICK k \in Nat : k = Len(V)
  BY <1>5 DEF EnvLinesAre
<1>7. Joined(Entry, L, C, V, m, k)
  BY <1>1, <1>2, <1>3, <1>4, <1>5, <1>6, ConcatJoins DEF AllLines, EnvLinesAre
<1>8. PICK n \in Nat : n = Len(L) /\ n = m + k
  BY <1>7 DEF Joined
<1>9. L \in Seq(Entry)
  BY <1>7 DEF Joined
<1>10. Defaults \in [Known -> Values]
  BY DEF Defaults, Values
<1>11. PICK g : LoadsBy(L, n, Defaults, g) /\ g[n] = FoldLeft(Loaded, Defaults, L)
  BY <1>8, <1>9, <1>10, FoldLoads
<1>12. PICK w : w = g[n]
  OBVIOUS
<1>13. w \in [Known -> Values]
  BY <1>8, <1>11, <1>12 DEF LoadsBy
<1>14. \A x \in Known : LastOf(L, n, x, "A", w[x])
  <2>1. ASSUME NEW x \in Known PROVE LastOf(L, n, x, "A", w[x])
    <3>1. n \in Nat /\ L \in Seq(Entry) /\ Len(L) = n /\ LoadsBy(L, n, Defaults, g)
      BY <1>8, <1>9, <1>11
    <3>2. LastOf(L, n, x, Defaults[x], g[n][x])
      BY <3>1, LastSets
    <3>3. Defaults[x] = "A"
      BY DEF Defaults
    <3> QED BY <1>12, <3>2, <3>3
  <2> QED BY <2>1
<1>15. \A i \in 1..n : L[i] \in Entry
  <2>1. PICK E : E = Entry
    OBVIOUS
  <2>2. L \in Seq(E) /\ n = Len(L)
    BY <1>8, <1>9, <2>1
  <2> QED BY <2>1, <2>2
<1>16. \A x \in Known : Accepts(<<x, w[x]>>)
  <2>1. ASSUME NEW x \in Known, NEW i \in 1..n, Sets(L[i], x), w[x] = L[i][2]
        PROVE  Accepts(<<x, w[x]>>)
    BY <2>1 DEF Sets, Accepts
  <2>2. \A x \in Known : Accepts(<<x, "A">>)
    BY DEF Accepts
  <2>3. ASSUME NEW x \in Known PROVE Accepts(<<x, w[x]>>)
    <3>1. LastOf(L, n, x, "A", w[x])
      BY <1>14
    <3> QED BY <2>1, <2>2, <3>1 DEF LastOf
  <2> QED BY <2>3
<1>17. \A i \in 1..n : i \in 1..m \/ \E j \in 1..k : i = m + j
  <2>1. ASSUME NEW i \in 1..n, i \notin 1..m PROVE i - m \in 1..k /\ i = m + (i - m)
    BY <1>8, <2>1
  <2> QED BY <2>1
<1>18. \A i \in 1..m : i \in 1..n /\ L[i] = C[i]
  BY <1>7, <1>8 DEF Joined
<1>19. \A j \in 1..k : m + j \in 1..n /\ L[m + j] = V[j]
  BY <1>7, <1>8 DEF Joined
<1>20. ASSUME NEW x \in Known PROVE w[x] = Configured(x)
  <2>1. LastOf(L, n, x, "A", w[x])
    BY <1>14
  <2>2. CASE Accepts(<<x, env[x]>>) /\ env[x] # "none"
    <3>1. PICK j \in 1..k : V[j][1] = x
      BY <1>5, <1>6, <2>2 DEF EnvLinesAre
    <3>2. \A i \in 1..k : V[i][1] = x => V[i] = <<x, env[x]>>
      BY <1>5, <1>6 DEF EnvLinesAre
    <3>3. Sets(L[m + j], x)
      BY <1>19, <2>2, <3>1, <3>2 DEF Sets
    <3>4. PICK i \in 1..n : Sets(L[i], x) /\ (\A h \in (i + 1)..n : ~Sets(L[h], x)) /\ w[x] = L[i][2]
      BY <1>19, <2>1, <3>3 DEF LastOf
    <3>5. i \notin 1..m
      <4>1. SUFFICES ASSUME i \in 1..m PROVE FALSE
        OBVIOUS
      <4>2. PICK p \in 1..n : p = m + j
        BY <1>19
      <4>3. p \in (i + 1)..n
        BY <4>1, <4>2
      <4> QED BY <3>3, <3>4, <4>2, <4>3
    <3>6. PICK h \in 1..k : i = m + h
      BY <1>17, <3>5
    <3>7. L[i] = V[h]
      BY <1>19, <3>6
    <3>8. V[h][1] = x
      BY <3>4, <3>7 DEF Sets
    <3>9. w[x] = env[x]
      BY <3>2, <3>4, <3>7, <3>8
    <3> QED BY <2>2, <3>9 DEF Configured
  <2>3. CASE ~(Accepts(<<x, env[x]>>) /\ env[x] # "none")
    <3>1. \A j \in 1..k : ~Sets(L[m + j], x)
      <4>1. SUFFICES ASSUME NEW j \in 1..k, Sets(V[j], x) PROVE FALSE
        BY <1>19
      <4>2. V[j] = <<x, env[x]>> /\ env[x] # "none"
        BY <1>5, <1>6, <4>1 DEF EnvLinesAre, Sets
      <4> QED BY <2>3, <4>1, <4>2 DEF Sets
    <3>2. PICK good \in SUBSET (1..m) : good = {i \in 1..m : C[i][1] = x /\ Accepts(C[i])}
      OBVIOUS
    <3>3. Configured(x) = IF good = {} THEN "A" ELSE C[Max(good)][2]
      BY <1>1, <1>4, <2>3, <3>2 DEF Configured
    <3>4. \A i \in 1..n : Sets(L[i], x) <=> i \in good
      <4>1. ASSUME NEW i \in 1..n PROVE Sets(L[i], x) <=> i \in good
        <5>1. CASE i \in 1..m
          BY <1>18, <3>2, <5>1 DEF Sets
        <5>2. CASE i \notin 1..m
          BY <1>17, <3>1, <3>2, <5>2
        <5> QED BY <5>1, <5>2
      <4> QED BY <4>1
    <3>5. \A i \in good : i \in 1..n
      BY <1>18, <3>2
    <3>6. CASE good = {}
      BY <2>1, <3>3, <3>4, <3>6 DEF LastOf
    <3>7. CASE good # {}
      <4>1. PICK i \in 1..n : Sets(L[i], x) /\ (\A h \in (i + 1)..n : ~Sets(L[h], x)) /\ w[x] = L[i][2]
        BY <2>1, <3>4, <3>5, <3>7 DEF LastOf
      <4>2. i \in good
        BY <3>4, <4>1
      <4>3. \A h \in good : h <= i
        <5>1. SUFFICES ASSUME NEW h \in good, ~(h <= i) PROVE FALSE
          OBVIOUS
        <5>2. h \in 1..n
          BY <3>5
        <5>3. h \in (i + 1)..n
          BY <5>1, <5>2
        <5> QED BY <3>4, <4>1, <5>2, <5>3
      <4>4. Max(good) = i
        BY <4>2, <4>3, MaxIs
      <4>5. L[i] = C[i]
        BY <1>18, <4>2
      <4> QED BY <3>3, <3>7, <4>1, <4>4, <4>5
    <3> QED BY <3>6, <3>7
  <2> QED BY <2>2, <2>3
<1>21. AsConfigured(w)
  BY <1>13, <1>16, <1>20 DEF AsConfigured, ValuesAccepted
<1> QED BY <1>3, <1>11, <1>12, <1>21

-----------------------------------------------------------------------------
(***************************************************************************)
(* Settings: what the stack of a thread says, whatever the thread.         *)
(***************************************************************************)
Kept == {e \in Entry : Accepts(e)}
LinesBlocks == [kind : {"lines"}, saved : Seq(Kept)]
XmlBlocks == [kind : {"xml"}, parser : {"A", "B"}, inner : BOOLEAN]
Blocks == LinesBlocks \cup XmlBlocks
Places == {"start", "body", "read", "assign", "restore"}

(* Some open block of the stack q saved x. *)
SavesIn(q, x) == \E i \in 1..Len(q) : x \in SavedBy(q[i])
Holds(b, x, v) == b.kind = "lines" /\ \E k \in 1..Len(b.saved) : b.saved[k] = <<x, v>>
Single(b, x) ==
  b.kind = "lines" =>
    \A j, k \in 1..Len(b.saved) : b.saved[j][1] = x /\ b.saved[k][1] = x => j = k

(* Where a thread is in the loading and restoring of its innermost block. *)
Placed(q, a, d) ==
  /\ a \in {"read", "assign", "restore"} => q # <<>> /\ q[Len(q)].kind = "lines"
  /\ a = "assign" =>
       LET l == q[Len(q)].saved IN d # <<>> /\ l # <<>> /\ d[1][1] = l[Len(l)][1]
  /\ a = "restore" =>
       \A k \in 1..Len(d) : \E j \in 1..Len(q[Len(q)].saved) : d[k] = q[Len(q)].saved[j]

(***************************************************************************)
(* What the stack q of a thread knows of the setting x, whose value is v   *)
(* and is to be c when no block is open: the outermost block that saved x  *)
(* holds c; a block being restored has x still to restore or has restored  *)
(* it; a block about to assign has just saved the value x has.             *)
(***************************************************************************)
FirstHolds(q, x, c) ==
  \A i \in 1..Len(q) :
    x \in SavedBy(q[i]) /\ (\A j \in 1..(i - 1) : x \notin SavedBy(q[j])) => Holds(q[i], x, c)
Restoring(q, a, d, x, v) ==
  a = "restore" /\ x \in SavedBy(q[Len(q)]) =>
    (\E k \in 1..Len(d) : d[k][1] = x) \/ Holds(q[Len(q)], x, v)
Assigning(q, a, x, v) ==
  a = "assign" => LET l == q[Len(q)].saved IN l[Len(l)][1] = x => l[Len(l)] = <<x, v>>
Knows(q, a, d, x, v, c) ==
  /\ \A i \in 1..Len(q) : Single(q[i], x)
  /\ FirstHolds(q, x, c)
  /\ Restoring(q, a, d, x, v)
  /\ Assigning(q, a, x, v)

(* What a step of one thread does to its stack, from q to q2, and to x. *)
Steps(q, q2, x, v, v2, c) ==
  /\ SavesIn(q2, x) => SavesIn(q, x)
  /\ v2 = v \/ SavesIn(q, x)
  /\ SavesIn(q2, x) \/ v2 = c \/ (~SavesIn(q, x) /\ v2 = v)

(* The lists a block of lines saved. *)
LEMMA LinesKeep ==
  ASSUME NEW b \in Blocks, b.kind = "lines"
  PROVE  /\ b \in LinesBlocks /\ b.saved \in Seq(Kept) /\ Len(b.saved) \in Nat
         /\ SavedBy(b) = {b.saved[i][1] : i \in 1..Len(b.saved)}
<1>1. b \in LinesBlocks
  BY DEF Blocks, LinesBlocks, XmlBlocks
<1>2. b.saved \in Seq(Kept)
  BY <1>1 DEF LinesBlocks
<1> QED BY <1>1, <1>2 DEF SavedBy

(* Saved entries are settings with values that their setters accept. *)
LEMMA KeptAre ==
  ASSUME NEW l \in Seq(Kept), NEW k \in 1..Len(l)
  PROVE  l[k] \in Entry /\ l[k][1] \in Known /\ l[k][2] \in Values /\ Accepts(l[k])
<1>1. PICK K : K = Kept
  OBVIOUS
<1>2. l[k] \in K
  <2>1. l \in Seq(K)
    BY <1>1
  <2> QED BY <2>1
<1> QED BY <1>1, <1>2 DEF Kept, Entry, Accepts

(* A block without saved entries is opened. *)
LEMMA PushKnows ==
  ASSUME NEW q \in Seq(Blocks), NEW b \in Blocks, SavedBy(b) = {},
         NEW a, NEW d, NEW a2, a2 \in {"read", "body"}, NEW d2, NEW x, NEW v, NEW c,
         b.kind = "lines" => b.saved = <<>>,
         Knows(q, a, d, x, v, c)
  PROVE  Knows(Append(q, b), a2, d2, x, v, c) /\ Steps(q, Append(q, b), x, v, v, c)
<1>1. PICK B : B = Blocks
  OBVIOUS
<1>2. PICK n \in Nat : n = Len(q)
  BY <1>1
<1>3. PICK q2 : q2 = Append(q, b)
  OBVIOUS
<1>4. q \in Seq(B) /\ b \in B
  BY <1>1
<1>5. Len(q2) = n + 1 /\ q2[n + 1] = b /\ \A i \in 1..n : q2[i] = q[i]
  BY <1>2, <1>3, <1>4
<1>6. PICK m \in Nat : m = n + 1
  OBVIOUS
<1>7. \A i \in 1..m : i \in 1..n \/ i = m
  BY <1>6
<1>8. \A i \in 1..m : Single(q2[i], x)
  <2>1. Single(b, x)
    BY DEF Single
  <2> QED BY <1>2, <1>5, <1>6, <1>7, <2>1 DEF Knows
<1>9. FirstHolds(q2, x, c)
  <2>1. SUFFICES ASSUME NEW i \in 1..m, x \in SavedBy(q2[i]),
                        \A j \in 1..(i - 1) : x \notin SavedBy(q2[j])
                 PROVE  Holds(q2[i], x, c)
    BY <1>5, <1>6 DEF FirstHolds
  <2>2. i \in 1..n /\ q2[i] = q[i]
    BY <1>5, <1>6, <1>7, <2>1
  <2>3. \A j \in 1..(i - 1) : j \in 1..n /\ q2[j] = q[j]
    BY <1>5, <2>2
  <2> QED BY <1>2, <2>1, <2>2, <2>3 DEF Knows, FirstHolds
<1>10. SavesIn(q2, x) <=> SavesIn(q, x)
  BY <1>2, <1>5, <1>6, <1>7 DEF SavesIn
<1>11. Restoring(q2, a2, d2, x, v) /\ Assigning(q2, a2, x, v)
  BY DEF Restoring, Assigning
<1>12. Knows(q2, a2, d2, x, v, c)
  BY <1>5, <1>6, <1>8, <1>9, <1>11 DEF Knows
<1>13. Steps(q, q2, x, v, v, c)
  BY <1>10 DEF Steps
<1> QED BY <1>3, <1>12, <1>13

(* A thread that keeps its stack, at a place where nothing is half done. *)
LEMMA MoveKnows ==
  ASSUME NEW q, NEW a, NEW d, NEW a2, a2 \in {"read", "body"}, NEW d2, NEW x, NEW v, NEW v2, NEW c,
         v2 = v \/ SavesIn(q, x), Knows(q, a, d, x, v, c)
  PROVE  Knows(q, a2, d2, x, v2, c) /\ Steps(q, q, x, v, v2, c)
<1>1. Restoring(q, a2, d2, x, v2) /\ Assigning(q, a2, x, v2)
  BY DEF Restoring, Assigning
<1>2. Knows(q, a2, d2, x, v2, c)
  BY <1>1 DEF Knows
<1>3. Steps(q, q, x, v, v2, c)
  BY DEF Steps
<1> QED BY <1>2, <1>3

(* All that the innermost block saved is to be restored. *)
LEMMA EndKnows ==
  ASSUME NEW q \in Seq(Blocks), q # <<>>, q[Len(q)].kind = "lines", NEW a, NEW d,
         NEW x, NEW v, NEW c, Knows(q, a, d, x, v, c)
  PROVE  Knows(q, "restore", q[Len(q)].saved, x, v, c) /\ Steps(q, q, x, v, v, c)
<1>1. PICK b \in Blocks : b = q[Len(q)]
  <2>1. PICK B : B = Blocks
    OBVIOUS
  <2>2. q \in Seq(B) /\ q # <<>>
    BY <2>1
  <2>3. q[Len(q)] \in B
    BY <2>2
  <2> QED BY <2>1, <2>3
<1>2. PICK l : l = b.saved
  OBVIOUS
<1>3. SavedBy(b) = {l[i][1] : i \in 1..Len(l)}
  BY <1>1, <1>2, LinesKeep
<1>4. Restoring(q, "restore", l, x, v)
  BY <1>1, <1>3 DEF Restoring
<1>5. Assigning(q, "restore", x, v)
  BY DEF Assigning
<1>6. Knows(q, "restore", l, x, v, c)
  BY <1>4, <1>5 DEF Knows
<1>7. Steps(q, q, x, v, v, c)
  BY DEF Steps
<1> QED BY <1>1, <1>2, <1>6, <1>7

(* The setter refused the entry: all but the last saved are to be restored. *)
LEMMA RefusedKnows ==
  ASSUME NEW q \in Seq(Blocks), NEW d, Placed(q, "assign", d), NEW x, NEW v, NEW c,
         Knows(q, "assign", d, x, v, c)
  PROVE  Knows(q, "restore", Front(q[Len(q)].saved), x, v, c) /\ Steps(q, q, x, v, v, c)
<1>1. PICK b \in Blocks : b = q[Len(q)] /\ b.kind = "lines"
  <2>1. PICK B : B = Blocks
    OBVIOUS
  <2>2. q \in Seq(B) /\ q # <<>> /\ q[Len(q)].kind = "lines"
    BY <2>1 DEF Placed
  <2>3. q[Len(q)] \in B
    BY <2>2
  <2> QED BY <2>1, <2>2, <2>3
<1>2. PICK l \in Seq(Kept) : l = b.saved /\ l # <<>>
  BY <1>1, LinesKeep DEF Placed
<1>3. SavedBy(b) = {l[i][1] : i \in 1..Len(l)}
  BY <1>1, <1>2, LinesKeep
<1>4. PICK m \in Nat : m = Len(l) /\ m # 0
  <2>1. PICK K : K = Kept
    OBVIOUS
  <2>2. l \in Seq(K) /\ l # <<>>
    BY <1>2, <2>1
  <2>3. Len(l) \in Nat /\ Len(l) # 0
    BY <2>2
  <2> QED BY <2>3
<1>5. PICK f : f = Front(l)
  OBVIOUS
<1>6. Len(f) = m - 1 /\ \A k \in 1..(m - 1) : f[k] = l[k]
  <2>1. PICK K : K = Kept
    OBVIOUS
  <2>2. l \in Seq(K) /\ m = Len(l) /\ m - 1 \in Nat
    BY <1>2, <1>4, <2>1
  <2>3. f = SubSeq(l, 1, m - 1)
    BY <1>4, <1>5 DEF Front
  <2>4. Len(f) = m - 1 /\ \A k \in 1..(m - 1) : f[k] = l[1 + k - 1]
    BY <2>2, <2>3
  <2>5. \A k \in 1..(m - 1) : 1 + k - 1 = k
    BY <1>4
  <2> QED BY <2>4, <2>5
<1>7. \A k \in 1..m : k = m \/ k \in 1..(m - 1)
  BY <1>4
<1>8. l[m][1] = x => l[m] = <<x, v>>
  BY <1>1, <1>2, <1>4 DEF Knows, Assigning
<1>9. Restoring(q, "restore", f, x, v)
  <2>1. SUFFICES ASSUME x \in SavedBy(b), ~(\E k \in 1..Len(f) : f[k][1] = x)
                 PROVE  Holds(b, x, v)
    BY <1>1 DEF Restoring
  <2>2. PICK k \in 1..m : l[k][1] = x
    BY <1>3, <1>4, <2>1
  <2>3. k = m
    BY <1>6, <1>7, <2>1, <2>2
  <2>4. m \in 1..m
    BY <1>4
  <2> QED BY <1>1, <1>2, <1>4, <1>8, <2>2, <2>3, <2>4 DEF Holds
<1>10. Assigning(q, "restore", x, v)
  BY DEF Assigning
<1>11. Knows(q, "restore", f, x, v, c)
  BY <1>9, <1>10 DEF Knows
<1>12. Steps(q, q, x, v, v, c)
  BY DEF Steps
<1> QED BY <1>1, <1>2, <1>5, <1>11, <1>12

(* An entry is restored: v2 is what loading it makes of x. *)
LEMMA RestoreKnows ==
  ASSUME NEW q \in Seq(Blocks), NEW d \in Seq(Entry), d # <<>>, Placed(q, "restore", d),
         NEW x \in Known, NEW v, NEW v2, NEW c, v2 = IF Sets(Head(d), x) THEN Head(d)[2] ELSE v,
         Knows(q, "restore", d, x, v, c)
  PROVE  Knows(q, "restore", Tail(d), x, v2, c) /\ Steps(q, q, x, v, v2, c)
<1>1. PICK b \in Blocks : b = q[Len(q)] /\ b.kind = "lines"
  <2>1. PICK B : B = Blocks
    OBVIOUS
  <2>2. q \in Seq(B) /\ q # <<>> /\ q[Len(q)].kind = "lines"
    BY <2>1 DEF Placed
  <2>3. q[Len(q)] \in B
    BY <2>2
  <2> QED BY <2>1, <2>2, <2>3
<1>2. PICK l \in Seq(Kept) : l = b.saved
  BY <1>1, LinesKeep
<1>3. SavedBy(b) = {l[i][1] : i \in 1..Len(l)}
  BY <1>1, <1>2, LinesKeep
<1>4. PICK m \in Nat : m = Len(d) /\ m # 0
  <2>1. PICK E : E = Entry
    OBVIOUS
  <2>2. d \in Seq(E) /\ d # <<>>
    BY <2>1
  <2>3. Len(d) \in Nat /\ Len(d) # 0
    BY <2>2
  <2> QED BY <2>3
<1>5. PICK e : e = d[1]
  OBVIOUS
<1>6. PICK r : r = Tail(d)
  OBVIOUS
<1>7. Head(d) = e /\ Len(r) = m - 1 /\ \A k \in 1..(m - 1) : r[k] = d[k + 1]
  <2>1. PICK E : E = Entry
    OBVIOUS
  <2>2. d \in Seq(E) /\ d # <<>>
    BY <2>1
  <2> QED BY <1>4, <1>5, <1>6, <2>2
<1>8. PICK p \in 1..Len(l) : e = l[p]
  <2>1. 1 \in 1..Len(d)
    BY <1>4
  <2> QED BY <1>1, <1>2, <1>5, <2>1 DEF Placed
<1>9. e \in Entry /\ Accepts(e) /\ e[1] \in Known
  BY <1>8, KeptAre
<1>10. Sets(e, x) <=> e[1] = x
  BY <1>9 DEF Sets
<1>11. q # <<>>
  BY DEF Placed
<1>12. SavesIn(q, x) \/ e[1] # x
  <2>1. SUFFICES ASSUME e[1] = x PROVE SavesIn(q, x)
    OBVIOUS
  <2>2. x \in SavedBy(b)
    BY <1>3, <1>8, <2>1
  <2>3. Len(q) \in 1..Len(q)
    BY <1>11
  <2> QED BY <1>1, <2>2, <2>3 DEF SavesIn
<1>13. v2 = v \/ SavesIn(q, x)
  BY <1>7, <1>10, <1>12
<1>14. Restoring(q, "restore", r, x, v2)
  <2>1. SUFFICES ASSUME x \in SavedBy(b), ~(\E k \in 1..Len(r) : r[k][1] = x)
                 PROVE  Holds(b, x, v2)
    BY <1>1 DEF Restoring
  <2>2. CASE e[1] = x
    <3>1. v2 = e[2]
      BY <1>7, <1>10, <2>2
    <3>2. e = <<x, v2>>
      BY <1>9, <2>2, <3>1 DEF Entry
    <3> QED BY <1>1, <1>2, <1>8, <3>2 DEF Holds
  <2>3. CASE e[1] # x
    <3>1. v2 = v
      BY <1>7, <1>10, <2>3
    <3>2. \A k \in 1..m : d[k][1] # x
      <4>1. SUFFICES ASSUME NEW k \in 1..m, d[k][1] = x PROVE FALSE
        OBVIOUS
      <4>2. k # 1
        BY <1>5, <2>3, <4>1
      <4>3. PICK h \in 1..(m - 1) : k = h + 1
        <5>1. k - 1 \in 1..(m - 1) /\ k = (k - 1) + 1
          BY <1>4, <4>2
        <5> QED BY <5>1
      <4> QED BY <1>7, <2>1, <4>1, <4>3
    <3> QED BY <1>1, <1>4, <2>1, <3>1, <3>2 DEF Knows, Restoring
  <2> QED BY <2>2, <2>3
<1>15. Assigning(q, "restore", x, v2)
  BY DEF Assigning
<1>16. Knows(q, "restore", r, x, v2, c)
  BY <1>14, <1>15 DEF Knows
<1>17. Steps(q, q, x, v, v2, c)
  BY <1>13 DEF Steps
<1> QED BY <1>6, <1>16, <1>17

(* The innermost block is closed, once all it saved is restored. *)
LEMMA PopKnows ==
  ASSUME NEW q \in Seq(Blocks), Placed(q, "restore", <<>>), NEW x, NEW v, NEW c,
         Knows(q, "restore", <<>>, x, v, c)
  PROVE  Knows(Front(q), "body", <<>>, x, v, c) /\ Steps(q, Front(q), x, v, v, c)
<1>1. PICK B : B = Blocks
  OBVIOUS
<1>2. q \in Seq(B) /\ q # <<>> /\ q[Len(q)].kind = "lines"
  BY <1>1 DEF Placed
<1>3. PICK n \in Nat : n = Len(q) /\ n # 0
  BY <1>2
<1>4. PICK b : b = q[n]
  OBVIOUS
<1>5. PICK f : f = Front(q)
  OBVIOUS
<1>6. Len(f) = n - 1 /\ \A k \in 1..(n - 1) : f[k] = q[k]
  <2>1. f = SubSeq(q, 1, n - 1)
    BY <1>3, <1>5 DEF Front
  <2>2. n - 1 \in Nat
    BY <1>3
  <2>3. Len(f) = n - 1 /\ \A k \in 1..(n - 1) : f[k] = q[1 + k - 1]
    BY <1>2, <1>3, <2>1, <2>2
  <2>4. \A k \in 1..(n - 1) : 1 + k - 1 = k
    BY <1>3
  <2> QED BY <2>3, <2>4
<1>7. PICK m \in Nat : m = n - 1
  BY <1>3
<1>8. \A k \in 1..n : k = n \/ k \in 1..m
  BY <1>7
<1>9. \A k \in 1..m : k \in 1..n /\ f[k] = q[k]
  BY <1>6, <1>7
<1>10. \A i \in 1..m : Single(f[i], x)
  BY <1>3, <1>9 DEF Knows
<1>11. FirstHolds(f, x, c)
  <2>1. SUFFICES ASSUME NEW i \in 1..m, x \in SavedBy(f[i]),
                        \A j \in 1..(i - 1) : x \notin SavedBy(f[j])
                 PROVE  Holds(f[i], x, c)
    BY <1>6, <1>7 DEF FirstHolds
  <2>2. \A j \in 1..(i - 1) : j \in 1..m
    OBVIOUS
  <2>3. \A j \in 1..(i - 1) : x \notin SavedBy(q[j])
    BY <1>9, <2>1, <2>2
  <2> QED BY <1>3, <1>9, <2>1, <2>3 DEF Knows, FirstHolds
<1>12. Restoring(f, "body", <<>>, x, v) /\ Assigning(f, "body", x, v)
  BY DEF Restoring, Assigning
<1>13. Knows(f, "body", <<>>, x, v, c)
  BY <1>6, <1>7, <1>10, <1>11, <1>12 DEF Knows
<1>14. SavesIn(f, x) => SavesIn(q, x)
  BY <1>3, <1>6, <1>7, <1>9 DEF SavesIn
<1>15. ASSUME SavesIn(q, x), ~SavesIn(f, x) PROVE v = c
  <2>1. \A k \in 1..m : x \notin SavedBy(q[k])
    BY <1>6, <1>7, <1>9, <1>15 DEF SavesIn
  <2>2. x \in SavedBy(b)
    BY <1>3, <1>4, <1>8, <1>15, <2>1 DEF SavesIn
  <2>3. n \in 1..n
    BY <1>3
  <2>4. Holds(b, x, c)
    BY <1>3, <1>4, <1>7, <2>1, <2>2, <2>3 DEF Knows, FirstHolds
  <2>5. Holds(b, x, v)
    <3>1. ~\E k \in 1..Len(<<>>) : <<>>[k][1] = x
      OBVIOUS
    <3> QED BY <1>3, <1>4, <2>2, <3>1 DEF Knows, Restoring
  <2>6. Single(b, x) /\ b.kind = "lines"
    BY <1>2, <1>3, <1>4, <2>3 DEF Knows
  <2>7. PICK l : l = b.saved
    OBVIOUS
  <2>8. PICK j \in 1..Len(l) : l[j] = <<x, c>>
    BY <2>4, <2>7 DEF Holds
  <2>9. PICK k \in 1..Len(l) : l[k] = <<x, v>>
    BY <2>5, <2>7 DEF Holds
  <2>10. j = k
    BY <2>6, <2>7, <2>8, <2>9 DEF Single
  <2> QED BY <2>8, <2>9, <2>10
<1>16. Steps(q, f, x, v, v, c)
  BY <1>14, <1>15 DEF Steps
<1> QED BY <1>5, <1>13, <1>16

(* w is l with e after it. *)
Longer(l, e, w) ==
  /\ w \in Seq(Kept) /\ Len(w) = Len(l) + 1 /\ w[Len(w)] = e /\ Len(w) \in 1..Len(w)
  /\ \A k \in 1..Len(l) : w[k] = l[k] /\ k \in 1..Len(w)
  /\ \A k \in 1..Len(w) : k = Len(w) \/ k \in 1..Len(l)

(* Append, as the lemmas below use it. *)
LEMMA AppendLonger ==
  ASSUME NEW l \in Seq(Kept), NEW e \in Kept
  PROVE  Longer(l, e, Append(l, e))
<1>1. PICK K : K = Kept
  OBVIOUS
<1>2. l \in Seq(K) /\ e \in K
  BY <1>1
<1>3. PICK w : w = Append(l, e)
  OBVIOUS
<1>4. PICK n \in Nat : n = Len(l)
  BY <1>2
<1>5. w \in Seq(K) /\ Len(w) = n + 1 /\ w[n + 1] = e /\ \A k \in 1..n : w[k] = l[k]
  BY <1>2, <1>3, <1>4
<1>6. PICK m \in Nat : m = n + 1
  OBVIOUS
<1>7. m \in 1..m /\ (\A k \in 1..n : k \in 1..m) /\ \A k \in 1..m : k = m \/ k \in 1..n
  BY <1>6
<1>8. Len(w) = m
  BY <1>5, <1>6
<1>9. w \in Seq(Kept)
  BY <1>1, <1>5
<1>10. Longer(l, e, w)
  BY <1>4, <1>5, <1>6, <1>7, <1>8, <1>9 DEF Longer
<1> QED BY <1>3, <1>10

(* The old value w of the setting y is saved in the innermost block. *)
SavedAlso(q, y, w) == [q EXCEPT ![Len(q)].saved = Append(@, <<y, w>>)]

(* Only the list of the innermost block has changed, by the entry at its *)
(* end.                                                                  *)
LEMMA SaveShape ==
  ASSUME NEW q \in Seq(Blocks), q # <<>>, q[Len(q)].kind = "lines",
         NEW y \in Known, NEW w \in Values, Accepts(<<y, w>>)
  PROVE  LET n == Len(q)
             q2 == SavedAlso(q, y, w) IN
         /\ q2 \in Seq(Blocks) /\ Len(q2) = n
         /\ \A i \in 1..n : i # n => q2[i] = q[i]
         /\ q2[n] \in LinesBlocks /\ Longer(q[n].saved, <<y, w>>, q2[n].saved)
<1>1. PICK B : B = Blocks
  OBVIOUS
<1>2. q \in Seq(B) /\ q # <<>>
  BY <1>1
<1>3. PICK n \in Nat : n = Len(q) /\ n \in 1..n
  BY <1>2
<1>4. PICK b \in Blocks : b = q[n] /\ b.kind = "lines"
  <2>1. q[n] \in B
    BY <1>2, <1>3
  <2> QED BY <1>1, <1>3, <2>1
<1>5. b \in LinesBlocks /\ b.saved \in Seq(Kept)
  BY <1>4, LinesKeep
<1>6. PICK l \in Seq(Kept) : l = b.saved
  BY <1>5
<1>7. <<y, w>> \in Kept
  BY DEF Kept, Entry
<1>8. PICK r : r = Append(l, <<y, w>>)
  OBVIOUS
<1>9. Longer(l, <<y, w>>, r)
  BY <1>7, <1>8, AppendLonger
<1>10. PICK b2 : b2 = [b EXCEPT !.saved = r]
  OBVIOUS
<1>11. b2 \in LinesBlocks /\ b2.saved = r
  <2>1. r \in Seq(Kept)
    BY <1>9 DEF Longer
  <2>2. PICK T : T = Seq(Kept)
    OBVIOUS
  <2>3. b \in [kind : {"lines"}, saved : T] /\ r \in T
    BY <1>5, <2>1, <2>2 DEF LinesBlocks
  <2>4. b2 \in [kind : {"lines"}, saved : T] /\ b2.saved = r
    BY <1>10, <2>3
  <2> QED BY <2>2, <2>4 DEF LinesBlocks
<1>12. b2 \in B
  BY <1>1, <1>11 DEF Blocks
<1>13. PICK q2 : q2 = [q EXCEPT ![n] = b2]
  OBVIOUS
<1>14. q2 = SavedAlso(q, y, w)
  BY <1>3, <1>4, <1>6, <1>8, <1>10, <1>13 DEF SavedAlso
<1>15. q2 \in Seq(B) /\ Len(q2) = n /\ q2[n] = b2 /\ \A i \in 1..n : i # n => q2[i] = q[i]
  BY <1>2, <1>3, <1>12, <1>13
<1> QED BY <1>1, <1>3, <1>4, <1>6, <1>9, <1>11, <1>14, <1>15

(* The entry to assign next is the one just saved. *)
LEMMA SavePlaced ==
  ASSUME NEW q \in Seq(Blocks), q # <<>>, q[Len(q)].kind = "lines",
         NEW y \in Known, NEW w \in Values, Accepts(<<y, w>>), NEW d, d # <<>>, d[1][1] = y
  PROVE  Placed(SavedAlso(q, y, w), "assign", d)
<1>1. PICK q2 : q2 = SavedAlso(q, y, w)
  OBVIOUS
<1>2. PICK n \in Nat : n = Len(q) /\ n \in 1..n
  <2>1. PICK B : B = Blocks
    OBVIOUS
  <2>2. q \in Seq(B) /\ q # <<>>
    BY <2>1
  <2> QED BY <2>2
<1>3. Len(q2) = n
  BY <1>1, <1>2, SaveShape
<1>4. PICK b2 \in LinesBlocks : b2 = q2[n]
  BY <1>1, <1>2, SaveShape
<1>5. PICK r : r = b2.saved
  OBVIOUS
<1>6. Longer(q[n].saved, <<y, w>>, r)
  BY <1>1, <1>2, <1>4, <1>5, SaveShape
<1>7. b2.kind = "lines"
  BY <1>4 DEF LinesBlocks
<1>8. q2 # <<>>
  <2>1. Len(q2) # 0
    BY <1>2, <1>3
  <2> QED BY <2>1
<1>9. r # <<>> /\ r[Len(r)][1] = y
  <2>1. Len(r) # 0 /\ r[Len(r)][1] = y
    BY <1>6 DEF Longer
  <2> QED BY <2>1
<1> QED BY <1>1, <1>3, <1>4, <1>5, <1>7, <1>8, <1>9 DEF Placed

(* If no open block elsewhere has the setting saved, what is saved is its *)
(* value now.                                                             *)
LEMMA SaveKnows ==
  ASSUME NEW q \in Seq(Blocks), q # <<>>, q[Len(q)].kind = "lines",
         NEW y \in Known, NEW w \in Values, Accepts(<<y, w>>),
         NEW a, NEW d, d # <<>>, d[1][1] = y, NEW x, NEW v, NEW c, Knows(q, a, d, x, v, c),
         x = y => w = v /\ x \notin SavedBy(q[Len(q)]) /\ (SavesIn(q, x) \/ v = c)
  PROVE  LET q2 == SavedAlso(q, y, w) IN
         /\ Knows(q2, "assign", d, x, v, c)
         /\ x # y => (SavesIn(q2, x) <=> SavesIn(q, x))
         /\ x = y => SavesIn(q2, x)
<1>1. PICK q2 : q2 = SavedAlso(q, y, w)
  OBVIOUS
<1>2. PICK n \in Nat : n = Len(q) /\ n \in 1..n
  <2>1. PICK B : B = Blocks
    OBVIOUS
  <2>2. q \in Seq(B) /\ q # <<>>
    BY <2>1
  <2> QED BY <2>2
<1>3. q2 \in Seq(Blocks) /\ Len(q2) = n /\ \A i \in 1..n : i # n => q2[i] = q[i]
  BY <1>1, <1>2, SaveShape
<1>4. PICK b2 \in LinesBlocks : b2 = q2[n]
  BY <1>1, <1>2, SaveShape
<1>5. PICK b \in Blocks : b = q[n] /\ b.kind = "lines"
  <2>1. PICK B : B = Blocks
    OBVIOUS
  <2>2. q \in Seq(B) /\ n \in 1..Len(q)
    BY <1>2, <2>1
  <2>3. q[n] \in B
    BY <2>2
  <2> QED BY <1>2, <2>1, <2>3
<1>6. PICK l : l = b.saved
  OBVIOUS
<1>7. PICK r : r = b2.saved
  OBVIOUS
<1>8. Longer(l, <<y, w>>, r)
  BY <1>1, <1>2, <1>4, <1>5, <1>6, <1>7, SaveShape
<1>9. b2.kind = "lines"
  BY <1>4 DEF LinesBlocks
<1>10. SavedBy(b) = {l[i][1] : i \in 1..Len(l)} /\ SavedBy(b2) = {r[i][1] : i \in 1..Len(r)}
  BY <1>5, <1>6, <1>7, <1>9 DEF SavedBy
<1>11. \A z : z \in SavedBy(b2) <=> z = y \/ z \in SavedBy(b)
  <2>1. ASSUME NEW z, z \in SavedBy(b2) PROVE z = y \/ z \in SavedBy(b)
    <3>1. PICK k \in 1..Len(r) : r[k][1] = z
      BY <1>10, <2>1
    <3>2. CASE k = Len(r)
      BY <1>8, <3>1, <3>2 DEF Longer
    <3>3. CASE k \in 1..Len(l)
      BY <1>8, <1>10, <3>1, <3>3 DEF Longer
    <3> QED BY <1>8, <3>1, <3>2, <3>3 DEF Longer
  <2>2. y \in SavedBy(b2)
    BY <1>8, <1>10 DEF Longer
  <2>3. ASSUME NEW z, z \in SavedBy(b) PROVE z \in SavedBy(b2)
    <3>1. PICK k \in 1..Len(l) : l[k][1] = z
      BY <1>10, <2>3
    <3>2. r[k] = l[k] /\ k \in 1..Len(r)
      BY <1>8 DEF Longer
    <3> QED BY <1>10, <3>1, <3>2
  <2> QED BY <2>1, <2>2, <2>3
<1>12. \A u : Holds(b, x, u) => Holds(b2, x, u)
  <2>1. SUFFICES ASSUME NEW u, Holds(b, x, u) PROVE Holds(b2, x, u)
    OBVIOUS
  <2>2. PICK k \in 1..Len(l) : l[k] = <<x, u>>
    BY <1>6, <2>1 DEF Holds
  <2>3. r[k] = l[k] /\ k \in 1..Len(r)
    BY <1>8 DEF Longer
  <2> QED BY <1>7, <1>9, <2>2, <2>3 DEF Holds
<1>13. \A i \in 1..n : Single(q2[i], x)
  <2>1. Single(b, x)
    BY <1>2, <1>5 DEF Knows
  <2>2. ASSUME NEW j \in 1..Len(r), NEW k \in 1..Len(r), r[j][1] = x, r[k][1] = x
        PROVE  j = k
    <3>1. x = y => \A i \in 1..Len(l) : l[i][1] # x
      BY <1>2, <1>5, <1>10
    <3>2. \A i \in 1..Len(l) : r[i] = l[i]
      BY <1>8 DEF Longer
    <3>3. r[Len(r)] = <<y, w>> /\ \A i \in 1..Len(r) : i = Len(r) \/ i \in 1..Len(l)
      BY <1>8 DEF Longer
    <3>4. CASE x = y
      BY <2>2, <3>1, <3>2, <3>3, <3>4
    <3>5. CASE x # y
      <4>1. j \in 1..Len(l) /\ k \in 1..Len(l)
        BY <2>2, <3>3, <3>5
      <4> QED BY <1>5, <1>6, <2>1, <2>2, <3>2, <4>1 DEF Single
    <3> QED BY <3>4, <3>5
  <2>3. Single(b2, x)
    BY <1>7, <2>2 DEF Single
  <2> QED BY <1>2, <1>3, <1>4, <2>3 DEF Knows
<1>14. \A i \in 1..n : \A z : z \in SavedBy(q2[i]) <=> (i = n /\ z = y) \/ z \in SavedBy(q[i])
  BY <1>3, <1>4, <1>5, <1>11
<1>15. \A i \in 1..n : \A u : Holds(q[i], x, u) => Holds(q2[i], x, u)
  BY <1>3, <1>4, <1>5, <1>12
<1>16. FirstHolds(q2, x, c)
  <2>1. SUFFICES ASSUME NEW i \in 1..n, x \in SavedBy(q2[i]),
                        \A j \in 1..(i - 1) : x \notin SavedBy(q2[j])
                 PROVE  Holds(q2[i], x, c)
    BY <1>3 DEF FirstHolds
  <2>2. \A j \in 1..(i - 1) : j \in 1..n /\ x \notin SavedBy(q[j])
    BY <1>14, <2>1
  <2>3. CASE x \in SavedBy(q[i])
    <3>1. Holds(q[i], x, c)
      BY <1>2, <2>2, <2>3 DEF Knows, FirstHolds
    <3> QED BY <1>15, <3>1
  <2>4. CASE x \notin SavedBy(q[i])
    <3>1. i = n /\ x = y
      BY <1>14, <2>1, <2>4
    <3>2. \A j \in 1..n : j = n \/ j \in 1..(i - 1)
      BY <3>1
    <3>3. ~SavesIn(q, x)
      BY <1>2, <2>2, <2>4, <3>1, <3>2 DEF SavesIn
    <3>4. w = c
      BY <3>1, <3>3
    <3>5. r[Len(r)] = <<x, c>> /\ Len(r) \in 1..Len(r)
      BY <1>8, <3>1, <3>4 DEF Longer
    <3> QED BY <1>4, <1>7, <1>9, <3>1, <3>5 DEF Holds
  <2> QED BY <2>3, <2>4
<1>17. Assigning(q2, "assign", x, v)
  <2>1. r[Len(r)] = <<y, w>>
    BY <1>8 DEF Longer
  <2> QED BY <1>3, <1>4, <1>7, <2>1 DEF Assigning
<1>18. Restoring(q2, "assign", d, x, v)
  BY DEF Restoring
<1>19. Knows(q2, "assign", d, x, v, c)
  BY <1>3, <1>13, <1>16, <1>17, <1>18 DEF Knows
<1>20. x # y => (SavesIn(q2, x) <=> SavesIn(q, x))
  BY <1>2, <1>3, <1>14 DEF SavesIn
<1>21. x = y => SavesIn(q2, x)
  BY <1>2, <1>3, <1>14 DEF SavesIn
<1> QED BY <1>1, <1>19, <1>20, <1>21

(* A block of xml_mode ends: those around it are marked, and keep nothing. *)
EndedXml(q) == Marked(q, Len(q) - 1)

(* A call of xml_mode that is refused marks what a block begun and ended at *)
(* once would.                                                              *)
LEMMA RefusedShape ==
  ASSUME NEW q \in Seq(Blocks), NEW b \in Blocks
  PROVE  Marked(q, Len(q)) = EndedXml(Append(q, b))
<1>1. PICK B : B = Blocks
  OBVIOUS
<1>2. q \in Seq(B) /\ b \in B
  BY <1>1
<1>3. PICK n \in Nat : n = Len(q)
  BY <1>2
<1>4. PICK q2 : q2 = Append(q, b)
  OBVIOUS
<1>5. Len(q2) - 1 = n /\ \A i \in 1..n : q2[i] = q[i]
  BY <1>2, <1>3, <1>4
<1> QED BY <1>3, <1>4, <1>5 DEF EndedXml, Marked

(* The blocks around it, with those of xml_mode marked. *)
LEMMA EndXmlShape ==
  ASSUME NEW q \in Seq(Blocks), q # <<>>
  PROVE  /\ EndedXml(q) \in Seq(Blocks) /\ Len(EndedXml(q)) = Len(q) - 1
         /\ \A i \in 1..(Len(q) - 1) : \/ q[i].kind = "lines" /\ EndedXml(q)[i] = q[i]
                                       \/ /\ q[i].kind = "xml" /\ EndedXml(q)[i].kind = "xml"
                                          /\ EndedXml(q)[i].inner = TRUE
<1>1. PICK B : B = Blocks
  OBVIOUS
<1>2. q \in Seq(B) /\ q # <<>>
  BY <1>1
<1>3. PICK n \in Nat : n = Len(q) - 1
  BY <1>2
<1>4. PICK q2 : q2 = EndedXml(q)
  OBVIOUS
<1>5. q2 = [i \in 1..n |-> IF q[i].kind = "xml" THEN [q[i] EXCEPT !.inner = TRUE] ELSE q[i]]
  BY <1>3, <1>4 DEF EndedXml, Marked
<1>6. ASSUME NEW i \in 1..n
      PROVE  /\ q2[i] \in B
             /\ \/ q[i].kind = "lines" /\ q2[i] = q[i]
                \/ q[i].kind = "xml" /\ q2[i].kind = "xml" /\ q2[i].inner = TRUE
  <2>1. i \in 1..Len(q)
    BY <1>2, <1>3
  <2>2. PICK b \in Blocks : b = q[i]
    <3>1. q[i] \in B
      BY <1>2, <2>1
    <3> QED BY <1>1, <3>1
  <2>3. b \in LinesBlocks \/ b \in XmlBlocks
    BY DEF Blocks
  <2>4. CASE b \in LinesBlocks
    <3>1. b.kind = "lines"
      BY <2>4 DEF LinesBlocks
    <3>2. q2[i] = b
      BY <1>5, <2>2, <3>1
    <3> QED BY <1>1, <2>2, <3>1, <3>2
  <2>5. CASE b \in XmlBlocks
    <3>1. PICK z : z = [b EXCEPT !.inner = TRUE]
      OBVIOUS
    <3>2. b.kind = "xml" /\ z \in XmlBlocks /\ z.kind = "xml" /\ z.inner = TRUE
      BY <2>5, <3>1 DEF XmlBlocks
    <3>3. q2[i] = z
      BY <1>5, <2>2, <3>1, <3>2
    <3>4. z \in B
      BY <1>1, <3>2 DEF Blocks
    <3> QED BY <2>2, <3>2, <3>3, <3>4
  <2> QED BY <2>3, <2>4, <2>5
<1>7. q2 \in Seq(B) /\ Len(q2) = n
  <2>1. q2 \in [1..n -> B]
    BY <1>5, <1>6
  <2> QED BY <2>1
<1> QED BY <1>1, <1>3, <1>4, <1>6, <1>7

(* A block of xml_mode saved nothing, so its end changes nothing for the *)
(* settings.                                                             *)
LEMMA EndXmlKnows ==
  ASSUME NEW q \in Seq(Blocks), q # <<>>, q[Len(q)].kind = "xml",
         NEW a, NEW d, NEW d2, NEW x, NEW v, NEW c, Knows(q, a, d, x, v, c)
  PROVE  Knows(EndedXml(q), "body", d2, x, v, c) /\ Steps(q, EndedXml(q), x, v, v, c)
<1>1. PICK q2 : q2 = EndedXml(q)
  OBVIOUS
<1>2. PICK n \in Nat : n = Len(q) /\ n \in 1..n
  <2>1. PICK B : B = Blocks
    OBVIOUS
  <2>2. q \in Seq(B) /\ q # <<>>
    BY <2>1
  <2> QED BY <2>2
<1>3. PICK m \in Nat : m = n - 1
  BY <1>2
<1>4. Len(q2) = m
  BY <1>1, <1>2, <1>3, EndXmlShape
<1>5. \A i \in 1..m : \/ q[i].kind = "lines" /\ q2[i] = q[i]
                      \/ q[i].kind = "xml" /\ q2[i].kind = "xml"
  BY <1>1, <1>2, <1>3, EndXmlShape
<1>6. \A i \in 1..m : i \in 1..n /\ SavedBy(q2[i]) = SavedBy(q[i])
  <2>1. ASSUME NEW i \in 1..m PROVE SavedBy(q2[i]) = SavedBy(q[i])
    <3>1. CASE q2[i] = q[i]
      BY <3>1
    <3>2. CASE q[i].kind = "xml" /\ q2[i].kind = "xml"
      <4>1. \A b : b.kind = "xml" => SavedBy(b) = {}
        BY DEF SavedBy
      <4> QED BY <3>2, <4>1
    <3> QED BY <1>5, <3>1, <3>2
  <2>2. \A i \in 1..m : i \in 1..n
    BY <1>3
  <2> QED BY <2>1, <2>2
<1>7. \A i \in 1..n : i = n \/ i \in 1..m
  BY <1>3
<1>8. SavedBy(q[n]) = {}
  BY <1>2 DEF SavedBy
<1>9. \A i \in 1..m : Single(q2[i], x)
  BY <1>2, <1>5, <1>6 DEF Knows, Single
<1>10. FirstHolds(q2, x, c)
  <2>1. SUFFICES ASSUME NEW i \in 1..m, x \in SavedBy(q2[i]),
                        \A j \in 1..(i - 1) : x \notin SavedBy(q2[j])
                 PROVE  Holds(q2[i], x, c)
    BY <1>4 DEF FirstHolds
  <2>2. \A j \in 1..(i - 1) : j \in 1..m /\ x \notin SavedBy(q[j])
    BY <1>6, <2>1
  <2>3. Holds(q[i], x, c)
    BY <1>2, <1>6, <2>1, <2>2 DEF Knows, FirstHolds
  <2>4. q2[i] = q[i]
    BY <1>5, <2>3 DEF Holds
  <2> QED BY <2>3, <2>4
<1>11. SavesIn(q2, x) <=> SavesIn(q, x)
  BY <1>2, <1>4, <1>6, <1>7, <1>8 DEF SavesIn
<1>12. Restoring(q2, "body", d2, x, v) /\ Assigning(q2, "body", x, v)
  BY DEF Restoring, Assigning
<1>13. Knows(q2, "body", d2, x, v, c)
  BY <1>4, <1>9, <1>10, <1>12 DEF Knows
<1>14. Steps(q, q2, x, v, v, c)
  BY <1>11 DEF Steps
<1> QED BY <1>1, <1>13, <1>14

(***************************************************************************)
(* All threads together: S, A and D are their stacks, their places and     *)
(* what they have to do.  No two threads have a setting saved at a time.   *)
(***************************************************************************)
Guarded(S, A, D, x, v, c) ==
  /\ \A t \in Threads : Knows(S[t], A[t], D[t], x, v, c)
  /\ \A t, u \in Threads : SavesIn(S[t], x) /\ SavesIn(S[u], x) => t = u
  /\ (\A t \in Threads : ~SavesIn(S[t], x)) => v = c
At(f, t, new) == [f EXCEPT ![t] = new]

(* A value no block of a thread saved may change without its knowing. *)
LEMMA NotSavedKnows ==
  ASSUME NEW q \in Seq(Blocks), NEW a, NEW d, Placed(q, a, d),
         NEW x, NEW v, NEW v2, NEW c, ~SavesIn(q, x), Knows(q, a, d, x, v, c)
  PROVE  Knows(q, a, d, x, v2, c)
<1>1. CASE a \notin {"restore", "assign"}
  <2>1. Restoring(q, a, d, x, v2) /\ Assigning(q, a, x, v2)
    BY <1>1 DEF Restoring, Assigning
  <2> QED BY <2>1 DEF Knows
<1>2. CASE a \in {"restore", "assign"}
  <2>1. q # <<>> /\ q[Len(q)].kind = "lines"
    BY <1>2 DEF Placed
  <2>2. Len(q) \in 1..Len(q)
    <3>1. PICK B : B = Blocks
      OBVIOUS
    <3>2. q \in Seq(B) /\ q # <<>>
      BY <2>1, <3>1
    <3> QED BY <3>2
  <2>3. PICK b \in Blocks : b = q[Len(q)] /\ b.kind = "lines"
    <3>1. PICK B : B = Blocks
      OBVIOUS
    <3>2. q \in Seq(B)
      BY <3>1
    <3>3. q[Len(q)] \in B
      BY <2>2, <3>2
    <3> QED BY <2>1, <3>1, <3>3
  <2>4. x \notin SavedBy(b)
    BY <2>2, <2>3 DEF SavesIn
  <2>5. Restoring(q, a, d, x, v2)
    BY <2>3, <2>4 DEF Restoring
  <2>6. PICK l \in Seq(Kept) : l = b.saved
    BY <2>3, LinesKeep
  <2>7. SavedBy(b) = {l[i][1] : i \in 1..Len(l)}
    BY <2>3, <2>6, LinesKeep
  <2>8. a = "assign" => l[Len(l)][1] # x
    <3>1. SUFFICES ASSUME a = "assign" PROVE l[Len(l)][1] # x
      OBVIOUS
    <3>2. l # <<>>
      BY <2>3, <2>6, <3>1 DEF Placed
    <3>3. Len(l) \in 1..Len(l)
      <4>1. PICK K : K = Kept
        OBVIOUS
      <4>2. l \in Seq(K) /\ l # <<>>
        BY <3>2, <4>1
      <4> QED BY <4>2
    <3> QED BY <2>4, <2>7, <3>3
  <2>9. Assigning(q, a, x, v2)
    BY <2>3, <2>6, <2>8 DEF Assigning
  <2> QED BY <2>5, <2>9 DEF Knows
<1> QED BY <1>1, <1>2

(* A step of the thread t; the stacks of the others do not mind it. *)
LEMMA GuardedAfter ==
  ASSUME NEW S \in [Threads -> Seq(Blocks)], NEW A \in [Threads -> Places],
         NEW D \in [Threads -> Seq(Entry)],
         NEW t \in Threads, NEW q2, NEW a2, NEW d2, NEW x, NEW v, NEW v2, NEW c,
         \A u \in Threads : Placed(S[u], A[u], D[u]),
         Guarded(S, A, D, x, v, c),
         Knows(q2, a2, d2, x, v2, c),
         \/ Steps(S[t], q2, x, v, v2, c)
         \/ SavesIn(q2, x) /\ v2 = v /\ \A u \in Threads \ {t} : ~SavesIn(S[u], x)
  PROVE  Guarded(At(S, t, q2), At(A, t, a2), At(D, t, d2), x, v2, c)
<1>1. PICK S2 : S2 = At(S, t, q2)
  OBVIOUS
<1>2. PICK A2 : A2 = At(A, t, a2)
  OBVIOUS
<1>3. PICK D2 : D2 = At(D, t, d2)
  OBVIOUS
<1>4. S2[t] = q2 /\ A2[t] = a2 /\ D2[t] = d2
  BY <1>1, <1>2, <1>3 DEF At
<1>5. \A u \in Threads : u # t => S2[u] = S[u] /\ A2[u] = A[u] /\ D2[u] = D[u]
  BY <1>1, <1>2, <1>3 DEF At
<1>6. ASSUME NEW u \in Threads PROVE Knows(S2[u], A2[u], D2[u], x, v2, c)
  <2>1. CASE u = t
    BY <1>4, <2>1
  <2>2. CASE u # t
    <3>1. Knows(S[u], A[u], D[u], x, v, c) /\ S[u] \in Seq(Blocks)
      BY DEF Guarded
    <3>2. CASE v2 = v
      BY <1>5, <2>2, <3>1, <3>2
    <3>3. CASE v2 # v
      <4>1. SavesIn(S[t], x)
        BY <3>3 DEF Steps
      <4>2. ~SavesIn(S[u], x)
        BY <2>2, <4>1 DEF Guarded
      <4>3. Knows(S[u], A[u], D[u], x, v2, c)
        BY <3>1, <4>2, NotSavedKnows
      <4> QED BY <1>5, <2>2, <4>3
    <3> QED BY <3>2, <3>3
  <2> QED BY <2>1, <2>2
<1>7. ASSUME NEW u \in Threads, NEW w \in Threads, SavesIn(S2[u], x), SavesIn(S2[w], x), u # w
      PROVE  FALSE
  <2>1. \A y \in Threads \ {t} : S2[y] = S[y]
    BY <1>5
  <2>2. CASE SavesIn(S[t], x)
    BY <1>7, <2>1, <2>2 DEF Guarded
  <2>3. CASE ~SavesIn(S[t], x) /\ ~SavesIn(q2, x)
    BY <1>4, <1>7, <2>1, <2>3 DEF Guarded
  <2>4. CASE ~SavesIn(S[t], x) /\ SavesIn(q2, x)
    <3>1. \A y \in Threads \ {t} : ~SavesIn(S[y], x)
      BY <2>4 DEF Steps
    <3> QED BY <1>7, <2>1, <3>1
  <2> QED BY <2>2, <2>3, <2>4
<1>8. ASSUME \A u \in Threads : ~SavesIn(S2[u], x) PROVE v2 = c
  <2>1. ~SavesIn(q2, x)
    BY <1>4, <1>8
  <2>2. v2 = c \/ (~SavesIn(S[t], x) /\ v2 = v)
    BY <2>1 DEF Steps
  <2>3. ASSUME ~SavesIn(S[t], x), v2 = v PROVE v2 = c
    <3>1. \A u \in Threads : ~SavesIn(S[u], x)
      BY <1>5, <1>8, <2>3
    <3> QED BY <2>3, <3>1 DEF Guarded
  <2> QED BY <2>2, <2>3
<1>9. Guarded(S2, A2, D2, x, v2, c)
  BY <1>6, <1>7, <1>8 DEF Guarded
<1> QED BY <1>1, <1>2, <1>3, <1>9

(***************************************************************************)
(* Settings: the invariant.  Before autoload nothing is open and every     *)
(* setting has its default; after it every setting that was never crossed  *)
(* is guarded by the stacks that saved it.                                 *)
(***************************************************************************)
SettingsTypes ==
  /\ env \in Environment /\ confFile \in Seq(Entry) /\ ValuesAccepted(value)
  /\ stack \in [Threads -> Seq(Blocks)] /\ at \in [Threads -> Places]
  /\ todo \in [Threads -> Seq(Entry)]
Positions == \A t \in Threads : Placed(stack[t], at[t], todo[t])
Started == \A t \in Threads : at[t] # "start"
Begun == Started \/ (value = Defaults /\ \A t \in Threads : at[t] = "start" /\ stack[t] = <<>>)
Overrides ==
  Started => \A x \in Known \ crossed : Guarded(stack, at, todo, x, value[x], Configured(x))
RestoreInv == SettingsTypes /\ Positions /\ Begun /\ Overrides

(* What a thread finds: its stack q, its place, what it has to do, the *)
(* values v, what they are configured to be and the settings not crossed. *)
Sees(q, a, d, v, C, X) ==
  /\ q \in Seq(Blocks) /\ a \in Places /\ d \in Seq(Entry) /\ ValuesAccepted(v) /\ Placed(q, a, d)
  /\ \A x \in X : Knows(q, a, d, x, v[x], C[x])
ConfiguredAll == [x \in Known |-> Configured(x)]

(* The invariant, for one thread that runs. *)
LEMMA ThreadSees ==
  ASSUME RestoreInv, NEW t \in Threads, at[t] # "start",
         NEW q, q = stack[t], NEW a, a = at[t], NEW d, d = todo[t],
         NEW v, v = value, NEW C, C = ConfiguredAll, NEW X, X = Known \ crossed
  PROVE  Sees(q, a, d, v, C, X)
<1>1. PICK S : S = stack
  OBVIOUS
<1>2. PICK A : A = at
  OBVIOUS
<1>3. PICK D : D = todo
  OBVIOUS
<1>4. q \in Seq(Blocks) /\ a \in Places /\ d \in Seq(Entry) /\ ValuesAccepted(v)
  BY DEF RestoreInv, SettingsTypes
<1>5. Placed(q, a, d)
  BY DEF RestoreInv, Positions
<1>6. Started
  BY DEF RestoreInv, Begun
<1>7. \A x \in X : Guarded(S, A, D, x, v[x], C[x])
  BY <1>1, <1>2, <1>3, <1>6 DEF RestoreInv, Overrides, ConfiguredAll
<1>8. \A x \in X : Knows(q, a, d, x, v[x], C[x])
  BY <1>1, <1>2, <1>3, <1>7 DEF Guarded
<1> QED BY <1>4, <1>5, <1>8 DEF Sees

(* A step of the thread t that leaves what it sees as it should be. *)
LEMMA ThreadActs ==
  ASSUME RestoreInv, NEW t \in Threads, at[t] # "start",
         NEW q, q = stack[t], NEW v, v = value, NEW C, C = ConfiguredAll,
         NEW q2, NEW a2, NEW d2, NEW v2, NEW X2, X2 = Known \ crossed', crossed \subseteq crossed',
         UNCHANGED <<env, confFile>>, a2 # "start",
         stack' = At(stack, t, q2), at' = At(at, t, a2), todo' = At(todo, t, d2), value' = v2,
         Sees(q2, a2, d2, v2, C, X2),
         \A x \in X2 :
           \/ Steps(q, q2, x, v[x], v2[x], C[x])
           \/ SavesIn(q2, x) /\ v2[x] = v[x] /\ \A u \in Threads \ {t} : ~SavesIn(stack[u], x)
  PROVE  RestoreInv'
<1>1. PICK S \in [Threads -> Seq(Blocks)] : S = stack
  BY DEF RestoreInv, SettingsTypes
<1>2. PICK A \in [Threads -> Places] : A = at
  BY DEF RestoreInv, SettingsTypes
<1>3. PICK D \in [Threads -> Seq(Entry)] : D = todo
  BY DEF RestoreInv, SettingsTypes
<1>4. Started
  BY DEF RestoreInv, Begun
<1>5. \A x \in Known \ crossed : Guarded(S, A, D, x, v[x], C[x])
  BY <1>1, <1>2, <1>3, <1>4 DEF RestoreInv, Overrides, ConfiguredAll
<1>6. \A u \in Threads : Placed(S[u], A[u], D[u])
  BY <1>1, <1>2, <1>3 DEF RestoreInv, Positions
<1>7. PICK S2 : S2 = At(S, t, q2)
  OBVIOUS
<1>8. PICK A2 : A2 = At(A, t, a2)
  OBVIOUS
<1>9. PICK D2 : D2 = At(D, t, d2)
  OBVIOUS
<1>10. stack' = S2 /\ at' = A2 /\ todo' = D2
  BY <1>1, <1>2, <1>3, <1>7, <1>8, <1>9
<1>11. \A x \in X2 : Guarded(S2, A2, D2, x, v2[x], C[x])
  <2>1. ASSUME NEW x \in X2
        PROVE  Guarded(At(S, t, q2), At(A, t, a2), At(D, t, d2), x, v2[x], C[x])
    <3>1. PICK w : w = v[x]
      OBVIOUS
    <3>2. PICK w2 : w2 = v2[x]
      OBVIOUS
    <3>3. PICK c : c = C[x]
      OBVIOUS
    <3>4. x \in Known \ crossed
      OBVIOUS
    <3>5. Guarded(S, A, D, x, w, c) /\ Knows(q2, a2, d2, x, w2, c)
      BY <1>5, <3>1, <3>2, <3>3, <3>4 DEF Sees
    <3>6. \/ Steps(S[t], q2, x, w, w2, c)
          \/ SavesIn(q2, x) /\ w2 = w /\ \A u \in Threads \ {t} : ~SavesIn(S[u], x)
      BY <1>1, <3>1, <3>2, <3>3
    <3>7. Guarded(At(S, t, q2), At(A, t, a2), At(D, t, d2), x, w2, c)
      BY <1>6, <3>5, <3>6, GuardedAfter
    <3> QED BY <3>2, <3>3, <3>7
  <2> QED BY <1>7, <1>8, <1>9, <2>1
<1>12. S2 \in [Threads -> Seq(Blocks)] /\ A2 \in [Threads -> Places] /\ D2 \in [Threads -> Seq(Entry)]
  BY <1>7, <1>8, <1>9 DEF At, Sees
<1>13. \A u \in Threads : Placed(S2[u], A2[u], D2[u]) /\ A2[u] # "start"
  <2>1. \A u \in Threads : A[u] # "start"
    BY <1>2, <1>4 DEF Started
  <2>2. Placed(q2, a2, d2)
    BY DEF Sees
  <2> QED BY <1>6, <1>7, <1>8, <1>9, <2>1, <2>2 DEF At
<1>14. SettingsTypes'
  <2>1. env' \in Environment /\ confFile' \in Seq(Entry)
    BY DEF RestoreInv, SettingsTypes
  <2>2. ValuesAccepted(v2)
    BY DEF Sees
  <2> QED BY <1>10, <1>12, <2>1, <2>2 DEF SettingsTypes
<1>15. Positions' /\ Started'
  BY <1>10, <1>13 DEF Positions, Started
<1>16. \A x \in Known : Configured(x)' = C[x]
  BY DEF Configured, ConfiguredAll
<1>17. Overrides'
  BY <1>10, <1>11, <1>16 DEF Overrides
<1> QED BY <1>14, <1>15, <1>17 DEF RestoreInv, Begun

(* A function is itself with one of its values put in its place. *)
LEMMA AtSame ==
  ASSUME NEW R, NEW f \in [Threads -> R], NEW t \in Threads
  PROVE  f = At(f, t, f[t])
BY DEF At

(* UNCHANGED, as the steps of a thread are stated. *)
LEMMA Keeps ==
  ASSUME RestoreInv, NEW t \in Threads
  PROVE  stack = At(stack, t, stack[t]) /\ at = At(at, t, at[t]) /\ todo = At(todo, t, todo[t])
<1>1. PICK S \in [Threads -> Seq(Blocks)] : S = stack
  BY DEF RestoreInv, SettingsTypes
<1>2. PICK A \in [Threads -> Places] : A = at
  BY DEF RestoreInv, SettingsTypes
<1>3. PICK D \in [Threads -> Seq(Entry)] : D = todo
  BY DEF RestoreInv, SettingsTypes
<1> QED BY <1>1, <1>2, <1>3, AtSame

(* A block is opened. *)
LEMMA PushBlocks ==
  ASSUME NEW q \in Seq(Blocks), NEW b \in Blocks
  PROVE  /\ Append(q, b) \in Seq(Blocks)
         /\ Append(q, b) # <<>> /\ Append(q, b)[Len(Append(q, b))] = b
<1>1. PICK B : B = Blocks
  OBVIOUS
<1>2. q \in Seq(B) /\ b \in B
  BY <1>1
<1>3. Append(q, b) \in Seq(B) /\ Append(q, b) # <<>> /\ Append(q, b)[Len(Append(q, b))] = b
  BY <1>2
<1> QED BY <1>1, <1>3

(* What the innermost block saved are entries. *)
LEMMA SavedEntries ==
  ASSUME NEW q \in Seq(Blocks), q # <<>>, q[Len(q)].kind = "lines"
  PROVE  /\ q[Len(q)] \in LinesBlocks /\ q[Len(q)].saved \in Seq(Kept)
         /\ q[Len(q)].saved \in Seq(Entry)
<1>1. PICK B : B = Blocks
  OBVIOUS
<1>2. q \in Seq(B) /\ q # <<>>
  BY <1>1
<1>3. q[Len(q)] \in B
  BY <1>2
<1>4. PICK b \in Blocks : b = q[Len(q)]
  BY <1>1, <1>3
<1>5. b \in LinesBlocks /\ b.saved \in Seq(Kept)
  BY <1>4, LinesKeep
<1>6. Kept \subseteq Entry
  BY DEF Kept
<1>7. b.saved \in Seq(Entry)
  BY <1>5, <1>6, SeqMonotonic
<1> QED BY <1>4, <1>5, <1>7

(* Every operation keeps the invariant: a block of lines is opened. *)
LEMMA EnterLinesKeeps ==
  ASSUME SettingsAssumption, RestoreInv, NEW t \in Threads, EnterLines(t) PROVE RestoreInv'
<1>1. PICK q : q = stack[t]
  OBVIOUS
<1>2. PICK d : d = todo[t]
  OBVIOUS
<1>3. PICK v : v = value
  OBVIOUS
<1>4. PICK C : C = ConfiguredAll
  OBVIOUS
<1>5. PICK X : X = Known \ crossed
  OBVIOUS
<1>6. PICK es \in EntryLists : todo' = [todo EXCEPT ![t] = es]
  BY DEF EnterLines
<1>7. es \in Seq(Entry)
  BY DEF SettingsAssumption
<1>8. at[t] = "body"
  BY DEF EnterLines, MayOpen
<1>9. Sees(q, "body", d, v, C, X)
  BY <1>1, <1>2, <1>3, <1>4, <1>5, <1>8, ThreadSees
<1>10. LinesBlock \in Blocks /\ LinesBlock.kind = "lines" /\ LinesBlock.saved = <<>>
  <2>1. <<>> \in Seq(Kept)
    OBVIOUS
  <2> QED BY <2>1 DEF LinesBlock, Blocks, LinesBlocks
<1>11. SavedBy(LinesBlock) = {}
  BY DEF SavedBy, LinesBlock
<1>12. PICK b \in Blocks : b = LinesBlock /\ b.kind = "lines" /\ b.saved = <<>> /\ SavedBy(b) = {}
  BY <1>10, <1>11
<1>13. PICK q2 : q2 = Append(q, b)
  OBVIOUS
<1>14. q2 \in Seq(Blocks) /\ q2 # <<>> /\ q2[Len(q2)] = b
  BY <1>9, <1>13, PushBlocks DEF Sees
<1>15. \A x \in X : Knows(q2, "read", es, x, v[x], C[x]) /\ Steps(q, q2, x, v[x], v[x], C[x])
  <2>1. ASSUME NEW x \in X
        PROVE  Knows(q2, "read", es, x, v[x], C[x]) /\ Steps(q, q2, x, v[x], v[x], C[x])
    <3>1. Knows(q, "body", d, x, v[x], C[x]) /\ q \in Seq(Blocks)
      BY <1>9 DEF Sees
    <3> QED BY <1>12, <1>13, <3>1, PushKnows
  <2> QED BY <2>1
<1>16. Placed(q2, "read", es)
  BY <1>12, <1>14 DEF Placed
<1>17. Sees(q2, "read", es, v, C, X)
  BY <1>7, <1>9, <1>14, <1>15, <1>16 DEF Sees, Places
<1>18. stack' = At(stack, t, q2) /\ at' = At(at, t, "read") /\ todo' = At(todo, t, es)
  BY <1>1, <1>6, <1>12, <1>13 DEF EnterLines, Push, At
<1>19. value' = v /\ crossed' = crossed /\ env' = env /\ confFile' = confFile
  BY <1>3 DEF EnterLines, confVars
<1> QED BY <1>1, <1>3, <1>4, <1>5, <1>8, <1>15, <1>17, <1>18, <1>19, ThreadActs

(* A block of xml_mode is opened. *)
LEMMA EnterXmlKeeps ==
  ASSUME RestoreInv, NEW t \in Threads, EnterXml(t) PROVE RestoreInv'
<1>1. PICK q : q = stack[t]
  OBVIOUS
<1>2. PICK d : d = todo[t]
  OBVIOUS
<1>3. PICK v : v = value
  OBVIOUS
<1>4. PICK C : C = ConfiguredAll
  OBVIOUS
<1>5. PICK X : X = Known \ crossed
  OBVIOUS
<1>6. PICK p \in {"A", "B"} : Push(t, XmlBlock(p))
  BY DEF EnterXml
<1>7. at[t] = "body"
  BY DEF EnterXml, MayOpen
<1>8. Sees(q, "body", d, v, C, X)
  BY <1>1, <1>2, <1>3, <1>4, <1>5, <1>7, ThreadSees
<1>9. PICK b \in Blocks : b = XmlBlock(p) /\ b.kind = "xml" /\ SavedBy(b) = {}
  <2>1. XmlBlock(p) \in XmlBlocks /\ XmlBlock(p).kind = "xml"
    BY DEF XmlBlock, XmlBlocks
  <2>2. SavedBy(XmlBlock(p)) = {}
    BY <2>1 DEF SavedBy
  <2> QED BY <2>1, <2>2 DEF Blocks
<1>10. PICK q2 : q2 = Append(q, b)
  OBVIOUS
<1>11. q2 \in Seq(Blocks)
  BY <1>8, <1>10, PushBlocks DEF Sees
<1>12. \A x \in X : Knows(q2, "body", d, x, v[x], C[x]) /\ Steps(q, q2, x, v[x], v[x], C[x])
  <2>1. ASSUME NEW x \in X
        PROVE  Knows(q2, "body", d, x, v[x], C[x]) /\ Steps(q, q2, x, v[x], v[x], C[x])
    <3>1. Knows(q, "body", d, x, v[x], C[x]) /\ q \in Seq(Blocks)
      BY <1>8 DEF Sees
    <3> QED BY <1>9, <1>10, <3>1, PushKnows
  <2> QED BY <2>1
<1>13. Sees(q2, "body", d, v, C, X)
  BY <1>8, <1>11, <1>12 DEF Sees, Placed
<1>14. stack' = At(stack, t, q2)
  BY <1>1, <1>6, <1>9, <1>10 DEF Push, At
<1>15. at' = At(at, t, "body") /\ todo' = At(todo, t, d)
  BY <1>2, <1>7, Keeps DEF EnterXml
<1>16. value' = v /\ crossed' = crossed /\ env' = env /\ confFile' = confFile
  BY <1>3 DEF EnterXml, confVars
<1> QED BY <1>1, <1>3, <1>4, <1>5, <1>7, <1>12, <1>13, <1>14, <1>15, <1>16, ThreadActs

(* A block of xml_mode is closed. *)
LEMMA ExitXmlKeeps ==
  ASSUME RestoreInv, NEW t \in Threads, ExitXml(t) PROVE RestoreInv'
<1>1. PICK q : q = stack[t]
  OBVIOUS
<1>2. PICK d : d = todo[t]
  OBVIOUS
<1>3. PICK v : v = value
  OBVIOUS
<1>4. PICK C : C = ConfiguredAll
  OBVIOUS
<1>5. PICK X : X = Known \ crossed
  OBVIOUS
<1>6. at[t] = "body" /\ q # <<>> /\ Last(q).kind = "xml"
  BY <1>1 DEF ExitXml, Top
<1>7. Sees(q, "body", d, v, C, X)
  BY <1>1, <1>2, <1>3, <1>4, <1>5, <1>6, ThreadSees
<1>8. q[Len(q)].kind = "xml"
  BY <1>6 DEF Last
<1>9. PICK q2 : q2 = EndedXml(q)
  OBVIOUS
<1>10. q2 \in Seq(Blocks)
  BY <1>6, <1>7, <1>9, EndXmlShape DEF Sees
<1>11. \A x \in X : Knows(q2, "body", d, x, v[x], C[x]) /\ Steps(q, q2, x, v[x], v[x], C[x])
  <2>1. ASSUME NEW x \in X
        PROVE  Knows(q2, "body", d, x, v[x], C[x]) /\ Steps(q, q2, x, v[x], v[x], C[x])
    <3>1. Knows(q, "body", d, x, v[x], C[x]) /\ q \in Seq(Blocks)
      BY <1>7 DEF Sees
    <3> QED BY <1>6, <1>8, <1>9, <3>1, EndXmlKnows
  <2> QED BY <2>1
<1>12. Sees(q2, "body", d, v, C, X)
  BY <1>7, <1>10, <1>11 DEF Sees, Placed
<1>13. stack' = At(stack, t, q2)
  BY <1>1, <1>9 DEF ExitXml, EndedXml, At
<1>14. at' = At(at, t, "body") /\ todo' = At(todo, t, d)
  BY <1>2, <1>6, Keeps DEF ExitXml
<1>15. value' = v /\ crossed' = crossed /\ env' = env /\ confFile' = confFile
  BY <1>3 DEF ExitXml, confVars
<1> QED BY <1>1, <1>3, <1>4, <1>5, <1>6, <1>11, <1>12, <1>13, <1>14, <1>15, ThreadActs

(* A block of xml_mode, as far as the settings are concerned. *)
LEMMA XmlBlockShape ==
  XmlBlock("A") \in Blocks /\ XmlBlock("A").kind = "xml" /\ SavedBy(XmlBlock("A")) = {}
<1>1. XmlBlock("A") \in XmlBlocks /\ XmlBlock("A").kind = "xml"
  BY DEF XmlBlock, XmlBlocks
<1>2. SavedBy(XmlBlock("A")) = {}
  BY <1>1 DEF SavedBy
<1> QED BY <1>1, <1>2 DEF Blocks

(* The call of xml_mode is refused. *)
LEMMA XmlRefusedKeeps ==
  ASSUME RestoreInv, NEW t \in Threads, XmlRefused(t) PROVE RestoreInv'
<1>1. PICK q : q = stack[t]
  OBVIOUS
<1>2. PICK d : d = todo[t]
  OBVIOUS
<1>3. PICK v : v = value
  OBVIOUS
<1>4. PICK C : C = ConfiguredAll
  OBVIOUS
<1>5. PICK X : X = Known \ crossed
  OBVIOUS
<1>6. at[t] = "body"
  BY DEF XmlRefused
<1>7. Sees(q, "body", d, v, C, X)
  BY <1>1, <1>2, <1>3, <1>4, <1>5, <1>6, ThreadSees
<1>8. PICK b \in Blocks : b.kind = "xml" /\ SavedBy(b) = {}
  BY XmlBlockShape
<1>9. PICK q1 : q1 = Append(q, b)
  OBVIOUS
<1>10. q1 \in Seq(Blocks) /\ q1 # <<>> /\ q1[Len(q1)].kind = "xml"
  <2>1. PICK B : B = Blocks
    OBVIOUS
  <2>2. q \in Seq(B) /\ b \in B
    BY <1>7, <2>1 DEF Sees
  <2>3. q1 \in Seq(B) /\ q1 # <<>> /\ q1[Len(q1)] = b
    BY <1>9, <2>2
  <2> QED BY <1>8, <2>1, <2>3
<1>11. PICK q2 : q2 = EndedXml(q1)
  OBVIOUS
<1>12. q2 \in Seq(Blocks)
  BY <1>10, <1>11, EndXmlShape
<1>13. ASSUME NEW x \in X
       PROVE  Knows(q2, "body", d, x, v[x], C[x]) /\ Steps(q, q2, x, v[x], v[x], C[x])
  <2>1. Knows(q, "body", d, x, v[x], C[x]) /\ q \in Seq(Blocks)
    BY <1>7 DEF Sees
  <2>2. Knows(q1, "body", d, x, v[x], C[x]) /\ Steps(q, q1, x, v[x], v[x], C[x])
    BY <1>8, <1>9, <2>1, PushKnows
  <2>3. Knows(q2, "body", d, x, v[x], C[x]) /\ Steps(q1, q2, x, v[x], v[x], C[x])
    BY <1>10, <1>11, <2>2, EndXmlKnows
  <2> QED BY <2>2, <2>3 DEF Steps
<1>14. Sees(q2, "body", d, v, C, X)
  BY <1>7, <1>12, <1>13 DEF Sees, Placed
<1>15. q2 = Marked(q, Len(q))
  BY <1>7, <1>9, <1>11, RefusedShape DEF Sees
<1>16. stack' = At(stack, t, q2)
  BY <1>1, <1>15 DEF XmlRefused, At
<1>17. at' = At(at, t, "body") /\ todo' = At(todo, t, d)
  BY <1>2, <1>6, Keeps DEF XmlRefused
<1>18. value' = v /\ crossed' = crossed /\ env' = env /\ confFile' = confFile
  BY <1>3 DEF XmlRefused, confVars
<1> QED BY <1>1, <1>3, <1>4, <1>5, <1>6, <1>13, <1>14, <1>16, <1>17, <1>18, ThreadActs

(* A block of lines is closed: what it saved is to be restored. *)
LEMMA ExitLinesKeeps ==
  ASSUME RestoreInv, NEW t \in Threads, ExitLines(t) PROVE RestoreInv'
<1>1. PICK q : q = stack[t]
  OBVIOUS
<1>2. PICK d : d = todo[t]
  OBVIOUS
<1>3. PICK v : v = value
  OBVIOUS
<1>4. PICK C : C = ConfiguredAll
  OBVIOUS
<1>5. PICK X : X = Known \ crossed
  OBVIOUS
<1>6. at[t] = "body" /\ q # <<>> /\ q[Len(q)].kind = "lines"
  BY <1>1 DEF ExitLines, Top, Last
<1>7. Sees(q, "body", d, v, C, X)
  BY <1>1, <1>2, <1>3, <1>4, <1>5, <1>6, ThreadSees
<1>8. PICK l : l = q[Len(q)].saved
  OBVIOUS
<1>9. \A x \in X : Knows(q, "restore", l, x, v[x], C[x]) /\ Steps(q, q, x, v[x], v[x], C[x])
  <2>1. ASSUME NEW x \in X
        PROVE  Knows(q, "restore", l, x, v[x], C[x]) /\ Steps(q, q, x, v[x], v[x], C[x])
    <3>1. Knows(q, "body", d, x, v[x], C[x]) /\ q \in Seq(Blocks)
      BY <1>7 DEF Sees
    <3> QED BY <1>6, <1>8, <3>1, EndKnows
  <2> QED BY <2>1
<1>10. Placed(q, "restore", l)
  BY <1>6, <1>8 DEF Placed
<1>11. l \in Seq(Entry)
  BY <1>6, <1>7, <1>8, SavedEntries DEF Sees
<1>12. Sees(q, "restore", l, v, C, X)
  BY <1>7, <1>9, <1>10, <1>11 DEF Sees, Places
<1>13. at' = At(at, t, "restore") /\ todo' = At(todo, t, l)
  BY <1>1, <1>8 DEF ExitLines, Restores, Top, Last, At
<1>14. stack' = At(stack, t, q)
  BY <1>1, Keeps DEF ExitLines
<1>15. value' = v /\ crossed' = crossed /\ env' = env /\ confFile' = confFile
  BY <1>3 DEF ExitLines, confVars
<1> QED BY <1>1, <1>3, <1>4, <1>5, <1>6, <1>9, <1>12, <1>13, <1>14, <1>15, ThreadActs

(* The steps that read and assign the entries of a block. *)
LEMMA FirstEntry ==
  ASSUME NEW d \in Seq(Entry), d # <<>>
  PROVE  /\ Head(d) = d[1] /\ d[1] \in Entry /\ Tail(d) \in Seq(Entry)
<1>1. PICK E : E = Entry
  OBVIOUS
<1>2. d \in Seq(E) /\ d # <<>>
  BY <1>1
<1>3. Head(d) = d[1] /\ d[1] \in E /\ Tail(d) \in Seq(E)
  BY <1>2
<1> QED BY <1>1, <1>3

(* All but the last of a list of entries. *)
LEMMA FrontEntries ==
  ASSUME NEW l \in Seq(Entry), l # <<>>
  PROVE  Front(l) \in Seq(Entry)
<1>1. PICK E : E = Entry
  OBVIOUS
<1>2. l \in Seq(E) /\ l # <<>>
  BY <1>1
<1>3. SubSeq(l, 1, Len(l) - 1) \in Seq(E)
  BY <1>2
<1> QED BY <1>1, <1>3 DEF Front

(* They are where they were. *)
LEMMA FrontPlaces ==
  ASSUME NEW l \in Seq(Entry), l # <<>>
  PROVE  \A k \in 1..Len(Front(l)) : k \in 1..Len(l) /\ Front(l)[k] = l[k]
<1>1. PICK E : E = Entry
  OBVIOUS
<1>2. l \in Seq(E) /\ l # <<>>
  BY <1>1
<1>3. PICK m \in Nat : m = Len(l) /\ m - 1 \in Nat
  BY <1>2
<1>4. PICK f : f = SubSeq(l, 1, m - 1)
  OBVIOUS
<1>5. Len(f) = m - 1 /\ \A k \in 1..(m - 1) : f[k] = l[1 + k - 1]
  BY <1>2, <1>3, <1>4
<1>6. \A k \in 1..(m - 1) : 1 + k - 1 = k /\ k \in 1..m
  BY <1>3
<1>7. f = Front(l)
  BY <1>3, <1>4 DEF Front
<1> QED BY <1>3, <1>5, <1>6, <1>7

(* Loading an entry leaves values that their setters accept. *)
LEMMA LoadedAccepted ==
  ASSUME NEW v, ValuesAccepted(v), NEW e \in Entry
  PROVE  ValuesAccepted(Loaded(v, e))
<1>1. v \in [Known -> Values]
  BY DEF ValuesAccepted
<1>2. PICK v2 \in [Known -> Values] : v2 = Loaded(v, e)
  BY <1>1, LoadedSets
<1>3. \A x \in Known : v2[x] = IF Sets(e, x) THEN e[2] ELSE v[x]
  BY <1>1, <1>2, LoadedSets
<1>4. \A x \in Known : Accepts(<<x, v2[x]>>)
  BY <1>3 DEF ValuesAccepted, Sets, Accepts
<1> QED BY <1>2, <1>4 DEF ValuesAccepted

(* The setting about to be assigned is saved in the innermost block. *)
LEMMA AssignsSaved ==
  ASSUME NEW q \in Seq(Blocks), NEW d, Placed(q, "assign", d)
  PROVE  SavesIn(q, d[1][1])
<1>1. q # <<>> /\ q[Len(q)].kind = "lines"
  BY DEF Placed
<1>2. PICK b \in LinesBlocks : b = q[Len(q)]
  BY <1>1, SavedEntries
<1>3. PICK l \in Seq(Kept) : l = b.saved
  BY <1>1, <1>2, SavedEntries
<1>4. b.kind = "lines"
  BY <1>1, <1>2
<1>5. l # <<>> /\ d[1][1] = l[Len(l)][1]
  BY <1>2, <1>3 DEF Placed
<1>6. Len(l) \in 1..Len(l)
  <2>1. PICK K : K = Kept
    OBVIOUS
  <2>2. l \in Seq(K) /\ l # <<>>
    BY <1>5, <2>1
  <2> QED BY <2>2
<1>7. d[1][1] \in SavedBy(b)
  BY <1>3, <1>4, <1>5, <1>6 DEF SavedBy
<1>8. Len(q) \in 1..Len(q)
  <2>1. PICK B : B = Blocks
    OBVIOUS
  <2>2. q \in Seq(B) /\ q # <<>>
    BY <1>1, <2>1
  <2> QED BY <2>2
<1> QED BY <1>2, <1>7, <1>8 DEF SavesIn

(* A setting no block has saved has the value it is configured to have. *)
LEMMA AloneConfigured ==
  ASSUME RestoreInv, NEW t \in Threads, at[t] # "start", NEW x \in Known \ crossed,
         \A u \in Threads : ~SavesIn(stack[u], x)
  PROVE  value[x] = Configured(x)
<1>1. PICK S : S = stack
  OBVIOUS
<1>2. PICK A : A = at
  OBVIOUS
<1>3. PICK D : D = todo
  OBVIOUS
<1>4. PICK w : w = value[x]
  OBVIOUS
<1>5. PICK c : c = Configured(x)
  OBVIOUS
<1>6. Guarded(S, A, D, x, w, c)
  BY <1>1, <1>2, <1>3, <1>4, <1>5 DEF RestoreInv, Overrides, Begun
<1> QED BY <1>1, <1>4, <1>5, <1>6 DEF Guarded

(* An old value is read and saved, or the name is unknown and the block *)
(* ends.                                                                *)
LEMMA ReadOldKeeps ==
  ASSUME RestoreInv, NEW t \in Threads, ReadOld(t) PROVE RestoreInv'
<1>1. PICK q : q = stack[t]
  OBVIOUS
<1>2. PICK d : d = todo[t]
  OBVIOUS
<1>3. PICK v : v = value
  OBVIOUS
<1>4. PICK C : C = ConfiguredAll
  OBVIOUS
<1>5. PICK X : X = Known \ crossed
  OBVIOUS
<1>6. at[t] = "read" /\ d # <<>>
  BY <1>2 DEF ReadOld
<1>7. Sees(q, "read", d, v, C, X)
  BY <1>1, <1>2, <1>3, <1>4, <1>5, <1>6, ThreadSees
<1>8. q \in Seq(Blocks) /\ q # <<>> /\ q[Len(q)].kind = "lines"
  BY <1>7 DEF Sees, Placed
<1>9. d \in Seq(Entry)
  BY <1>7 DEF Sees
<1>10. Head(d) = d[1] /\ d[1] \in Entry
  BY <1>6, <1>9, FirstEntry
<1>11. PICK y : y = d[1][1]
  OBVIOUS
<1>12. env' = env /\ confFile' = confFile /\ value' = v
  BY <1>3 DEF ReadOld, confVars
<1>13. CASE y \notin Known
  <2>1. PICK l : l = q[Len(q)].saved
    OBVIOUS
  <2>2. Restores(t, Top(t).saved) /\ stack' = stack /\ crossed' = crossed
    BY <1>2, <1>10, <1>11, <1>13 DEF ReadOld
  <2>3. at' = At(at, t, "restore") /\ todo' = At(todo, t, l)
    BY <1>1, <2>1, <2>2 DEF Restores, Top, Last, At
  <2>4. stack' = At(stack, t, q)
    BY <1>1, <2>2, Keeps
  <2>5. \A x \in X : Knows(q, "restore", l, x, v[x], C[x]) /\ Steps(q, q, x, v[x], v[x], C[x])
    <3>1. ASSUME NEW x \in X
          PROVE  Knows(q, "restore", l, x, v[x], C[x]) /\ Steps(q, q, x, v[x], v[x], C[x])
      <4>1. Knows(q, "read", d, x, v[x], C[x])
        BY <1>7 DEF Sees
      <4> QED BY <1>8, <2>1, <4>1, EndKnows
    <3> QED BY <3>1
  <2>6. Placed(q, "restore", l)
    BY <1>8, <2>1 DEF Placed
  <2>7. l \in Seq(Entry)
    BY <1>8, <2>1, SavedEntries
  <2>8. Sees(q, "restore", l, v, C, X)
    BY <1>7, <2>5, <2>6, <2>7 DEF Sees, Places
  <2> QED BY <1>1, <1>3, <1>4, <1>5, <1>6, <1>12, <2>2, <2>3, <2>4, <2>5, <2>8, ThreadActs
<1>14. CASE y \in Known
  <2>1. PICK w : w = v[y]
    OBVIOUS
  <2>2. w \in Values /\ Accepts(<<y, w>>)
    BY <1>7, <1>14, <2>1 DEF Sees, ValuesAccepted
  <2>3. PICK q2 : q2 = SavedAlso(q, y, w)
    OBVIOUS
  <2>4. stack' = [stack EXCEPT ![t][Len(stack[t])].saved = Append(@, <<y, value[y]>>)]
    BY <1>2, <1>10, <1>11, <1>14 DEF ReadOld
  <2>5. stack' = At(stack, t, q2)
    BY <1>1, <1>3, <2>1, <2>3, <2>4 DEF SavedAlso, At
  <2>6. at' = At(at, t, "assign") /\ todo' = At(todo, t, d)
    BY <1>2, <1>10, <1>11, <1>14, Keeps DEF ReadOld, At
  <2>7. crossed' = IF OpenElsewhere(t, y) THEN crossed \cup {y} ELSE crossed
    BY <1>2, <1>10, <1>11, <1>14 DEF ReadOld
  <2>8. crossed \subseteq crossed'
    BY <2>7
  <2>9. PICK X2 : X2 = Known \ crossed'
    OBVIOUS
  <2>10. X2 \subseteq X
    BY <1>5, <2>8, <2>9
  <2>11. ASSUME y \in X2
         PROVE  y \notin SavedBy(q[Len(q)]) /\ \A u \in Threads \ {t} : ~SavesIn(stack[u], y)
    <3>1. ~OpenElsewhere(t, y)
      BY <2>7, <2>9, <2>11
    <3> QED BY <1>1, <3>1 DEF OpenElsewhere, Top, Last, SavesIn
  <2>12. ASSUME y \in X2, ~SavesIn(q, y) PROVE v[y] = C[y]
    <3>1. \A u \in Threads : ~SavesIn(stack[u], y)
      BY <1>1, <2>11, <2>12
    <3>2. value[y] = Configured(y)
      BY <1>5, <1>6, <2>10, <2>12, <3>1, AloneConfigured
    <3> QED BY <1>3, <1>4, <1>14, <3>2 DEF ConfiguredAll
  <2>13. ASSUME NEW x \in X2
         PROVE  /\ Knows(q2, "assign", d, x, v[x], C[x])
                /\ x # y => (SavesIn(q2, x) <=> SavesIn(q, x))
                /\ x = y => SavesIn(q2, x)
    <3>1. Knows(q, "read", d, x, v[x], C[x])
      BY <1>7, <2>10 DEF Sees
    <3>2. x = y => w = v[x] /\ x \notin SavedBy(q[Len(q)]) /\ (SavesIn(q, x) \/ v[x] = C[x])
      BY <2>1, <2>11, <2>12
    <3> QED BY <1>6, <1>8, <1>11, <1>14, <2>2, <2>3, <3>1, <3>2, SaveKnows
  <2>14. q2 \in Seq(Blocks)
    BY <1>8, <1>14, <2>2, <2>3, SaveShape
  <2>15. Placed(q2, "assign", d)
    BY <1>6, <1>8, <1>11, <1>14, <2>2, <2>3, SavePlaced
  <2>16. Sees(q2, "assign", d, v, C, X2)
    BY <1>7, <2>13, <2>14, <2>15 DEF Sees, Places
  <2>17. \A x \in X2 :
           \/ Steps(q, q2, x, v[x], v[x], C[x])
           \/ SavesIn(q2, x) /\ v[x] = v[x] /\ \A u \in Threads \ {t} : ~SavesIn(stack[u], x)
    <3>1. ASSUME NEW x \in X2, x # y PROVE Steps(q, q2, x, v[x], v[x], C[x])
      BY <2>13, <3>1 DEF Steps
    <3>2. ASSUME y \in X2 PROVE SavesIn(q2, y) /\ \A u \in Threads \ {t} : ~SavesIn(stack[u], y)
      BY <2>11, <2>13, <3>2
    <3> QED BY <3>1, <3>2
  <2> QED BY <1>1, <1>3, <1>4, <1>6, <1>12, <2>5, <2>6, <2>8, <2>9, <2>16, <2>17, ThreadActs
<1> QED BY <1>13, <1>14

(* An entry is assigned, or refused and the block ends. *)
LEMMA AssignKeeps ==
  ASSUME RestoreInv, NEW t \in Threads, Assign(t) PROVE RestoreInv'
<1>1. PICK q : q = stack[t]
  OBVIOUS
<1>2. PICK d : d = todo[t]
  OBVIOUS
<1>3. PICK v : v = value
  OBVIOUS
<1>4. PICK C : C = ConfiguredAll
  OBVIOUS
<1>5. PICK X : X = Known \ crossed
  OBVIOUS
<1>6. at[t] = "assign"
  BY DEF Assign
<1>7. Sees(q, "assign", d, v, C, X)
  BY <1>1, <1>2, <1>3, <1>4, <1>5, <1>6, ThreadSees
<1>8. /\ q \in Seq(Blocks) /\ q # <<>> /\ q[Len(q)].kind = "lines"
      /\ d \in Seq(Entry) /\ d # <<>> /\ Placed(q, "assign", d)
      /\ ValuesAccepted(v) /\ v \in [Known -> Values]
  BY <1>7 DEF Sees, Placed, ValuesAccepted
<1>9. PICK e \in Entry : e = d[1] /\ e = Head(d)
  BY <1>8, FirstEntry
<1>10. PICK v2 : v2 = Loaded(v, e)
  OBVIOUS
<1>11. value' = v2
  BY <1>2, <1>3, <1>9, <1>10 DEF Assign
<1>12. env' = env /\ confFile' = confFile /\ crossed' = crossed /\ stack' = At(stack, t, q)
  BY <1>1, Keeps DEF Assign, confVars
<1>13. ValuesAccepted(v2)
  BY <1>8, <1>10, LoadedAccepted
<1>14. CASE fatal /\ ~Accepts(e)
  <2>1. v2 = v
    BY <1>10, <1>14 DEF Loaded
  <2>2. PICK l \in Seq(Entry) : l = q[Len(q)].saved /\ l # <<>>
    BY <1>8, SavedEntries DEF Placed
  <2>3. PICK f \in Seq(Entry) : f = Front(l)
    BY <2>2, FrontEntries
  <2>4. Restores(t, Front(Top(t).saved))
    BY <1>2, <1>9, <1>14 DEF Assign
  <2>5. at' = At(at, t, "restore") /\ todo' = At(todo, t, f)
    BY <1>1, <2>2, <2>3, <2>4 DEF Restores, Top, Last, At
  <2>6. \A x \in X : Knows(q, "restore", f, x, v[x], C[x]) /\ Steps(q, q, x, v[x], v[x], C[x])
    <3>1. ASSUME NEW x \in X
          PROVE  Knows(q, "restore", f, x, v[x], C[x]) /\ Steps(q, q, x, v[x], v[x], C[x])
      <4>1. Knows(q, "assign", d, x, v[x], C[x])
        BY <1>7 DEF Sees
      <4> QED BY <1>8, <2>2, <2>3, <4>1, RefusedKnows
    <3> QED BY <3>1
  <2>7. Placed(q, "restore", f)
    <3>1. \A k \in 1..Len(f) : k \in 1..Len(l) /\ f[k] = l[k]
      BY <2>2, <2>3, FrontPlaces
    <3> QED BY <1>8, <2>2, <3>1 DEF Placed
  <2>8. Sees(q, "restore", f, v, C, X)
    BY <1>7, <2>6, <2>7 DEF Sees, Places
  <2> QED BY <1>1, <1>3, <1>4, <1>5, <1>6, <1>11, <1>12, <2>1, <2>5, <2>6, <2>8, ThreadActs
<1>15. CASE ~(fatal /\ ~Accepts(e))
  <2>1. PICK r : r = Tail(d)
    OBVIOUS
  <2>2. r \in Seq(Entry)
    BY <1>8, <2>1, FirstEntry
  <2>3. at' = At(at, t, "read") /\ todo' = At(todo, t, r)
    BY <1>2, <1>9, <1>15, <2>1 DEF Assign, At
  <2>4. \A x \in X : v2[x] = v[x] \/ SavesIn(q, x)
    <3>1. \A x \in X : v2[x] = IF Sets(e, x) THEN e[2] ELSE v[x]
      BY <1>5, <1>8, <1>10, LoadedSets
    <3>2. SavesIn(q, e[1])
      BY <1>8, <1>9, AssignsSaved
    <3> QED BY <3>1, <3>2 DEF Sets
  <2>5. \A x \in X : Knows(q, "read", r, x, v2[x], C[x]) /\ Steps(q, q, x, v[x], v2[x], C[x])
    <3>1. ASSUME NEW x \in X
          PROVE  Knows(q, "read", r, x, v2[x], C[x]) /\ Steps(q, q, x, v[x], v2[x], C[x])
      <4>1. Knows(q, "assign", d, x, v[x], C[x]) /\ (v2[x] = v[x] \/ SavesIn(q, x))
        BY <1>7, <2>4 DEF Sees
      <4> QED BY <4>1, MoveKnows
    <3> QED BY <3>1
  <2>6. Placed(q, "read", r)
    BY <1>8 DEF Placed
  <2>7. Sees(q, "read", r, v2, C, X)
    BY <1>8, <1>13, <2>2, <2>5, <2>6 DEF Sees, Places
  <2> QED BY <1>1, <1>3, <1>4, <1>5, <1>6, <1>11, <1>12, <2>3, <2>5, <2>7, ThreadActs
<1> QED BY <1>14, <1>15

(* The body of a block of lines begins. *)
LEMMA EnterBodyKeeps ==
  ASSUME RestoreInv, NEW t \in Threads, EnterBody(t) PROVE RestoreInv'
<1>1. PICK q : q = stack[t]
  OBVIOUS
<1>2. PICK d : d = todo[t]
  OBVIOUS
<1>3. PICK v : v = value
  OBVIOUS
<1>4. PICK C : C = ConfiguredAll
  OBVIOUS
<1>5. PICK X : X = Known \ crossed
  OBVIOUS
<1>6. at[t] = "read"
  BY DEF EnterBody
<1>7. Sees(q, "read", d, v, C, X)
  BY <1>1, <1>2, <1>3, <1>4, <1>5, <1>6, ThreadSees
<1>8. \A x \in X : Knows(q, "body", d, x, v[x], C[x]) /\ Steps(q, q, x, v[x], v[x], C[x])
  <2>1. ASSUME NEW x \in X
        PROVE  Knows(q, "body", d, x, v[x], C[x]) /\ Steps(q, q, x, v[x], v[x], C[x])
    <3>1. Knows(q, "read", d, x, v[x], C[x])
      BY <1>7 DEF Sees
    <3> QED BY <3>1, MoveKnows
  <2> QED BY <2>1
<1>9. Sees(q, "body", d, v, C, X)
  BY <1>7, <1>8 DEF Sees, Placed, Places
<1>10. at' = At(at, t, "body")
  BY DEF EnterBody, At
<1>11. stack' = At(stack, t, q) /\ todo' = At(todo, t, d)
  BY <1>1, <1>2, Keeps DEF EnterBody
<1>12. value' = v /\ crossed' = crossed /\ env' = env /\ confFile' = confFile
  BY <1>3 DEF EnterBody, confVars
<1> QED BY <1>1, <1>3, <1>4, <1>5, <1>6, <1>8, <1>9, <1>10, <1>11, <1>12, ThreadActs

(* One saved value is restored. *)
LEMMA RestoreOneKeeps ==
  ASSUME RestoreInv, NEW t \in Threads, RestoreOne(t) PROVE RestoreInv'
<1>1. PICK q : q = stack[t]
  OBVIOUS
<1>2. PICK d : d = todo[t]
  OBVIOUS
<1>3. PICK v : v = value
  OBVIOUS
<1>4. PICK C : C = ConfiguredAll
  OBVIOUS
<1>5. PICK X : X = Known \ crossed
  OBVIOUS
<1>6. at[t] = "restore" /\ d # <<>>
  BY <1>2 DEF RestoreOne
<1>7. Sees(q, "restore", d, v, C, X)
  BY <1>1, <1>2, <1>3, <1>4, <1>5, <1>6, ThreadSees
<1>8. /\ q \in Seq(Blocks) /\ d \in Seq(Entry) /\ Placed(q, "restore", d)
      /\ ValuesAccepted(v) /\ v \in [Known -> Values]
  BY <1>7 DEF Sees, ValuesAccepted
<1>9. PICK e \in Entry : e = Head(d)
  BY <1>6, <1>8, FirstEntry
<1>10. PICK v2 : v2 = Loaded(v, e)
  OBVIOUS
<1>11. ValuesAccepted(v2)
  BY <1>8, <1>10, LoadedAccepted
<1>12. PICK r : r = Tail(d)
  OBVIOUS
<1>13. r \in Seq(Entry)
  BY <1>6, <1>8, <1>12, FirstEntry
<1>14. ASSUME NEW x \in X
       PROVE  Knows(q, "restore", r, x, v2[x], C[x]) /\ Steps(q, q, x, v[x], v2[x], C[x])
  <2>1. x \in Known
    BY <1>5
  <2>2. v2[x] = IF Sets(Head(d), x) THEN Head(d)[2] ELSE v[x]
    BY <1>8, <1>9, <1>10, <2>1, LoadedSets
  <2>3. Knows(q, "restore", d, x, v[x], C[x])
    BY <1>7 DEF Sees
  <2> QED BY <1>6, <1>8, <1>12, <2>1, <2>2, <2>3, RestoreKnows
<1>15. Placed(q, "restore", r)
  <2>1. PICK m \in Nat : m = Len(d) /\ m # 0
    <3>1. PICK E : E = Entry
      OBVIOUS
    <3>2. d \in Seq(E) /\ d # <<>>
      BY <1>6, <1>8, <3>1
    <3> QED BY <3>2
  <2>2. Len(r) = m - 1 /\ \A k \in 1..(m - 1) : r[k] = d[k + 1] /\ k + 1 \in 1..m
    <3>1. PICK E : E = Entry
      OBVIOUS
    <3>2. d \in Seq(E) /\ d # <<>>
      BY <1>6, <1>8, <3>1
    <3> QED BY <1>12, <2>1, <3>2
  <2>3. ASSUME NEW k \in 1..Len(r) PROVE \E j \in 1..Len(q[Len(q)].saved) : r[k] = q[Len(q)].saved[j]
    <3>1. PICK h \in 1..m : r[k] = d[h]
      BY <2>2
    <3> QED BY <1>8, <2>1, <3>1 DEF Placed
  <2> QED BY <1>8, <2>3 DEF Placed
<1>16. Sees(q, "restore", r, v2, C, X)
  BY <1>8, <1>11, <1>13, <1>14, <1>15 DEF Sees, Places
<1>17. value' = v2 /\ todo' = At(todo, t, r)
  BY <1>2, <1>3, <1>9, <1>10, <1>12 DEF RestoreOne, At
<1>18. stack' = At(stack, t, q) /\ at' = At(at, t, "restore")
  BY <1>1, <1>6, Keeps DEF RestoreOne
<1>19. crossed' = crossed /\ env' = env /\ confFile' = confFile
  BY DEF RestoreOne, confVars
<1> QED BY <1>1, <1>3, <1>4, <1>5, <1>6, <1>14, <1>16, <1>17, <1>18, <1>19, ThreadActs

(* All is restored and the block is gone. *)
LEMMA RestoredKeeps ==
  ASSUME RestoreInv, NEW t \in Threads, Restored(t) PROVE RestoreInv'
<1>1. PICK q : q = stack[t]
  OBVIOUS
<1>2. PICK v : v = value
  OBVIOUS
<1>3. PICK C : C = ConfiguredAll
  OBVIOUS
<1>4. PICK X : X = Known \ crossed
  OBVIOUS
<1>5. at[t] = "restore" /\ todo[t] = <<>>
  BY DEF Restored
<1>6. Sees(q, "restore", <<>>, v, C, X)
  BY <1>1, <1>2, <1>3, <1>4, <1>5, ThreadSees
<1>7. q \in Seq(Blocks) /\ q # <<>> /\ Placed(q, "restore", <<>>)
  BY <1>6 DEF Sees, Placed
<1>8. PICK f : f = Front(q)
  OBVIOUS
<1>9. f \in Seq(Blocks)
  <2>1. PICK B : B = Blocks
    OBVIOUS
  <2>2. q \in Seq(B) /\ q # <<>>
    BY <1>7, <2>1
  <2>3. SubSeq(q, 1, Len(q) - 1) \in Seq(B)
    BY <2>2
  <2> QED BY <1>8, <2>1, <2>3 DEF Front
<1>10. \A x \in X : Knows(f, "body", <<>>, x, v[x], C[x]) /\ Steps(q, f, x, v[x], v[x], C[x])
  <2>1. ASSUME NEW x \in X
        PROVE  Knows(f, "body", <<>>, x, v[x], C[x]) /\ Steps(q, f, x, v[x], v[x], C[x])
    <3>1. Knows(q, "restore", <<>>, x, v[x], C[x])
      BY <1>6 DEF Sees
    <3> QED BY <1>7, <1>8, <3>1, PopKnows
  <2> QED BY <2>1
<1>11. Sees(f, "body", <<>>, v, C, X)
  BY <1>6, <1>9, <1>10 DEF Sees, Placed, Places
<1>12. stack' = At(stack, t, f) /\ at' = At(at, t, "body")
  BY <1>1, <1>8 DEF Restored, At
<1>13. todo' = At(todo, t, <<>>)
  BY <1>5, Keeps DEF Restored
<1>14. value' = v /\ crossed' = crossed /\ env' = env /\ confFile' = confFile
  BY <1>2 DEF Restored, confVars
<1> QED BY <1>1, <1>2, <1>3, <1>4, <1>5, <1>10, <1>11, <1>12, <1>13, <1>14, ThreadActs

(* The package is imported: no block is open yet. *)
LEMMA AutoloadKeeps ==
  ASSUME SettingsAssumption, RestoreInv, Autoload PROVE RestoreInv'
<1>1. PICK S \in [Threads -> Seq(Blocks)] : S = stack
  BY DEF RestoreInv, SettingsTypes
<1>2. PICK D \in [Threads -> Seq(Entry)] : D = todo
  BY DEF RestoreInv, SettingsTypes
<1>3. value = Defaults /\ \A t \in Threads : S[t] = <<>>
  <2>1. PICK t \in Threads : at[t] = "start"
    BY DEF SettingsAssumption, Autoload
  <2> QED BY <1>1, <2>1 DEF RestoreInv, Begun, Started
<1>4. PICK v : v = FoldLeft(Loaded, Defaults, AllLines)
  OBVIOUS
<1>5. value' = v
  BY <1>3, <1>4 DEF Autoload
<1>6. PICK C : C = ConfiguredAll
  OBVIOUS
<1>7. ValuesAccepted(v) /\ \A x \in Known : v[x] = C[x]
  BY <1>4, <1>6, AutoloadConfigures DEF RestoreInv, SettingsTypes, AsConfigured, ConfiguredAll
<1>8. PICK A : A = [t \in Threads |-> "body"]
  OBVIOUS
<1>9. /\ stack' = S /\ at' = A /\ todo' = D /\ crossed' = crossed
      /\ env' = env /\ confFile' = confFile
  BY <1>1, <1>2, <1>8 DEF Autoload, confVars
<1>10. \A x \in Known : Guarded(S, A, D, x, v[x], C[x])
  <2>1. ASSUME NEW x \in Known, NEW t \in Threads
        PROVE  Knows(S[t], A[t], D[t], x, v[x], C[x]) /\ ~SavesIn(S[t], x)
    <3>1. S[t] = <<>> /\ Len(S[t]) = 0 /\ A[t] = "body"
      BY <1>3, <1>8
    <3>2. \A i \in 1..Len(S[t]) : FALSE
      BY <3>1
    <3> QED BY <3>1, <3>2 DEF Knows, FirstHolds, Restoring, Assigning, SavesIn
  <2> QED BY <1>7, <2>1 DEF Guarded
<1>11. \A x \in Known : Configured(x)' = C[x]
  BY <1>6, <1>9 DEF Configured, ConfiguredAll
<1>12. Overrides'
  BY <1>5, <1>9, <1>10, <1>11 DEF Overrides
<1>13. A \in [Threads -> Places] /\ \A t \in Threads : A[t] = "body"
  BY <1>8 DEF Places
<1>14. Positions' /\ Started'
  BY <1>9, <1>13 DEF Positions, Started, Placed
<1>15. SettingsTypes'
  BY <1>1, <1>2, <1>5, <1>7, <1>9, <1>13 DEF RestoreInv, SettingsTypes
<1> QED BY <1>12, <1>14, <1>15 DEF RestoreInv, Begun

(* Before autoload every setting has its default. *)
LEMMA RestoreInit == SettingsAssumption /\ SettingsInit => RestoreInv
<1> SUFFICES ASSUME SettingsAssumption, SettingsInit PROVE RestoreInv
  OBVIOUS
<1>1. value = Defaults /\ ValuesAccepted(Defaults)
  BY DEF SettingsInit, Defaults, ValuesAccepted, Values, Accepts
<1>2. stack \in [Threads -> Seq(Blocks)] /\ todo \in [Threads -> Seq(Entry)]
  <2>1. <<>> \in Seq(Blocks) /\ <<>> \in Seq(Entry)
    OBVIOUS
  <2> QED BY <2>1 DEF SettingsInit
<1>3. SettingsTypes
  BY <1>1, <1>2 DEF SettingsTypes, SettingsInit, SettingsAssumption, Places
<1>4. \A t \in Threads : at[t] = "start" /\ stack[t] = <<>>
  BY DEF SettingsInit
<1>5. Positions
  BY <1>4 DEF Positions, Placed
<1>6. Begun
  BY <1>1, <1>4 DEF Begun
<1>7. Overrides
  BY <1>4 DEF Overrides, Started, SettingsAssumption
<1> QED BY <1>3, <1>5, <1>6, <1>7 DEF RestoreInv

(* Every step of every thread keeps the invariant. *)
LEMMA RestoreNext ==
  SettingsAssumption /\ RestoreInv /\ [SettingsNext]_settingsVars => RestoreInv'
<1> SUFFICES ASSUME SettingsAssumption, RestoreInv, [SettingsNext]_settingsVars PROVE RestoreInv'
  OBVIOUS
<1>1. CASE Autoload
  BY <1>1, AutoloadKeeps
<1>2. ASSUME NEW t \in Threads, EnterLines(t) PROVE RestoreInv'
  BY <1>2, EnterLinesKeeps
<1>3. ASSUME NEW t \in Threads, ReadOld(t) PROVE RestoreInv'
  BY <1>3, ReadOldKeeps
<1>4. ASSUME NEW t \in Threads, Assign(t) PROVE RestoreInv'
  BY <1>4, AssignKeeps
<1>5. ASSUME NEW t \in Threads, EnterBody(t) PROVE RestoreInv'
  BY <1>5, EnterBodyKeeps
<1>6. ASSUME NEW t \in Threads, ExitLines(t) PROVE RestoreInv'
  BY <1>6, ExitLinesKeeps
<1>7. ASSUME NEW t \in Threads, RestoreOne(t) PROVE RestoreInv'
  BY <1>7, RestoreOneKeeps
<1>8. ASSUME NEW t \in Threads, Restored(t) PROVE RestoreInv'
  BY <1>8, RestoredKeeps
<1>9. ASSUME NEW t \in Threads, EnterXml(t) PROVE RestoreInv'
  BY <1>9, EnterXmlKeeps
<1>10. ASSUME NEW t \in Threads, ExitXml(t) PROVE RestoreInv'
  BY <1>10, ExitXmlKeeps
<1>11. ASSUME NEW t \in Threads, XmlRefused(t) PROVE RestoreInv'
  BY <1>11, XmlRefusedKeeps
<1>12. CASE UNCHANGED settingsVars
  <2>1. UNCHANGED <<env, confFile, value, stack, at, todo, crossed>>
    BY <1>12 DEF settingsVars, confVars
  <2>2. SettingsTypes' /\ Positions' /\ Begun'
    BY <2>1 DEF RestoreInv, SettingsTypes, Positions, Begun, Started
  <2>3. \A x \in Known : Configured(x)' = Configured(x)
    BY <2>1 DEF Configured
  <2>4. Overrides'
    BY <2>1, <2>3 DEF RestoreInv, Overrides, Started
  <2> QED BY <2>2, <2>4 DEF RestoreInv
<1> QED BY <1>1, <1>2, <1>3, <1>4, <1>5, <1>6, <1>7, <1>8, <1>9, <1>10, <1>11, <1>12 DEF SettingsNext

(***************************************************************************)
(* When no block has a setting saved it has the value autoload gave it, if *)
(* no two blocks that overlap and no two entries of a block named it.      *)
(***************************************************************************)
THEOREM SettingsRestored == SettingsSpec => []OverridesRestored
<1>1. RestoreInv => OverridesRestored
  <2> SUFFICES ASSUME RestoreInv, NEW x \in Known \ crossed, \A t \in Threads : at[t] # "start",
                      \A t \in Threads : \A i \in 1..Len(stack[t]) : x \notin SavedBy(stack[t][i])
               PROVE  value[x] = Configured(x)
    BY DEF OverridesRestored
  <2>1. PICK S : S = stack
    OBVIOUS
  <2>2. PICK A : A = at
    OBVIOUS
  <2>3. PICK D : D = todo
    OBVIOUS
  <2>4. PICK w : w = value[x]
    OBVIOUS
  <2>5. PICK c : c = Configured(x)
    OBVIOUS
  <2>6. Guarded(S, A, D, x, w, c)
    BY <2>1, <2>2, <2>3, <2>4, <2>5 DEF RestoreInv, Overrides, Started
  <2>7. \A t \in Threads : ~SavesIn(S[t], x)
    BY <2>1 DEF SavesIn
  <2> QED BY <2>4, <2>5, <2>6, <2>7 DEF Guarded
<1> QED BY SettingsAssumption, RestoreInit, RestoreNext, <1>1, PTL DEF SettingsSpec

-----------------------------------------------------------------------------
(***************************************************************************)
(* Settings: the parser of a thread, l, is that of the innermost block of  *)
(* xml_mode on its stack q, unless a block nested in it has ended.         *)
(***************************************************************************)
Frames(q, l) ==
  \A i \in 1..Len(q) :
    /\ q[i].kind = "xml" /\ ~q[i].inner
    /\ \A j \in (i + 1)..Len(q) : q[j].kind = "lines"
    => l = q[i].parser

(* A block is opened: one of lines, or one of xml_mode with its parser. *)
LEMMA PushFrames ==
  ASSUME NEW q \in Seq(Blocks), NEW b \in Blocks, NEW l, NEW l2, Frames(q, l),
         (b.kind = "lines" /\ l2 = l) \/ (b.kind = "xml" /\ l2 = b.parser)
  PROVE  Frames(Append(q, b), l2)
<1>1. PICK B : B = Blocks
  OBVIOUS
<1>2. q \in Seq(B) /\ b \in B
  BY <1>1
<1>3. PICK n \in Nat : n = Len(q)
  BY <1>2
<1>4. PICK q2 : q2 = Append(q, b)
  OBVIOUS
<1>5. PICK m \in Nat : m = n + 1
  OBVIOUS
<1>6. Len(q2) = m /\ q2[m] = b /\ \A i \in 1..n : q2[i] = q[i]
  BY <1>2, <1>3, <1>4, <1>5
<1>7. ASSUME NEW i \in 1..m, q2[i].kind = "xml", ~q2[i].inner,
             \A j \in (i + 1)..m : q2[j].kind = "lines"
      PROVE  l2 = q2[i].parser
  <2>1. CASE i = m
    BY <1>6, <1>7, <2>1
  <2>2. CASE i # m
    <3>1. i \in 1..n /\ m \in (i + 1)..m
      BY <1>5, <2>2
    <3>2. b.kind = "lines" /\ l2 = l
      BY <1>6, <1>7, <3>1
    <3>3. \A j \in (i + 1)..n : j \in (i + 1)..m /\ j \in 1..n
      BY <1>5
    <3>4. \A j \in (i + 1)..n : q[j].kind = "lines"
      BY <1>6, <1>7, <3>3
    <3>5. q2[i] = q[i]
      BY <1>6, <3>1
    <3> QED BY <1>3, <1>7, <3>1, <3>2, <3>4, <3>5 DEF Frames
  <2> QED BY <2>1, <2>2
<1> QED BY <1>4, <1>6, <1>7 DEF Frames

(* A value is saved in the innermost block, one of lines. *)
LEMMA SaveFrames ==
  ASSUME NEW q \in Seq(Blocks), q # <<>>, q[Len(q)].kind = "lines", NEW l, Frames(q, l),
         NEW y \in Known, NEW w \in Values, Accepts(<<y, w>>)
  PROVE  Frames(SavedAlso(q, y, w), l)
<1>1. PICK q2 : q2 = SavedAlso(q, y, w)
  OBVIOUS
<1>2. PICK n \in Nat : n = Len(q)
  <2>1. PICK B : B = Blocks
    OBVIOUS
  <2>2. q \in Seq(B)
    BY <2>1
  <2> QED BY <2>2
<1>3. Len(q2) = n /\ \A i \in 1..n : i # n => q2[i] = q[i]
  BY <1>1, <1>2, SaveShape
<1>4. q2[n].kind = "lines"
  <2>1. q2[n] \in LinesBlocks
    BY <1>1, <1>2, SaveShape
  <2> QED BY <2>1 DEF LinesBlocks
<1>5. ASSUME NEW i \in 1..n, q2[i].kind = "xml", ~q2[i].inner,
             \A j \in (i + 1)..n : q2[j].kind = "lines"
      PROVE  l = q2[i].parser
  <2>1. i # n
    BY <1>4, <1>5
  <2>2. q2[i] = q[i]
    BY <1>3, <2>1
  <2>3. \A j \in (i + 1)..n : q[j].kind = "lines"
    <3>1. \A j \in (i + 1)..n : j \in 1..n
      OBVIOUS
    <3> QED BY <1>2, <1>3, <1>5, <3>1
  <2> QED BY <1>2, <1>5, <2>2, <2>3 DEF Frames
<1> QED BY <1>1, <1>3, <1>5 DEF Frames

(* A block of lines is closed. *)
LEMMA PopFrames ==
  ASSUME NEW q \in Seq(Blocks), q # <<>>, q[Len(q)].kind = "lines", NEW l, Frames(q, l)
  PROVE  Frames(Front(q), l)
<1>1. PICK B : B = Blocks
  OBVIOUS
<1>2. q \in Seq(B) /\ q # <<>>
  BY <1>1
<1>3. PICK n \in Nat : n = Len(q) /\ n # 0
  BY <1>2
<1>4. PICK m \in Nat : m = n - 1
  BY <1>3
<1>5. PICK f : f = Front(q)
  OBVIOUS
<1>6. Len(f) = m /\ \A k \in 1..m : f[k] = q[k]
  <2>1. f = SubSeq(q, 1, m)
    BY <1>3, <1>4, <1>5 DEF Front
  <2>2. Len(f) = m /\ \A k \in 1..m : f[k] = q[1 + k - 1]
    BY <1>2, <1>3, <1>4, <2>1
  <2>3. \A k \in 1..m : 1 + k - 1 = k
    OBVIOUS
  <2> QED BY <2>2, <2>3
<1>7. ASSUME NEW i \in 1..m, f[i].kind = "xml", ~f[i].inner,
             \A j \in (i + 1)..m : f[j].kind = "lines"
      PROVE  l = f[i].parser
  <2>1. i \in 1..n /\ f[i] = q[i]
    BY <1>4, <1>6
  <2>2. \A j \in (i + 1)..n : j = n \/ (j \in (i + 1)..m /\ j \in 1..m)
    BY <1>4
  <2>3. \A j \in (i + 1)..n : q[j].kind = "lines"
    BY <1>3, <1>6, <1>7, <2>2
  <2> QED BY <1>3, <1>7, <2>1, <2>3 DEF Frames
<1> QED BY <1>5, <1>6, <1>7 DEF Frames

(* A block of xml_mode is closed: those around it are marked. *)
LEMMA EndFrames ==
  ASSUME NEW q \in Seq(Blocks), q # <<>>, NEW l
  PROVE  Frames(EndedXml(q), l)
<1>1. PICK q2 : q2 = EndedXml(q)
  OBVIOUS
<1>2. PICK n \in Int : n = Len(q2) /\ n = Len(q) - 1
  <2>1. PICK B : B = Blocks
    OBVIOUS
  <2>2. q \in Seq(B)
    BY <2>1
  <2>3. Len(q) \in Nat
    BY <2>2
  <2>4. Len(q2) = Len(q) - 1
    BY <1>1, EndXmlShape
  <2> QED BY <2>3, <2>4
<1>3. \A i \in 1..n : q2[i].kind = "xml" => q2[i].inner = TRUE
  <2>1. ASSUME NEW i \in 1..n, q2[i].kind = "xml" PROVE q2[i].inner = TRUE
    <3>1. \/ q[i].kind = "lines" /\ q2[i] = q[i]
          \/ q2[i].inner = TRUE
      BY <1>1, <1>2, EndXmlShape
    <3> QED BY <2>1, <3>1
  <2> QED BY <2>1
<1>4. ASSUME NEW i \in 1..n, q2[i].kind = "xml", ~q2[i].inner PROVE FALSE
  BY <1>3, <1>4
<1> QED BY <1>1, <1>2, <1>4 DEF Frames

XmlInv ==
  /\ RestoreInv /\ local \in [Threads -> {"unset"} \cup Values]
  /\ \A t \in Threads : Frames(stack[t], local[t])

(* A step of the thread t that leaves its own parser as it should be. *)
LEMMA XmlActs ==
  ASSUME XmlInv, RestoreInv', NEW t \in Threads, NEW q2, NEW l2 \in {"unset"} \cup Values,
         stack' = At(stack, t, q2), local' = At(local, t, l2), Frames(q2, l2)
  PROVE  XmlInv'
<1>1. PICK S \in [Threads -> Seq(Blocks)] : S = stack
  BY DEF XmlInv, RestoreInv, SettingsTypes
<1>2. PICK L \in [Threads -> {"unset"} \cup Values] : L = local
  BY DEF XmlInv
<1>3. PICK S2 : S2 = At(S, t, q2)
  OBVIOUS
<1>4. PICK L2 : L2 = At(L, t, l2)
  OBVIOUS
<1>5. \A u \in Threads : Frames(S[u], L[u])
  BY <1>1, <1>2 DEF XmlInv
<1>6. \A u \in Threads : Frames(S2[u], L2[u])
  BY <1>3, <1>4, <1>5 DEF At
<1>7. L2 \in [Threads -> {"unset"} \cup Values]
  BY <1>4 DEF At
<1>8. stack' = S2 /\ local' = L2
  BY <1>1, <1>2, <1>3, <1>4
<1> QED BY <1>6, <1>7, <1>8 DEF XmlInv

(* Every step keeps the parser of each thread as its stack says. *)
LEMMA XmlNext ==
  SettingsAssumption /\ XmlInv /\ [SettingsNext]_settingsVars => XmlInv'
<1> SUFFICES ASSUME SettingsAssumption, XmlInv, [SettingsNext]_settingsVars PROVE XmlInv'
  OBVIOUS
<1>1. RestoreInv /\ RestoreInv'
  BY RestoreNext DEF XmlInv
<1>2. CASE UNCHANGED <<stack, local>>
  BY <1>1, <1>2 DEF XmlInv
<1>3. ASSUME NEW t \in Threads
      PROVE  /\ stack[t] \in Seq(Blocks) /\ Frames(stack[t], local[t])
             /\ local = At(local, t, local[t]) /\ local[t] \in {"unset"} \cup Values
             /\ Placed(stack[t], at[t], todo[t])
  <2>1. stack[t] \in Seq(Blocks) /\ Placed(stack[t], at[t], todo[t])
    BY <1>1 DEF RestoreInv, SettingsTypes, Positions
  <2>2. PICK L \in [Threads -> {"unset"} \cup Values] : L = local
    BY DEF XmlInv
  <2>3. L = At(L, t, L[t])
    BY AtSame
  <2> QED BY <2>1, <2>2, <2>3 DEF XmlInv
<1>4. ASSUME NEW t \in Threads, EnterLines(t) PROVE XmlInv'
  <2>1. PICK q : q = stack[t]
    OBVIOUS
  <2>2. PICK l : l = local[t]
    OBVIOUS
  <2>3. PICK b \in Blocks : b = LinesBlock /\ b.kind = "lines"
    <3>1. <<>> \in Seq(Kept)
      OBVIOUS
    <3>2. LinesBlock \in LinesBlocks /\ LinesBlock.kind = "lines"
      BY <3>1 DEF LinesBlock, LinesBlocks
    <3> QED BY <3>2 DEF Blocks
  <2>4. Frames(Append(q, b), l)
    BY <1>3, <2>1, <2>2, <2>3, PushFrames
  <2>5. stack' = At(stack, t, Append(q, b)) /\ local' = local
    BY <1>4, <2>1, <2>3 DEF EnterLines, Push, At
  <2>6. local' = At(local, t, l) /\ l \in {"unset"} \cup Values
    BY <1>3, <2>2, <2>5
  <2> QED BY <1>1, <2>4, <2>5, <2>6, XmlActs
<1>5. ASSUME NEW t \in Threads, ReadOld(t) PROVE XmlInv'
  <2>1. PICK q : q = stack[t]
    OBVIOUS
  <2>2. PICK l : l = local[t]
    OBVIOUS
  <2>3. PICK y : y = Head(todo[t])[1]
    OBVIOUS
  <2>4. CASE y \notin Known
    <3>1. stack' = stack /\ local' = local
      BY <1>5, <2>3, <2>4 DEF ReadOld
    <3> QED BY <1>2, <3>1
  <2>5. CASE y \in Known
    <3>1. PICK w : w = value[y]
      OBVIOUS
    <3>2. w \in Values /\ Accepts(<<y, w>>)
      BY <1>1, <2>5, <3>1 DEF RestoreInv, SettingsTypes, ValuesAccepted
    <3>3. q \in Seq(Blocks) /\ q # <<>> /\ q[Len(q)].kind = "lines" /\ Frames(q, l)
      BY <1>3, <1>5, <2>1, <2>2 DEF ReadOld, Placed
    <3>4. Frames(SavedAlso(q, y, w), l)
      BY <2>5, <3>2, <3>3, SaveFrames
    <3>5. stack' = [stack EXCEPT ![t][Len(stack[t])].saved = Append(@, <<y, value[y]>>)]
      BY <1>5, <2>3, <2>5 DEF ReadOld
    <3>6. stack' = At(stack, t, SavedAlso(q, y, w))
      BY <2>1, <3>1, <3>5 DEF SavedAlso, At
    <3>7. local' = At(local, t, l) /\ l \in {"unset"} \cup Values
      BY <1>3, <1>5, <2>2 DEF ReadOld
    <3> QED BY <1>1, <3>4, <3>6, <3>7, XmlActs
  <2> QED BY <2>4, <2>5
<1>6. ASSUME NEW t \in Threads, Restored(t) PROVE XmlInv'
  <2>1. PICK q : q = stack[t]
    OBVIOUS
  <2>2. PICK l : l = local[t]
    OBVIOUS
  <2>3. q \in Seq(Blocks) /\ q # <<>> /\ q[Len(q)].kind = "lines" /\ Frames(q, l)
    BY <1>3, <1>6, <2>1, <2>2 DEF Restored, Placed
  <2>4. Frames(Front(q), l)
    BY <2>3, PopFrames
  <2>5. stack' = At(stack, t, Front(q))
    BY <1>6, <2>1 DEF Restored, At
  <2>6. local' = At(local, t, l) /\ l \in {"unset"} \cup Values
    BY <1>3, <1>6, <2>2 DEF Restored
  <2> QED BY <1>1, <2>4, <2>5, <2>6, XmlActs
<1>7. ASSUME NEW t \in Threads, EnterXml(t) PROVE XmlInv'
  <2>1. PICK q : q = stack[t]
    OBVIOUS
  <2>2. PICK l : l = local[t]
    OBVIOUS
  <2>3. PICK p \in {"A", "B"} : SetLocal(t, p) /\ Push(t, XmlBlock(p))
    BY <1>7 DEF EnterXml
  <2>4. PICK b \in Blocks : b = XmlBlock(p) /\ b.kind = "xml" /\ b.parser = p
    <3>1. XmlBlock(p) \in XmlBlocks /\ XmlBlock(p).kind = "xml" /\ XmlBlock(p).parser = p
      BY DEF XmlBlock, XmlBlocks
    <3> QED BY <3>1 DEF Blocks
  <2>5. Frames(Append(q, b), p)
    BY <1>3, <2>1, <2>2, <2>4, PushFrames
  <2>6. stack' = At(stack, t, Append(q, b)) /\ local' = At(local, t, p)
    BY <2>1, <2>3, <2>4 DEF Push, SetLocal, At
  <2>7. p \in {"unset"} \cup Values
    BY DEF Values
  <2> QED BY <1>1, <2>5, <2>6, <2>7, XmlActs
<1>8. ASSUME NEW t \in Threads, ExitXml(t) PROVE XmlInv'
  <2>1. PICK q : q = stack[t]
    OBVIOUS
  <2>2. PICK p : p = value["parser"]
    OBVIOUS
  <2>3. p \in {"unset"} \cup Values
    BY <1>1, <2>2 DEF RestoreInv, SettingsTypes, ValuesAccepted, Known
  <2>4. Frames(EndedXml(q), p)
    BY <1>3, <1>8, <2>1, EndFrames DEF ExitXml
  <2>5. stack' = At(stack, t, EndedXml(q)) /\ local' = At(local, t, p)
    BY <1>8, <2>1, <2>2 DEF ExitXml, EndedXml, SetLocal, At
  <2> QED BY <1>1, <2>3, <2>4, <2>5, XmlActs
<1>9. CASE Autoload \/ UNCHANGED settingsVars
  BY <1>2, <1>9 DEF Autoload, settingsVars
<1>10. ASSUME NEW t \in Threads,
              Assign(t) \/ EnterBody(t) \/ ExitLines(t) \/ RestoreOne(t)
       PROVE  XmlInv'
  BY <1>2, <1>10 DEF Assign, EnterBody, ExitLines, RestoreOne
<1>11. ASSUME NEW t \in Threads, XmlRefused(t) PROVE XmlInv'
  <2>1. PICK q : q = stack[t]
    OBVIOUS
  <2>2. PICK p : p = value["parser"]
    OBVIOUS
  <2>3. p \in {"unset"} \cup Values
    BY <1>1, <2>2 DEF RestoreInv, SettingsTypes, ValuesAccepted, Known
  <2>4. PICK b \in Blocks : b.kind = "xml"
    BY XmlBlockShape
  <2>5. PICK q1 : q1 = Append(q, b)
    OBVIOUS
  <2>6. q1 \in Seq(Blocks) /\ q1 # <<>>
    <3>1. PICK B : B = Blocks
      OBVIOUS
    <3>2. q \in Seq(B) /\ b \in B
      BY <1>3, <2>1, <3>1
    <3>3. q1 \in Seq(B) /\ q1 # <<>>
      BY <2>5, <3>2
    <3> QED BY <3>1, <3>3
  <2>7. Frames(EndedXml(q1), p)
    BY <2>6, EndFrames
  <2>8. Marked(q, Len(q)) = EndedXml(q1)
    BY <1>3, <2>1, <2>5, RefusedShape
  <2>9. stack' = At(stack, t, EndedXml(q1)) /\ local' = At(local, t, p)
    BY <1>11, <2>1, <2>2, <2>8 DEF XmlRefused, SetLocal, At
  <2> QED BY <1>1, <2>3, <2>7, <2>9, XmlActs
<1> QED BY <1>4, <1>5, <1>6, <1>7, <1>8, <1>9, <1>10, <1>11 DEF SettingsNext

(***************************************************************************)
(* In a block of xml_mode a thread uses the parser the block asked for,    *)
(* whatever other threads do, until it has called xml_mode again inside it *)
(* and that block has ended or the call was refused.                       *)
(***************************************************************************)
THEOREM ParsersKept == SettingsSpec => []ParserKept
<1>1. SettingsAssumption /\ SettingsInit => XmlInv
  <2> SUFFICES ASSUME SettingsAssumption, SettingsInit PROVE XmlInv
    OBVIOUS
  <2>1. \A t \in Threads : Frames(stack[t], local[t])
    <3>1. ASSUME NEW t \in Threads PROVE Frames(stack[t], local[t])
      <4>1. stack[t] = <<>> /\ Len(stack[t]) = 0
        BY DEF SettingsInit
      <4>2. \A i \in 1..Len(stack[t]) : FALSE
        BY <4>1
      <4> QED BY <4>2 DEF Frames
    <3> QED BY <3>1
  <2> QED BY <2>1, RestoreInit DEF XmlInv, SettingsInit
<1>2. XmlInv => ParserKept
  <2> SUFFICES ASSUME XmlInv, NEW t \in Threads, NEW i \in 1..Len(stack[t]),
                      stack[t][i].kind = "xml", ~stack[t][i].inner,
                      \A j \in (i + 1)..Len(stack[t]) : stack[t][j].kind = "lines"
               PROVE  CurrentParser(t) = stack[t][i].parser
    BY DEF ParserKept
  <2>1. PICK q \in Seq(Blocks) : q = stack[t]
    BY DEF XmlInv, RestoreInv, SettingsTypes
  <2>2. PICK l : l = local[t]
    OBVIOUS
  <2>3. l = q[i].parser
    BY <2>1, <2>2 DEF XmlInv, Frames
  <2>4. PICK b \in Blocks : b = q[i]
    <3>1. PICK B : B = Blocks
      OBVIOUS
    <3>2. q \in Seq(B) /\ i \in 1..Len(q)
      BY <2>1, <3>1
    <3>3. q[i] \in B
      BY <3>2
    <3> QED BY <3>1, <3>3
  <2>5. b.parser \in {"A", "B"}
    BY <2>1, <2>4 DEF Blocks, LinesBlocks, XmlBlocks
  <2> QED BY <2>1, <2>2, <2>3, <2>4, <2>5 DEF CurrentParser
<1> QED BY SettingsAssumption, XmlNext, <1>1, <1>2, PTL DEF SettingsSpec
=============================================================================
