----------------------------- MODULE SumTheorems -----------------------------
(***************************************************************************)
(* Sums over finite sets, as the community module Functions defines them:  *)
(* SumFunctionOnSet(f, S), a fold, and SumFunction(f) for S = DOMAIN f.    *)
(* The fold is a function defined on every subset of S and takes the       *)
(* elements of S in the order CHOOSE gives.  The lemmas show that any      *)
(* order gives the same sum.                                               *)
(*                                                                         *)
(* Each is shown by induction over the subsets of a finite set: proper     *)
(* inclusion is well founded there, so if a lemma fails for some subset it *)
(* fails for a smallest one, and holds for those with an element less.     *)
(***************************************************************************)
EXTENDS Functions, FiniteSetTheorems, TLAPS

-----------------------------------------------------------------------------
(* Induction over finite sets                                              *)

\* In a set of finite sets that is not empty, one has no proper subset in the set.
LEMMA SmallestSet ==
    ASSUME NEW B, B # {}, \A s \in B : IsFiniteSet(s)
    PROVE  \E x \in B : \A y \in B : y \subseteq x => y = x
<1>1. PICK U : U = UNION B
  OBVIOUS
<1>2. PICK F : F = FiniteSubsetsOf(U)
  OBVIOUS
<1>3. B \subseteq F
  BY <1>1, <1>2 DEF FiniteSubsetsOf
<1>4. PICK R : R = StrictSubsetOrdering(U)
  OBVIOUS
<1>5. IsWellFoundedOn(R, F)
  BY <1>2, <1>4, FS_StrictSubsetOrderingWellFounded
<1>6. \E x \in B : \A y \in B : ~ (<<y, x>> \in R)
  BY <1>3, <1>5, WFMin
<1>7. \A x, y \in B : y \subseteq x /\ y # x => <<y, x>> \in R
  BY <1>1, <1>4 DEF StrictSubsetOrdering
<1> QED
  BY <1>6, <1>7

-----------------------------------------------------------------------------
(* The fold and its table                                                  *)

\* The element a fold takes out of s first.
Taken(s) == CHOOSE x \in s : TRUE
Less(s) == s \ {Taken(s)}

\* It is in s, and s has an element less.
LEMMA TakenIsThere ==
    ASSUME NEW s, s # {}
    PROVE  Taken(s) \in s /\ Less(s) \subseteq s /\ Less(s) # s
  BY DEF Taken, Less

\* g is the table of the sums of f over the subsets of T.
IsTable(g, f, T) ==
    g = [s \in SUBSET T |-> IF s = {} THEN 0 ELSE f[Taken(s)] + g[Less(s)]]

\* The entries of a table.
LEMMA TableEntries ==
    ASSUME NEW g, NEW f, NEW T, IsTable(g, f, T), NEW s \in SUBSET T
    PROVE  /\ s = {} => g[s] = 0
           /\ s # {} => g[s] = f[Taken(s)] + g[Less(s)]
  BY DEF IsTable

\* Two tables agree where both have an entry.
LEMMA TablesAgree ==
    ASSUME NEW g, NEW h, NEW f, NEW T, NEW U, IsTable(g, f, T), IsTable(h, f, U),
           NEW S \in SUBSET (T \cap U), IsFiniteSet(S)
    PROVE  g[S] = h[S]
<1> SUFFICES ASSUME g[S] # h[S] PROVE FALSE
  OBVIOUS
<1>1. PICK B : B = {s \in SUBSET S : g[s] # h[s]}
  OBVIOUS
<1>2. S \in B
  BY <1>1
<1>3. \A s \in B : IsFiniteSet(s)
  BY <1>1, FS_Subset
<1>4. PICK x \in B : \A y \in B : y \subseteq x => y = x
  BY <1>2, <1>3, SmallestSet
<1>5. x \in SUBSET S /\ x \in SUBSET T /\ x \in SUBSET U /\ g[x] # h[x]
  BY <1>1, <1>4
<1>6. x # {}
  BY <1>5, TableEntries
<1>7. g[x] = f[Taken(x)] + g[Less(x)] /\ h[x] = f[Taken(x)] + h[Less(x)]
  BY <1>5, <1>6, TableEntries
<1>8. Less(x) \in SUBSET S /\ Less(x) \subseteq x /\ Less(x) # x
  BY <1>5, <1>6, TakenIsThere
<1>9. g[Less(x)] = h[Less(x)]
  BY <1>1, <1>4, <1>8
<1> QED
  BY <1>5, <1>7, <1>9

\* Every finite set has a table.
LEMMA TableExists ==
    ASSUME NEW f, NEW S, IsFiniteSet(S)
    PROVE  \E g : IsTable(g, f, S)
<1> SUFFICES ASSUME ~\E g : IsTable(g, f, S) PROVE FALSE
  OBVIOUS
<1>1. PICK B : B = {T \in SUBSET S : ~\E g : IsTable(g, f, T)}
  OBVIOUS
<1>2. S \in B /\ \A T \in B : IsFiniteSet(T)
  BY <1>1, FS_Subset
<1>3. PICK T \in B : \A U \in B : U \subseteq T => U = T
  BY <1>2, SmallestSet
<1>4. T \in SUBSET S /\ IsFiniteSet(T) /\ ~\E g : IsTable(g, f, T)
  BY <1>1, <1>2, <1>3
<1>5. \A u \in SUBSET T : u # T => \E g : IsTable(g, f, u)
  BY <1>1, <1>3, <1>4
<1> DEFINE Of(u) == CHOOSE g : IsTable(g, f, u)
<1>6. \A u \in SUBSET T : u # T => IsTable(Of(u), f, u)
  BY <1>5
<1> HIDE DEF Of
<1> DEFINE g == [s \in SUBSET T |-> IF s = {} THEN 0 ELSE f[Taken(s)] + Of(Less(s))[Less(s)]]
<1>7. ASSUME NEW u \in SUBSET T, u # T PROVE g[u] = Of(u)[u]
  <2>1. IsTable(Of(u), f, u)
    BY <1>6, <1>7
  <2>2. CASE u = {}
    <3>1. Of(u)[u] = 0
      BY <2>1, <2>2, TableEntries
    <3> QED
      BY <2>2, <3>1
  <2>3. CASE u # {}
    <3>1. Of(u)[u] = f[Taken(u)] + Of(u)[Less(u)]
      BY <2>1, <2>3, TableEntries
    <3>2. Less(u) \in SUBSET T /\ Less(u) # T /\ Less(u) \subseteq u
      BY <1>7, <2>3, TakenIsThere
    <3>3. IsTable(Of(Less(u)), f, Less(u)) /\ IsFiniteSet(Less(u))
      BY <1>4, <1>6, <3>2, FS_Subset
    <3>4. Less(u) \in SUBSET (u \cap Less(u))
      BY <3>2
    <3>5. Of(u)[Less(u)] = Of(Less(u))[Less(u)]
      BY <2>1, <3>3, <3>4, TablesAgree
    <3> QED
      BY <2>3, <3>1, <3>5
  <2> QED
    BY <2>2, <2>3
<1>8. \A s \in SUBSET T : s # {} => Less(s) \in SUBSET T /\ Less(s) # T
  BY TakenIsThere
<1>9. \A s \in SUBSET T : g[s] = IF s = {} THEN 0 ELSE f[Taken(s)] + g[Less(s)]
  BY <1>7, <1>8
<1>10. g = [s \in SUBSET T |-> g[s]]
  OBVIOUS
<1>11. IsTable(g, f, T)
  <2> HIDE DEF g
  <2> QED
    BY <1>9, <1>10 DEF IsTable
<1> QED
  BY <1>4, <1>11

\* The fold is one entry of a table.
LEMMA SumIsTable ==
    ASSUME NEW f, NEW S
    PROVE  SumFunctionOnSet(f, S) = (CHOOSE g : IsTable(g, f, S))[S]
  BY Zenon DEF SumFunctionOnSet, FoldFunctionOnSet, MapThenFoldSet, IsTable, Taken, Less

-----------------------------------------------------------------------------
(* Sums                                                                    *)

\* A sum from the inside.
LEMMA SumTakes ==
    ASSUME NEW f, NEW S, IsFiniteSet(S)
    PROVE  /\ S = {} => SumFunctionOnSet(f, S) = 0
           /\ S # {} => SumFunctionOnSet(f, S) = f[Taken(S)] + SumFunctionOnSet(f, Less(S))
<1>1. PICK g : g = CHOOSE h : IsTable(h, f, S)
  OBVIOUS
<1>2. IsTable(g, f, S)
  BY <1>1, TableExists
<1>3. SumFunctionOnSet(f, S) = g[S]
  BY <1>1, SumIsTable
<1>4. CASE S = {}
  BY <1>2, <1>3, <1>4, TableEntries
<1>5. CASE S # {}
  <2>1. Less(S) \in SUBSET S /\ IsFiniteSet(Less(S))
    BY <1>5, TakenIsThere, FS_Subset
  <2>2. PICK k : k = CHOOSE h : IsTable(h, f, Less(S))
    OBVIOUS
  <2>3. IsTable(k, f, Less(S)) /\ SumFunctionOnSet(f, Less(S)) = k[Less(S)]
    BY <2>1, <2>2, TableExists, SumIsTable
  <2>4. Less(S) \in SUBSET (S \cap Less(S))
    BY <2>1
  <2>5. g[Less(S)] = k[Less(S)]
    BY <1>2, <2>1, <2>3, <2>4, TablesAgree
  <2>6. g[S] = f[Taken(S)] + g[Less(S)]
    BY <1>2, <1>5, TableEntries
  <2> QED
    BY <1>3, <1>5, <2>3, <2>5, <2>6
<1> QED
  BY <1>4, <1>5

\* What holds of the empty set and of every set with one element more holds of
\* every finite set.
LEMMA SetsGrow ==
    ASSUME NEW S, IsFiniteSet(S), NEW Good, {} \in Good,
           \A T \in SUBSET S : T \in Good => \A x \in S \ T : T \cup {x} \in Good
    PROVE  S \in Good
<1> SUFFICES ASSUME S \notin Good PROVE FALSE
  OBVIOUS
<1>1. PICK B : B = {T \in SUBSET S : T \notin Good}
  OBVIOUS
<1>2. S \in B /\ \A T \in B : IsFiniteSet(T)
  BY <1>1, FS_Subset
<1>3. PICK T \in B : \A U \in B : U \subseteq T => U = T
  BY <1>2, SmallestSet
<1>4. T \in SUBSET S /\ T \notin Good /\ T # {}
  BY <1>1, <1>3
<1>5. PICK x \in T : TRUE
  BY <1>4
<1>6. T \ {x} \in SUBSET S /\ T \ {x} # T /\ x \in S \ (T \ {x}) /\ (T \ {x}) \cup {x} = T
  BY <1>4, <1>5
<1>7. T \ {x} \in Good
  BY <1>1, <1>3, <1>6
<1> QED
  BY <1>4, <1>6, <1>7

-----------------------------------------------------------------------------
(* Sums of natural numbers                                                 *)

\* A sum of natural numbers is one.
LEMMA SumIsNat ==
    ASSUME NEW S, IsFiniteSet(S), NEW f, \A x \in S : f[x] \in Nat
    PROVE  SumFunctionOnSet(f, S) \in Nat
<1> SUFFICES ASSUME SumFunctionOnSet(f, S) \notin Nat PROVE FALSE
  OBVIOUS
<1>1. PICK B : B = {T \in SUBSET S : SumFunctionOnSet(f, T) \notin Nat}
  OBVIOUS
<1>2. S \in B /\ \A T \in B : IsFiniteSet(T)
  BY <1>1, FS_Subset
<1>3. PICK T \in B : \A U \in B : U \subseteq T => U = T
  BY <1>2, SmallestSet
<1>4. T \in SUBSET S /\ IsFiniteSet(T) /\ SumFunctionOnSet(f, T) \notin Nat
  BY <1>1, <1>2, <1>3
<1>5. T # {}
  <2>1. T = {} => SumFunctionOnSet(f, T) = 0
    BY <1>4, SumTakes
  <2> QED
    BY <1>4, <2>1
<1>6. SumFunctionOnSet(f, T) = f[Taken(T)] + SumFunctionOnSet(f, Less(T))
  BY <1>4, <1>5, SumTakes
<1>7. Taken(T) \in S /\ Less(T) \in SUBSET S /\ Less(T) \subseteq T /\ Less(T) # T
  BY <1>4, <1>5, TakenIsThere
<1>8. SumFunctionOnSet(f, Less(T)) \in Nat
  BY <1>1, <1>3, <1>7
<1> QED
  BY <1>4, <1>6, <1>7, <1>8

\* Any element may be taken first: a sum does not depend on the order in which
\* the fold takes its elements.
THEOREM SumRemoves ==
    ASSUME NEW S, IsFiniteSet(S), NEW f, \A x \in S : f[x] \in Nat, NEW x \in S
    PROVE  SumFunctionOnSet(f, S) = f[x] + SumFunctionOnSet(f, S \ {x})
<1> DEFINE Sum(T) == SumFunctionOnSet(f, T)
<1> HIDE DEF Sum
<1> SUFFICES ASSUME Sum(S) # f[x] + Sum(S \ {x}) PROVE FALSE
  BY DEF Sum
<1>1. PICK B : B = {T \in SUBSET S : \E e \in T : Sum(T) # f[e] + Sum(T \ {e})}
  OBVIOUS
<1>2. S \in B /\ \A T \in B : IsFiniteSet(T)
  BY <1>1, FS_Subset
<1>3. PICK T \in B : \A U \in B : U \subseteq T => U = T
  BY <1>2, SmallestSet
<1>4. T \in SUBSET S /\ IsFiniteSet(T) /\ \E e \in T : Sum(T) # f[e] + Sum(T \ {e})
  BY <1>1, <1>2, <1>3
<1>5. PICK e \in T : Sum(T) # f[e] + Sum(T \ {e})
  BY <1>4
<1>6. PICK c : c = Taken(T)
  OBVIOUS
<1>7. c \in T /\ Less(T) = T \ {c} /\ T # {}
  BY <1>5, <1>6, TakenIsThere DEF Less
<1>8. Sum(T) = f[c] + Sum(T \ {c})
  BY <1>4, <1>6, <1>7, SumTakes DEF Sum
<1>9. c # e
  BY <1>5, <1>8
<1>10. \A U \in SUBSET T : U # T => \A u \in U : Sum(U) = f[u] + Sum(U \ {u})
  BY <1>1, <1>3, <1>4
<1>11. Sum(T \ {c}) = f[e] + Sum((T \ {c}) \ {e})
  BY <1>5, <1>7, <1>9, <1>10
<1>12. Sum(T \ {e}) = f[c] + Sum((T \ {e}) \ {c})
  BY <1>5, <1>7, <1>9, <1>10
<1>13. (T \ {c}) \ {e} = (T \ {e}) \ {c}
  OBVIOUS
<1>14. PICK R : R = (T \ {c}) \ {e}
  OBVIOUS
<1>15. R \in SUBSET S /\ IsFiniteSet(R)
  BY <1>4, <1>14, FS_Subset
<1>16. Sum(R) \in Nat
  BY <1>15, SumIsNat DEF Sum
<1>17. f[c] \in Nat /\ f[e] \in Nat
  BY <1>4, <1>5, <1>7
<1> QED
  BY <1>5, <1>8, <1>11, <1>12, <1>13, <1>14, <1>16, <1>17

\* An element more.
LEMMA SumAdds ==
    ASSUME NEW S, IsFiniteSet(S), NEW f, \A x \in S : f[x] \in Nat,
           NEW x, x \notin S, f[x] \in Nat
    PROVE  SumFunctionOnSet(f, S \cup {x}) = f[x] + SumFunctionOnSet(f, S)
<1>1. IsFiniteSet(S \cup {x}) /\ (S \cup {x}) \ {x} = S
  BY FS_AddElement
<1> QED
  BY <1>1, SumRemoves

\* Functions that agree on a set have the same sum over it.
LEMMA SumsAgree ==
    ASSUME NEW S, IsFiniteSet(S), NEW f, NEW g, \A x \in S : f[x] = g[x]
    PROVE  SumFunctionOnSet(f, S) = SumFunctionOnSet(g, S)
<1> SUFFICES ASSUME SumFunctionOnSet(f, S) # SumFunctionOnSet(g, S) PROVE FALSE
  OBVIOUS
<1>1. PICK B : B = {T \in SUBSET S : SumFunctionOnSet(f, T) # SumFunctionOnSet(g, T)}
  OBVIOUS
<1>2. S \in B /\ \A T \in B : IsFiniteSet(T)
  BY <1>1, FS_Subset
<1>3. PICK T \in B : \A U \in B : U \subseteq T => U = T
  BY <1>2, SmallestSet
<1>4. T \in SUBSET S /\ IsFiniteSet(T) /\ SumFunctionOnSet(f, T) # SumFunctionOnSet(g, T)
  BY <1>1, <1>2, <1>3
<1>5. T # {}
  <2>1. T = {} => SumFunctionOnSet(f, T) = 0
    BY <1>4, SumTakes
  <2>2. T = {} => SumFunctionOnSet(g, T) = 0
    BY <1>4, SumTakes
  <2> QED
    BY <1>4, <2>1, <2>2
<1>6. /\ SumFunctionOnSet(f, T) = f[Taken(T)] + SumFunctionOnSet(f, Less(T))
      /\ SumFunctionOnSet(g, T) = g[Taken(T)] + SumFunctionOnSet(g, Less(T))
  BY <1>4, <1>5, SumTakes
<1>7. Taken(T) \in S /\ Less(T) \in SUBSET S /\ Less(T) \subseteq T /\ Less(T) # T
  BY <1>4, <1>5, TakenIsThere
<1>8. SumFunctionOnSet(f, Less(T)) = SumFunctionOnSet(g, Less(T))
  BY <1>1, <1>3, <1>7
<1> QED
  BY <1>4, <1>6, <1>7, <1>8

\* The sum over two sets without a common element.
LEMMA SumOfUnion ==
    ASSUME NEW S, IsFiniteSet(S), NEW T, IsFiniteSet(T), S \cap T = {}, NEW f,
           \A x \in S \cup T : f[x] \in Nat
    PROVE  SumFunctionOnSet(f, S \cup T) = SumFunctionOnSet(f, S) + SumFunctionOnSet(f, T)
<1> DEFINE Sum(U) == SumFunctionOnSet(f, U)
<1> HIDE DEF Sum
<1>1. PICK Good : Good = {U \in SUBSET T : Sum(S \cup U) = Sum(S) + Sum(U)}
  OBVIOUS
<1>2. Sum(S) \in Nat /\ \A U \in SUBSET T : IsFiniteSet(U) /\ Sum(U) \in Nat
  <2>1. ASSUME NEW U \in SUBSET T PROVE IsFiniteSet(U) /\ Sum(U) \in Nat
    <3>1. IsFiniteSet(U) /\ \A x \in U : f[x] \in Nat
      BY FS_Subset
    <3> QED
      BY <3>1, SumIsNat DEF Sum
  <2> QED
    BY <2>1, SumIsNat DEF Sum
<1>3. {} \in Good
  <2>1. Sum({}) = 0 /\ S \cup {} = S
    BY FS_EmptySet, SumTakes DEF Sum
  <2> QED
    BY <1>1, <1>2, <2>1
<1>4. ASSUME NEW U \in SUBSET T, U \in Good, NEW x \in T \ U
      PROVE  U \cup {x} \in Good
  <2>1. IsFiniteSet(S \cup U) /\ S \cup (U \cup {x}) = (S \cup U) \cup {x} /\ x \notin S \cup U
    BY <1>2, FS_Union
  <2>2. Sum(S \cup (U \cup {x})) = f[x] + Sum(S \cup U)
    BY <2>1, SumAdds DEF Sum
  <2>3. Sum(U \cup {x}) = f[x] + Sum(U)
    BY <1>2, SumAdds DEF Sum
  <2>4. Sum(S \cup U) = Sum(S) + Sum(U) /\ Sum(U) \in Nat /\ f[x] \in Nat
    BY <1>1, <1>2, <1>4
  <2> QED
    BY <1>1, <1>2, <2>2, <2>3, <2>4
<1>5. T \in Good
  BY <1>3, <1>4, SetsGrow
<1> QED
  BY <1>1, <1>5 DEF Sum

\* i takes each of the values at one element of S.
Lists(values, i, S) ==
    /\ \A x, y \in S : i[x] = i[y] => x = y
    /\ values = {i[x] : x \in S}

\* The sum over the values of a function that takes none twice.
LEMMA SumOfValues ==
    ASSUME NEW S, IsFiniteSet(S), NEW i, NEW values, Lists(values, i, S),
           NEW f, NEW g, \A x \in S : g[x] \in Nat /\ f[i[x]] = g[x]
    PROVE  IsFiniteSet(values) /\ SumFunctionOnSet(f, values) = SumFunctionOnSet(g, S)
<1>0. \A x, y \in S : i[x] = i[y] => x = y
  BY DEF Lists
<1> DEFINE V(U) == {i[x] : x \in U}
<1>1. PICK Good : Good = {U \in SUBSET S : /\ IsFiniteSet(V(U))
                                           /\ SumFunctionOnSet(f, V(U)) = SumFunctionOnSet(g, U)}
  OBVIOUS
<1>2. {} \in Good
  <2>1. V({}) = {}
    OBVIOUS
  <2> HIDE DEF V
  <2> QED
    BY <1>1, <2>1, FS_EmptySet, SumTakes
<1>3. ASSUME NEW U \in SUBSET S, U \in Good, NEW y \in S \ U
      PROVE  U \cup {y} \in Good
  <2>1. V(U \cup {y}) = V(U) \cup {i[y]} /\ i[y] \notin V(U) /\ \A v \in V(U) : f[v] \in Nat
    BY <1>0
  <2>nat. \A x \in U : g[x] \in Nat
    OBVIOUS
  <2> HIDE DEF V
  <2>2. IsFiniteSet(U) /\ IsFiniteSet(V(U)) /\ SumFunctionOnSet(f, V(U)) = SumFunctionOnSet(g, U)
    BY <1>1, <1>3, FS_Subset
  <2>3. IsFiniteSet(V(U) \cup {i[y]}) /\ SumFunctionOnSet(f, V(U) \cup {i[y]}) = f[i[y]] + SumFunctionOnSet(f, V(U))
    BY <2>1, <2>2, FS_AddElement, SumAdds
  <2>4. SumFunctionOnSet(g, U \cup {y}) = g[y] + SumFunctionOnSet(g, U)
    BY <2>nat, <2>2, SumAdds
  <2> QED
    BY <1>1, <2>1, <2>2, <2>3, <2>4
<1>4. S \in Good
  <2> HIDE DEF V
  <2> QED
    BY <1>2, <1>3, SetsGrow
<1>5. values = V(S)
  BY DEF Lists
<1> QED
  BY <1>1, <1>4, <1>5

-----------------------------------------------------------------------------
(* Sums by groups                                                          *)

\* The groups of the members of G are finite, have no element in common and are
\* all there is.
Splits(all, group, G) ==
    /\ \A r \in G : IsFiniteSet(group[r])
    /\ \A q, r \in G : q # r => group[q] \cap group[r] = {}
    /\ all = UNION {group[r] : r \in G}

\* A sum by groups is the sum over all of them.
LEMMA SumOfGroups ==
    ASSUME NEW G, IsFiniteSet(G), NEW group, NEW all, Splits(all, group, G),
           NEW f, NEW h, \A x \in all : f[x] \in Nat,
           \A r \in G : h[r] = SumFunctionOnSet(f, group[r])
    PROVE  IsFiniteSet(all) /\ SumFunctionOnSet(h, G) = SumFunctionOnSet(f, all)
<1>0. /\ \A r \in G : IsFiniteSet(group[r]) /\ \A x \in group[r] : f[x] \in Nat
      /\ \A q, r \in G : q # r => group[q] \cap group[r] = {}
  BY DEF Splits
<1> DEFINE All(U) == UNION {group[r] : r \in U}
<1>1. PICK Good : Good = {U \in SUBSET G : /\ IsFiniteSet(All(U))
                                           /\ SumFunctionOnSet(h, U) = SumFunctionOnSet(f, All(U))}
  OBVIOUS
<1>2. {} \in Good
  <2>1. All({}) = {}
    OBVIOUS
  <2> HIDE DEF All
  <2> QED
    BY <1>1, <2>1, FS_EmptySet, SumTakes
<1>3. ASSUME NEW U \in SUBSET G, U \in Good, NEW q \in G \ U
      PROVE  U \cup {q} \in Good
  <2>1. All(U \cup {q}) = All(U) \cup group[q]
    OBVIOUS
  <2>2. All(U) \cap group[q] = {}
    BY <1>0
  <2>3. \A x \in All(U) \cup group[q] : f[x] \in Nat
    BY <1>0
  <2> HIDE DEF All
  <2>4. IsFiniteSet(U) /\ IsFiniteSet(All(U)) /\ SumFunctionOnSet(h, U) = SumFunctionOnSet(f, All(U))
    BY <1>1, <1>3, FS_Subset
  <2>5. IsFiniteSet(group[q]) /\ h[q] = SumFunctionOnSet(f, group[q])
    BY <1>0
  <2>6. /\ IsFiniteSet(All(U) \cup group[q])
        /\ SumFunctionOnSet(f, All(U) \cup group[q]) =
              SumFunctionOnSet(f, All(U)) + SumFunctionOnSet(f, group[q])
    <3>1. PICK A, C : A = All(U) /\ C = group[q]
      OBVIOUS
    <3>2. IsFiniteSet(A) /\ IsFiniteSet(C) /\ A \cap C = {} /\ \A x \in A \cup C : f[x] \in Nat
      BY <2>2, <2>3, <2>4, <2>5, <3>1
    <3>3. IsFiniteSet(A \cup C)
      BY <3>2, FS_Union
    <3>4. SumFunctionOnSet(f, A \cup C) = SumFunctionOnSet(f, A) + SumFunctionOnSet(f, C)
      BY <3>2, SumOfUnion
    <3> QED
      BY <3>1, <3>3, <3>4
  <2>7. \A r \in G : h[r] \in Nat
    BY <1>0, SumIsNat
  <2>8. SumFunctionOnSet(h, U \cup {q}) = h[q] + SumFunctionOnSet(h, U)
    BY <2>4, <2>7, SumAdds
  <2>9. h[q] \in Nat /\ SumFunctionOnSet(h, U) \in Nat
    BY <2>4, <2>7, SumIsNat
  <2> QED
    <3>1. SumFunctionOnSet(h, U \cup {q}) = SumFunctionOnSet(f, All(U) \cup group[q])
      BY <2>4, <2>5, <2>6, <2>8, <2>9
    <3> QED
      BY <1>1, <2>1, <2>6, <3>1
<1>4. G \in Good
  <2> HIDE DEF All
  <2> QED
    BY <1>2, <1>3, SetsGrow
<1>5. all = All(G)
  BY DEF Splits
<1> QED
  BY <1>1, <1>4, <1>5

\* As many times the same.
LEMMA SumOfEqual ==
    ASSUME NEW S, IsFiniteSet(S), NEW f, NEW c \in Nat, \A x \in S : f[x] = c
    PROVE  SumFunctionOnSet(f, S) = Cardinality(S) * c
<1>1. PICK Good : Good = {U \in SUBSET S : SumFunctionOnSet(f, U) = Cardinality(U) * c}
  OBVIOUS
<1>2. {} \in Good
  <2>1. SumFunctionOnSet(f, {}) = 0 /\ Cardinality({}) = 0 /\ 0 * c = 0
    BY FS_EmptySet, SumTakes
  <2> QED
    BY <1>1, <2>1
<1>3. ASSUME NEW U \in SUBSET S, U \in Good, NEW x \in S \ U
      PROVE  U \cup {x} \in Good
  <2>1. IsFiniteSet(U) /\ SumFunctionOnSet(f, U) = Cardinality(U) * c
    BY <1>1, <1>3, FS_Subset
  <2>2. SumFunctionOnSet(f, U \cup {x}) = c + SumFunctionOnSet(f, U)
    BY <2>1, SumAdds
  <2>3. Cardinality(U \cup {x}) = Cardinality(U) + 1 /\ Cardinality(U) \in Nat
    BY <2>1, FS_AddElement, FS_CardinalityType
  <2>4. \A n \in Nat : c + n * c = (n + 1) * c
    OBVIOUS
  <2> QED
    BY <1>1, <2>1, <2>2, <2>3, <2>4
<1>4. S \in Good
  BY <1>2, <1>3, SetsGrow
<1> QED
  BY <1>1, <1>4

\* A factor of all terms.
LEMMA SumOfMultiples ==
    ASSUME NEW S, IsFiniteSet(S), NEW n \in Nat, NEW f, NEW g,
           \A x \in S : f[x] \in Nat /\ g[x] = n * f[x]
    PROVE  SumFunctionOnSet(g, S) = n * SumFunctionOnSet(f, S)
<1>1. PICK Good : Good = {U \in SUBSET S : SumFunctionOnSet(g, U) = n * SumFunctionOnSet(f, U)}
  OBVIOUS
<1>2. {} \in Good
  <2>1. SumFunctionOnSet(g, {}) = 0 /\ SumFunctionOnSet(f, {}) = 0
    BY FS_EmptySet, SumTakes
  <2> QED
    BY <1>1, <2>1
<1>3. ASSUME NEW U \in SUBSET S, U \in Good, NEW x \in S \ U
      PROVE  U \cup {x} \in Good
  <2>1. IsFiniteSet(U) /\ SumFunctionOnSet(g, U) = n * SumFunctionOnSet(f, U)
    BY <1>1, <1>3, FS_Subset
  <2>2. SumFunctionOnSet(f, U \cup {x}) = f[x] + SumFunctionOnSet(f, U)
    BY <2>1, SumAdds
  <2>3. \A y \in U \cup {x} : f[y] \in Nat /\ g[y] = n * f[y] /\ g[y] \in Nat
    OBVIOUS
  <2>4. SumFunctionOnSet(g, U \cup {x}) = g[x] + SumFunctionOnSet(g, U)
    BY <2>1, <2>3, SumAdds
  <2>5. SumFunctionOnSet(f, U) \in Nat
    BY <2>1, SumIsNat
  <2>6. \A k, m \in Nat : n * k + n * m = n * (k + m)
    OBVIOUS
  <2>7. n * f[x] + n * SumFunctionOnSet(f, U) = n * (f[x] + SumFunctionOnSet(f, U))
    BY <2>3, <2>5, <2>6
  <2>8. SumFunctionOnSet(g, U \cup {x}) = n * SumFunctionOnSet(f, U \cup {x})
    BY <2>1, <2>2, <2>3, <2>4, <2>7
  <2> QED
    BY <1>1, <2>8
<1>4. S \in Good
  BY <1>2, <1>3, SetsGrow
<1> QED
  BY <1>1, <1>4

\* Every group has n members, and f is the group's own value on all of them.
EqualGroups(group, G, f, own, n) ==
    /\ \A r \in G : own[r] \in Nat /\ Cardinality(group[r]) = n
    /\ \A r \in G : \A x \in group[r] : f[x] = own[r]

\* Then the sum over all is n times the sum of the groups' own values.
LEMMA SumOfEqualGroups ==
    ASSUME NEW G, IsFiniteSet(G), NEW group, NEW all, Splits(all, group, G),
           NEW f, NEW own, NEW n \in Nat, EqualGroups(group, G, f, own, n)
    PROVE  /\ IsFiniteSet(all)
           /\ \A x \in all : f[x] \in Nat
           /\ SumFunctionOnSet(f, all) = n * SumFunctionOnSet(own, G)
<1>0. /\ \A r \in G : own[r] \in Nat /\ Cardinality(group[r]) = n
      /\ \A r \in G : \A x \in group[r] : f[x] = own[r]
  BY DEF EqualGroups
<1>1. PICK h : h = [r \in G |-> n * own[r]]
  OBVIOUS
<1>2. \A r \in G : IsFiniteSet(group[r])
  BY DEF Splits
<1>3. \A r \in G : h[r] = SumFunctionOnSet(f, group[r])
  <2> SUFFICES ASSUME NEW r \in G PROVE h[r] = SumFunctionOnSet(f, group[r])
    OBVIOUS
  <2>1. SumFunctionOnSet(f, group[r]) = Cardinality(group[r]) * own[r]
    BY <1>0, <1>2, SumOfEqual
  <2> QED
    BY <1>0, <1>1, <2>1
<1>4. \A x \in all : f[x] \in Nat
  BY <1>0 DEF Splits
<1>5. IsFiniteSet(all) /\ SumFunctionOnSet(h, G) = SumFunctionOnSet(f, all)
  BY <1>3, <1>4, SumOfGroups
<1>6. SumFunctionOnSet(h, G) = n * SumFunctionOnSet(own, G)
  <2>1. \A r \in G : own[r] \in Nat /\ h[r] = n * own[r]
    BY <1>0, <1>1
  <2> QED
    BY <2>1, SumOfMultiples
<1> QED
  BY <1>4, <1>5, <1>6

\* A table with one row per group that is not empty, each with the sum of its
\* group (what GROUP BY makes of a join): when no element is in two groups and no
\* two groups have the same row, the rows add up to the sum over all groups.
THEOREM SumOfReport ==
    ASSUME NEW G, IsFiniteSet(G), NEW group, NEW all, Splits(all, group, G),
           NEW row, NEW report, Lists(report, row, {r \in G : group[r] # {}}),
           NEW f, NEW total, \A x \in all : f[x] \in Nat,
           \A r \in G : group[r] # {} => total[row[r]] = SumFunctionOnSet(f, group[r])
    PROVE  IsFiniteSet(all) /\ SumFunctionOnSet(total, report) = SumFunctionOnSet(f, all)
<1>1. PICK N : N = {r \in G : group[r] # {}}
  OBVIOUS
<1>2. IsFiniteSet(N) /\ N \subseteq G /\ \A q \in N : group[q] # {}
  BY <1>1, FS_Subset
<1>3. PICK h : h = [r \in N |-> SumFunctionOnSet(f, group[r])]
  OBVIOUS
<1>4. Splits(all, group, N) /\ Lists(report, row, N)
  BY <1>1 DEF Splits
<1>5. \A r \in N : h[r] = SumFunctionOnSet(f, group[r])
  BY <1>3
<1>6. IsFiniteSet(all) /\ SumFunctionOnSet(h, N) = SumFunctionOnSet(f, all)
  BY <1>2, <1>4, <1>5, SumOfGroups
<1>7. \A r \in N : h[r] \in Nat /\ total[row[r]] = h[r]
  <2>1. \A r \in N : IsFiniteSet(group[r]) /\ \A x \in group[r] : f[x] \in Nat
    BY <1>2 DEF Splits
  <2> QED
    BY <1>2, <1>5, <2>1, SumIsNat
<1>8. SumFunctionOnSet(total, report) = SumFunctionOnSet(h, N)
  BY <1>2, <1>4, <1>7, SumOfValues
<1> QED
  BY <1>6, <1>8

=============================================================================
