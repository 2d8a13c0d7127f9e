------------------------- MODULE SignatureCheck_proofs -------------------------
(***************************************************************************)
(* Proofs about the scanner and the programs that rely on it, for any      *)
(* loadable images, manifests and options.                                 *)
(***************************************************************************)
EXTENDS SignatureCheck, FiniteSetTheorems, SequenceTheorems, TLAPS

-----------------------------------------------------------------------------
(* Induction, over sets of numbers: what is not in S could be mapped to    *)
(* fewer numbers, one to one, by taking one from each.                     *)
LEMMA Induct ==
  ASSUME NEW S \in SUBSET Nat, 0 \in S, \A n \in S : n + 1 \in S
  PROVE  S = Nat
<1> SUFFICES ASSUME NEW x \in Nat \ S PROVE FALSE
  OBVIOUS
<1> DEFINE V == {y \in 0 .. x : y \notin S}
           U == V \ {x}
           f == [y \in V |-> y - 1]
<1>1. IsFiniteSet(0 .. x) /\ V \subseteq 0 .. x /\ x \in V
  BY FS_Interval
<1>2. \A y \in V : y - 1 \in U /\ y \in Nat
  <2> SUFFICES ASSUME NEW y \in V PROVE y - 1 \in U /\ y \in Nat
    OBVIOUS
  <2>1. y # 0 /\ y \in Nat /\ y <= x /\ y \notin S
    OBVIOUS
  <2>2. y - 1 \in Nat /\ (y - 1) + 1 = y
    BY <2>1
  <2>3. y - 1 \notin S
    BY <2>1, <2>2
  <2>4. QED
    BY <2>1, <2>2, <2>3
<1>3. f \in [V -> U]
  BY <1>2
<1>4. \A y, z \in DOMAIN f : f[y] = f[z] => y = z
  BY <1>2
<1>5. f \in Injection(V, U)
  BY <1>3, <1>4, Zenon DEF Injection, IsInjective
<1> HIDE DEF V, f
<1>6. IsFiniteSet(V)
  BY <1>1, FS_Subset
<1>7. IsFiniteSet(U) /\ Cardinality(U) = Cardinality(V) - 1 /\ Cardinality(V) \in Nat
  BY <1>1, <1>6, FS_RemoveElement, FS_CardinalityType
<1>8. Cardinality(V) <= Cardinality(U)
  BY <1>5, <1>7, FS_Injection
<1>9. QED
  BY <1>7, <1>8

LEMMA Least ==
  ASSUME NEW T \in SUBSET Nat, T # {}
  PROVE  Min(T) \in T /\ \A y \in T : Min(T) <= y
<1> DEFINE S == {n \in Nat : \A y \in T : n <= y}
<1>1. PICK t \in T : t \in Nat
  OBVIOUS
<1>2. t + 1 \in Nat /\ t + 1 \notin S
  BY <1>1
<1>3. 0 \in S /\ S \in SUBSET Nat
  OBVIOUS
<1>4. PICK n \in S : n + 1 \notin S
  <2> HIDE DEF S
  <2>1. QED
    BY <1>2, <1>3, Induct
<1>5. n \in Nat /\ \A y \in T : n <= y
  OBVIOUS
<1>6. PICK y \in T : ~(n + 1 <= y)
  BY <1>4, <1>5
<1>7. y = n
  BY <1>5, <1>6
<1>8. \E x \in T : \A z \in T : x <= z
  BY <1>5, <1>7
<1>9. QED
  BY <1>8, Zenon DEF Min

\* g is the first n steps from a.
Steps(g, n, A, a, step) ==
  g \in [0 .. n -> A] /\ g[0] = a /\ \A i \in 0 .. n - 1 : g[i + 1] = step[<<i, g[i]>>]

LEMMA StepsExist ==
  ASSUME NEW A, NEW a \in A, NEW step \in [Nat \X A -> A], NEW n \in Nat
  PROVE  \E g : Steps(g, n, A, a, step)
<1> DEFINE S == {m \in Nat : \E g : Steps(g, m, A, a, step)}
<1>1. 0 \in S
  <2>1. Steps([i \in 0 .. 0 |-> a], 0, A, a, step)
    BY DEF Steps
  <2>2. QED
    BY <2>1
<1>2. ASSUME NEW m \in S PROVE m + 1 \in S
  <2>1. m \in Nat
    OBVIOUS
  <2>2. PICK g : Steps(g, m, A, a, step)
    OBVIOUS
  <2> DEFINE h == [i \in 0 .. m + 1 |-> IF i = m + 1 THEN step[<<m, g[m]>>] ELSE g[i]]
  <2>3. /\ g \in [0 .. m -> A] /\ g[0] = a /\ g[m] \in A
        /\ \A i \in 0 .. m - 1 : g[i + 1] = step[<<i, g[i]>>]
    BY <2>1, <2>2 DEF Steps
  <2>4. step[<<m, g[m]>>] \in A
    BY <2>1, <2>3
  <2>5. h \in [0 .. m + 1 -> A]
    BY <2>1, <2>3, <2>4
  <2>6. h[0] = a /\ h[m + 1] = step[<<m, g[m]>>] /\ \A i \in 0 .. m : h[i] = g[i]
    BY <2>1, <2>3
  <2>7. ASSUME NEW i \in 0 .. (m + 1) - 1 PROVE h[i + 1] = step[<<i, h[i]>>]
    <3> HIDE DEF h
    <3>1. CASE i = m
      BY <2>1, <2>6, <3>1
    <3>2. CASE i \in 0 .. m - 1
      <4>1. i + 1 \in 0 .. m /\ i \in 0 .. m
        BY <2>1, <3>2
      <4>2. QED
        BY <2>3, <2>6, <3>2, <4>1
    <3>3. QED
      BY <2>1, <3>1, <3>2
  <2>8. Steps(h, m + 1, A, a, step)
    BY <2>5, <2>6, <2>7 DEF Steps
  <2>9. QED
    BY <2>1, <2>8
<1>3. S \in SUBSET Nat
  OBVIOUS
<1>4. S = Nat
  <2> HIDE DEF S
  <2>1. QED
    BY <1>1, <1>2, <1>3, Induct
<1>5. QED
  BY <1>4

LEMMA StepsAgree ==
  ASSUME NEW A, NEW a, NEW step, NEW n \in Nat, NEW m \in Nat, NEW g, NEW h,
         Steps(g, n, A, a, step), Steps(h, m, A, a, step), NEW i \in Nat, i <= n, i <= m
  PROVE  g[i] = h[i]
<1> DEFINE S == {j \in Nat : j <= n /\ j <= m => g[j] = h[j]}
<1>1. 0 \in S
  BY DEF Steps
<1>2. ASSUME NEW j \in S PROVE j + 1 \in S
  <2>1. CASE j + 1 <= n /\ j + 1 <= m
    <3>1. j \in 0 .. n - 1 /\ j \in 0 .. m - 1 /\ g[j] = h[j]
      BY <2>1
    <3>2. g[j + 1] = step[<<j, g[j]>>] /\ h[j + 1] = step[<<j, h[j]>>]
      BY <3>1 DEF Steps
    <3>3. QED
      BY <3>1, <3>2
  <2>2. QED
    BY <2>1
<1>3. S \in SUBSET Nat
  OBVIOUS
<1>4. S = Nat
  <2> HIDE DEF S
  <2>1. QED
    BY <1>1, <1>2, <1>3, Induct
<1>5. QED
  BY <1>4

\* f is all of them.
Iterates(f, A, a, step) ==
  f \in [Nat -> A] /\ f[0] = a /\ \A n \in Nat : f[n + 1] = step[<<n, f[n]>>]

LEMMA Iteration ==
  ASSUME NEW A, NEW a \in A, NEW step \in [Nat \X A -> A]
  PROVE  \E f : Iterates(f, A, a, step)
<1> DEFINE G(n) == CHOOSE g : Steps(g, n, A, a, step)
           f == [n \in Nat |-> G(n)[n]]
<1>1. \A n \in Nat : Steps(G(n), n, A, a, step)
  BY StepsExist
<1> HIDE DEF G
<1>2. ASSUME NEW n \in Nat PROVE f[n] \in A
  BY <1>1 DEF Steps
<1>3. f[0] = a
  BY <1>1 DEF Steps
<1>4. ASSUME NEW n \in Nat PROVE f[n + 1] = step[<<n, f[n]>>]
  <2>1. Steps(G(n), n, A, a, step) /\ Steps(G(n + 1), n + 1, A, a, step)
    BY <1>1
  <2>2. G(n + 1)[n + 1] = step[<<n, G(n + 1)[n]>>]
    BY <2>1 DEF Steps
  <2>3. G(n + 1)[n] = G(n)[n]
    BY <2>1, StepsAgree
  <2>4. QED
    BY <2>2, <2>3
<1>5. f \in [Nat -> A]
  BY <1>2
<1> HIDE DEF f
<1>6. QED
  BY <1>3, <1>4, <1>5 DEF Iterates

-----------------------------------------------------------------------------
(* Finding.                                                                *)

\* found lists max elements of S, or all of them if there are fewer, none twice.
Lists(found, S, max) ==
  /\ found \in Seq(S) /\ Len(found) <= max
  /\ \A i, j \in DOMAIN found : found[i] = found[j] => i = j
  /\ Len(found) < max => \A x \in S : \E i \in DOMAIN found : found[i] = x

LEMMA ListsMore ==
  ASSUME NEW S, NEW T, NEW max \in Nat, NEW found, NEW more, S \cap T = {},
         Lists(found, S, max), Lists(more, T, max - Len(found))
  PROVE  Lists(found \o more, S \union T, max)
<1> DEFINE all == found \o more
           n == Len(found)
           m == Len(more)
<1>1. /\ found \in Seq(S) /\ more \in Seq(T) /\ n \in Nat /\ m \in Nat
      /\ DOMAIN found = 1 .. n /\ DOMAIN more = 1 .. m /\ n <= max /\ m <= max - n
      /\ \A i \in 1 .. n : found[i] \in S
      /\ \A i \in 1 .. m : more[i] \in T
  BY LenProperties, ElementOfSeq DEF Lists
<1>2. found \in Seq(S \union T) /\ more \in Seq(S \union T)
  BY <1>1, SeqMonotonic
<1>3. /\ all \in Seq(S \union T) /\ Len(all) = n + m
      /\ DOMAIN all = 1 .. n + m
      /\ \A i \in 1 .. n + m : all[i] = IF i <= n THEN found[i] ELSE more[i - n]
  BY <1>2, ConcatProperties, LenProperties
<1> HIDE DEF all, n, m
<1>4. /\ \A i, j \in 1 .. n : found[i] = found[j] => i = j
      /\ \A i, j \in 1 .. m : more[i] = more[j] => i = j
      /\ n < max => \A x \in S : \E i \in 1 .. n : found[i] = x
      /\ m < max - n => \A x \in T : \E i \in 1 .. m : more[i] = x
  BY <1>1 DEF Lists, n, m
<1>5. ASSUME NEW i \in DOMAIN all, NEW j \in DOMAIN all, all[i] = all[j] PROVE i = j
  <2>1. i \in 1 .. n + m /\ j \in 1 .. n + m
    BY <1>3
  <2>2. CASE i <= n /\ j <= n
    BY <1>1, <1>3, <1>4, <1>5, <2>1, <2>2
  <2>3. CASE ~(i <= n) /\ ~(j <= n)
    <3>1. i - n \in 1 .. m /\ j - n \in 1 .. m /\ more[i - n] = more[j - n]
      BY <1>1, <1>3, <1>5, <2>1, <2>3
    <3>2. i - n = j - n
      BY <1>4, <3>1
    <3>3. QED
      BY <1>1, <2>1, <3>2
  <2>4. CASE i <= n /\ ~(j <= n)
    <3>1. all[i] \in S /\ j - n \in 1 .. m /\ all[j] = more[j - n]
      BY <1>1, <1>3, <2>1, <2>4
    <3>2. QED
      BY <1>1, <1>5, <3>1
  <2>5. CASE ~(i <= n) /\ j <= n
    <3>1. all[j] \in S /\ i - n \in 1 .. m /\ all[i] = more[i - n]
      BY <1>1, <1>3, <2>1, <2>5
    <3>2. QED
      BY <1>1, <1>5, <3>1
  <2>6. QED
    BY <2>2, <2>3, <2>4, <2>5
<1>6. ASSUME Len(all) < max, NEW x \in S \union T PROVE \E i \in DOMAIN all : all[i] = x
  <2>1. n < max /\ m < max - n
    BY <1>1, <1>3, <1>6
  <2>2. CASE x \in S
    <3>1. PICK i \in 1 .. n : found[i] = x
      BY <1>4, <2>1, <2>2
    <3>2. i \in 1 .. n + m /\ all[i] = x
      BY <1>1, <1>3, <3>1
    <3>3. QED
      BY <1>3, <3>2
  <2>3. CASE x \in T
    <3>1. PICK i \in 1 .. m : more[i] = x
      BY <1>4, <2>1, <2>3
    <3>2. i + n \in 1 .. n + m /\ ~(i + n <= n) /\ (i + n) - n = i
      BY <1>1, <3>1
    <3>3. all[i + n] = x
      BY <1>3, <3>1, <3>2
    <3>4. QED
      BY <1>3, <3>2, <3>3
  <2>4. QED
    BY <2>2, <2>3
<1>7. Len(all) <= max
  BY <1>1, <1>3
<1>8. QED
  BY <1>3, <1>5, <1>6, <1>7 DEF Lists, all

LEMMA ListsOneMore ==
  ASSUME NEW S, NEW max \in Nat, NEW found, NEW x, x \notin S, Lists(found, S, max)
  PROVE  Lists(IF Len(found) < max THEN Append(found, x) ELSE found, S \union {x}, max)
<1>1. found \in Seq(S) /\ Len(found) \in Nat /\ Len(found) <= max
  BY LenProperties DEF Lists
<1>2. CASE Len(found) < max
  <2>1. Lists(<<x>>, {x}, max - Len(found))
    <3>1. <<x>> \in Seq({x}) /\ Len(<<x>>) = 1 /\ DOMAIN <<x>> = {1} /\ <<x>>[1] = x
      OBVIOUS
    <3>2. 1 <= max - Len(found)
      BY <1>1, <1>2
    <3>3. QED
      BY <3>1, <3>2, Zenon DEF Lists
  <2>2. Lists(found \o <<x>>, S \union {x}, max)
    BY <2>1, ListsMore
  <2>3. found \o <<x>> = Append(found, x)
    BY <1>1
  <2>4. QED
    BY <1>2, <2>2, <2>3
<1>3. CASE ~(Len(found) < max)
  <2>1. found \in Seq(S \union {x})
    BY <1>1, SeqMonotonic
  <2>2. QED
    BY <1>3, <2>1 DEF Lists
<1>4. QED
  BY <1>2, <1>3

LEMMA ListsNothing == ASSUME NEW max \in Nat PROVE Lists(<<>>, {}, max)
BY DEF Lists

(* A limit of more than one match tells apart none, one and several.       *)
LEMMA ListsOne ==
  ASSUME NEW S, NEW max \in Nat, 1 < max, NEW found, Lists(found, S, max)
  PROVE  /\ Len(found) = 1 => S = {found[1]}
         /\ \A x : S = {x} => Len(found) = 1
<1>1. /\ found \in Seq(S) /\ Len(found) \in Nat /\ DOMAIN found = 1 .. Len(found)
      /\ \A i \in 1 .. Len(found) : found[i] \in S
  BY LenProperties, ElementOfSeq DEF Lists
<1>2. ASSUME Len(found) = 1 PROVE S = {found[1]}
  <2>1. DOMAIN found = {1} /\ Len(found) < max
    BY <1>1, <1>2
  <2>2. found[1] \in S /\ \A x \in S : found[1] = x
    BY <1>1, <1>2, <2>1 DEF Lists
  <2>3. QED
    BY <2>2
<1>3. ASSUME NEW x, S = {x} PROVE Len(found) = 1
  <2>1. CASE Len(found) > 1
    <3>1. 1 \in DOMAIN found /\ 2 \in DOMAIN found /\ found[1] = found[2]
      BY <1>1, <1>3, <2>1
    <3>2. QED
      BY <3>1 DEF Lists
  <2>2. CASE Len(found) = 0
    <3>1. DOMAIN found = {} /\ Len(found) < max
      BY <1>1, <2>2
    <3>2. QED
      BY <1>3, <3>1 DEF Lists
  <2>3. QED
    BY <1>1, <2>1, <2>2
<1>4. QED
  BY <1>2, <1>3

(* find_pattern.                                                           *)
LEMMA FindPatternLists ==
  ASSUME NEW hay, NEW length \in Nat, NEW pattern, Len(pattern) \in Nat, NEW max \in Nat
  PROVE  Lists(FindPattern(hay, length, pattern, max),
               {o \in 0 .. length - Len(pattern) : MatchesAt(hay, pattern, o)}, max)
<1> DEFINE There(n) == {o \in 0 .. n - 1 : MatchesAt(hay, pattern, o)}
           F == CHOOSE f : f = [n \in Nat |-> IF n = 0 THEN <<>> ELSE LookAt(f[n - 1], hay, pattern, n - 1, max)]
           step == [x \in Nat \X Seq(Nat) |-> LookAt(x[2], hay, pattern, x[1], max)]
<1>1. step \in [Nat \X Seq(Nat) -> Seq(Nat)]
  <2>1. ASSUME NEW x \in Nat \X Seq(Nat) PROVE LookAt(x[2], hay, pattern, x[1], max) \in Seq(Nat)
    <3>1. x[2] \in Seq(Nat) /\ x[1] \in Nat
      OBVIOUS
    <3>2. Append(x[2], x[1]) \in Seq(Nat)
      BY <3>1
    <3>3. QED
      BY <3>1, <3>2 DEF LookAt
  <2>2. QED
    BY <2>1
<1>2. PICK f : Iterates(f, Seq(Nat), <<>>, step)
  <2>1. <<>> \in Seq(Nat)
    OBVIOUS
  <2> HIDE DEF step
  <2>2. QED
    BY <1>1, <2>1, Iteration
<1>3. /\ f \in [Nat -> Seq(Nat)] /\ f[0] = <<>>
      /\ \A n \in Nat : f[n + 1] = LookAt(f[n], hay, pattern, n, max)
  BY <1>2 DEF Iterates
<1>4. f = [n \in Nat |-> IF n = 0 THEN <<>> ELSE LookAt(f[n - 1], hay, pattern, n - 1, max)]
  <2>1. ASSUME NEW n \in Nat
        PROVE  f[n] = IF n = 0 THEN <<>> ELSE LookAt(f[n - 1], hay, pattern, n - 1, max)
    <3>1. CASE n = 0
      BY <1>3, <3>1
    <3>2. CASE n # 0
      <4>1. n - 1 \in Nat /\ (n - 1) + 1 = n
        BY <3>2
      <4>2. f[(n - 1) + 1] = LookAt(f[n - 1], hay, pattern, n - 1, max)
        BY <1>3, <4>1
      <4>3. QED
        BY <3>2, <4>1, <4>2
    <3>3. QED
      BY <3>1, <3>2
  <2>2. QED
    BY <1>3, <2>1
<1>5. F = [n \in Nat |-> IF n = 0 THEN <<>> ELSE LookAt(F[n - 1], hay, pattern, n - 1, max)]
  BY <1>4
<1>6. FindPattern(hay, length, pattern, max) =
        IF length < Len(pattern) THEN <<>> ELSE F[length - Len(pattern) + 1]
  BY DEF FindPattern
<1> HIDE DEF F
<1>a. ASSUME NEW n \in Nat PROVE F[n + 1] = LookAt(F[n], hay, pattern, n, max)
  <2>1. n + 1 \in Nat /\ n + 1 # 0 /\ (n + 1) - 1 = n
    OBVIOUS
  <2>2. F[n + 1] = LookAt(F[(n + 1) - 1], hay, pattern, (n + 1) - 1, max)
    BY <1>5, <2>1
  <2>3. QED
    BY <2>1, <2>2
<1>b. ASSUME NEW n \in Nat
      PROVE  /\ MatchesAt(hay, pattern, n) => There(n + 1) = There(n) \union {n} /\ n \notin There(n)
             /\ ~MatchesAt(hay, pattern, n) => There(n + 1) = There(n)
  <2>1. n \notin There(n)
    OBVIOUS
  <2>2. \A o \in There(n + 1) : o \in There(n) \/ (o = n /\ MatchesAt(hay, pattern, n))
    OBVIOUS
  <2>3. There(n) \subseteq There(n + 1) /\ (MatchesAt(hay, pattern, n) => n \in There(n + 1))
    OBVIOUS
  <2> HIDE DEF There
  <2>4. QED
    BY <2>1, <2>2, <2>3
<1> DEFINE S == {n \in Nat : Lists(F[n], There(n), max)}
<1>7. 0 \in S
  <2>1. F[0] = <<>> /\ There(0) = {}
    BY <1>5
  <2>2. QED
    BY <2>1, ListsNothing
<1>8. ASSUME NEW n \in S PROVE n + 1 \in S
  <2>1. n \in Nat /\ n + 1 \in Nat /\ Lists(F[n], There(n), max)
    OBVIOUS
  <2> HIDE DEF There, S
  <2>2. CASE MatchesAt(hay, pattern, n)
    <3>1. F[n + 1] = IF Len(F[n]) < max THEN Append(F[n], n) ELSE F[n]
      BY <1>a, <2>1, <2>2 DEF LookAt
    <3>2. There(n + 1) = There(n) \union {n} /\ n \notin There(n)
      BY <1>b, <2>1, <2>2
    <3>3. Lists(IF Len(F[n]) < max THEN Append(F[n], n) ELSE F[n], There(n) \union {n}, max)
      BY <2>1, <3>2, ListsOneMore
    <3>4. QED
      BY <2>1, <3>1, <3>2, <3>3 DEF S
  <2>3. CASE ~MatchesAt(hay, pattern, n)
    <3>1. F[n + 1] = F[n]
      BY <1>a, <2>1, <2>3 DEF LookAt
    <3>2. QED
      BY <1>b, <2>1, <2>3, <3>1 DEF S
  <2>4. QED
    BY <2>2, <2>3
<1>9. S = Nat
  <2>1. S \in SUBSET Nat
    OBVIOUS
  <2> HIDE DEF S
  <2>2. QED
    BY <1>7, <1>8, <2>1, Induct
<1>10. CASE length < Len(pattern)
  <2>1. {o \in 0 .. length - Len(pattern) : MatchesAt(hay, pattern, o)} = {}
    BY <1>10
  <2>2. QED
    BY <1>6, <1>10, <2>1, ListsNothing
<1>11. CASE ~(length < Len(pattern))
  <2> DEFINE n == length - Len(pattern) + 1
  <2>1. n \in Nat /\ n - 1 = length - Len(pattern)
    BY <1>11
  <2>2. Lists(F[n], There(n), max)
    BY <1>9, <2>1
  <2>3. QED
    BY <1>6, <1>11, <2>1, <2>2
<1>12. QED
  BY <1>10, <1>11

-----------------------------------------------------------------------------
(* find_pattern_rvas.                                                      *)

Sections == [va : Nat, vsize : Nat, raw : Nat, rsize : Nat, code : BOOLEAN]
InSection(im, memory, pattern, s) ==
  {a \in 0 .. im.size - 1 :
     /\ s.code /\ a >= s.va
     /\ a + Len(pattern) <= Min({im.size, s.va + Extent(s)})
     /\ MatchesAt(memory, pattern, a)}

LEMMA MinOfTwo ==
  ASSUME NEW x \in Nat, NEW y \in Nat
  PROVE  Min({x, y}) \in Nat /\ \A z \in Int : z <= Min({x, y}) <=> z <= x /\ z <= y
<1>1. {x, y} \in SUBSET Nat /\ {x, y} # {}
  OBVIOUS
<1>2. Min({x, y}) \in {x, y} /\ Min({x, y}) <= x /\ Min({x, y}) <= y
  BY <1>1, Least
<1>3. QED
  BY <1>2

LEMMA ExtentType == ASSUME NEW s \in Sections PROVE Extent(s) \in Nat
BY DEF Sections, Extent

LEMMA ScanSizeIs ==
  ASSUME NEW im, im.size \in Nat, NEW s \in Sections
  PROVE  /\ ScanSize(im, s) \in Nat
         /\ \A o \in Nat : \A n \in Nat \ {0} :
              o + n <= ScanSize(im, s) <=> (s.va + o) + n <= Min({im.size, s.va + Extent(s)})
<1> DEFINE e == Extent(s)
           size == im.size
           va == s.va
<1>1. e \in Nat /\ va \in Nat /\ size \in Nat
  BY ExtentType DEF Sections
<1>2. ScanSize(im, s) = IF va >= size THEN 0 ELSE Min({e, size - va})
  BY DEF ScanSize
<1> HIDE DEF e, size, va
<1>3. \A z \in Int : z <= Min({size, va + e}) <=> z <= size /\ z <= va + e
  BY <1>1, MinOfTwo
<1>4. CASE va >= size
  BY <1>1, <1>2, <1>3, <1>4 DEF e, size, va
<1>5. CASE ~(va >= size)
  <2>1. size - va \in Nat
    BY <1>1, <1>5
  <2>2. ScanSize(im, s) \in Nat /\ \A z \in Int : z <= ScanSize(im, s) <=> z <= e /\ z <= size - va
    BY <1>1, <1>2, <1>5, <2>1, MinOfTwo
  <2>3. ASSUME NEW o \in Nat, NEW n \in Nat \ {0}
        PROVE  o + n <= ScanSize(im, s) <=> (va + o) + n <= Min({size, va + e})
    <3>1. o + n <= ScanSize(im, s) <=> o + n <= e /\ o + n <= size - va
      BY <2>2
    <3>2. (va + o) + n <= Min({size, va + e}) <=> (va + o) + n <= size /\ (va + o) + n <= va + e
      BY <1>1, <1>3
    <3>3. QED
      BY <1>1, <3>1, <3>2
  <2>4. QED
    BY <2>2, <2>3 DEF e, size, va
<1>6. QED
  BY <1>4, <1>5

\* Where a section has the pattern, counted from its own address.
OffsetsIn(im, memory, pattern, s) ==
  {o \in 0 .. ScanSize(im, s) - Len(pattern) : MatchesAt(SectionBytes(im, memory, s), pattern, o)}

LEMMA InSectionIs ==
  ASSUME NEW im, im.size \in Nat, NEW memory, NEW s \in Sections, s.code,
         NEW T, NEW pattern \in Seq(T), pattern # <<>>
  PROVE  InSection(im, memory, pattern, s) = {s.va + o : o \in OffsetsIn(im, memory, pattern, s)}
<1> DEFINE n == Len(pattern)
           va == s.va
           scan == ScanSize(im, s)
           most == Min({im.size, va + Extent(s)})
           bytes == SectionBytes(im, memory, s)
<1>1. n \in Nat \ {0} /\ DOMAIN pattern = 1 .. n /\ va \in Nat
  BY EmptySeq, LenProperties DEF Sections
<1>2. /\ scan \in Nat
      /\ \A o \in Nat : o + n <= scan <=> (va + o) + n <= most
  BY <1>1, ScanSizeIs
<1>3. /\ \A z \in Int : z <= most => z <= im.size
      /\ most \in Nat
  <2>1. va + Extent(s) \in Nat
    BY <1>1, ExtentType
  <2>2. QED
    BY <2>1, MinOfTwo
<1>4. bytes = [a \in 0 .. scan - 1 |-> memory[va + a]]
  BY DEF SectionBytes
<1> HIDE DEF n, va, scan, most, bytes
<1>5. ASSUME NEW o \in Nat, o + n <= scan
      PROVE  MatchesAt(bytes, pattern, o) <=> MatchesAt(memory, pattern, va + o)
  <2>1. ASSUME NEW i \in 1 .. n PROVE bytes[o + i - 1] = memory[(va + o) + i - 1]
    <3>1. o + i - 1 \in 0 .. scan - 1 /\ va + (o + i - 1) = (va + o) + i - 1
      BY <1>1, <1>2, <1>5
    <3>2. bytes[o + i - 1] = memory[va + (o + i - 1)]
      BY <1>4, <3>1
    <3>3. QED
      BY <3>1, <3>2
  <2>2. QED
    BY <1>1, <2>1 DEF MatchesAt
<1>6. InSection(im, memory, pattern, s)
        = {a \in 0 .. im.size - 1 : a >= va /\ a + n <= most /\ MatchesAt(memory, pattern, a)}
  BY DEF InSection, n, va, most
<1>7. OffsetsIn(im, memory, pattern, s) = {o \in 0 .. scan - n : MatchesAt(bytes, pattern, o)}
  BY DEF OffsetsIn, n, scan, bytes
<1>8. ASSUME NEW a \in InSection(im, memory, pattern, s)
      PROVE  \E o \in OffsetsIn(im, memory, pattern, s) : a = va + o
  <2> DEFINE o == a - va
  <2>1. o \in Nat /\ a = va + o /\ (va + o) + n <= most /\ MatchesAt(memory, pattern, va + o)
    BY <1>1, <1>6, <1>8
  <2>2. o + n <= scan
    BY <1>2, <2>1
  <2>3. o \in 0 .. scan - n /\ MatchesAt(bytes, pattern, o)
    BY <1>1, <1>2, <1>5, <2>1, <2>2
  <2> HIDE DEF o
  <2>4. QED
    BY <1>7, <2>1, <2>3
<1>9. ASSUME NEW o \in OffsetsIn(im, memory, pattern, s)
      PROVE  va + o \in InSection(im, memory, pattern, s)
  <2>1. o \in Nat /\ o + n <= scan /\ MatchesAt(bytes, pattern, o)
    BY <1>1, <1>2, <1>7
  <2>2. (va + o) + n <= most /\ MatchesAt(memory, pattern, va + o)
    BY <1>2, <1>5, <2>1
  <2>3. (va + o) + n <= im.size
    BY <1>1, <1>3, <2>1, <2>2
  <2>4. va + o \in 0 .. im.size - 1 /\ va + o >= va
    BY <1>1, <2>1, <2>3
  <2>5. QED
    BY <1>6, <2>2, <2>4
<1>10. QED
  BY <1>8, <1>9 DEF va

LEMMA ListsShifted ==
  ASSUME NEW S \in SUBSET Nat, NEW max \in Nat, NEW v \in Nat, NEW found, Lists(found, S, max)
  PROVE  Lists([i \in DOMAIN found |-> v + found[i]], {v + o : o \in S}, max)
<1> DEFINE n == Len(found)
           T == {v + o : o \in S}
           shifted == [i \in 1 .. n |-> v + found[i]]
<1>1. /\ n \in Nat /\ DOMAIN found = 1 .. n /\ n <= max
      /\ \A i \in 1 .. n : found[i] \in S /\ found[i] \in Nat
      /\ \A i, j \in 1 .. n : found[i] = found[j] => i = j
      /\ n < max => \A x \in S : \E i \in 1 .. n : found[i] = x
  <2>1. n \in Nat /\ DOMAIN found = 1 .. n
    BY LenProperties DEF Lists
  <2>2. \A i \in 1 .. n : found[i] \in S
    BY ElementOfSeq DEF Lists
  <2>3. QED
    BY <2>1, <2>2 DEF Lists
<1>2. \A i \in 1 .. n : v + found[i] \in T
  BY <1>1
<1>3. shifted \in Seq(T) /\ Len(shifted) = n /\ DOMAIN shifted = 1 .. n
  BY <1>1, <1>2
<1>4. \A i, j \in 1 .. n : shifted[i] = shifted[j] => i = j
  BY <1>1
<1>5. ASSUME n < max, NEW y \in T PROVE \E i \in 1 .. n : shifted[i] = y
  <2>1. PICK o \in S : y = v + o
    OBVIOUS
  <2>2. PICK i \in 1 .. n : found[i] = o
    BY <1>1, <1>5
  <2>3. QED
    BY <2>1, <2>2
<1> HIDE DEF n, T, shifted
<1>6. Lists(shifted, T, max)
  BY <1>1, <1>3, <1>4, <1>5 DEF Lists
<1>7. QED
  BY <1>1, <1>6 DEF T, shifted

LEMMA LookInTyped ==
  ASSUME NEW im, im.size \in Nat, NEW memory, NEW pattern, Len(pattern) \in Nat, NEW s \in Sections,
         NEW found \in Seq(Nat), Len(found) <= Limit
  PROVE  /\ LookIn(found, im, memory, pattern, s) \in Seq(Nat)
         /\ Len(LookIn(found, im, memory, pattern, s)) <= Limit
<1> DEFINE room == Limit - Len(found)
           more == FindPattern(SectionBytes(im, memory, s), ScanSize(im, s), pattern, room)
           shifted == [i \in DOMAIN more |-> s.va + more[i]]
<1>1. room \in Nat /\ Len(found) \in Nat
  BY DEF Limit
<1>2. Lists(more, OffsetsIn(im, memory, pattern, s), room)
  BY <1>1, ScanSizeIs, FindPatternLists DEF OffsetsIn
<1>3. OffsetsIn(im, memory, pattern, s) \in SUBSET Nat /\ s.va \in Nat
  BY DEF OffsetsIn, Sections
<1> HIDE DEF more, room
<1>4. Lists(shifted, {s.va + o : o \in OffsetsIn(im, memory, pattern, s)}, room)
  BY <1>1, <1>2, <1>3, ListsShifted
<1>5. {s.va + o : o \in OffsetsIn(im, memory, pattern, s)} \subseteq Nat
  BY <1>3
<1>6. shifted \in Seq(Nat) /\ Len(shifted) <= room
  <2> HIDE DEF shifted
  <2>1. QED
    BY <1>4, <1>5, SeqMonotonic DEF Lists
<1>7. LookIn(found, im, memory, pattern, s) = IF ~s.code \/ Len(found) = Limit THEN found ELSE found \o shifted
  BY DEF LookIn, more, room
<1> HIDE DEF shifted
<1>8. found \o shifted \in Seq(Nat) /\ Len(found \o shifted) = Len(found) + Len(shifted) /\ Len(shifted) \in Nat
  BY <1>6, ConcatProperties, LenProperties
<1>9. QED
  BY <1>1, <1>6, <1>7, <1>8 DEF room, Limit

LEMMA LookInLists ==
  ASSUME NEW im, im.size \in Nat, NEW memory, NEW s \in Sections,
         NEW T, NEW pattern \in Seq(T), pattern # <<>>,
         NEW S, NEW found, Lists(found, S, Limit), S \cap InSection(im, memory, pattern, s) = {}
  PROVE  Lists(LookIn(found, im, memory, pattern, s), S \union InSection(im, memory, pattern, s), Limit)
<1> DEFINE room == Limit - Len(found)
           here == InSection(im, memory, pattern, s)
           more == FindPattern(SectionBytes(im, memory, s), ScanSize(im, s), pattern, room)
           shifted == [i \in DOMAIN more |-> s.va + more[i]]
<1>1. found \in Seq(S) /\ Len(found) \in Nat /\ Len(found) <= Limit /\ Limit \in Nat /\ Len(pattern) \in Nat
  BY LenProperties DEF Lists, Limit
<1>2. room \in Nat
  BY <1>1 DEF Limit
<1>3. LookIn(found, im, memory, pattern, s) = IF ~s.code \/ Len(found) = Limit THEN found ELSE found \o shifted
  BY DEF LookIn
<1>4. CASE ~s.code
  <2>1. here = {}
    BY <1>4 DEF InSection
  <2>2. S \union here = S
    BY <2>1
  <2>3. QED
    BY <1>3, <1>4, <2>2
<1>5. CASE s.code /\ Len(found) = Limit
  <2>1. Lists(<<>>, here, Limit - Len(found))
    <3>1. Limit - Len(found) = 0
      BY <1>1, <1>5
    <3>2. <<>> \in Seq(here) /\ Len(<<>>) = 0 /\ DOMAIN <<>> = {}
      OBVIOUS
    <3> HIDE DEF here, room
    <3>3. QED
      BY <3>1, <3>2 DEF Lists
  <2>2. Lists(found \o <<>>, S \union here, Limit)
    <3> HIDE DEF here, room
    <3>1. QED
      BY <1>1, <2>1, ListsMore DEF here
  <2>3. found \o <<>> = found
    BY <1>1, ConcatEmptySeq
  <2>4. QED
    BY <1>3, <1>5, <2>2, <2>3
<1>6. CASE s.code /\ Len(found) # Limit
  <2>1. Lists(more, OffsetsIn(im, memory, pattern, s), room)
    BY <1>1, <1>2, ScanSizeIs, FindPatternLists DEF OffsetsIn
  <2>2. OffsetsIn(im, memory, pattern, s) \in SUBSET Nat /\ s.va \in Nat
    BY DEF OffsetsIn, Sections
  <2> HIDE DEF more, room
  <2>3. Lists(shifted, {s.va + o : o \in OffsetsIn(im, memory, pattern, s)}, room)
    BY <1>2, <2>1, <2>2, ListsShifted
  <2>4. here = {s.va + o : o \in OffsetsIn(im, memory, pattern, s)}
    BY <1>6, InSectionIs
  <2>5. Lists(shifted, here, Limit - Len(found))
    BY <2>3, <2>4 DEF room
  <2> HIDE DEF shifted, here
  <2>6. Lists(found \o shifted, S \union here, Limit)
    BY <1>1, <2>5, ListsMore DEF here
  <2>7. QED
    BY <1>3, <1>6, <2>6 DEF here
<1>7. QED
  BY <1>4, <1>5, <1>6

LEMMA LoadableTypes ==
  ASSUME NEW im, Loadable(im)
  PROVE  /\ im.raw \in Seq(Byte) /\ im.size \in Nat /\ Len(im.raw) \in Nat
         /\ Len(im.sections) \in Nat /\ DOMAIN im.sections = 1 .. Len(im.sections)
         /\ \A i \in 1 .. Len(im.sections) : im.sections[i] \in Sections
         /\ Range(im.sections) = {im.sections[i] : i \in 1 .. Len(im.sections)}
<1>1. im.raw \in Seq(Byte) /\ im.size \in Nat /\ im.sections \in Seq(Sections)
  BY DEF Loadable, Sections
<1>2. /\ Len(im.sections) \in Nat /\ DOMAIN im.sections = 1 .. Len(im.sections)
      /\ Len(im.raw) \in Nat
  BY <1>1, LenProperties
<1>3. \A i \in 1 .. Len(im.sections) : im.sections[i] \in Sections
  BY <1>1, ElementOfSeq
<1>4. QED
  BY <1>1, <1>2, <1>3 DEF Range

(* No match is in two sections.                                            *)
LEMMA SectionsApart ==
  ASSUME NEW im, Loadable(im), NEW memory, NEW T, NEW pattern \in Seq(T), pattern # <<>>,
         NEW i \in 1 .. Len(im.sections), NEW j \in 1 .. Len(im.sections), i # j
  PROVE  InSection(im, memory, pattern, im.sections[i]) \cap InSection(im, memory, pattern, im.sections[j]) = {}
<1>1. ASSUME NEW k \in 1 .. Len(im.sections)
      PROVE  InSection(im, memory, pattern, im.sections[k]) \subseteq Addresses(im.sections[k])
  <2> DEFINE s == im.sections[k]
             e == Extent(s)
             n == Len(pattern)
  <2>1. s \in Sections /\ e \in Nat /\ s.va \in Nat /\ n \in Nat \ {0} /\ im.size \in Nat
    BY LoadableTypes, ExtentType, EmptySeq DEF Sections
  <2>2. ASSUME NEW a \in InSection(im, memory, pattern, s) PROVE a \in s.va .. s.va + e - 1
    <3>1. a \in Nat /\ a >= s.va /\ a + n <= Min({im.size, s.va + e})
      BY <2>1, <2>2 DEF InSection
    <3>2. s.va + e \in Nat
      BY <2>1
    <3>3. a + n <= s.va + e
      <4> DEFINE v == s.va + e
                 size == im.size
      <4>1. v \in Nat /\ size \in Nat /\ a + n \in Int /\ a + n <= Min({size, v})
        BY <2>1, <3>1, <3>2
      <4> HIDE DEF v, size
      <4>2. a + n <= v
        BY <4>1, MinOfTwo
      <4>3. QED
        BY <4>2 DEF v
    <3> HIDE DEF s, e, n
    <3>4. QED
      BY <2>1, <3>1, <3>3
  <2>3. QED
    BY <2>2 DEF Addresses
<1>2. Addresses(im.sections[i]) \cap Addresses(im.sections[j]) = {}
  BY LoadableTypes DEF Loadable
<1>3. QED
  BY <1>1, <1>2

(* find_pattern_rvas: for every image the loader takes and every pattern   *)
(* it lists exactly the matches in the code of the module, each once, in as*)
(* far as the limit allows.                                                *)
THEOREM FindPatternRvasLists ==
  ASSUME NEW im, Loadable(im), NEW T, NEW pattern \in Seq(T), pattern # <<>>
  PROVE  Lists(FindPatternRvas(im, pattern), CodeMatches(im, pattern), Limit)
<1> DEFINE N == Len(im.sections)
           memory == Memory(im)
           A == {x \in Seq(Nat) : Len(x) <= Limit}
           In(i) == InSection(im, memory, pattern, im.sections[i])
           After(n) == UNION {In(i) : i \in 1 .. n}
           Look(found, n) == LookIn(found, im, memory, pattern, im.sections[n])
           F == CHOOSE f : f = [n \in 0 .. N |-> IF n = 0 THEN <<>> ELSE Look(f[n - 1], n)]
           step == [x \in Nat \X A |-> IF x[1] + 1 \in 1 .. N THEN Look(x[2], x[1] + 1) ELSE x[2]]
<1>1. /\ im.size \in Nat /\ N \in Nat /\ Len(pattern) \in Nat
      /\ \A i \in 1 .. N : im.sections[i] \in Sections
  BY LoadableTypes, LenProperties
<1>2. step \in [Nat \X A -> A]
  <2>1. ASSUME NEW found \in A, NEW n \in 1 .. N PROVE Look(found, n) \in A
    BY <1>1, LookInTyped
  <2> HIDE DEF Look, A
  <2>2. QED
    BY <2>1
<1>3. PICK f : Iterates(f, A, <<>>, step)
  <2>1. <<>> \in A
    BY DEF Limit
  <2> HIDE DEF step, A
  <2>2. QED
    BY <1>2, <2>1, Iteration
<1>4. /\ f \in [Nat -> A] /\ f[0] = <<>>
      /\ \A n \in Nat : n + 1 \in 1 .. N => f[n + 1] = Look(f[n], n + 1)
  <2> HIDE DEF A, Look
  <2>1. f \in [Nat -> A] /\ f[0] = <<>> /\ \A n \in Nat : f[n + 1] = step[<<n, f[n]>>]
    BY <1>3 DEF Iterates
  <2>2. QED
    BY <2>1
<1> DEFINE g == [n \in 0 .. N |-> f[n]]
<1>5. g = [n \in 0 .. N |-> IF n = 0 THEN <<>> ELSE Look(g[n - 1], n)]
  <2> HIDE DEF A, Look
  <2>1. ASSUME NEW n \in 0 .. N
        PROVE  f[n] = IF n = 0 THEN <<>> ELSE Look(g[n - 1], n)
    <3>1. CASE n = 0
      BY <1>4, <3>1
    <3>2. CASE n # 0
      <4>1. n - 1 \in Nat /\ (n - 1) + 1 = n /\ n \in 1 .. N /\ n - 1 \in 0 .. N
        BY <1>1, <3>2
      <4>2. f[(n - 1) + 1] = Look(f[n - 1], (n - 1) + 1)
        BY <1>4, <4>1
      <4>3. g[n - 1] = f[n - 1]
        BY <4>1
      <4>4. QED
        BY <3>2, <4>1, <4>2, <4>3
    <3>3. QED
      BY <3>1, <3>2
  <2>2. QED
    BY <2>1
<1> HIDE DEF g
<1>6. F = [n \in 0 .. N |-> IF n = 0 THEN <<>> ELSE Look(F[n - 1], n)]
  BY <1>5
<1>7. FindPatternRvas(im, pattern) = F[N]
  BY DEF FindPatternRvas
<1> HIDE DEF F
<1>8. ASSUME NEW n \in Nat, n + 1 <= N PROVE F[n + 1] = Look(F[n], n + 1)
  <2>1. n + 1 \in 0 .. N /\ n + 1 # 0 /\ (n + 1) - 1 = n
    BY <1>1, <1>8
  <2> HIDE DEF Look
  <2>2. F[n + 1] = Look(F[(n + 1) - 1], n + 1)
    BY <1>6, <2>1
  <2>3. QED
    BY <2>1, <2>2
<1> DEFINE S == {n \in Nat : n <= N => Lists(F[n], After(n), Limit)}
<1>9. 0 \in S
  <2>1. F[0] = <<>> /\ After(0) = {}
    BY <1>1, <1>6
  <2>2. Limit \in Nat
    BY DEF Limit
  <2>3. Lists(F[0], After(0), Limit)
    BY <2>1, <2>2, ListsNothing
  <2>4. QED
    BY <2>3
<1>10. ASSUME NEW n \in S PROVE n + 1 \in S
  <2>1. n \in Nat /\ n + 1 \in Nat /\ (n <= N => Lists(F[n], After(n), Limit))
    OBVIOUS
  <2>2. CASE n + 1 <= N
    <3>1. n + 1 \in 1 .. N /\ n <= N
      BY <1>1, <2>1, <2>2
    <3>2. \A i \in 1 .. n : In(i) \cap In(n + 1) = {}
      <4>1. ASSUME NEW i \in 1 .. n PROVE In(i) \cap In(n + 1) = {}
        <5>1. i \in 1 .. N /\ i # n + 1
          BY <1>1, <2>1, <3>1
        <5>2. QED
          BY <3>1, <5>1, SectionsApart
      <4>2. QED
        BY <4>1
    <3>3. After(n) \cap In(n + 1) = {}
      <4> HIDE DEF In
      <4>1. QED
        BY <3>2
    <3>4. After(n + 1) = After(n) \union In(n + 1)
      <4>1. 1 .. n + 1 = (1 .. n) \union {n + 1}
        BY <2>1
      <4> HIDE DEF In
      <4>2. QED
        BY <4>1
    <3>5. Lists(F[n], After(n), Limit)
      BY <2>1, <3>1
    <3> DEFINE B == After(n)
    <3> HIDE DEF After, S, B
    <3>6. Lists(LookIn(F[n], im, memory, pattern, im.sections[n + 1]),
                B \union InSection(im, memory, pattern, im.sections[n + 1]), Limit)
      <4>1. im.sections[n + 1] \in Sections
        BY <1>1, <3>1
      <4>2. B \cap InSection(im, memory, pattern, im.sections[n + 1]) = {} /\ Lists(F[n], B, Limit)
        BY <3>3, <3>5 DEF B
      <4> HIDE DEF memory
      <4>3. QED
        BY <1>1, <4>1, <4>2, LookInLists
    <3>7. Lists(F[n + 1], After(n + 1), Limit)
      BY <1>8, <2>1, <2>2, <3>4, <3>6 DEF B
    <3>8. QED
      BY <2>1, <3>7 DEF S
  <2>3. CASE ~(n + 1 <= N)
    BY <2>1, <2>3
  <2>4. QED
    BY <2>2, <2>3
<1>11. S = Nat
  <2>1. S \in SUBSET Nat
    OBVIOUS
  <2> HIDE DEF S
  <2>2. QED
    BY <1>9, <1>10, <2>1, Induct
<1>12. Lists(F[N], After(N), Limit)
  <2>1. N <= N
    BY <1>1
  <2>2. \A n \in Nat : n <= N => Lists(F[n], After(n), Limit)
    BY <1>11
  <2> HIDE DEF After, N, S
  <2>3. QED
    BY <1>1, <2>1, <2>2
<1>13. After(N) = CodeMatches(im, pattern)
  <2>1. Range(im.sections) = {im.sections[i] : i \in 1 .. N}
    BY LoadableTypes
  <2>2. \A a : a \in CodeMatches(im, pattern)
                 <=> \E s \in Range(im.sections) : a \in InSection(im, memory, pattern, s)
    BY DEF CodeMatches, InSection
  <2>3. \A a : a \in After(N) <=> \E i \in 1 .. N : a \in InSection(im, memory, pattern, im.sections[i])
    OBVIOUS
  <2>4. QED
    BY <2>1, <2>2, <2>3
<1>14. QED
  BY <1>7, <1>12, <1>13

-----------------------------------------------------------------------------
(* What a resolution says.                                                 *)

LEMMA Compiled ==
  ASSUME NEW d \in Descriptors, CompilePattern(d.pattern) # None
  PROVE  /\ d.pattern \in Seq(Byte \union {Wild, Bad}) /\ d.pattern # <<>>
         /\ CompilePattern(d.pattern) = d.pattern
BY DEF Descriptors, CompilePattern

(* resolve_mapped_signature, for one descriptor.                           *)
LEMMA MappedResolution ==
  ASSUME NEW im, Loadable(im), NEW d \in Descriptors
  PROVE  LET matches == CodeMatches(im, d.pattern)
             found == ResolveMappedSignature(im, d)
         IN /\ matches \subseteq Nat
            /\ \A a : CompilePattern(d.pattern) # None /\ matches = {a} => found = Resolved(d, a)
            /\ found # Unresolved =>
                 CompilePattern(d.pattern) # None /\ \E a \in Nat : matches = {a} /\ found = Resolved(d, a)
<1> DEFINE matches == CodeMatches(im, d.pattern)
           rvas == FindPatternRvas(im, d.pattern)
<1>1. matches \subseteq Nat
  BY DEF CodeMatches
<1>2. CASE CompilePattern(d.pattern) = None
  BY <1>1, <1>2 DEF ResolveMappedSignature
<1>3. CASE CompilePattern(d.pattern) # None
  <2>1. CompilePattern(d.pattern) = d.pattern /\ d.pattern \in Seq(Byte \union {Wild, Bad}) /\ d.pattern # <<>>
    BY <1>3, Compiled
  <2>2. Lists(rvas, matches, Limit)
    BY <2>1, FindPatternRvasLists
  <2>3. Limit \in Nat /\ 1 < Limit
    BY DEF Limit
  <2>4. ResolveMappedSignature(im, d) = IF Len(rvas) # 1 THEN Unresolved ELSE Resolved(d, rvas[1])
    BY <1>3, <2>1 DEF ResolveMappedSignature
  <2> HIDE DEF matches, rvas
  <2>5. /\ Len(rvas) = 1 => matches = {rvas[1]}
        /\ \A a : matches = {a} => Len(rvas) = 1
    BY <2>2, <2>3, ListsOne
  <2>6. QED
    BY <1>1, <1>3, <2>4, <2>5 DEF matches
<1>4. QED
  BY <1>2, <1>3

(* resolve_signature, for one descriptor.                                  *)
LEMMA FileResolution ==
  ASSUME NEW im, Loadable(im), NEW d \in Descriptors
  PROVE  LET matches == FileMatches(im, d.pattern)
             found == ResolveSignature(im, d)
         IN \/ found = Unresolved
            \/ /\ CompilePattern(d.pattern) # None
               /\ \E o \in Nat : matches = {o} /\ found = Resolved(d, RvaFromFileOffset(im, o))
<1> DEFINE matches == FileMatches(im, d.pattern)
           n == Len(im.raw)
           hay == [o \in 0 .. n - 1 |-> im.raw[o + 1]]
           found == FindPattern(hay, n, d.pattern, Limit)
<1> SUFFICES ASSUME ResolveSignature(im, d) # Unresolved
             PROVE  /\ CompilePattern(d.pattern) # None
                    /\ \E o \in Nat : matches = {o} /\ ResolveSignature(im, d) = Resolved(d, RvaFromFileOffset(im, o))
  OBVIOUS
<1>1. CompilePattern(d.pattern) # None
  BY DEF ResolveSignature
<1>2. CompilePattern(d.pattern) = d.pattern /\ d.pattern \in Seq(Byte \union {Wild, Bad}) /\ d.pattern # <<>>
  BY <1>1, Compiled
<1>3. Len(found) = 1 /\ ResolveSignature(im, d) = Resolved(d, RvaFromFileOffset(im, found[1]))
  BY <1>1, <1>2 DEF ResolveSignature
<1> DEFINE p == d.pattern
           there == {o \in 0 .. n - Len(p) : MatchesAt(hay, p, o)}
<1>4. n \in Nat /\ Len(p) \in Nat \ {0} /\ DOMAIN p = 1 .. Len(p)
  BY <1>2, LoadableTypes, EmptySeq, LenProperties
<1>5. Limit \in Nat /\ 1 < Limit
  BY DEF Limit
<1>6. Lists(found, there, Limit)
  BY <1>4, <1>5, FindPatternLists
<1>7. there = matches
  <2>1. ASSUME NEW o \in 0 .. n - Len(p)
        PROVE  MatchesAt(hay, p, o) <=> \A i \in DOMAIN p : p[i] \in {Wild, im.raw[o + i]}
    <3>1. ASSUME NEW i \in DOMAIN p PROVE hay[o + i - 1] = im.raw[o + i]
      <4>1. o + i - 1 \in 0 .. n - 1 /\ (o + i - 1) + 1 = o + i
        BY <1>4, <2>1
      <4> HIDE DEF n, p
      <4>2. QED
        BY <4>1
    <3> HIDE DEF hay, n, p
    <3>2. QED
      BY <3>1 DEF MatchesAt
  <2>2. matches = {o \in 0 .. n - Len(p) : \A i \in DOMAIN p : p[i] \in {Wild, im.raw[o + i]}}
    BY DEF FileMatches
  <2> HIDE DEF n, p, hay, matches
  <2>3. QED
    BY <2>1, <2>2
<1>8. matches = {found[1]}
  <2> HIDE DEF there, found, matches
  <2>1. QED
    BY <1>3, <1>5, <1>6, <1>7, ListsOne
<1>9. found[1] \in Nat
  <2> HIDE DEF hay, n, p, matches, found
  <2>1. matches \subseteq Nat
    BY <1>7
  <2>2. QED
    BY <1>8, <2>1
<1>10. QED
  BY <1>1, <1>3, <1>8, <1>9

(* A byte of the module that is from the file.                             *)
LEMMA MemoryFromFile ==
  ASSUME NEW im, Loadable(im), NEW k \in 1 .. Len(im.sections),
         NEW x \in 0 .. im.size - 1, im.sections[k].va <= x,
         x - im.sections[k].va < Min({im.sections[k].rsize, Extent(im.sections[k])})
  PROVE  Memory(im)[x] = im.raw[im.sections[k].raw + x - im.sections[k].va + 1]
<1> DEFINE s == im.sections[k]
           Holds(t) == t.va <= x /\ x - t.va < Min({t.rsize, Extent(t)})
           within == {t \in Range(im.sections) : Holds(t)}
           Place(t) == im.raw[t.raw + x - t.va + 1]
<1>1. /\ x \in Nat /\ im.size \in Nat
      /\ \A i \in 1 .. Len(im.sections) : im.sections[i] \in Sections
      /\ Range(im.sections) = {im.sections[i] : i \in 1 .. Len(im.sections)}
      /\ DOMAIN im.sections = 1 .. Len(im.sections)
  <2>1. im.size \in Nat
    BY LoadableTypes
  <2>2. x \in Nat
    BY <2>1
  <2>3. QED
    BY <2>1, <2>2, LoadableTypes
<1>2. ~(x < im.headers)
  <2>1. im.headers <= s.va /\ im.headers \in Nat /\ s.va \in Nat /\ s.va <= x
    <3>1. im.headers \in 0 .. Len(im.raw) /\ Len(im.raw) \in Nat
      BY LoadableTypes DEF Loadable
    <3>2. im.headers <= s.va
      BY <1>1 DEF Loadable
    <3>3. QED
      BY <1>1, <3>1, <3>2 DEF Sections
  <2>2. QED
    BY <1>1, <2>1
<1>3. ASSUME NEW i \in 1 .. Len(im.sections), Holds(im.sections[i])
      PROVE  x \in Addresses(im.sections[i])
  <2> DEFINE t == im.sections[i]
             e == Extent(t)
             z == x - t.va
             n == t.rsize
             v == t.va
  <2>1. e \in Nat /\ n \in Nat /\ v \in Nat
    BY <1>1, ExtentType DEF Sections
  <2>2. z \in Nat /\ z < Min({n, e}) /\ z = x - v /\ v <= x
    BY <1>1, <1>3, <2>1
  <2>3. Addresses(t) = v .. v + e - 1
    BY DEF Addresses
  <2> HIDE DEF n, e, z, v, t
  <2>4. Min({n, e}) \in Nat /\ \A y \in Int : y <= Min({n, e}) <=> y <= n /\ y <= e
    BY <2>1, MinOfTwo
  <2>5. z + 1 <= Min({n, e}) /\ z + 1 \in Int
    BY <2>2, <2>4
  <2>6. z + 1 <= e
    BY <2>4, <2>5
  <2>7. x \in v .. v + e - 1
    BY <1>1, <2>1, <2>2, <2>6
  <2>8. QED
    BY <2>3, <2>7 DEF t
<1>4. Holds(s)
  OBVIOUS
<1> HIDE DEF Holds
<1>5. ASSUME NEW t \in within PROVE t = s
  <2>1. PICK i \in 1 .. Len(im.sections) : t = im.sections[i]
    BY <1>1
  <2>2. x \in Addresses(im.sections[i]) /\ x \in Addresses(im.sections[k])
    BY <1>3, <1>4, <2>1
  <2>3. i = k
    BY <1>1, <2>2 DEF Loadable
  <2>4. QED
    BY <2>1, <2>3
<1>6. s \in within
  BY <1>1, <1>4
<1>7. within = {s}
  <2> HIDE DEF within
  <2>1. QED
    BY <1>5, <1>6
<1>8. Memory(im)[x] = IF x < im.headers THEN im.raw[x + 1]
                      ELSE IF within = {} THEN 0
                      ELSE Place(CHOOSE t \in within : TRUE)
  BY DEF Memory, Holds
<1> HIDE DEF Place
<1>9. (CHOOSE t \in within : TRUE) = s
  <2> HIDE DEF within, s
  <2>1. QED
    BY <1>7
<1>10. Memory(im)[x] = Place(s)
  <2> HIDE DEF within, s
  <2>1. QED
    BY <1>2, <1>6, <1>8, <1>9
<1>11. QED
  BY <1>10 DEF Place

(* A match that is from the file is where the file has one, and the offset *)
(* of that converts to the address.                                        *)
LEMMA ScansAgree ==
  ASSUME NEW im, Loadable(im), NEW T, NEW p \in Seq(T), p # <<>>, NEW a \in CodeMatches(im, p),
         NEW k \in 1 .. Len(im.sections), a >= im.sections[k].va,
         a + Len(p) <= im.sections[k].va + Min({im.sections[k].rsize, Extent(im.sections[k])})
  PROVE  LET q == im.sections[k].raw + a - im.sections[k].va
         IN q \in FileMatches(im, p) /\ RvaFromFileOffset(im, q) = a
<1> DEFINE s == im.sections[k]
           q == s.raw + a - s.va
           n == Len(p)
           least == Min({s.rsize, Extent(s)})
           va == s.va
           raw == s.raw
           rsize == s.rsize
           size == im.size
           bytes == Len(im.raw)
<1>1. /\ a \in Nat /\ size \in Nat /\ bytes \in Nat /\ n \in Nat \ {0} /\ DOMAIN p = 1 .. n
      /\ va \in Nat /\ raw \in Nat /\ rsize \in Nat /\ Extent(s) \in Nat
      /\ DOMAIN im.sections = 1 .. Len(im.sections) /\ Len(im.sections) \in Nat
      /\ \A i \in 1 .. Len(im.sections) : im.sections[i] \in Sections
  <2>1. /\ size \in Nat /\ bytes \in Nat /\ s \in Sections
        /\ DOMAIN im.sections = 1 .. Len(im.sections) /\ Len(im.sections) \in Nat
        /\ \A i \in 1 .. Len(im.sections) : im.sections[i] \in Sections
    BY LoadableTypes
  <2>2. n \in Nat \ {0} /\ DOMAIN p = 1 .. n
    BY EmptySeq, LenProperties
  <2>3. va \in Nat /\ raw \in Nat /\ rsize \in Nat /\ Extent(s) \in Nat
    BY <2>1, ExtentType DEF Sections
  <2>4. a \in Nat
    BY DEF CodeMatches
  <2>5. QED
    BY <2>1, <2>2, <2>3, <2>4
<1>2. a + n <= size /\ MatchesAt(Memory(im), p, a)
  <2>1. PICK t \in Range(im.sections) : a + n <= Min({size, t.va + Extent(t)})
    BY DEF CodeMatches
  <2>2. PICK i \in 1 .. Len(im.sections) : t = im.sections[i]
    BY LoadableTypes
  <2>3. t.va + Extent(t) \in Nat
    <3>1. t \in Sections
      BY <1>1, <2>2
    <3>2. t.va \in Nat /\ Extent(t) \in Nat
      BY <3>1, ExtentType DEF Sections
    <3>3. QED
      BY <3>2
  <2> DEFINE v == t.va + Extent(t)
  <2>4. v \in Nat /\ a + n \in Int /\ a + n <= Min({size, v})
    BY <1>1, <2>1, <2>3
  <2> HIDE DEF v, size, n
  <2>5. a + n <= size
    BY <1>1, <2>4, MinOfTwo
  <2>6. QED
    BY <2>5 DEF CodeMatches
<1>3. least \in Nat /\ \A y \in Int : y <= least <=> y <= rsize /\ y <= Extent(s)
  <2> HIDE DEF s, rsize
  <2>1. Min({rsize, Extent(s)}) \in Nat /\ \A y \in Int : y <= Min({rsize, Extent(s)}) <=> y <= rsize /\ y <= Extent(s)
    BY <1>1, MinOfTwo
  <2>2. QED
    BY <2>1 DEF rsize
<1>4. va <= a /\ a + n <= va + least /\ raw + rsize <= bytes
  BY <1>1 DEF Loadable
<1>5. q = raw + (a - va) /\ a - va \in Nat
  <2>1. q = raw + a - va
    OBVIOUS
  <2> HIDE DEF q, raw, va
  <2>2. QED
    BY <1>1, <1>4, <2>1
<1>6. \A i \in 1 .. n : Memory(im)[a + i - 1] = im.raw[q + i]
  <2> SUFFICES ASSUME NEW i \in 1 .. n PROVE Memory(im)[a + i - 1] = im.raw[q + i]
    OBVIOUS
  <2> DEFINE x == a + i - 1
  <2>1. i \in Nat /\ x \in 0 .. size - 1 /\ va <= x /\ x - va < least /\ raw + x - va + 1 = q + i
    <3> HIDE DEF q, raw, va, least, size, n
    <3>1. QED
      BY <1>1, <1>2, <1>3, <1>4, <1>5
  <2> HIDE DEF x, q
  <2>2. Memory(im)[x] = im.raw[raw + x - va + 1]
    BY <2>1, MemoryFromFile
  <2>3. QED
    BY <2>1, <2>2 DEF x
<1>7. q + n <= raw + rsize /\ q \in Nat /\ raw <= q /\ q < raw + rsize
  <2>1. (a - va) + n <= least /\ (a - va) + n \in Int
    <3> HIDE DEF q, raw, va, least, n
    <3>1. QED
      BY <1>1, <1>3, <1>4
  <2>2. (a - va) + n <= rsize
    <3> HIDE DEF va, least, n, rsize
    <3>1. QED
      BY <1>3, <2>1
  <2> HIDE DEF q, raw, va, least, n, rsize
  <2>3. QED
    BY <1>1, <1>5, <2>2
<1>8. q \in FileMatches(im, p)
  <2>1. \A i \in 1 .. n : p[i] \in {Wild, im.raw[q + i]}
    BY <1>1, <1>2, <1>6 DEF MatchesAt
  <2>2. q \in 0 .. bytes - n
    <3> HIDE DEF q, raw, rsize, bytes, n
    <3>1. QED
      BY <1>1, <1>4, <1>7
  <2> HIDE DEF q
  <2>3. QED
    BY <1>1, <2>1, <2>2 DEF FileMatches
<1>9. RvaFromFileOffset(im, q) = a
  <2> DEFINE within == {i \in DOMAIN im.sections :
                          LET t == im.sections[i] IN q >= t.raw /\ q < t.raw + t.rsize}
  <2>1. k \in within
    BY <1>1, <1>7
  <2>2. ASSUME NEW i \in within PROVE i = k
    <3>1. i \in 1 .. Len(im.sections)
      BY <1>1
    <3>2. im.sections[i].raw \in Nat /\ im.sections[i].rsize \in Nat
      BY <1>1, <3>1 DEF Sections
    <3>3. q >= im.sections[i].raw /\ q < im.sections[i].raw + im.sections[i].rsize
      BY <2>2
    <3>4. q \in Offsets(im.sections[k])
      <4> HIDE DEF q
      <4>1. q \in raw .. raw + rsize - 1
        <5> HIDE DEF raw, rsize
        <5>1. QED
          BY <1>1, <1>7
      <4>2. QED
        BY <4>1 DEF Offsets
    <3>5. q \in Offsets(im.sections[i])
      <4> HIDE DEF q
      <4>1. QED
        BY <1>7, <3>2, <3>3 DEF Offsets
    <3> HIDE DEF q, within
    <3>6. QED
      BY <1>1, <3>1, <3>4, <3>5 DEF Loadable
  <2>3. within = {k}
    <3> HIDE DEF within
    <3>1. QED
      BY <2>1, <2>2
  <2>4. Min(within) = k
    <3>1. {k} \in SUBSET Nat /\ {k} # {}
      OBVIOUS
    <3>2. Min({k}) \in {k}
      BY <3>1, Least
    <3> HIDE DEF within
    <3>3. QED
      BY <2>3, <3>2
  <2>5. RvaFromFileOffset(im, q) = im.sections[Min(within)].va + q - im.sections[Min(within)].raw
    <3>1. within # {}
      BY <2>1
    <3> HIDE DEF q
    <3>2. QED
      BY <3>1 DEF RvaFromFileOffset
  <2> HIDE DEF within
  <2>6. RvaFromFileOffset(im, q) = va + q - raw
    BY <2>4, <2>5
  <2> HIDE DEF q, va, raw
  <2>7. QED
    BY <1>1, <1>5, <2>6
<1>10. QED
  BY <1>8, <1>9

-----------------------------------------------------------------------------
(* The programs.  What has been resolved is right and in order, a zero in  *)
(* the counts means that nothing failed, and every stage knows what it     *)
(* came through.                                                           *)
InFile == [i \in DOMAIN manifest |-> ResolveSignature(image, manifest[i])]
InModule == [i \in DOMAIN manifest |-> ResolveMappedSignature(image, manifest[i])]
Began(list, all) == \E n \in 0 .. Len(manifest) : list = [i \in 1 .. n |-> all[i]]

Required == {i \in DOMAIN manifest : manifest[i].required}
NotMapped ==
  /\ options.program = "smoke" /\ stage \in {"report", "ended"}
  /\ mapped = <<>> /\ failures.mapped = Cardinality(Required)

FailuresCounted ==
  /\ failures = [file |-> failures.file, mapped |-> failures.mapped]
  /\ failures.file \in 0 .. Len(file)
  /\ failures.file = 0 => \A i \in DOMAIN file : ~Fails(manifest[i], file[i], options.drift)
  /\ \/ NotMapped
     \/ /\ failures.mapped \in 0 .. Len(mapped)
        /\ failures.mapped = 0 => \A i \in DOMAIN mapped : ~Fails(manifest[i], mapped[i], options.drift)

SmokeStages ==
  options.program = "smoke" =>
    /\ stage \in {"open", "file", "map", "mapped", "report", "ended"}
    /\ stage \in {"open", "file", "map"} => mapped = <<>>
    /\ stage = "open" => file = <<>>
    /\ stage \in {"map", "mapped", "report"} \/ exit = "OK" => Len(file) = Len(manifest)
    /\ stage \in {"map", "mapped"} => options.mapped
    /\ (stage = "report" \/ exit = "OK") /\ options.mapped => Len(mapped) = Len(manifest) \/ NotMapped
    /\ exit = "OK" => failures.file = 0 /\ failures.mapped = 0
    /\ hooks = <<>>

HostStages ==
  options.program = "host" =>
    /\ stage \in {"map", "mapped", "install", "ended"}
    /\ stage = "map" => mapped = <<>>
    /\ stage \in {"map", "mapped"} => hooks = <<>>
    /\ stage = "install" \/ hooks # <<>> =>
         /\ Len(mapped) = Len(manifest) /\ options.live
         /\ options.require => failures.mapped = 0
    /\ stage = "ended" /\ hooks # <<>> => DOMAIN hooks = Hooked

Ending ==
  /\ stage = "ended" \/ exit = "running"
  /\ exit \in {"running", "OK", "no image", "no summary", "file", "mapped", "not found", "refused", "install failed"}

HooksKnown ==
  /\ todo \subseteq Hooked
  /\ todo # {} => stage = "install"
  /\ \A i \in DOMAIN hooks : i \in Hooked /\ mapped[i].rva # None /\ hooks[i] = mapped[i].rva

IInv ==
  /\ Given /\ Began(file, InFile) /\ Began(mapped, InModule) /\ FailuresCounted
  /\ SmokeStages /\ HostStages /\ Ending /\ HooksKnown

LEMMA GivenTypes ==
  ASSUME Given
  PROVE  /\ Loadable(image) /\ options \in Options
         /\ Len(manifest) \in Nat /\ DOMAIN manifest = 1 .. Len(manifest)
         /\ \A i \in 1 .. Len(manifest) : manifest[i] \in Descriptors
         /\ options.program = "host" => Hooked \subseteq 1 .. Len(manifest)
<1> DEFINE case == [image |-> image, manifest |-> manifest, options |-> options]
<1>1. case \in Cases /\ case.image = image /\ case.manifest = manifest /\ case.options = options
  BY DEF Given
<1>2. /\ Loadable(image) /\ manifest \in Seq(Descriptors) /\ options \in Options
      /\ options.program = "host" => Hooked \subseteq DOMAIN manifest
  BY <1>1, ManifestAssumption
<1>3. /\ Len(manifest) \in Nat /\ DOMAIN manifest = 1 .. Len(manifest)
      /\ \A i \in 1 .. Len(manifest) : manifest[i] \in Descriptors
  BY <1>2, LenProperties, ElementOfSeq
<1>4. QED
  BY <1>2, <1>3

LEMMA BeganTypes ==
  ASSUME Len(manifest) \in Nat, NEW all, NEW list, Began(list, all)
  PROVE  /\ Len(list) \in 0 .. Len(manifest) /\ DOMAIN list = 1 .. Len(list)
         /\ list = [i \in 1 .. Len(list) |-> all[i]]
         /\ \A i \in 1 .. Len(list) : list[i] = all[i]
<1>1. PICK n \in 0 .. Len(manifest) : list = [i \in 1 .. n |-> all[i]]
  BY DEF Began
<1>2. n \in Nat /\ Len(list) = n
  BY <1>1
<1>3. QED
  BY <1>1, <1>2

(* One more resolution.                                                    *)
LEMMA BeganMore ==
  ASSUME Len(manifest) \in Nat, NEW all, NEW list, Began(list, all), Len(list) + 1 <= Len(manifest)
  PROVE  LET more == Append(list, all[Len(list) + 1])
         IN Began(more, all) /\ Len(more) = Len(list) + 1
<1> DEFINE n == Len(list)
           longer == [i \in 1 .. n + 1 |-> all[i]]
           T == {all[i] : i \in 1 .. n + 1}
<1>1. n \in Nat /\ n + 1 \in 0 .. Len(manifest) /\ list = [i \in 1 .. n |-> all[i]]
  BY BeganTypes
<1> HIDE DEF n
<1>2. list \in Seq(T) /\ all[n + 1] \in T /\ Len(list) = n
  BY <1>1
<1>3. longer \in Seq(T) /\ Len(longer) = n + 1
  BY <1>1
<1>4. /\ Append(list, all[n + 1]) \in Seq(T) /\ Len(Append(list, all[n + 1])) = n + 1
      /\ \A i \in 1 .. n : Append(list, all[n + 1])[i] = all[i]
      /\ Append(list, all[n + 1])[n + 1] = all[n + 1]
  BY <1>1, <1>2, AppendProperties
<1>5. Append(list, all[n + 1]) = longer
  BY <1>1, <1>3, <1>4, SeqEqual
<1>6. QED
  BY <1>1, <1>3, <1>5 DEF Began, n

LEMMA RequiredIsFinite ==
  ASSUME Len(manifest) \in Nat, DOMAIN manifest = 1 .. Len(manifest)
  PROVE  /\ Cardinality(Required) \in 0 .. Len(manifest)
         /\ Cardinality(Required) = 0 => Required = {}
<1>1. PICK M \in Nat : M = Len(manifest)
  OBVIOUS
<1>2. IsFiniteSet(1 .. M) /\ Cardinality(1 .. M) = M
  BY FS_Interval
<1>3. PICK I : I = 1 .. M /\ IsFiniteSet(I) /\ Cardinality(I) = M
  BY <1>2, Zenon
<1>4. Required \in SUBSET I
  BY <1>1, <1>3 DEF Required
<1>5. IsFiniteSet(Required) /\ Cardinality(Required) <= M
  BY <1>3, <1>4, FS_Subset
<1>6. Cardinality(Required) \in Nat /\ (Cardinality(Required) = 0 => Required = {})
  BY <1>5, FS_CardinalityType, FS_EmptySet
<1>7. QED
  BY <1>1, <1>5, <1>6

LEMMA Initially == Init => IInv
<1> SUFFICES ASSUME Init PROVE IInv
  OBVIOUS
<1>1. PICK case \in Cases : image = case.image /\ manifest = case.manifest /\ options = case.options
  BY DEF Init
<1>2. Given
  BY <1>1, ManifestAssumption DEF Given
<1>3. Len(manifest) \in Nat /\ options \in Options
  BY <1>2, GivenTypes
<1>4. \A all : Began(<<>>, all)
  <2>1. \A all : <<>> = [i \in 1 .. 0 |-> all[i]]
    OBVIOUS
  <2>2. 0 \in 0 .. Len(manifest)
    BY <1>3
  <2>3. QED
    BY <2>1, <2>2 DEF Began
<1>5. Began(file, InFile) /\ Began(mapped, InModule)
  BY <1>4 DEF Init
<1>6. FailuresCounted
  BY DEF Init, FailuresCounted
<1>7. SmokeStages /\ HostStages /\ Ending /\ HooksKnown
  BY DEF Init, SmokeStages, HostStages, Ending, HooksKnown
<1>8. QED
  BY <1>2, <1>5, <1>6, <1>7 DEF IInv

LEMMA InputsStay ==
  ASSUME IInv, UNCHANGED inputs
  PROVE  /\ Given' /\ Required' = Required /\ InFile' = InFile /\ InModule' = InModule
         /\ UNCHANGED <<file>> => Began(file, InFile)'
         /\ UNCHANGED <<mapped>> => Began(mapped, InModule)'
<1>1. image' = image /\ manifest' = manifest /\ options' = options
  BY DEF inputs
<1>2. Given' /\ Required' = Required /\ InFile' = InFile /\ InModule' = InModule
  BY <1>1 DEF IInv, Given, Required, InFile, InModule
<1>3. UNCHANGED <<file>> => Began(file, InFile)'
  BY <1>1, <1>2 DEF IInv, Began
<1>4. UNCHANGED <<mapped>> => Began(mapped, InModule)'
  BY <1>1, <1>2 DEF IInv, Began
<1>5. QED
  BY <1>2, <1>3, <1>4

\* The counts stay right when nothing is resolved and no check of the module is given up.
LEMMA CountsStay ==
  ASSUME IInv, UNCHANGED inputs, UNCHANGED <<file, mapped, failures>>, stage = "report" => stage' = "ended",
         stage # "ended"
  PROVE  FailuresCounted' /\ (NotMapped => NotMapped')
<1>1. image' = image /\ manifest' = manifest /\ options' = options /\ Required' = Required
  BY InputsStay DEF inputs
<1>2. NotMapped => NotMapped'
  BY <1>1 DEF NotMapped
<1>3. QED
  BY <1>1, <1>2 DEF IInv, FailuresCounted

LEMMA OpenKeeps == ASSUME IInv, Open PROVE IInv'
<1>1. UNCHANGED inputs /\ UNCHANGED <<file, mapped, failures, todo, hooks>> /\ stage = "open"
  BY DEF Open
<1>2. FailuresCounted'
  BY <1>1, CountsStay
<1>3. SmokeStages' /\ HostStages' /\ Ending' /\ HooksKnown'
  BY DEF Open, Goes, End, inputs, IInv, SmokeStages, HostStages, Ending, HooksKnown
<1>4. QED
  BY <1>1, <1>2, <1>3, InputsStay DEF IInv

LEMMA FileCheckedKeeps == ASSUME IInv, FileChecked PROVE IInv'
<1>1. UNCHANGED inputs /\ UNCHANGED <<file, mapped, failures, todo, hooks>> /\ stage = "file"
  BY DEF FileChecked
<1>2. FailuresCounted'
  BY <1>1, CountsStay
<1>3. SmokeStages' /\ HostStages' /\ Ending' /\ HooksKnown'
  BY DEF FileChecked, Goes, inputs, IInv, SmokeStages, HostStages, Ending, HooksKnown
<1>4. QED
  BY <1>1, <1>2, <1>3, InputsStay DEF IInv

LEMMA ReportKeeps == ASSUME IInv, Report PROVE IInv'
<1>1. UNCHANGED inputs /\ UNCHANGED <<file, mapped, failures, todo, hooks>> /\ stage = "report" /\ stage' = "ended"
  BY DEF Report, End
<1>2. FailuresCounted' /\ (NotMapped => NotMapped')
  BY <1>1, CountsStay
<1>3. SmokeStages' /\ HostStages' /\ Ending' /\ HooksKnown'
  BY <1>2 DEF Report, End, inputs, IInv, SmokeStages, HostStages, Ending, HooksKnown
<1>4. QED
  BY <1>1, <1>2, <1>3, InputsStay DEF IInv

LEMMA ServerMissingKeeps == ASSUME IInv, ServerMissing PROVE IInv'
<1>1. UNCHANGED inputs /\ UNCHANGED <<file, mapped, failures, todo, hooks>> /\ stage = "map"
  BY DEF ServerMissing
<1>2. FailuresCounted'
  BY <1>1, CountsStay
<1>3. SmokeStages' /\ HostStages' /\ Ending' /\ HooksKnown'
  BY DEF ServerMissing, End, inputs, IInv, SmokeStages, HostStages, Ending, HooksKnown
<1>4. QED
  BY <1>1, <1>2, <1>3, InputsStay DEF IInv

LEMMA MapKeeps == ASSUME IInv, Map PROVE IInv'
<1>1. UNCHANGED inputs /\ UNCHANGED <<file, mapped, failures, todo, hooks>> /\ stage = "map"
  BY DEF Map
<1>2. FailuresCounted'
  BY <1>1, CountsStay
<1>3. SmokeStages' /\ HostStages' /\ Ending' /\ HooksKnown'
  BY DEF Map, Goes, inputs, IInv, SmokeStages, HostStages, Ending, HooksKnown
<1>4. QED
  BY <1>1, <1>2, <1>3, InputsStay DEF IInv

LEMMA MappedCheckedKeeps == ASSUME IInv, MappedChecked PROVE IInv'
<1>1. UNCHANGED inputs /\ UNCHANGED <<file, mapped, failures, todo, hooks>> /\ stage = "mapped"
  BY DEF MappedChecked
<1>2. FailuresCounted'
  BY <1>1, CountsStay
<1>3. SmokeStages' /\ HostStages' /\ Ending' /\ HooksKnown'
  BY DEF MappedChecked, Goes, inputs, IInv, SmokeStages, HostStages, Ending, HooksKnown
<1>4. QED
  BY <1>1, <1>2, <1>3, InputsStay DEF IInv

LEMMA GateKeeps == ASSUME IInv, Gate PROVE IInv'
<1>1. UNCHANGED inputs /\ UNCHANGED <<file, mapped, failures, hooks>> /\ stage = "mapped"
  BY DEF Gate
<1>2. FailuresCounted'
  BY <1>1, CountsStay
<1>3. SmokeStages' /\ HostStages' /\ Ending' /\ HooksKnown'
  BY DEF Gate, Goes, End, inputs, IInv, SmokeStages, HostStages, Ending, HooksKnown
<1>4. QED
  BY <1>1, <1>2, <1>3, InputsStay DEF IInv

LEMMA CheckFileKeeps == ASSUME IInv, CheckFile PROVE IInv'
<1> DEFINE i == Len(file) + 1
           found == ResolveSignature(image, manifest[i])
           fails == Fails(manifest[i], found, options.drift)
<1>1. /\ UNCHANGED inputs /\ UNCHANGED <<mapped, todo, hooks, stage, exit>>
      /\ stage = "file" /\ i <= Len(manifest) /\ file' = Append(file, found)
      /\ failures' = [failures EXCEPT !.file = @ + IF fails THEN 1 ELSE 0]
  BY DEF CheckFile, Counted
<1>2. /\ image' = image /\ manifest' = manifest /\ options' = options
      /\ Given' /\ Required' = Required /\ InFile' = InFile /\ Began(mapped, InModule)'
  BY <1>1, InputsStay DEF inputs
<1>3. Len(manifest) \in Nat /\ DOMAIN manifest = 1 .. Len(manifest) /\ Began(file, InFile)
  BY GivenTypes DEF IInv
<1>4. /\ Len(file) \in Nat /\ DOMAIN file = 1 .. Len(file)
      /\ \A j \in 1 .. Len(file) : file[j] = InFile[j]
  BY <1>3, BeganTypes
<1>5. i \in 1 .. Len(manifest) /\ InFile[i] = found
  BY <1>1, <1>3, <1>4 DEF InFile
<1> HIDE DEF found, fails
<1>6. /\ Began(file', InFile) /\ Len(file') = Len(file) + 1
  BY <1>1, <1>3, <1>5, BeganMore
<1>7. /\ DOMAIN file' = 1 .. Len(file) + 1
      /\ \A j \in 1 .. Len(file) + 1 : file'[j] = InFile[j]
  BY <1>3, <1>6, BeganTypes
<1>8. Began(file, InFile)'
  BY <1>2, <1>6 DEF Began
<1>9. FailuresCounted'
  <2>1. /\ failures = [file |-> failures.file, mapped |-> failures.mapped]
        /\ failures.file \in 0 .. Len(file)
        /\ failures.file = 0 => \A j \in DOMAIN file : ~Fails(manifest[j], file[j], options.drift)
        /\ failures.mapped \in 0 .. Len(mapped)
        /\ failures.mapped = 0 => \A j \in DOMAIN mapped : ~Fails(manifest[j], mapped[j], options.drift)
    BY <1>1 DEF IInv, FailuresCounted, NotMapped
  <2>2. failures' = [file |-> failures.file + (IF fails THEN 1 ELSE 0), mapped |-> failures.mapped]
    BY <1>1, <2>1
  <2>3. /\ failures'.mapped = failures.mapped
        /\ failures'.file = failures.file + (IF fails THEN 1 ELSE 0)
        /\ failures'.file \in 0 .. Len(file')
    BY <1>4, <1>6, <2>1, <2>2
  <2>4. ASSUME failures'.file = 0, NEW j \in 1 .. Len(file) + 1
        PROVE  ~Fails(manifest[j], file'[j], options.drift)
    <3>1. failures.file = 0 /\ ~fails
      BY <1>4, <2>1, <2>3, <2>4
    <3>2. CASE j \in 1 .. Len(file)
      <4>1. file'[j] = file[j]
        BY <1>4, <1>7, <3>2
      <4>2. QED
        BY <1>4, <2>1, <3>1, <3>2, <4>1
    <3>3. CASE j = i
      BY <1>5, <1>7, <3>1, <3>3 DEF fails
    <3>4. QED
      BY <1>4, <3>2, <3>3
  <2>5. QED
    BY <1>1, <1>2, <1>7, <2>1, <2>2, <2>3, <2>4 DEF FailuresCounted
<1>10. SmokeStages' /\ HostStages' /\ Ending' /\ HooksKnown'
  BY <1>1, <1>2 DEF IInv, SmokeStages, HostStages, Ending, HooksKnown
<1>11. QED
  BY <1>2, <1>8, <1>9, <1>10 DEF IInv

LEMMA CheckMappedKeeps == ASSUME IInv, CheckMapped PROVE IInv'
<1> DEFINE i == Len(mapped) + 1
           found == ResolveMappedSignature(image, manifest[i])
           fails == Fails(manifest[i], found, options.drift)
<1>1. /\ UNCHANGED inputs /\ UNCHANGED <<file, todo, hooks, stage, exit>>
      /\ stage = "mapped" /\ i <= Len(manifest) /\ mapped' = Append(mapped, found)
      /\ failures' = [failures EXCEPT !.mapped = @ + IF fails THEN 1 ELSE 0]
  BY DEF CheckMapped, Counted
<1>2. /\ image' = image /\ manifest' = manifest /\ options' = options
      /\ Given' /\ Required' = Required /\ InModule' = InModule /\ Began(file, InFile)'
  BY <1>1, InputsStay DEF inputs
<1>3. Len(manifest) \in Nat /\ DOMAIN manifest = 1 .. Len(manifest) /\ Began(mapped, InModule)
  BY GivenTypes DEF IInv
<1>4. /\ Len(mapped) \in Nat /\ DOMAIN mapped = 1 .. Len(mapped)
      /\ \A j \in 1 .. Len(mapped) : mapped[j] = InModule[j]
  BY <1>3, BeganTypes
<1>5. i \in 1 .. Len(manifest) /\ InModule[i] = found
  BY <1>1, <1>3, <1>4 DEF InModule
<1> HIDE DEF found, fails
<1>6. /\ Began(mapped', InModule) /\ Len(mapped') = Len(mapped) + 1
  BY <1>1, <1>3, <1>5, BeganMore
<1>7. /\ DOMAIN mapped' = 1 .. Len(mapped) + 1
      /\ \A j \in 1 .. Len(mapped) + 1 : mapped'[j] = InModule[j]
  BY <1>3, <1>6, BeganTypes
<1>8. Began(mapped, InModule)'
  BY <1>2, <1>6 DEF Began
<1>9. FailuresCounted'
  <2>1. /\ failures = [file |-> failures.file, mapped |-> failures.mapped]
        /\ failures.file \in 0 .. Len(file)
        /\ failures.file = 0 => \A j \in DOMAIN file : ~Fails(manifest[j], file[j], options.drift)
        /\ failures.mapped \in 0 .. Len(mapped)
        /\ failures.mapped = 0 => \A j \in DOMAIN mapped : ~Fails(manifest[j], mapped[j], options.drift)
    BY <1>1 DEF IInv, FailuresCounted, NotMapped
  <2>2. failures' = [file |-> failures.file, mapped |-> failures.mapped + (IF fails THEN 1 ELSE 0)]
    BY <1>1, <2>1
  <2>3. /\ failures'.file = failures.file
        /\ failures'.mapped = failures.mapped + (IF fails THEN 1 ELSE 0)
        /\ failures'.mapped \in 0 .. Len(mapped')
    BY <1>4, <1>6, <2>1, <2>2
  <2>4. ASSUME failures'.mapped = 0, NEW j \in 1 .. Len(mapped) + 1
        PROVE  ~Fails(manifest[j], mapped'[j], options.drift)
    <3>1. failures.mapped = 0 /\ ~fails
      BY <1>4, <2>1, <2>3, <2>4
    <3>2. CASE j \in 1 .. Len(mapped)
      <4>1. mapped'[j] = mapped[j]
        BY <1>4, <1>7, <3>2
      <4>2. QED
        BY <1>4, <2>1, <3>1, <3>2, <4>1
    <3>3. CASE j = i
      BY <1>5, <1>7, <3>1, <3>3 DEF fails
    <3>4. QED
      BY <1>4, <3>2, <3>3
  <2>5. QED
    BY <1>1, <1>2, <1>7, <2>1, <2>2, <2>3, <2>4 DEF FailuresCounted
<1>10. SmokeStages' /\ HostStages' /\ Ending' /\ HooksKnown'
  <2>1. options.program = "host" => hooks = <<>>
    BY <1>1 DEF IInv, HostStages
  <2>2. DOMAIN hooks = {}
    <3>1. hooks = <<>>
      BY <2>1, GivenTypes DEF IInv, SmokeStages, Options
    <3>2. QED
      BY <3>1
  <2>3. SmokeStages' /\ HostStages' /\ Ending'
    BY <1>1, <1>2, <2>1 DEF IInv, SmokeStages, HostStages, Ending
  <2>4. HooksKnown'
    BY <1>1, <2>2 DEF IInv, HooksKnown
  <2>5. QED
    BY <2>3, <2>4
<1>11. QED
  BY <1>2, <1>8, <1>9, <1>10 DEF IInv

LEMMA MapFailsKeeps == ASSUME IInv, MapFails PROVE IInv'
<1>1. /\ UNCHANGED inputs /\ UNCHANGED <<file, mapped, todo, hooks, exit>>
      /\ stage = "map" /\ stage' = "report" /\ options.program = "smoke"
      /\ failures' = [failures EXCEPT !.mapped = Cardinality(Required)]
  BY DEF MapFails, Goes, Required
<1>2. /\ image' = image /\ manifest' = manifest /\ options' = options
      /\ Given' /\ Required' = Required /\ Began(mapped, InModule)' /\ Began(file, InFile)'
  BY <1>1, InputsStay DEF inputs
<1>3. failures' = [file |-> failures.file, mapped |-> Cardinality(Required)] /\ mapped = <<>>
  BY <1>1 DEF IInv, FailuresCounted, SmokeStages
<1>4. failures'.file = failures.file /\ failures'.mapped = Cardinality(Required)
  BY <1>3
<1>5. NotMapped'
  BY <1>1, <1>2, <1>3, <1>4 DEF NotMapped
<1>6. FailuresCounted'
  BY <1>1, <1>2, <1>3, <1>4, <1>5 DEF IInv, FailuresCounted
<1>7. SmokeStages' /\ HostStages' /\ Ending' /\ HooksKnown'
  BY <1>1, <1>2, <1>5 DEF IInv, SmokeStages, HostStages, Ending, HooksKnown
<1>8. QED
  BY <1>2, <1>6, <1>7 DEF IInv

LEMMA InstallKeeps == ASSUME IInv, Install PROVE IInv'
<1> DEFINE i == Min(todo)
           more == [j \in DOMAIN hooks \union {i} |-> IF j = i THEN mapped[i].rva ELSE hooks[j]]
<1>1. /\ UNCHANGED inputs /\ UNCHANGED <<file, mapped, failures, stage, exit>>
      /\ stage = "install" /\ todo # {} /\ todo' = todo \ {i}
      /\ hooks' = hooks \/ (mapped[i].rva # None /\ hooks' = more)
  BY DEF Install
<1>2. image' = image /\ manifest' = manifest /\ options' = options
  BY <1>1 DEF inputs
<1>3. options.program = "host"
  BY <1>1, GivenTypes DEF IInv, SmokeStages, Options
<1>4. i \in todo /\ i \in Hooked
  <2>1. todo \subseteq Hooked /\ Hooked \subseteq Nat
    BY <1>3, GivenTypes DEF IInv, HooksKnown
  <2>2. QED
    BY <1>1, <2>1, Least
<1>5. FailuresCounted'
  BY <1>1, CountsStay
<1>6. /\ DOMAIN more = {i} \union DOMAIN hooks
      /\ \A j \in DOMAIN more : more[j] = IF j = i THEN mapped[i].rva ELSE hooks[j]
  OBVIOUS
<1> HIDE DEF i, more
<1>7. HooksKnown'
  BY <1>1, <1>4, <1>6 DEF IInv, HooksKnown
<1>8. SmokeStages' /\ HostStages' /\ Ending'
  BY <1>1, <1>2, <1>3 DEF IInv, SmokeStages, HostStages, Ending
<1>9. QED
  BY <1>1, <1>5, <1>7, <1>8, InputsStay DEF IInv

LEMMA InstalledKeeps == ASSUME IInv, Installed PROVE IInv'
<1>1. /\ UNCHANGED inputs /\ UNCHANGED <<file, mapped, failures, todo>>
      /\ stage = "install" /\ todo = {} /\ stage' = "ended" /\ exit' \in {"OK", "install failed"}
      /\ (hooks' = hooks /\ DOMAIN hooks = Hooked) \/ hooks' = <<>>
  BY DEF Installed, End
<1>2. image' = image /\ manifest' = manifest /\ options' = options
  BY <1>1 DEF inputs
<1>3. options.program = "host"
  BY <1>1, GivenTypes DEF IInv, SmokeStages, Options
<1>4. FailuresCounted'
  BY <1>1, CountsStay
<1>5. DOMAIN <<>> = {}
  OBVIOUS
<1>6. HooksKnown'
  BY <1>1, <1>5 DEF IInv, HooksKnown
<1>7. SmokeStages' /\ HostStages' /\ Ending'
  BY <1>1, <1>2, <1>3 DEF IInv, SmokeStages, HostStages, Ending
<1>8. QED
  BY <1>1, <1>4, <1>6, <1>7, InputsStay DEF IInv

LEMMA StutterKeeps == ASSUME IInv, UNCHANGED vars PROVE IInv'
<1>1. UNCHANGED inputs /\ UNCHANGED <<stage, file, mapped, failures, todo, hooks, exit>>
  BY DEF vars, inputs
<1>2. image' = image /\ manifest' = manifest /\ options' = options /\ Required' = Required
  BY <1>1, InputsStay DEF inputs
<1>3. NotMapped' = NotMapped
  BY <1>1, <1>2 DEF NotMapped
<1>4. FailuresCounted'
  BY <1>1, <1>2, <1>3 DEF IInv, FailuresCounted
<1>5. SmokeStages' /\ HostStages' /\ Ending' /\ HooksKnown'
  BY <1>1, <1>2, <1>3 DEF IInv, SmokeStages, HostStages, Ending, HooksKnown
<1>6. QED
  BY <1>1, <1>4, <1>5, InputsStay DEF IInv

LEMMA Invariant == Spec => []IInv
<1>1. ASSUME IInv, [Next]_vars PROVE IInv'
  BY <1>1, OpenKeeps, CheckFileKeeps, FileCheckedKeeps, MapFailsKeeps, ReportKeeps, ServerMissingKeeps,
     MapKeeps, CheckMappedKeeps, MappedCheckedKeeps, GateKeeps, InstallKeeps, InstalledKeeps,
     StutterKeeps DEF Next
<1>2. QED
  BY Initially, <1>1, PTL DEF Spec

-----------------------------------------------------------------------------
(* What follows.                                                           *)

\* What the invariant says of the resolutions, one by one.
LEMMA Resolutions ==
  ASSUME IInv
  PROVE  /\ Len(manifest) \in Nat /\ DOMAIN manifest = 1 .. Len(manifest) /\ Loadable(image)
         /\ options \in Options
         /\ \A i \in 1 .. Len(manifest) : manifest[i] \in Descriptors
         /\ Len(file) \in 0 .. Len(manifest) /\ DOMAIN file = 1 .. Len(file)
         /\ Len(mapped) \in 0 .. Len(manifest) /\ DOMAIN mapped = 1 .. Len(mapped)
         /\ \A i \in 1 .. Len(file) : file[i] = ResolveSignature(image, manifest[i])
         /\ \A i \in 1 .. Len(mapped) : mapped[i] = ResolveMappedSignature(image, manifest[i])
<1>1. /\ Len(manifest) \in Nat /\ DOMAIN manifest = 1 .. Len(manifest) /\ Loadable(image)
      /\ options \in Options /\ \A i \in 1 .. Len(manifest) : manifest[i] \in Descriptors
  BY GivenTypes DEF IInv
<1>2. /\ Len(file) \in 0 .. Len(manifest) /\ DOMAIN file = 1 .. Len(file)
      /\ \A i \in 1 .. Len(file) : file[i] = InFile[i]
  BY <1>1, BeganTypes DEF IInv
<1>3. /\ Len(mapped) \in 0 .. Len(manifest) /\ DOMAIN mapped = 1 .. Len(mapped)
      /\ \A i \in 1 .. Len(mapped) : mapped[i] = InModule[i]
  BY <1>1, BeganTypes DEF IInv
<1>4. ASSUME NEW i \in 1 .. Len(file) PROVE file[i] = ResolveSignature(image, manifest[i])
  <2>1. i \in DOMAIN manifest
    BY <1>1, <1>2
  <2>2. file[i] = InFile[i]
    BY <1>2
  <2>3. QED
    BY <2>1, <2>2 DEF InFile
<1>5. ASSUME NEW i \in 1 .. Len(mapped) PROVE mapped[i] = ResolveMappedSignature(image, manifest[i])
  <2>1. i \in DOMAIN manifest
    BY <1>1, <1>3
  <2>2. mapped[i] = InModule[i]
    BY <1>3
  <2>3. QED
    BY <2>1, <2>2 DEF InModule
<1>6. QED
  BY <1>1, <1>2, <1>3, <1>4, <1>5

LEMMA ResolvedSays ==
  ASSUME NEW d, NEW rva
  PROVE  /\ Resolved(d, rva).unique /\ Resolved(d, rva).rva = rva
         /\ Resolved(d, rva).expected_ok => d.expected \in {0, rva}
<1>1. Resolved(d, rva).unique /\ Resolved(d, rva).rva = rva
  BY DEF Resolved
<1>2. Resolved(d, rva).expected_ok = (d.expected \in {0, rva})
  BY DEF Resolved
<1>3. QED
  BY <1>1, <1>2, Zenon

LEMMA RvaType ==
  ASSUME NEW im, Loadable(im), NEW o \in Nat
  PROVE  RvaFromFileOffset(im, o) = None \/ RvaFromFileOffset(im, o) \in Nat
<1> DEFINE within == {i \in DOMAIN im.sections :
                        LET t == im.sections[i] IN o >= t.raw /\ o < t.raw + t.rsize}
           s == im.sections[Min(within)]
<1>1. CASE within = {}
  BY <1>1 DEF RvaFromFileOffset
<1>2. CASE within # {}
  <2>1. within \in SUBSET (1 .. Len(im.sections)) /\ Len(im.sections) \in Nat
    BY LoadableTypes
  <2>2. Min(within) \in within
    <3> HIDE DEF within
    <3>1. within \in SUBSET Nat
      BY <2>1
    <3>2. QED
      BY <1>2, <3>1, Least
  <2>3. o >= s.raw
    BY <2>2
  <2>4. s \in Sections
    <3> HIDE DEF within
    <3>1. QED
      BY <2>1, <2>2, LoadableTypes
  <2>5. RvaFromFileOffset(im, o) = s.va + o - s.raw
    BY <1>2 DEF RvaFromFileOffset
  <2>6. s.va \in Nat /\ s.raw \in Nat
    BY <2>4 DEF Sections
  <2> HIDE DEF s
  <2>7. QED
    BY <2>3, <2>5, <2>6
<1>3. QED
  BY <1>1, <1>2

(* Every variable keeps its type.                                          *)
THEOREM TypeCorrect == Spec => []TypeOK
<1>1. ASSUME IInv PROVE TypeOK
  <2>2. ASSUME NEW i \in 1 .. Len(file) PROVE file[i].rva = None \/ file[i].rva \in Nat
    <3>1. file[i] = ResolveSignature(image, manifest[i]) /\ manifest[i] \in Descriptors /\ Loadable(image)
      BY <1>1, Resolutions
    <3>2. CASE file[i] = Unresolved
      BY <3>2 DEF Unresolved
    <3>3. CASE file[i] # Unresolved
      <4>1. PICK o \in Nat : file[i] = Resolved(manifest[i], RvaFromFileOffset(image, o))
        BY <3>1, <3>3, FileResolution
      <4>2. file[i].rva = RvaFromFileOffset(image, o)
        BY <4>1 DEF Resolved
      <4>3. QED
        BY <3>1, <4>2, RvaType
    <3>4. QED
      BY <3>2, <3>3
  <2>3. ASSUME NEW i \in 1 .. Len(mapped) PROVE mapped[i].rva = None \/ mapped[i].rva \in Nat
    <3>1. mapped[i] = ResolveMappedSignature(image, manifest[i]) /\ manifest[i] \in Descriptors /\ Loadable(image)
      BY <1>1, Resolutions
    <3>2. mapped[i] = Unresolved \/ \E a \in Nat : mapped[i] = Resolved(manifest[i], a)
      BY <3>1, MappedResolution
    <3>3. CASE mapped[i] = Unresolved
      BY <3>3 DEF Unresolved
    <3>4. ASSUME NEW a \in Nat, mapped[i] = Resolved(manifest[i], a) PROVE mapped[i].rva \in Nat
      BY <3>4, ResolvedSays
    <3>5. QED
      BY <3>2, <3>3, <3>4
  <2>4. \A r \in Range(file) \union Range(mapped) : r.rva = None \/ r.rva \in Nat
    BY <1>1, <2>2, <2>3, Resolutions DEF Range
  <2>5. failures \in [file : 0 .. Len(manifest), mapped : 0 .. Len(manifest)]
    <3>1. Cardinality(Required) \in 0 .. Len(manifest)
      BY <1>1, Resolutions, RequiredIsFinite
    <3>2. failures.file \in 0 .. Len(file) /\ failures = [file |-> failures.file, mapped |-> failures.mapped]
      BY <1>1 DEF IInv, FailuresCounted
    <3>3. failures.mapped = Cardinality(Required) \/ failures.mapped \in 0 .. Len(mapped)
      BY <1>1 DEF IInv, FailuresCounted, NotMapped
    <3>4. failures.file \in 0 .. Len(manifest) /\ failures.mapped \in 0 .. Len(manifest)
      BY <1>1, <3>1, <3>2, <3>3, Resolutions
    <3>5. QED
      BY <3>2, <3>4
  <2>6. stage \in {"open", "file", "map", "mapped", "report", "install", "ended"}
    BY <1>1, Resolutions DEF IInv, SmokeStages, HostStages, Options
  <2>7. QED
    BY <1>1, <2>4, <2>5, <2>6 DEF TypeOK, IInv, HooksKnown, Ending
<1>2. QED
  BY Invariant, <1>1, PTL

LEMMA MappedFound ==
  ASSUME IInv, NEW i \in 1 .. Len(mapped), mapped[i] # Unresolved
  PROVE  /\ CompilePattern(manifest[i].pattern) # None
         /\ \E a \in Nat : CodeMatches(image, manifest[i].pattern) = {a} /\ mapped[i] = Resolved(manifest[i], a)
<1>1. mapped[i] = ResolveMappedSignature(image, manifest[i]) /\ manifest[i] \in Descriptors /\ Loadable(image)
  BY Resolutions
<1>2. QED
  BY <1>1, MappedResolution

LEMMA MappedOnce ==
  ASSUME IInv, NEW i \in 1 .. Len(mapped), CompilePattern(manifest[i].pattern) # None,
         NEW a, CodeMatches(image, manifest[i].pattern) = {a}
  PROVE  mapped[i] = Resolved(manifest[i], a)
<1>1. mapped[i] = ResolveMappedSignature(image, manifest[i]) /\ manifest[i] \in Descriptors /\ Loadable(image)
  BY Resolutions
<1>2. QED
  BY <1>1, MappedResolution

LEMMA MatchesAreFinite ==
  ASSUME NEW im, im.size \in Nat, NEW pattern
  PROVE  IsFiniteSet(CodeMatches(im, pattern))
<1>1. IsFiniteSet(0 .. im.size - 1)
  <2>1. PICK m \in Int : m = im.size - 1
    OBVIOUS
  <2>2. IsFiniteSet(0 .. m)
    BY FS_Interval
  <2>3. QED
    BY <2>1, <2>2
<1>2. CodeMatches(im, pattern) \in SUBSET (0 .. im.size - 1)
  BY DEF CodeMatches
<1>3. QED
  BY <1>1, <1>2, FS_Subset

(* The scanner resolves a signature in the module exactly when it matches  *)
(* in one place of the code, and to that place, for every image the loader *)
(* takes and every pattern (find_pattern_rvas, resolve_mapped_signature).  *)
THEOREM MappedResolvesUnique == Spec => []MappedIsUnique
<1>1. ASSUME IInv PROVE MappedIsUnique
  <2> SUFFICES ASSUME NEW i \in DOMAIN mapped
               PROVE  LET matches == CodeMatches(image, manifest[i].pattern)
                      IN IF CompilePattern(manifest[i].pattern) # None /\ Cardinality(matches) = 1
                         THEN mapped[i].unique /\ matches = {mapped[i].rva}
                         ELSE mapped[i] = Unresolved
    BY DEF MappedIsUnique
  <2> DEFINE matches == CodeMatches(image, manifest[i].pattern)
             compiles == CompilePattern(manifest[i].pattern) # None
  <2>1. Loadable(image)
    BY <1>1, Resolutions
  <2>2. i \in 1 .. Len(mapped)
    BY <1>1, Resolutions
  <2>3. IsFiniteSet(matches)
    BY <2>1, LoadableTypes, MatchesAreFinite
  <2> HIDE DEF matches, compiles
  <2>4. Cardinality(matches) = 1 <=> \E a : matches = {a}
    BY <2>3, FS_Singleton
  <2>5. CASE compiles /\ Cardinality(matches) = 1
    <3>1. PICK a : matches = {a}
      BY <2>4, <2>5
    <3>2. mapped[i] = Resolved(manifest[i], a)
      BY <1>1, <2>2, <2>5, <3>1, MappedOnce DEF matches, compiles
    <3>3. mapped[i].unique /\ mapped[i].rva = a
      BY <3>2, ResolvedSays
    <3>4. QED
      BY <2>5, <3>1, <3>3 DEF matches, compiles
  <2>6. CASE ~(compiles /\ Cardinality(matches) = 1)
    <3>1. mapped[i] = Unresolved
      <4>1. SUFFICES ASSUME mapped[i] # Unresolved PROVE FALSE
        OBVIOUS
      <4>2. compiles /\ \E a \in Nat : matches = {a}
        BY <1>1, <2>2, <4>1, MappedFound DEF matches, compiles
      <4>3. QED
        BY <2>4, <2>6, <4>2
    <3>2. QED
      BY <2>6, <3>1 DEF matches, compiles
  <2>7. QED
    BY <2>5, <2>6
<1>2. QED
  BY Invariant, <1>1, PTL

LEMMA FileFound ==
  ASSUME IInv, NEW i \in 1 .. Len(file), file[i] # Unresolved
  PROVE  /\ CompilePattern(manifest[i].pattern) # None
         /\ \E o \in Nat : /\ FileMatches(image, manifest[i].pattern) = {o}
                           /\ file[i] = Resolved(manifest[i], RvaFromFileOffset(image, o))
<1>1. file[i] = ResolveSignature(image, manifest[i]) /\ manifest[i] \in Descriptors /\ Loadable(image)
  BY Resolutions
<1>2. QED
  BY <1>1, FileResolution

(* The scans of the file and of the module agree on a signature that is    *)
(* unique in both, for every image the loader takes.                       *)
THEOREM ScannersAgree == Spec => []FileAgrees
<1>1. ASSUME IInv PROVE FileAgrees
  <2> SUFFICES ASSUME NEW i \in DOMAIN file \cap DOMAIN mapped, file[i].unique, mapped[i].unique,
                      mapped[i].rva \in FromFile(Len(manifest[i].pattern))
               PROVE  file[i].rva = mapped[i].rva
    BY DEF FileAgrees
  <2> DEFINE p == manifest[i].pattern
  <2>1. i \in 1 .. Len(file) /\ i \in 1 .. Len(mapped) /\ i \in 1 .. Len(manifest)
    BY <1>1, Resolutions
  <2>2. file[i] # Unresolved /\ mapped[i] # Unresolved
    BY DEF Unresolved
  <2>3. PICK o \in Nat : FileMatches(image, p) = {o} /\ file[i] = Resolved(manifest[i], RvaFromFileOffset(image, o))
    BY <1>1, <2>1, <2>2, FileFound
  <2>4. /\ CompilePattern(p) # None
        /\ \E a \in Nat : CodeMatches(image, p) = {a} /\ mapped[i] = Resolved(manifest[i], a)
    BY <1>1, <2>1, <2>2, MappedFound
  <2>5. PICK a \in Nat : CodeMatches(image, p) = {a} /\ mapped[i] = Resolved(manifest[i], a)
    BY <2>4
  <2>6. file[i].rva = RvaFromFileOffset(image, o) /\ mapped[i].rva = a
    BY <2>3, <2>5 DEF Resolved
  <2>7. p \in Seq(Byte \union {Wild, Bad}) /\ p # <<>>
    BY <1>1, <2>1, <2>4, Resolutions, Compiled
  <2> HIDE DEF p
  <2>8. PICK s \in Range(image.sections) : a >= s.va /\ a + Len(p) <= s.va + Min({s.rsize, Extent(s)})
    BY <2>6 DEF FromFile, p
  <2>9. Loadable(image)
    BY <1>1, Resolutions
  <2>10. PICK k \in 1 .. Len(image.sections) : s = image.sections[k]
    <3>1. Range(image.sections) = {image.sections[k] : k \in 1 .. Len(image.sections)}
      BY <2>9, LoadableTypes
    <3>2. QED
      BY <3>1
  <2>11. a \in CodeMatches(image, p)
    BY <2>5
  <2> DEFINE q == image.sections[k].raw + a - image.sections[k].va
  <2>12. q \in FileMatches(image, p) /\ RvaFromFileOffset(image, q) = a
    BY <2>7, <2>8, <2>9, <2>10, <2>11, ScansAgree
  <2> HIDE DEF q
  <2>13. q = o
    BY <2>3, <2>12
  <2>14. QED
    BY <2>6, <2>12, <2>13
<1>2. QED
  BY Invariant, <1>1, PTL

(* dwrt_host_smoke returns success only when every required signature is   *)
(* where it has to be.                                                     *)
THEOREM SmokeIsSafe == Spec => []SmokeFailsClosed
<1>1. ASSUME IInv PROVE SmokeFailsClosed
  <2> SUFFICES ASSUME options.program = "smoke", exit = "OK",
                      NEW i \in DOMAIN manifest, manifest[i].required
               PROVE  /\ CompilePattern(manifest[i].pattern) # None
                      /\ \E o \in FileMatches(image, manifest[i].pattern) :
                           /\ FileMatches(image, manifest[i].pattern) = {o}
                           /\ options.drift \/ manifest[i].expected \in {0, RvaFromFileOffset(image, o)}
                      /\ options.mapped => \E a \in CodeMatches(image, manifest[i].pattern) :
                           /\ CodeMatches(image, manifest[i].pattern) = {a}
                           /\ options.drift \/ manifest[i].expected \in {0, a}
    BY DEF SmokeFailsClosed
  <2>1. /\ Len(file) = Len(manifest) /\ failures.file = 0 /\ failures.mapped = 0
        /\ options.mapped => Len(mapped) = Len(manifest) \/ NotMapped
    BY <1>1 DEF IInv, SmokeStages
  <2>2. i \in 1 .. Len(manifest) /\ i \in 1 .. Len(file) /\ i \in DOMAIN file
    BY <1>1, <2>1, Resolutions
  <2>3. ~Fails(manifest[i], file[i], options.drift)
    BY <1>1, <2>1, <2>2 DEF IInv, FailuresCounted
  <2>4. file[i].unique /\ (file[i].expected_ok \/ options.drift)
    BY <2>3 DEF Fails
  <2>5. file[i] # Unresolved
    BY <2>4 DEF Unresolved
  <2>6. PICK o \in Nat : /\ FileMatches(image, manifest[i].pattern) = {o}
                         /\ file[i] = Resolved(manifest[i], RvaFromFileOffset(image, o))
    BY <1>1, <2>2, <2>5, FileFound
  <2>7. CompilePattern(manifest[i].pattern) # None
    BY <1>1, <2>2, <2>5, FileFound
  <2>8. options.drift \/ manifest[i].expected \in {0, RvaFromFileOffset(image, o)}
    BY <2>4, <2>6, ResolvedSays, Zenon
  <2>9. ~NotMapped
    <3>1. Required # {}
      BY DEF Required
    <3>2. Cardinality(Required) # 0
      BY <1>1, <3>1, Resolutions, RequiredIsFinite
    <3>3. QED
      BY <2>1, <3>2 DEF NotMapped
  <2>10. ASSUME options.mapped
         PROVE  \E a \in CodeMatches(image, manifest[i].pattern) :
                  /\ CodeMatches(image, manifest[i].pattern) = {a}
                  /\ options.drift \/ manifest[i].expected \in {0, a}
    <3>1. Len(mapped) = Len(manifest) /\ i \in 1 .. Len(mapped) /\ i \in DOMAIN mapped
      BY <1>1, <2>1, <2>2, <2>9, <2>10, Resolutions
    <3>2. ~Fails(manifest[i], mapped[i], options.drift)
      BY <1>1, <2>1, <2>9, <3>1 DEF IInv, FailuresCounted
    <3>3. mapped[i].unique /\ (mapped[i].expected_ok \/ options.drift)
      BY <3>2 DEF Fails
    <3>4. mapped[i] # Unresolved
      BY <3>3 DEF Unresolved
    <3>5. PICK a \in Nat : CodeMatches(image, manifest[i].pattern) = {a} /\ mapped[i] = Resolved(manifest[i], a)
      BY <1>1, <3>1, <3>4, MappedFound
    <3>6. options.drift \/ manifest[i].expected \in {0, a}
      BY <3>3, <3>5, ResolvedSays, Zenon
    <3>7. QED
      BY <3>5, <3>6
  <2>11. QED
    BY <2>6, <2>7, <2>8, <2>10
<1>2. QED
  BY Invariant, <1>1, PTL

(* dwrt_host_initialize leaves hooks only where a signature matches and    *)
(* nothing else does, all or none, and only after the check it required.   *)
THEOREM HooksAreSafe == Spec => []HooksAtSignatures
<1>1. ASSUME IInv PROVE HooksAtSignatures
  <2> SUFFICES ASSUME stage = "ended", hooks # <<>>
               PROVE  /\ DOMAIN hooks = Hooked /\ options.live
                      /\ \A i \in Hooked : CodeMatches(image, manifest[i].pattern) = {hooks[i]}
                      /\ options.require => \A i \in DOMAIN manifest : manifest[i].required =>
                           \E a \in CodeMatches(image, manifest[i].pattern) :
                             options.drift \/ manifest[i].expected \in {0, a}
    BY DEF HooksAtSignatures
  <2>1. options.program = "host"
    BY <1>1, Resolutions DEF IInv, SmokeStages, Options
  <2>2. /\ DOMAIN hooks = Hooked /\ options.live /\ Len(mapped) = Len(manifest)
        /\ options.require => failures.mapped = 0
    BY <1>1, <2>1 DEF IInv, HostStages
  <2>3. Hooked \subseteq 1 .. Len(manifest)
    BY <1>1, <2>1, GivenTypes DEF IInv
  <2>4. ASSUME NEW i \in Hooked PROVE CodeMatches(image, manifest[i].pattern) = {hooks[i]}
    <3>1. i \in 1 .. Len(mapped) /\ mapped[i].rva # None /\ hooks[i] = mapped[i].rva
      BY <1>1, <2>2, <2>3 DEF IInv, HooksKnown
    <3>2. mapped[i] # Unresolved
      BY <3>1 DEF Unresolved
    <3>3. PICK a \in Nat : CodeMatches(image, manifest[i].pattern) = {a} /\ mapped[i] = Resolved(manifest[i], a)
      BY <1>1, <3>1, <3>2, MappedFound
    <3>4. QED
      BY <3>1, <3>3 DEF Resolved
  <2>5. ASSUME options.require, NEW i \in DOMAIN manifest, manifest[i].required
        PROVE  \E a \in CodeMatches(image, manifest[i].pattern) :
                 options.drift \/ manifest[i].expected \in {0, a}
    <3>1. i \in 1 .. Len(mapped) /\ i \in DOMAIN mapped
      BY <1>1, <2>2, Resolutions
    <3>2. ~Fails(manifest[i], mapped[i], options.drift)
      BY <1>1, <2>1, <2>2, <2>5, <3>1 DEF IInv, FailuresCounted, NotMapped
    <3>3. mapped[i].unique /\ (mapped[i].expected_ok \/ options.drift)
      BY <2>5, <3>2 DEF Fails
    <3>4. mapped[i] # Unresolved
      BY <3>3 DEF Unresolved
    <3>5. PICK a \in Nat : CodeMatches(image, manifest[i].pattern) = {a} /\ mapped[i] = Resolved(manifest[i], a)
      BY <1>1, <3>1, <3>4, MappedFound
    <3>6. options.drift \/ manifest[i].expected \in {0, a}
      BY <3>3, <3>5, ResolvedSays, Zenon
    <3>7. QED
      BY <3>5, <3>6
  <2>6. QED
    BY <2>2, <2>4, <2>5
<1>2. QED
  BY Invariant, <1>1, PTL
=============================================================================
