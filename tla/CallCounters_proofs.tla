-------------------------- MODULE CallCounters_proofs --------------------------
(***************************************************************************)
(* Proofs about CallCounters, for any counters, calls and bounds: if every *)
(* path of a scenario balances by itself, as the scenario says, then so do *)
(* the counters whenever no call is in progress, however calls overlapped  *)
(* (DetourPaths_proofs has the paths).                                     *)
(***************************************************************************)
EXTENDS CallCounters, FiniteSetTheorems, SequenceTheorems, TLAPS

-----------------------------------------------------------------------------
(* What is required of the paths.                                          *)

\* How often the path p advances one of the counters.
Places(p, some) == {i \in DOMAIN p : p[i] \in some}
Advances(p, some) == Cardinality(Places(p, some))

Listed(n) == {Scenarios[n].order[i] : i \in DOMAIN Scenarios[n].order}

\* A path advances both sides of a balance alike, none of its counters more than three times (an entity
\* each: two, or three at the secondary gate), and only counters which are reset and copied.
Even(n, p) == \A b \in Scenarios[n].balances : Advances(p, b.whole) = Advances(p, b.parts)
Modest(p) == \A k \in Counters : Advances(p, {k}) <= 3
PathsEven ==
  \A n \in DOMAIN Scenarios : \A p \in Scenarios[n].paths :
    Even(n, p) /\ Modest(p) /\ \A i \in DOMAIN p : p[i] \in Listed(n)

-----------------------------------------------------------------------------
(* The inductive invariant: what has been counted of some counters and     *)
(* what the calls in progress have yet to count.                           *)

Pending(some) == UNION {{c} \X Places(todo[c], some) : c \in Calls}
Total(some) == Cardinality(Units(count, some)) + Cardinality(Pending(some))

\* A reset that meets no call works on counters that rest.
Resetting == AtRest /\ \A i \in 1 .. control.next - 1 : count[Order[i]] = 0

Counting ==
  clean => IF control.op = "reset" THEN Resetting ELSE \A b \in Balances : Total(b.whole) = Total(b.parts)

\* And a snapshot that meets none copies counters that balance.
Copying ==
  settled /\ control.op = "snapshot" =>
    clean /\ AtRest /\ \A i \in 1 .. control.next - 1 : copy[Order[i]] = count[Order[i]]

\* Three advances a call at most, and none of a counter that is not listed.
Bounded == \A k \in Counters : count[k] + Cardinality(Pending({k})) <= 3 * made
Covered ==
  /\ \A k \in Counters \ Listed(scenario) : count[k] = 0 /\ copy[k] = 0
  /\ \A c \in Calls : \A i \in DOMAIN todo[c] : todo[c][i] \in Listed(scenario)

IInv == TypeOK /\ Bounded /\ Covered /\ Counting /\ Copying /\ SnapshotBalanced

-----------------------------------------------------------------------------
(* Counting.                                                               *)

LEMMA ScenarioTyped ==
  ASSUME NEW n \in DOMAIN Scenarios
  PROVE  /\ Scenarios[n].order \in Seq(Counters) /\ Scenarios[n].order # <<>>
         /\ Len(Scenarios[n].order) \in Nat \ {0}
         /\ DOMAIN Scenarios[n].order = 1 .. Len(Scenarios[n].order)
         /\ \A p \in Scenarios[n].paths : p \in Seq(Counters)
         /\ Scenarios[n].at \subseteq Calls /\ Scenarios[n].calls \in Nat /\ Scenarios[n].controls \in Nat
  BY CounterAssumption, LenProperties

LEMMA BalanceTyped ==
  ASSUME scenario \in DOMAIN Scenarios, NEW b \in Balances
  PROVE  b.whole \subseteq Counters /\ b.parts \subseteq Counters
  BY CounterAssumption DEF Balances

LEMMA BalancesKept ==
  ASSUME UNCHANGED scenario
  PROVE  Balances' = Balances
  BY DEF Balances

LEMMA PlacesFinite ==
  ASSUME NEW p \in Seq(Counters), NEW some
  PROVE  /\ IsFiniteSet(Places(p, some)) /\ Advances(p, some) \in Nat
         /\ Places(p, some) \subseteq 1 .. Len(p)
<1>1. Len(p) \in Nat /\ DOMAIN p = 1 .. Len(p)
  BY LenProperties
<1>2. Places(p, some) \subseteq 1 .. Len(p) /\ IsFiniteSet(1 .. Len(p))
  BY <1>1, FS_Interval DEF Places
<1>3. QED
  BY <1>2, FS_Subset, FS_CardinalityType DEF Advances

\* Finitely many finite sets.
LEMMA UnionFinite ==
  ASSUME NEW S, IsFiniteSet(S), NEW f, DOMAIN f = S, \A x \in S : IsFiniteSet(f[x])
  PROVE  IsFiniteSet(UNION {f[x] : x \in S})
<1> DEFINE T == {f[x] : x \in S}
<1>1. [x \in S |-> f[x]] \in Surjection(S, T)
  BY DEF Surjection
<1>2. IsFiniteSet(T)
  BY <1>1, FS_Surjection
<1>3. QED
  BY <1>2, FS_UNION

LEMMA UnitsFinite ==
  ASSUME NEW n \in [Counters -> Nat], NEW some \in SUBSET Counters
  PROVE  IsFiniteSet(Units(n, some)) /\ Cardinality(Units(n, some)) \in Nat
<1> DEFINE f == [k \in some |-> {k} \X (1 .. n[k])]
<1>1. IsFiniteSet(some)
  BY CounterAssumption, FS_Subset
<1>2. \A k \in some : IsFiniteSet(f[k])
  <2> SUFFICES ASSUME NEW k \in some PROVE IsFiniteSet(f[k])
    OBVIOUS
  <2>1. n[k] \in Nat
    OBVIOUS
  <2>2. IsFiniteSet(1 .. n[k])
    <3> DEFINE m == n[k]
    <3> HIDE DEF m
    <3>1. IsFiniteSet(1 .. m)
      BY <2>1, FS_Interval DEF m
    <3>2. QED
      BY <3>1 DEF m
  <2>3. IsFiniteSet({k})
    BY FS_Singleton
  <2>4. QED
    BY <2>2, <2>3, FS_Product
<1>3. Units(n, some) = UNION {f[k] : k \in some}
  BY DEF Units
<1>4. IsFiniteSet(UNION {f[k] : k \in some})
  <2>1. DOMAIN f = some
    OBVIOUS
  <2> HIDE DEF f
  <2>2. QED
    BY <1>1, <1>2, <2>1, UnionFinite
<1>5. QED
  BY <1>3, <1>4, FS_CardinalityType

LEMMA PendingFinite ==
  ASSUME todo \in [Calls -> Seq(Counters)], NEW some
  PROVE  IsFiniteSet(Pending(some)) /\ Cardinality(Pending(some)) \in Nat
<1> DEFINE f == [c \in Calls |-> {c} \X Places(todo[c], some)]
<1>1. \A c \in Calls : IsFiniteSet(f[c])
  <2> SUFFICES ASSUME NEW c \in Calls PROVE IsFiniteSet(f[c])
    OBVIOUS
  <2>1. todo[c] \in Seq(Counters)
    OBVIOUS
  <2>2. IsFiniteSet(Places(todo[c], some)) /\ IsFiniteSet({c})
    BY <2>1, PlacesFinite, FS_Singleton
  <2>3. QED
    BY <2>2, FS_Product
<1>2. Pending(some) = UNION {f[c] : c \in Calls}
  BY DEF Pending
<1>3. IsFiniteSet(UNION {f[c] : c \in Calls})
  <2>1. DOMAIN f = Calls
    OBVIOUS
  <2> HIDE DEF f
  <2>2. QED
    BY <1>1, <2>1, UnionFinite, CounterAssumption
<1>4. QED
  BY <1>2, <1>3, FS_CardinalityType

\* One advance is one unit more.
LEMMA UnitsAdvance ==
  ASSUME NEW n \in [Counters -> Nat], NEW h \in Counters, NEW m \in [Counters -> Nat],
         m[h] = n[h] + 1, \A k \in Counters \ {h} : m[k] = n[k], NEW some \in SUBSET Counters
  PROVE  Cardinality(Units(m, some)) = Cardinality(Units(n, some)) + (IF h \in some THEN 1 ELSE 0)
<1>1. /\ m \in [Counters -> Nat] /\ m[h] = n[h] + 1 /\ n[h] \in Nat
      /\ \A k \in Counters \ {h} : m[k] = n[k]
  OBVIOUS
<1>2. CASE h \in some
  <2>1. Units(m, some) = Units(n, some) \union {<<h, n[h] + 1>>}
    <3>1. \A k \in some \ {h} : {k} \X (1 .. m[k]) = {k} \X (1 .. n[k])
      BY <1>1
    <3>2. {h} \X (1 .. m[h]) = ({h} \X (1 .. n[h])) \union {<<h, n[h] + 1>>}
      <4>1. 1 .. m[h] = (1 .. n[h]) \union {n[h] + 1}
        BY <1>1
      <4>2. QED
        BY <4>1
    <3>3. ASSUME NEW x PROVE x \in Units(m, some) <=> x \in Units(n, some) \/ x = <<h, n[h] + 1>>
      <4>1. x \in Units(m, some) <=> \E k \in some : x \in {k} \X (1 .. m[k])
        BY DEF Units
      <4>2. x \in Units(n, some) <=> \E k \in some : x \in {k} \X (1 .. n[k])
        BY DEF Units
      <4>3. QED
        BY <1>2, <3>1, <3>2, <4>1, <4>2
    <3>4. QED
      BY <3>3
  <2>2. <<h, n[h] + 1>> \notin Units(n, some)
    BY <1>1 DEF Units
  <2>3. QED
    BY <1>2, <2>1, <2>2, UnitsFinite, FS_AddElement
<1>3. CASE h \notin some
  <2>1. Units(m, some) = Units(n, some)
    BY <1>1, <1>3 DEF Units
  <2>2. QED
    BY <1>3, <2>1, UnitsFinite
<1>4. QED
  BY <1>2, <1>3

\* A call that begins has its path pending.
LEMMA PendingBegin ==
  ASSUME todo \in [Calls -> Seq(Counters)], NEW c \in Calls, todo[c] = <<>>,
         NEW p \in Seq(Counters), todo' = [todo EXCEPT ![c] = p], NEW some
  PROVE  Cardinality(Pending(some)') = Cardinality(Pending(some)) + Advances(p, some)
<1> DEFINE new == {c} \X Places(p, some)
<1>1. /\ todo'[c] = p /\ \A d \in Calls \ {c} : todo'[d] = todo[d]
      /\ Places(todo[c], some) = {}
  BY DEF Places
<1>2. Pending(some)' = Pending(some) \union new
  <2>1. ASSUME NEW x PROVE x \in Pending(some)' <=> x \in Pending(some) \/ x \in new
    <3>1. x \in Pending(some)' <=> \E d \in Calls : x \in {d} \X Places(todo'[d], some)
      BY DEF Pending, Places
    <3>2. x \in Pending(some) <=> \E d \in Calls : x \in {d} \X Places(todo[d], some)
      BY DEF Pending
    <3>3. \A d \in Calls \ {c} : Places(todo'[d], some) = Places(todo[d], some)
      BY <1>1
    <3>4. QED
      BY <1>1, <3>1, <3>2, <3>3
  <2>2. QED
    BY <2>1
<1>3. Pending(some) \intersect new = {}
  <2>1. ASSUME NEW x \in Pending(some), x \in new PROVE FALSE
    <3>1. PICK d \in Calls : x \in {d} \X Places(todo[d], some)
      BY DEF Pending
    <3>2. d = c
      BY <2>1, <3>1
    <3>3. QED
      BY <1>1, <3>1, <3>2
  <2>2. QED
    BY <2>1
<1>4. IsFiniteSet(new) /\ Cardinality(new) = Advances(p, some)
  <2>1. IsFiniteSet(Places(p, some)) /\ Advances(p, some) \in Nat
    BY PlacesFinite
  <2>2. IsFiniteSet({c}) /\ Cardinality({c}) = 1
    BY FS_Singleton
  <2>3. IsFiniteSet(new) /\ Cardinality(new) = 1 * Advances(p, some)
    BY <2>1, <2>2, FS_Product DEF Advances
  <2>4. QED
    BY <2>1, <2>3
<1>5. IsFiniteSet(Pending(some)) /\ Cardinality(Pending(some)) \in Nat
  BY PendingFinite
<1>6. Cardinality(Pending(some) \union new) =
        Cardinality(Pending(some)) + Cardinality(new) - Cardinality(Pending(some) \intersect new)
  BY <1>4, <1>5, FS_Union
<1>7. Cardinality({}) = 0
  BY FS_EmptySet
<1>8. Advances(p, some) \in Nat
  BY PlacesFinite
<1> HIDE DEF new
<1>9. Cardinality(Pending(some)') = Cardinality(Pending(some) \union new)
  BY <1>2
<1>10. Cardinality(Pending(some) \intersect new) = 0
  BY <1>3, <1>7
<1>11. QED
  BY <1>4, <1>5, <1>6, <1>8, <1>9, <1>10

\* A call that advances a counter has that much less pending: what it has left moves up by one place.
LEMMA PendingAdvance ==
  ASSUME todo \in [Calls -> Seq(Counters)], NEW c \in Calls, todo[c] # <<>>,
         todo' = [todo EXCEPT ![c] = Tail(@)], NEW some
  PROVE  Cardinality(Pending(some)') = Cardinality(Pending(some)) - (IF Head(todo[c]) \in some THEN 1 ELSE 0)
<1> DEFINE p == todo[c]
           first == <<c, 1>>
           rest == Pending(some) \ {first}
           move == [x \in rest |-> IF x[1] = c THEN <<c, x[2] - 1>> ELSE x]
<1>1. /\ p \in Seq(Counters) /\ p # <<>> /\ Len(p) \in Nat \ {0} /\ DOMAIN p = 1 .. Len(p)
      /\ Head(p) = p[1]
      /\ DOMAIN Tail(p) = 1 .. Len(p) - 1 /\ \A i \in 1 .. Len(p) - 1 : Tail(p)[i] = p[i + 1]
  <2>1. p \in Seq(Counters) /\ p # <<>>
    OBVIOUS
  <2> HIDE DEF p
  <2>2. Len(p) \in Nat \ {0} /\ DOMAIN p = 1 .. Len(p) /\ Head(p) = p[1]
    BY <2>1, LenProperties
  <2>3. Tail(p) \in Seq(Counters) /\ Len(Tail(p)) = Len(p) - 1
        /\ \A i \in 1 .. Len(Tail(p)) : Tail(p)[i] = p[i + 1]
    BY <2>1, HeadTailProperties
  <2>4. DOMAIN Tail(p) = 1 .. Len(Tail(p))
    BY <2>3, LenProperties
  <2>5. QED
    BY <2>1, <2>2, <2>3, <2>4
<1>2. todo'[c] = Tail(p) /\ \A d \in Calls \ {c} : todo'[d] = todo[d]
  OBVIOUS
<1> HIDE DEF p
<1>3. \A x : x \in Pending(some) <=> \E d \in Calls : \E i \in DOMAIN todo[d] : x = <<d, i>> /\ todo[d][i] \in some
  BY DEF Pending, Places
<1>4. \A x : x \in Pending(some)' <=>
               \E d \in Calls : \E i \in DOMAIN todo'[d] : x = <<d, i>> /\ todo'[d][i] \in some
  BY DEF Pending, Places
<1>5. \A i : <<c, i>> \in Pending(some) <=> i \in 1 .. Len(p) /\ p[i] \in some
  BY <1>1, <1>3 DEF p
<1>6. \A i : <<c, i>> \in Pending(some)' <=> i \in 1 .. Len(p) - 1 /\ p[i + 1] \in some
  <2>1. \A i : <<c, i>> \in Pending(some)' <=> i \in DOMAIN todo'[c] /\ todo'[c][i] \in some
    BY <1>4
  <2>2. DOMAIN todo'[c] = 1 .. Len(p) - 1 /\ \A i \in 1 .. Len(p) - 1 : todo'[c][i] = p[i + 1]
    BY <1>1, <1>2
  <2>3. QED
    BY <2>1, <2>2
<1>7. \A d \in Calls \ {c} : \A i : <<d, i>> \in Pending(some)' <=> <<d, i>> \in Pending(some)
  BY <1>2, <1>3, <1>4
<1>8. /\ \A x \in Pending(some) : x = <<x[1], x[2]>> /\ x[1] \in Calls
      /\ \A x \in Pending(some)' : x = <<x[1], x[2]>> /\ x[1] \in Calls
  BY <1>3, <1>4
<1> DEFINE P == Pending(some)
           Q == Pending(some)'
<1> HIDE DEF P, Q
<1>9. move \in Bijection(rest, Q)
  <2>1. ASSUME NEW x \in rest PROVE move[x] \in Q
    <3>1. CASE x[1] = c
      <4>1. x = <<c, x[2]>> /\ x # first /\ x \in Pending(some)
        BY <1>8, <3>1
      <4>2. x[2] \in 1 .. Len(p) /\ p[x[2]] \in some /\ x[2] # 1
        BY <1>5, <4>1
      <4>3. x[2] - 1 \in 1 .. Len(p) - 1 /\ (x[2] - 1) + 1 = x[2]
        BY <1>1, <4>2
      <4>4. <<c, x[2] - 1>> \in Pending(some)'
        BY <1>6, <4>2, <4>3
      <4>5. QED
        BY <3>1, <4>4 DEF Q
    <3>2. CASE x[1] # c
      <4>1. x = <<x[1], x[2]>> /\ x[1] \in Calls \ {c} /\ x \in Pending(some)
        BY <1>8, <3>2
      <4>2. x \in Pending(some)'
        BY <1>7, <4>1
      <4>3. QED
        BY <3>2, <4>2 DEF Q
    <3>3. QED
      BY <3>1, <3>2
  <2>2. ASSUME NEW y \in Q PROVE \E x \in rest : move[x] = y
    <3>1. y = <<y[1], y[2]>> /\ y[1] \in Calls /\ y \in Pending(some)'
      BY <1>8 DEF Q
    <3>2. CASE y[1] = c
      <4>1. y[2] \in 1 .. Len(p) - 1 /\ p[y[2] + 1] \in some
        BY <1>6, <3>1, <3>2
      <4>2. y[2] + 1 \in 1 .. Len(p) /\ (y[2] + 1) - 1 = y[2] /\ y[2] + 1 # 1
        BY <1>1, <4>1
      <4>3. <<c, y[2] + 1>> \in rest
        BY <1>5, <4>1, <4>2
      <4>4. move[<<c, y[2] + 1>>] = <<c, y[2]>>
        BY <4>2, <4>3
      <4>5. QED
        BY <3>1, <3>2, <4>3, <4>4
    <3>3. CASE y[1] # c
      <4>1. y \in Pending(some) /\ y # first
        BY <1>7, <3>1, <3>3
      <4>2. QED
        BY <3>3, <4>1
    <3>4. QED
      BY <3>2, <3>3
  <2>3. ASSUME NEW x \in rest, NEW y \in rest, move[x] = move[y] PROVE x = y
    <3>1. x = <<x[1], x[2]>> /\ y = <<y[1], y[2]>> /\ x \in Pending(some) /\ y \in Pending(some)
      BY <1>8
    <3>2. move[x][1] = x[1] /\ move[y][1] = y[1]
      OBVIOUS
    <3>3. x[1] = y[1]
      BY <2>3, <3>2
    <3>4. CASE x[1] = c
      <4>1. x[2] \in 1 .. Len(p) /\ y[2] \in 1 .. Len(p)
        BY <1>5, <3>1, <3>3, <3>4
      <4>2. x[2] - 1 = y[2] - 1
        BY <2>3, <3>3, <3>4
      <4>3. x[2] = y[2]
        BY <1>1, <4>1, <4>2
      <4>4. QED
        BY <3>1, <3>3, <4>3
    <3>5. CASE x[1] # c
      BY <2>3, <3>3, <3>5
    <3>6. QED
      BY <3>4, <3>5
  <2>4. move \in [rest -> Q]
    BY <2>1
  <2> HIDE DEF move, rest
  <2>5. QED
    BY <2>2, <2>3, <2>4 DEF Bijection, Injection, Surjection, IsInjective
<1>10. IsFiniteSet(Pending(some)) /\ Cardinality(Pending(some)) \in Nat
  BY PendingFinite
<1>11. IsFiniteSet(rest) /\ Cardinality(Q) = Cardinality(rest)
  <2>1. IsFiniteSet(rest)
    BY <1>10, FS_Subset
  <2>2. ExistsBijection(rest, Q)
    BY <1>9 DEF ExistsBijection
  <2> HIDE DEF rest
  <2>3. QED
    BY <2>1, <2>2, FS_Bijection
<1>12. first \in Pending(some) <=> Head(todo[c]) \in some
  BY <1>1, <1>5 DEF p
<1>13. CASE first \in Pending(some)
  <2>1. Cardinality(rest) = Cardinality(Pending(some)) - 1
    BY <1>10, <1>13, FS_RemoveElement
  <2>2. QED
    BY <1>11, <1>12, <1>13, <2>1 DEF Q
<1>14. CASE first \notin Pending(some)
  <2>1. rest = Pending(some)
    BY <1>14
  <2>2. Cardinality(Q) = Cardinality(Pending(some))
    BY <1>11, <2>1
  <2>3. Cardinality(Pending(some)) - 0 = Cardinality(Pending(some))
    BY <1>10
  <2>4. QED
    BY <1>12, <1>14, <2>2, <2>3 DEF Q
<1>15. QED
  BY <1>13, <1>14

-----------------------------------------------------------------------------
(* Every step keeps the invariant.                                         *)

LEMMA Typed ==
  ASSUME TypeOK
  PROVE  /\ scenario \in DOMAIN Scenarios
         /\ Scenarios[scenario].calls \in Nat /\ Scenarios[scenario].controls \in Nat
         /\ count \in [Counters -> Nat] /\ copy \in [Counters -> Nat]
         /\ todo \in [Calls -> Seq(Counters)] /\ made \in Nat
         /\ Len(Order) \in Nat \ {0} /\ DOMAIN Order = 1 .. Len(Order)
         /\ \A i \in 1 .. Len(Order) : Order[i] \in Counters
         /\ Listed(scenario) = {Order[i] : i \in 1 .. Len(Order)}
<1>1. scenario \in DOMAIN Scenarios
  BY DEF TypeOK
<1>2. /\ Order \in Seq(Counters) /\ Len(Order) \in Nat \ {0} /\ DOMAIN Order = 1 .. Len(Order)
      /\ Scenarios[scenario].calls \in Nat /\ Scenarios[scenario].controls \in Nat
  BY <1>1, ScenarioTyped DEF Order
<1>3. \A i \in 1 .. Len(Order) : Order[i] \in Counters
  BY <1>2, LenProperties
<1>4. 0 .. 3 * Scenarios[scenario].calls \subseteq Nat
  BY <1>2
<1>5. count \in [Counters -> Nat] /\ copy \in [Counters -> Nat]
  BY <1>4 DEF TypeOK
<1>6. todo \in [Calls -> Seq(Counters)]
  BY DEF TypeOK
<1>7. made \in Nat
  BY <1>2 DEF TypeOK
<1>8. Listed(scenario) = {Order[i] : i \in 1 .. Len(Order)}
  BY <1>2 DEF Listed, Order
<1>9. QED
  BY <1>1, <1>2, <1>3, <1>5, <1>6, <1>7, <1>8

LEMMA TotalTyped ==
  ASSUME TypeOK, NEW some \in SUBSET Counters
  PROVE  /\ Cardinality(Units(count, some)) \in Nat /\ Cardinality(Pending(some)) \in Nat
         /\ Total(some) \in Nat
<1>1. Cardinality(Units(count, some)) \in Nat
  BY Typed, UnitsFinite
<1>2. Cardinality(Pending(some)) \in Nat
  BY Typed, PendingFinite
<1>3. QED
  BY <1>1, <1>2 DEF Total

LEMMA RestPending ==
  ASSUME AtRest, NEW some
  PROVE  Pending(some) = {} /\ Cardinality(Pending(some)) = 0
<1>1. \A c \in Calls : Places(todo[c], some) = {}
  BY DEF AtRest, Places
<1>2. Pending(some) = {}
  BY <1>1 DEF Pending
<1>3. QED
  BY <1>2, FS_EmptySet

LEMMA RestBalanced ==
  ASSUME TypeOK, AtRest, \A b \in Balances : Total(b.whole) = Total(b.parts)
  PROVE  Balanced(count)
<1> SUFFICES ASSUME NEW b \in Balances
             PROVE  Cardinality(Units(count, b.whole)) = Cardinality(Units(count, b.parts))
  BY DEF Balanced
<1>1. b.whole \in SUBSET Counters /\ b.parts \in SUBSET Counters
  BY Typed, BalanceTyped
<1>2. /\ Cardinality(Units(count, b.whole)) \in Nat /\ Cardinality(Pending(b.whole)) = 0
      /\ Cardinality(Units(count, b.parts)) \in Nat /\ Cardinality(Pending(b.parts)) = 0
  BY <1>1, TotalTyped, RestPending
<1>3. Total(b.whole) = Total(b.parts)
  OBVIOUS
<1>4. QED
  BY <1>2, <1>3 DEF Total

LEMMA Busy ==
  ASSUME IInv, ~AtRest
  PROVE  (clean => control.op # "reset") /\ (settled => control.op # "snapshot")
  BY DEF IInv, Counting, Resetting, Copying

\* Counters of which all are 0 balance.
LEMMA ZeroUnits ==
  ASSUME NEW n, NEW some, \A k \in some : n[k] = 0
  PROVE  Units(n, some) = {} /\ Cardinality(Units(n, some)) = 0
<1>1. Units(n, some) = {}
  BY DEF Units
<1>2. QED
  BY <1>1, FS_EmptySet

LEMMA CopyKept ==
  ASSUME copy' = copy, scenario' = scenario, SnapshotBalanced, settled' => settled,
         settled' /\ control'.op # "snapshot" => control.op # "snapshot"
  PROVE  SnapshotBalanced'
<1>1. \A some : Units(copy', some) = Units(copy, some)
  BY DEF Units
<1>2. Balanced(copy)' <=> Balanced(copy)
  BY <1>1, BalancesKept DEF Balanced, Units
<1>3. QED
  BY <1>2 DEF SnapshotBalanced

LEMMA InitInvariant == Init => IInv
<1> SUFFICES ASSUME Init PROVE IInv
  OBVIOUS
<1>1. /\ scenario \in DOMAIN Scenarios /\ AtRest /\ clean = TRUE /\ settled = FALSE
      /\ count = [k \in Counters |-> 0] /\ copy = [k \in Counters |-> 0]
      /\ todo = [c \in Calls |-> <<>>] /\ made = 0
      /\ control = [op |-> "none", next |-> 1, left |-> Scenarios[scenario].controls]
  BY DEF Init, AtRest
<1>2. /\ Scenarios[scenario].calls \in Nat /\ Scenarios[scenario].controls \in Nat
      /\ Len(Order) \in Nat \ {0}
  BY <1>1, ScenarioTyped DEF Order
<1>3. TypeOK
  <2>1. 0 \in 0 .. 3 * Scenarios[scenario].calls
    BY <1>2
  <2>2. count \in [Counters -> 0 .. 3 * Scenarios[scenario].calls]
    BY <1>1, <2>1
  <2>3. copy \in [Counters -> 0 .. 3 * Scenarios[scenario].calls]
    BY <1>1, <2>1
  <2>4. todo \in [Calls -> Seq(Counters)]
    BY <1>1, EmptySeq
  <2>5. made \in 0 .. Scenarios[scenario].calls
    BY <1>1, <1>2
  <2>6. control \in [op : {"none", "reset", "snapshot"}, next : 1 .. Len(Order),
                     left : 0 .. Scenarios[scenario].controls]
    BY <1>1, <1>2
  <2>7. QED
    BY <1>1, <2>2, <2>3, <2>4, <2>5, <2>6 DEF TypeOK
<1>4. Bounded
  <2> SUFFICES ASSUME NEW k \in Counters PROVE count[k] + Cardinality(Pending({k})) <= 3 * made
    BY DEF Bounded
  <2>1. count[k] = 0 /\ Cardinality(Pending({k})) = 0
    BY <1>1, RestPending
  <2>2. QED
    BY <1>1, <2>1
<1>5. Covered
  BY <1>1 DEF Covered
<1>6. Counting
  <2> SUFFICES ASSUME NEW b \in Balances PROVE Total(b.whole) = Total(b.parts)
    BY <1>1 DEF Counting
  <2>1. /\ \A k \in b.whole : count[k] = 0
        /\ \A k \in b.parts : count[k] = 0
    BY <1>1, BalanceTyped
  <2>2. /\ Cardinality(Units(count, b.whole)) = 0 /\ Cardinality(Units(count, b.parts)) = 0
        /\ Cardinality(Pending(b.whole)) = 0 /\ Cardinality(Pending(b.parts)) = 0
    BY <1>1, <2>1, ZeroUnits, RestPending
  <2>3. QED
    BY <2>2 DEF Total
<1>7. QED
  BY <1>1, <1>3, <1>4, <1>5, <1>6 DEF IInv, Copying, SnapshotBalanced

LEMMA BeginKeeps ==
  ASSUME PathsEven, IInv, NEW c \in Calls, NEW p \in Scenarios[scenario].paths, Begin(c, p)
  PROVE  IInv'
<1>1. /\ TypeOK /\ Bounded /\ Covered /\ Counting /\ Copying /\ SnapshotBalanced
      /\ count \in [Counters -> Nat] /\ todo \in [Calls -> Seq(Counters)] /\ made \in Nat
      /\ scenario \in DOMAIN Scenarios /\ Scenarios[scenario].calls \in Nat
  BY Typed DEF IInv
<1>2. /\ p \in Seq(Counters) /\ Even(scenario, p) /\ Modest(p)
      /\ \A i \in DOMAIN p : p[i] \in Listed(scenario)
  BY <1>1, ScenarioTyped DEF PathsEven
<1>3. /\ todo[c] = <<>> /\ made < Scenarios[scenario].calls
      /\ todo' = [todo EXCEPT ![c] = p] /\ made' = made + 1
      /\ clean' = (clean /\ control.op # "reset") /\ settled' = (settled /\ control.op # "snapshot")
      /\ UNCHANGED <<scenario, count, copy, control>>
  BY DEF Begin
<1>4. \A some : Cardinality(Pending(some)') = Cardinality(Pending(some)) + Advances(p, some)
  BY <1>1, <1>2, <1>3, PendingBegin
<1>5. TypeOK'
  <2>1. todo' \in [Calls -> Seq(Counters)] /\ made' \in 0 .. Scenarios[scenario].calls
    BY <1>1, <1>2, <1>3
  <2>2. clean' \in BOOLEAN /\ settled' \in BOOLEAN
    BY <1>1, <1>3 DEF TypeOK
  <2>3. QED
    BY <1>1, <1>3, <2>1, <2>2 DEF TypeOK, Order
<1>6. Bounded'
  <2> SUFFICES ASSUME NEW k \in Counters PROVE count'[k] + Cardinality(Pending({k})') <= 3 * made'
    BY DEF Bounded
  <2>1. Advances(p, {k}) <= 3 /\ Advances(p, {k}) \in Nat
    BY <1>2, PlacesFinite DEF Modest
  <2>2. count[k] + Cardinality(Pending({k})) <= 3 * made /\ count[k] \in Nat /\ count'[k] = count[k]
    BY <1>1, <1>3 DEF Bounded
  <2>3. Cardinality(Pending({k})') = Cardinality(Pending({k})) + Advances(p, {k})
        /\ Cardinality(Pending({k})) \in Nat
    BY <1>1, <1>4, TotalTyped
  <2>4. QED
    BY <1>1, <1>3, <2>1, <2>2, <2>3
<1>7. Covered'
  BY <1>1, <1>2, <1>3 DEF Covered
<1>8. Counting'
  <2> SUFFICES ASSUME clean, control.op # "reset", NEW b \in Balances
               PROVE  Total(b.whole)' = Total(b.parts)'
    BY <1>3, BalancesKept DEF Counting
  <2>1. Advances(p, b.whole) = Advances(p, b.parts)
    BY <1>2 DEF Even, Balances
  <2>2. Total(b.whole) = Total(b.parts)
    BY <1>1 DEF Counting
  <2>3. /\ Advances(p, b.whole) \in Nat /\ Advances(p, b.parts) \in Nat
        /\ Cardinality(Units(count, b.whole)) \in Nat /\ Cardinality(Pending(b.whole)) \in Nat
        /\ Cardinality(Units(count, b.parts)) \in Nat /\ Cardinality(Pending(b.parts)) \in Nat
    BY <1>1, <1>2, BalanceTyped, PlacesFinite, TotalTyped
  <2>4. /\ Cardinality(Units(count, b.whole)) + Cardinality(Pending(b.whole))
             = Cardinality(Units(count, b.parts)) + Cardinality(Pending(b.parts))
        /\ Total(b.whole)' = Cardinality(Units(count, b.whole)) + Cardinality(Pending(b.whole)')
        /\ Total(b.parts)' = Cardinality(Units(count, b.parts)) + Cardinality(Pending(b.parts)')
    BY <1>3, <2>2 DEF Total, Units
  <2>5. /\ Cardinality(Pending(b.whole)') = Cardinality(Pending(b.whole)) + Advances(p, b.whole)
        /\ Cardinality(Pending(b.parts)') = Cardinality(Pending(b.parts)) + Advances(p, b.parts)
    BY <1>4
  <2>6. QED
    BY <2>1, <2>3, <2>4, <2>5
<1>9. Copying' /\ SnapshotBalanced'
  <2>1. Copying'
    BY <1>3 DEF Copying
  <2>2. SnapshotBalanced'
    BY <1>1, <1>3, CopyKept
  <2>3. QED
    BY <2>1, <2>2
<1>10. QED
  BY <1>5, <1>6, <1>7, <1>8, <1>9 DEF IInv

LEMMA AdvanceKeeps ==
  ASSUME IInv, NEW c \in Calls, Advance(c)
  PROVE  IInv'
<1> DEFINE h == Head(todo[c])
<1>1. /\ TypeOK /\ Bounded /\ Covered /\ Counting /\ Copying /\ SnapshotBalanced
      /\ count \in [Counters -> Nat] /\ todo \in [Calls -> Seq(Counters)] /\ made \in Nat
      /\ scenario \in DOMAIN Scenarios /\ Scenarios[scenario].calls \in Nat
  BY Typed DEF IInv
<1>2. /\ todo[c] # <<>> /\ count' = [count EXCEPT ![h] = @ + 1] /\ todo' = [todo EXCEPT ![c] = Tail(@)]
      /\ UNCHANGED <<scenario, copy, made, control, clean, settled>>
  BY DEF Advance
<1>3. /\ todo[c] \in Seq(Counters) /\ h \in Counters /\ Tail(todo[c]) \in Seq(Counters)
      /\ 1 \in DOMAIN todo[c] /\ h = todo[c][1]
      /\ \A i \in DOMAIN Tail(todo[c]) : i + 1 \in DOMAIN todo[c] /\ Tail(todo[c])[i] = todo[c][i + 1]
  <2> DEFINE p == todo[c]
  <2>1. p \in Seq(Counters) /\ p # <<>>
    BY <1>1, <1>2
  <2> HIDE DEF p
  <2>2. Len(p) \in Nat \ {0} /\ DOMAIN p = 1 .. Len(p) /\ Head(p) = p[1] /\ Head(p) \in Counters
    BY <2>1, LenProperties
  <2>3. Tail(p) \in Seq(Counters) /\ Len(Tail(p)) = Len(p) - 1
        /\ \A i \in 1 .. Len(Tail(p)) : Tail(p)[i] = p[i + 1]
    BY <2>1, HeadTailProperties
  <2>4. DOMAIN Tail(p) = 1 .. Len(Tail(p))
    BY <2>3, LenProperties
  <2>5. 1 \in DOMAIN p /\ \A i \in DOMAIN Tail(p) : i + 1 \in DOMAIN p /\ Tail(p)[i] = p[i + 1]
    BY <2>2, <2>3, <2>4
  <2>6. QED
    BY <2>1, <2>2, <2>3, <2>5 DEF p
<1> HIDE DEF h
<1>4. \A some : Cardinality(Pending(some)') = Cardinality(Pending(some)) - (IF h \in some THEN 1 ELSE 0)
  BY <1>1, <1>2, PendingAdvance DEF h
<1>5. \A some \in SUBSET Counters :
        Cardinality(Units(count', some)) = Cardinality(Units(count, some)) + (IF h \in some THEN 1 ELSE 0)
  <2> SUFFICES ASSUME NEW some \in SUBSET Counters
               PROVE  Cardinality(Units(count', some)) =
                        Cardinality(Units(count, some)) + (IF h \in some THEN 1 ELSE 0)
    OBVIOUS
  <2> DEFINE n == count
             m == count'
  <2>1. /\ n \in [Counters -> Nat] /\ h \in Counters /\ m \in [Counters -> Nat] /\ m[h] = n[h] + 1
        /\ \A k \in Counters \ {h} : m[k] = n[k]
    BY <1>1, <1>2, <1>3
  <2> HIDE DEF n, m
  <2>2. Cardinality(Units(m, some)) = Cardinality(Units(n, some)) + (IF h \in some THEN 1 ELSE 0)
    BY <2>1, UnitsAdvance
  <2>3. QED
    BY <2>2 DEF n, m
<1>6. count' \in [Counters -> Nat] /\ todo' \in [Calls -> Seq(Counters)]
  BY <1>1, <1>2, <1>3
<1>7. Bounded'
  <2> SUFFICES ASSUME NEW k \in Counters PROVE count'[k] + Cardinality(Pending({k})') <= 3 * made'
    BY DEF Bounded
  <2>1. count[k] \in Nat /\ Cardinality(Pending({k})) \in Nat
    BY <1>1, TotalTyped
  <2>2. count[k] + Cardinality(Pending({k})) <= 3 * made /\ made' = made
    BY <1>1, <1>2 DEF Bounded
  <2>3. count'[k] = count[k] + (IF h \in {k} THEN 1 ELSE 0)
    BY <1>1, <1>2, <1>3
  <2>4. Cardinality(Pending({k})') = Cardinality(Pending({k})) - (IF h \in {k} THEN 1 ELSE 0)
    BY <1>4
  <2>5. QED
    BY <1>1, <2>1, <2>2, <2>3, <2>4
<1>8. TypeOK'
  <2>1. ASSUME NEW k \in Counters PROVE count'[k] \in 0 .. 3 * Scenarios[scenario].calls
    <3>1. count'[k] + Cardinality(Pending({k})') <= 3 * made
      BY <1>2, <1>7 DEF Bounded
    <3>2. Cardinality(Pending({k})') >= 0 /\ Cardinality(Pending({k})') \in Int
      <4>1. Cardinality(Pending({k})) \in Nat
        BY <1>1, TotalTyped
      <4>2. Cardinality(Pending({k})') = Cardinality(Pending({k})) - (IF h \in {k} THEN 1 ELSE 0)
        BY <1>4
      <4>3. h = k => Cardinality(Pending({k})) >= 1
        <5>1. ASSUME h = k PROVE Pending({k}) # {}
          <6>1. 1 \in Places(todo[c], {k})
            BY <1>3, <5>1 DEF Places
          <6>2. <<c, 1>> \in Pending({k})
            BY <6>1 DEF Pending
          <6>3. QED
            BY <6>2
        <5>2. IsFiniteSet(Pending({k}))
          BY <1>1, PendingFinite
        <5>3. QED
          BY <4>1, <5>1, <5>2, FS_EmptySet
      <4>4. QED
        BY <4>1, <4>2, <4>3
    <3>3. count'[k] \in Nat /\ made <= Scenarios[scenario].calls
      BY <1>1, <1>6 DEF TypeOK
    <3>4. QED
      BY <1>1, <3>1, <3>2, <3>3
  <2>2. count' \in [Counters -> 0 .. 3 * Scenarios[scenario].calls]
    BY <1>6, <2>1
  <2>3. QED
    BY <1>1, <1>2, <1>6, <2>2 DEF TypeOK, Order
<1>9. Covered'
  <2>1. h \in Listed(scenario)
    BY <1>1, <1>3 DEF Covered
  <2>2. \A k \in Counters \ Listed(scenario) : count'[k] = 0
    BY <1>1, <1>2, <1>3, <2>1 DEF Covered
  <2>3. ASSUME NEW d \in Calls, NEW i \in DOMAIN todo'[d] PROVE todo'[d][i] \in Listed(scenario)
    <3>1. CASE d = c
      <4>1. todo'[d] = Tail(todo[c])
        BY <1>1, <1>2, <3>1
      <4>2. QED
        BY <1>1, <1>3, <4>1 DEF Covered
    <3>2. CASE d # c
      BY <1>1, <1>2, <3>2 DEF Covered
    <3>3. QED
      BY <3>1, <3>2
  <2>4. QED
    BY <1>1, <1>2, <2>2, <2>3 DEF Covered
<1>10. (clean => control.op # "reset") /\ (settled => control.op # "snapshot")
  <2>1. ~AtRest
    BY <1>2 DEF AtRest
  <2>2. QED
    BY <2>1, Busy
<1>11. Counting'
  <2> SUFFICES ASSUME clean, NEW b \in Balances PROVE Total(b.whole)' = Total(b.parts)'
    BY <1>2, <1>10, BalancesKept DEF Counting
  <2>1. ASSUME NEW some \in SUBSET Counters PROVE Total(some)' = Total(some)
    <3>1. Cardinality(Units(count, some)) \in Nat /\ Cardinality(Pending(some)) \in Nat
      BY <1>1, TotalTyped
    <3>2. Total(some)' = Cardinality(Units(count', some)) + Cardinality(Pending(some)')
      BY DEF Total, Units
    <3>3. Cardinality(Pending(some)') = Cardinality(Pending(some)) - (IF h \in some THEN 1 ELSE 0)
      BY <1>4
    <3>4. Cardinality(Units(count', some)) = Cardinality(Units(count, some)) + (IF h \in some THEN 1 ELSE 0)
      BY <1>5
    <3>5. QED
      BY <3>1, <3>2, <3>3, <3>4 DEF Total
  <2>2. Total(b.whole) = Total(b.parts)
    BY <1>1, <1>10 DEF Counting
  <2>3. b.whole \in SUBSET Counters /\ b.parts \in SUBSET Counters
    BY <1>1, BalanceTyped
  <2>4. Total(b.whole)' = Total(b.whole) /\ Total(b.parts)' = Total(b.parts)
    BY <2>1, <2>3
  <2>5. QED
    BY <2>2, <2>4
<1>12. Copying' /\ SnapshotBalanced'
  <2>1. Copying'
    BY <1>2, <1>10 DEF Copying
  <2>2. SnapshotBalanced'
    BY <1>1, <1>2, CopyKept
  <2>3. QED
    BY <2>1, <2>2
<1>13. QED
  BY <1>7, <1>8, <1>9, <1>11, <1>12 DEF IInv

\* What the calls have yet to count does not change with what the injector does.
LEMMA CallsKept ==
  ASSUME UNCHANGED todo
  PROVE  AtRest' = AtRest /\ \A some : Pending(some)' = Pending(some)
  BY DEF AtRest, Pending, Places

LEMMA TotalKept ==
  ASSUME UNCHANGED <<count, todo>>, NEW some
  PROVE  Total(some)' = Total(some)
  BY CallsKept DEF Total, Units

LEMMA BeginControlKeeps ==
  ASSUME IInv, BeginReset \/ BeginSnapshot
  PROVE  IInv'
<1>1. /\ TypeOK /\ Bounded /\ Covered /\ Counting /\ Copying /\ SnapshotBalanced
      /\ Scenarios[scenario].controls \in Nat /\ Len(Order) \in Nat \ {0}
  BY Typed DEF IInv
<1>2. /\ UNCHANGED <<scenario, count, copy, todo, made>>
      /\ control.op = "none" /\ control'.op \in {"reset", "snapshot"} /\ control'.next = 1
      /\ control' \in [op : {"none", "reset", "snapshot"}, next : 1 .. Len(Order),
                       left : 0 .. Scenarios[scenario].controls]
  <2>1. PICK op \in {"reset", "snapshot"} : BeginControl(op)
    BY DEF BeginReset, BeginSnapshot
  <2>2. control.op = "none" /\ control.left \in 0 .. Scenarios[scenario].controls /\ control.left > 0
        /\ control' = [op |-> op, next |-> 1, left |-> control.left - 1]
    BY <1>1, <2>1 DEF TypeOK, BeginControl, Idle
  <2>3. control.left - 1 \in 0 .. Scenarios[scenario].controls /\ 1 \in 1 .. Len(Order)
    BY <1>1, <2>2
  <2>4. UNCHANGED <<scenario, count, copy, todo, made>>
    BY DEF BeginReset, BeginSnapshot
  <2>5. QED
    BY <2>2, <2>3, <2>4
<1>3. /\ AtRest' = AtRest /\ (\A some : Pending(some)' = Pending(some))
      /\ \A some : Total(some)' = Total(some)
  BY <1>2, CallsKept, TotalKept
<1>4. 1 .. control'.next - 1 = {}
  BY <1>2
<1>5. Bounded' /\ Covered'
  BY <1>1, <1>2, <1>3 DEF Bounded, Covered
<1>6. CASE BeginReset
  <2>1. clean' = AtRest /\ settled' = settled /\ control'.op = "reset"
    BY <1>6 DEF BeginReset, BeginControl
  <2>2. TypeOK'
    BY <1>1, <1>2, <2>1 DEF TypeOK, AtRest, Order
  <2>3. Counting'
    BY <1>3, <1>4, <2>1 DEF Counting, Resetting
  <2>4. Copying'
    BY <2>1 DEF Copying
  <2>5. SnapshotBalanced'
    BY <1>1, <1>2, <2>1, CopyKept
  <2>6. QED
    BY <1>5, <2>2, <2>3, <2>4, <2>5 DEF IInv
<1>7. CASE BeginSnapshot
  <2>1. settled' = (clean /\ AtRest) /\ clean' = clean /\ control'.op = "snapshot"
    BY <1>7 DEF BeginSnapshot, BeginControl
  <2>2. TypeOK'
    BY <1>1, <1>2, <2>1 DEF TypeOK, AtRest, Order
  <2>3. Counting'
    BY <1>1, <1>2, <1>3, <2>1, BalancesKept DEF Counting
  <2>4. Copying'
    BY <1>3, <1>4, <2>1 DEF Copying
  <2>5. SnapshotBalanced'
    BY <2>1 DEF SnapshotBalanced
  <2>6. QED
    BY <1>5, <2>2, <2>3, <2>4, <2>5 DEF IInv
<1>8. QED
  BY <1>6, <1>7

\* Where the injector's thread is in Order after a step, and that it is done after the last one.
LEMMA ControlSteps ==
  ASSUME TypeOK, control.op # "none", StepControl
  PROVE  /\ control.next \in 1 .. Len(Order) /\ At = Order[control.next] /\ At \in Counters
         /\ At \in Listed(scenario)
         /\ control' \in [op : {"none", "reset", "snapshot"}, next : 1 .. Len(Order),
                          left : 0 .. Scenarios[scenario].controls]
         /\ \/ /\ control'.op = control.op /\ control'.next - 1 = control.next
            \/ /\ control'.op = "none" /\ control.next = Len(Order)
<1> DEFINE L == Len(Order)
           M == Scenarios[scenario].controls
           n == control.next
<1>1. control \in [op : {"none", "reset", "snapshot"}, next : 1 .. L, left : 0 .. M]
  BY DEF TypeOK
<1>2. L \in Nat \ {0} /\ n \in 1 .. L /\ At = Order[n] /\ At \in Counters /\ At \in Listed(scenario)
  BY <1>1, Typed DEF At
<1>3. CASE n < L
  <2>1. control' = [control EXCEPT !.next = @ + 1]
    BY <1>3 DEF StepControl
  <2>2. control' = [op |-> control.op, next |-> n + 1, left |-> control.left]
    BY <1>1, <2>1
  <2> HIDE DEF L, n, M
  <2>3. n + 1 \in 1 .. L /\ (n + 1) - 1 = n
    BY <1>2, <1>3
  <2>4. control' \in [op : {"none", "reset", "snapshot"}, next : 1 .. L, left : 0 .. M]
    BY <1>1, <2>2, <2>3
  <2>5. control'.op = control.op /\ control'.next - 1 = n
    BY <2>2, <2>3
  <2>6. QED
    BY <1>2, <2>4, <2>5 DEF L, n, M
<1>4. CASE ~(n < L)
  <2>1. control' = [control EXCEPT !.op = "none", !.next = 1]
    BY <1>4 DEF StepControl
  <2>2. control' = [op |-> "none", next |-> 1, left |-> control.left]
    BY <1>1, <2>1
  <2> HIDE DEF L, n, M
  <2>3. n = L /\ 1 \in 1 .. L
    BY <1>2, <1>4
  <2>4. control' \in [op : {"none", "reset", "snapshot"}, next : 1 .. L, left : 0 .. M]
    BY <1>1, <2>2, <2>3
  <2>5. QED
    BY <1>2, <2>2, <2>3, <2>4 DEF L, n, M
<1>5. QED
  BY <1>3, <1>4

(* A reset that met no call has zeroed the counters up to where it is, and  *)
(* after the last one all of them: the others no call has advanced.         *)
LEMMA Zeroed ==
  ASSUME IInv, Store, clean
  PROVE  /\ \A i \in 1 .. control.next : count'[Order[i]] = 0
         /\ control'.op = "none" => \A k \in Counters : count'[k] = 0
<1>1. /\ TypeOK /\ Covered /\ Resetting
      /\ count \in [Counters -> Nat] /\ Len(Order) \in Nat \ {0}
  BY Typed DEF IInv, Store, Counting
<1>2. /\ control.op = "reset" /\ StepControl /\ count' = [count EXCEPT ![At] = 0]
  BY DEF Store
<1>3. /\ control.next \in 1 .. Len(Order) /\ At = Order[control.next] /\ At \in Counters
      /\ control'.op = "none" => control.next = Len(Order)
  BY <1>1, <1>2, ControlSteps
<1>4. \A k \in Counters : count'[k] = IF k = At THEN 0 ELSE count[k]
  BY <1>1, <1>2
<1>5. \A i \in 1 .. control.next : count'[Order[i]] = 0
  <2> DEFINE n == control.next
  <2> SUFFICES ASSUME NEW i \in 1 .. n PROVE count'[Order[i]] = 0
    OBVIOUS
  <2>1. n \in Nat /\ i \in 1 .. Len(Order)
    <3>1. n \in 1 .. Len(Order) /\ i \in 1 .. n
      BY <1>3
    <3> HIDE DEF n
    <3>2. QED
      BY <1>1, <3>1
  <2>2. Order[i] \in Counters
    BY <1>1, <2>1, Typed
  <2>3. CASE i = n
    BY <1>3, <1>4, <2>2, <2>3
  <2>4. CASE i # n
    <3>1. i \in 1 .. n - 1
      <4> HIDE DEF n
      <4>1. QED
        BY <2>1, <2>4
    <3>2. QED
      BY <1>1, <1>4, <2>2, <3>1 DEF Resetting
  <2>5. QED
    BY <2>3, <2>4
<1>6. CASE control'.op = "none"
  <2>1. \A k \in Listed(scenario) : count'[k] = 0
    BY <1>1, <1>3, <1>5, <1>6, Typed
  <2>2. \A k \in Counters \ Listed(scenario) : count'[k] = 0
    BY <1>1, <1>4 DEF Covered
  <2>3. QED
    BY <1>5, <2>1, <2>2
<1>7. QED
  BY <1>5, <1>6

LEMMA StoreKeeps ==
  ASSUME IInv, Store
  PROVE  IInv'
<1>1. /\ TypeOK /\ Bounded /\ Covered /\ Counting /\ Copying /\ SnapshotBalanced
      /\ count \in [Counters -> Nat] /\ made \in Nat /\ Scenarios[scenario].calls \in Nat
      /\ Len(Order) \in Nat \ {0}
  BY Typed DEF IInv
<1>2. /\ control.op = "reset" /\ StepControl /\ count' = [count EXCEPT ![At] = 0]
      /\ UNCHANGED <<scenario, copy, todo, made, clean, settled>>
  BY DEF Store
<1>3. /\ control.next \in 1 .. Len(Order) /\ At = Order[control.next] /\ At \in Counters
      /\ At \in Listed(scenario)
      /\ control' \in [op : {"none", "reset", "snapshot"}, next : 1 .. Len(Order),
                       left : 0 .. Scenarios[scenario].controls]
      /\ \/ /\ control'.op = control.op /\ control'.next - 1 = control.next
         \/ /\ control'.op = "none" /\ control.next = Len(Order)
  BY <1>1, <1>2, ControlSteps
<1>4. AtRest' = AtRest /\ \A some : Pending(some)' = Pending(some)
  BY <1>2, CallsKept
<1>5. \A k \in Counters : count'[k] = IF k = At THEN 0 ELSE count[k]
  BY <1>1, <1>2
<1>6. TypeOK'
  <2>1. 0 \in 0 .. 3 * Scenarios[scenario].calls
    BY <1>1
  <2>2. count' \in [Counters -> 0 .. 3 * Scenarios[scenario].calls]
    BY <1>1, <1>2, <2>1 DEF TypeOK
  <2>3. QED
    BY <1>1, <1>2, <1>3, <2>2 DEF TypeOK, Order
<1>7. Bounded'
  <2> SUFFICES ASSUME NEW k \in Counters PROVE count'[k] + Cardinality(Pending({k})') <= 3 * made'
    BY DEF Bounded
  <2>1. count[k] \in Nat /\ Cardinality(Pending({k})) \in Nat /\ count[k] + Cardinality(Pending({k})) <= 3 * made
    BY <1>1, TotalTyped DEF Bounded
  <2>2. count'[k] \in Nat /\ count'[k] <= count[k]
    BY <1>5, <2>1
  <2>3. Cardinality(Pending({k})') = Cardinality(Pending({k})) /\ made' = made
    BY <1>2, <1>4
  <2>4. QED
    BY <1>1, <2>1, <2>2, <2>3
<1>8. Covered'
  BY <1>1, <1>2, <1>5 DEF Covered
<1>9. Counting'
  <2> SUFFICES ASSUME clean
               PROVE  IF control'.op = "reset" THEN Resetting'
                      ELSE \A b \in Balances : Total(b.whole)' = Total(b.parts)'
    BY <1>2, BalancesKept DEF Counting
  <2>1. Resetting
    BY <1>1, <1>2 DEF Counting
  <2>2. \A i \in 1 .. control.next : count'[Order[i]] = 0
    BY Zeroed
  <2>3. CASE control'.op = control.op /\ control'.next - 1 = control.next
    BY <1>2, <1>4, <2>1, <2>2, <2>3 DEF Resetting, Order
  <2>4. CASE control'.op = "none" /\ control.next = Len(Order)
    <3>1. \A k \in Counters : count'[k] = 0
      BY <2>4, Zeroed
    <3>2. ASSUME NEW some \in SUBSET Counters PROVE Total(some)' = 0
      <4>1. Cardinality(Units(count', some)) = 0
        BY <3>1, ZeroUnits
      <4>2. Cardinality(Pending(some)') = 0
        BY <1>4, <2>1, RestPending DEF Resetting
      <4>3. QED
        BY <4>1, <4>2 DEF Total, Units
    <3>3. scenario \in DOMAIN Scenarios
      BY <1>1, Typed
    <3>4. QED
      BY <2>4, <3>2, <3>3, BalanceTyped
  <2>5. QED
    BY <1>3, <2>3, <2>4
<1>10. Copying'
  BY <1>2, <1>3 DEF Copying
<1>11. SnapshotBalanced'
  BY <1>1, <1>2, CopyKept
<1>12. QED
  BY <1>6, <1>7, <1>8, <1>9, <1>10, <1>11 DEF IInv

(* A snapshot that met no call has copied the counters up to where it is,  *)
(* and after the last one all of them: no call has advanced the others.    *)
LEMMA Copied ==
  ASSUME IInv, Load, settled
  PROVE  /\ \A i \in 1 .. control.next : copy'[Order[i]] = count[Order[i]]
         /\ control'.op = "none" => copy' = count
<1>1. /\ TypeOK /\ Covered /\ Copying
      /\ count \in [Counters -> Nat] /\ copy \in [Counters -> Nat] /\ Len(Order) \in Nat \ {0}
  BY Typed DEF IInv
<1>2. control.op = "snapshot" /\ StepControl /\ copy' = [copy EXCEPT ![At] = count[At]]
  BY DEF Load
<1>3. /\ control.next \in 1 .. Len(Order) /\ At = Order[control.next] /\ At \in Counters
      /\ At \in Listed(scenario)
      /\ control'.op = "none" => control.next = Len(Order)
  BY <1>1, <1>2, ControlSteps
<1>4. \A k \in Counters : copy'[k] = IF k = At THEN count[k] ELSE copy[k]
  BY <1>1, <1>2
<1>5. \A i \in 1 .. control.next : copy'[Order[i]] = count[Order[i]]
  <2> DEFINE n == control.next
  <2> SUFFICES ASSUME NEW i \in 1 .. n PROVE copy'[Order[i]] = count[Order[i]]
    OBVIOUS
  <2>1. n \in Nat /\ i \in 1 .. Len(Order)
    <3>1. n \in 1 .. Len(Order) /\ i \in 1 .. n
      BY <1>3
    <3> HIDE DEF n
    <3>2. QED
      BY <1>1, <3>1
  <2>2. Order[i] \in Counters
    BY <1>1, <2>1, Typed
  <2>3. CASE i = n
    BY <1>3, <1>4, <2>2, <2>3
  <2>4. CASE i # n
    <3>1. i \in 1 .. n - 1
      <4> HIDE DEF n
      <4>1. QED
        BY <2>1, <2>4
    <3>2. QED
      BY <1>1, <1>2, <1>4, <2>2, <3>1 DEF Copying
  <2>5. QED
    BY <2>3, <2>4
<1>6. CASE control'.op = "none"
  <2>1. \A k \in Listed(scenario) : copy'[k] = count[k]
    BY <1>1, <1>3, <1>5, <1>6, Typed
  <2>2. \A k \in Counters \ Listed(scenario) : copy'[k] = count[k]
    BY <1>1, <1>3, <1>4 DEF Covered
  <2>3. copy' \in [Counters -> Nat] /\ count \in [Counters -> Nat]
    BY <1>1, <1>2
  <2>4. copy' = count
    BY <2>1, <2>2, <2>3
  <2>5. QED
    BY <1>5, <2>4
<1>7. QED
  BY <1>5, <1>6

LEMMA LoadKeeps ==
  ASSUME IInv, Load
  PROVE  IInv'
<1>1. /\ TypeOK /\ Bounded /\ Covered /\ Counting /\ Copying /\ SnapshotBalanced
      /\ count \in [Counters -> Nat] /\ copy \in [Counters -> Nat] /\ Len(Order) \in Nat \ {0}
  BY Typed DEF IInv
<1>2. /\ control.op = "snapshot" /\ StepControl /\ copy' = [copy EXCEPT ![At] = count[At]]
      /\ UNCHANGED <<scenario, count, todo, made, clean, settled>>
  BY DEF Load
<1>3. /\ control.next \in 1 .. Len(Order) /\ At = Order[control.next] /\ At \in Counters
      /\ At \in Listed(scenario)
      /\ control' \in [op : {"none", "reset", "snapshot"}, next : 1 .. Len(Order),
                       left : 0 .. Scenarios[scenario].controls]
      /\ \/ /\ control'.op = control.op /\ control'.next - 1 = control.next
         \/ /\ control'.op = "none" /\ control.next = Len(Order)
  BY <1>1, <1>2, ControlSteps
<1>4. /\ AtRest' = AtRest /\ (\A some : Pending(some)' = Pending(some))
      /\ \A some : Total(some)' = Total(some)
  BY <1>2, CallsKept, TotalKept
<1>5. \A k \in Counters : copy'[k] = IF k = At THEN count[k] ELSE copy[k]
  BY <1>1, <1>2
<1>6. TypeOK'
  <2>1. copy' \in [Counters -> 0 .. 3 * Scenarios[scenario].calls]
    BY <1>1, <1>2, <1>3 DEF TypeOK
  <2>2. QED
    BY <1>1, <1>2, <1>3, <2>1 DEF TypeOK, Order
<1>7. Bounded' /\ Covered'
  BY <1>1, <1>2, <1>3, <1>4, <1>5 DEF Bounded, Covered
<1>8. control'.op # "reset"
  BY <1>2, <1>3
<1>9. Counting'
  BY <1>1, <1>2, <1>4, <1>8, BalancesKept DEF Counting
<1>10. settled => \A i \in 1 .. control.next : copy'[Order[i]] = count[Order[i]]
  BY Copied
<1>11. settled => clean /\ AtRest
  BY <1>1, <1>2 DEF Copying
<1>12. CASE control'.op = control.op /\ control'.next - 1 = control.next
  <2>1. Copying'
    BY <1>2, <1>4, <1>10, <1>11, <1>12 DEF Copying, Order
  <2>2. SnapshotBalanced'
    BY <1>2, <1>12 DEF SnapshotBalanced
  <2>3. QED
    BY <1>6, <1>7, <1>9, <2>1, <2>2 DEF IInv
<1>13. CASE control'.op = "none" /\ control.next = Len(Order)
  <2>1. Copying'
    BY <1>13 DEF Copying
  <2>2. SnapshotBalanced'
    <3> SUFFICES ASSUME settled PROVE Balanced(copy)'
      BY <1>2 DEF SnapshotBalanced
    <3>1. copy' = count
      BY <1>13, Copied
    <3>2. Balanced(count)
      BY <1>1, <1>2, <1>11, RestBalanced DEF Counting
    <3>3. Balanced(copy)' <=> \A b \in Balances : Cardinality(Units(copy', b.whole)) = Cardinality(Units(copy', b.parts))
      BY <1>2, BalancesKept DEF Balanced, Units
    <3>4. QED
      BY <3>1, <3>2, <3>3 DEF Balanced
  <2>3. QED
    BY <1>6, <1>7, <1>9, <2>1, <2>2 DEF IInv
<1>14. QED
  BY <1>3, <1>12, <1>13

LEMMA Invariance == ASSUME PathsEven PROVE Spec => []IInv
<1>1. ASSUME IInv, [Next]_vars PROVE IInv'
  <2>1. Scenarios[scenario].at \subseteq Calls
    BY <1>1, Typed, ScenarioTyped DEF IInv
  <2>2. CASE Next
    <3>1. CASE \E c \in Scenarios[scenario].at : Advance(c)
      BY <1>1, <2>1, <3>1, AdvanceKeeps
    <3>2. CASE \E c \in Scenarios[scenario].at : \E p \in Scenarios[scenario].paths : Begin(c, p)
      BY <1>1, <2>1, <3>2, BeginKeeps
    <3>3. CASE BeginReset \/ BeginSnapshot
      BY <1>1, <3>3, BeginControlKeeps
    <3>4. CASE Store
      BY <1>1, <3>4, StoreKeeps
    <3>5. CASE Load
      BY <1>1, <3>5, LoadKeeps
    <3>6. QED
      BY <2>2, <3>1, <3>2, <3>3, <3>4, <3>5 DEF Next
  <2>3. CASE UNCHANGED vars
    <3>1. UNCHANGED <<scenario, count, copy, todo, made, control, clean, settled>>
      BY <2>3 DEF vars
    <3>2. TypeOK' = TypeOK
      BY <3>1 DEF TypeOK, Order
    <3>3. /\ AtRest' = AtRest /\ (\A some : Pending(some)' = Pending(some))
          /\ \A some : Total(some)' = Total(some)
      BY <3>1, CallsKept, TotalKept
    <3>4. Bounded' = Bounded /\ Covered' = Covered
      BY <3>1, <3>3 DEF Bounded, Covered
    <3>5. Counting' = Counting /\ Copying' = Copying
      BY <3>1, <3>3, BalancesKept DEF Counting, Copying, Resetting, Order
    <3>6. SnapshotBalanced'
      BY <1>1, <3>1, CopyKept DEF IInv
    <3>7. QED
      BY <1>1, <3>2, <3>4, <3>5, <3>6 DEF IInv
  <2>4. QED
    BY <1>1, <2>2, <2>3
<1>2. QED
  BY InitInvariant, <1>1, PTL DEF Spec

-----------------------------------------------------------------------------
(* The theorems, for any paths each of which balances by itself.           *)

\* Counters stay within three advances a call.
THEOREM TypeCorrect == ASSUME PathsEven PROVE Spec => []TypeOK
<1>1. IInv => TypeOK
  BY DEF IInv
<1>2. QED
  BY Invariance, <1>1, PTL

\* The counters balance whenever no call and no reset is in progress, however calls on any threads
\* overlapped, unless the last reset met one.
THEOREM BalanceAtRest == ASSUME PathsEven PROVE Spec => []BalancedAtRest
<1>1. IInv => BalancedAtRest
  BY RestBalanced DEF IInv, Counting, BalancedAtRest
<1>2. QED
  BY Invariance, <1>1, PTL

\* A snapshot that met no call shows balanced counters.
THEOREM BalancedSnapshots == ASSUME PathsEven PROVE Spec => []SnapshotBalanced
<1>1. IInv => SnapshotBalanced
  BY DEF IInv
<1>2. QED
  BY Invariance, <1>1, PTL

\* A reset that met no call zeroes every counter a call can advance, a snapshot after it that met none
\* copies it.
THEOREM ControlsComplete == ASSUME PathsEven PROVE Spec => ControlsReachAll
<1> DEFINE A == /\ Idle' /\ control.op = "reset" /\ clean => \A k \in Counters : count'[k] = 0
                /\ Idle' /\ control.op = "snapshot" /\ settled => \A k \in Counters : copy'[k] = count[k]
<1>1. ASSUME IInv, Next PROVE A
  <2>1. CASE Store
    BY <1>1, <2>1, Zeroed DEF Store, Idle
  <2>2. CASE Load
    BY <1>1, <2>2, Copied DEF Load, Idle
  <2>3. CASE UNCHANGED control
    BY <2>3 DEF Idle
  <2>4. CASE BeginReset \/ BeginSnapshot
    BY <2>4 DEF BeginReset, BeginSnapshot, BeginControl, Idle
  <2>5. QED
    BY <1>1, <2>1, <2>2, <2>3, <2>4 DEF Next, Advance, Begin
<1>2. IInv /\ [Next]_vars => [A]_vars
  BY <1>1
<1> HIDE DEF A
<1>3. Spec => [][A]_vars
  BY Invariance, <1>2, PTL DEF Spec
<1>4. QED
  BY <1>3 DEF ControlsReachAll, A
=============================================================================
