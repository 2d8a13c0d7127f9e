-------------------------- MODULE NetInterest_proofs --------------------------
(***************************************************************************)
(* Proofs about NetInterest, for any threads, table size and key bound.    *)
(***************************************************************************)
EXTENDS NetInterest, FiniteSetTheorems, TLAPS

LEMMA NoKeyHasNoEntry == NoKey \notin Keys
BY DEF NoKey, Keys, Tables

LEMMA WrappingType ==
  ASSUME NEW n \in 0 .. W - 1
  PROVE  WrappingInc(n) \in 0 .. W - 1 /\ WrappingDec(n) \in 0 .. W - 1
BY NetAssumption DEF WrappingInc, WrappingDec

(* Every step of a control call keeps the types of the counters.           *)
LEMMA CounterTyping ==
  ASSUME TypeOK, NEW c \in Controllers, Call(c) \/ Continue(c)
  PROVE  CounterTypes'
<1> USE NetAssumption DEF TypeOK, CounterTypes
<1>1. ASSUME NEW k \in InputKeys, UnknownId(c, k) \/ RemoveLoad(c, k)
      PROVE  CounterTypes'
  BY <1>1 DEF UnknownId, RemoveLoad, RemoveLooks, tables
<1>2. ASSUME NEW k \in InputKeys, AddCount(c, k)
      PROVE  CounterTypes'
  <2>1. /\ k \in Keys /\ counts[k] \in 0 .. MaxRefs - 1
        /\ counts' = [counts EXCEPT ![k] = WrappingInc(@)]
        /\ UNCHANGED <<active_ids, total_active_tables>>
    BY <1>2 DEF AddCount
  <2>2. WrappingInc(counts[k]) \in 0 .. MaxRefs
    BY <2>1 DEF WrappingInc
  <2>3. QED
    BY <2>1, <2>2
<1>3. CASE AddActive(c)
  BY <1>3, WrappingType DEF AddActive
<1>4. CASE AddTotal(c)
  BY <1>4, WrappingType DEF AddTotal
<1>5. CASE RemoveCas(c)
  <2>1. /\ current[c] \in 1 .. MaxRefs
        /\ counts' = [counts EXCEPT ![key[c]] = WrappingDec(current[c])]
        /\ UNCHANGED <<active_ids, total_active_tables>>
    BY <1>5 DEF RemoveCas, ControlTypes
  <2>2. WrappingDec(current[c]) \in 0 .. MaxRefs
    BY <2>1 DEF WrappingDec
  <2>3. QED
    BY <2>1, <2>2
<1>6. CASE RemoveRetry(c)
  BY <1>6 DEF RemoveRetry, RemoveLooks, tables
<1>7. CASE SubActive(c)
  BY <1>7, WrappingType DEF SubActive
<1>8. CASE SubTotal(c)
  BY <1>8, WrappingType DEF SubTotal
<1> QED
  BY <1>1, <1>2, <1>3, <1>4, <1>5, <1>6, <1>7, <1>8 DEF Call, Continue

(* ... and of the threads' own state.                                      *)
LEMMA ControlTyping ==
  ASSUME TypeOK, NEW c \in Controllers, Call(c) \/ Continue(c)
  PROVE  ControlTypes'
<1>a. ASSUME Return(c), answer' \in [Controllers -> (InputKeys \union {NoKey}) \X BOOLEAN]
      PROVE  ControlTypes'
  BY <1>a, NetAssumption DEF TypeOK, ControlTypes, Return, ControlPcs
<1>b. ASSUME NEW k \in InputKeys \intersect Keys, NEW label \in ControlPcs \ {"idle"}, NEW n \in 0 .. MaxRefs,
             label = "cas" <=> n # 0, Goto(c, k, label, n),
             answer' \in [Controllers -> (InputKeys \union {NoKey}) \X BOOLEAN]
      PROVE  ControlTypes'
  BY <1>b, NoKeyHasNoEntry DEF TypeOK, ControlTypes, Goto
<1>c. ASSUME NEW k \in InputKeys \union {NoKey}, NEW b \in BOOLEAN, Answers(c, k, b)
      PROVE  answer' \in [Controllers -> (InputKeys \union {NoKey}) \X BOOLEAN]
  BY <1>c DEF TypeOK, ControlTypes, Answers
<1>d. ASSUME UNCHANGED answer
      PROVE  answer' \in [Controllers -> (InputKeys \union {NoKey}) \X BOOLEAN]
  BY <1>d DEF TypeOK, ControlTypes
<1>e. 0 \in 0 .. MaxRefs /\ \A k \in Keys : counts[k] \in 0 .. MaxRefs
  BY NetAssumption DEF TypeOK, CounterTypes
<1>f. pc[c] # "idle" => key[c] \in InputKeys \intersect Keys
  BY DEF TypeOK, ControlTypes
<1>1. ASSUME NEW k \in InputKeys, UnknownId(c, k)
      PROVE  ControlTypes'
  BY <1>1, <1>a, <1>c DEF UnknownId
<1>2. ASSUME NEW k \in InputKeys, AddCount(c, k)
      PROVE  ControlTypes'
  BY <1>2, <1>a, <1>b, <1>c, <1>e DEF AddCount, ControlPcs
<1>3. ASSUME NEW k \in InputKeys \intersect Keys, RemoveLooks(c, k)
      PROVE  ControlTypes'
  BY <1>3, <1>a, <1>b, <1>c, <1>d, <1>e DEF RemoveLooks, ControlPcs
<1>4. ASSUME NEW k \in InputKeys, RemoveLoad(c, k)
      PROVE  ControlTypes'
  BY <1>4, <1>3 DEF RemoveLoad
<1>5. CASE AddActive(c)
  BY <1>5, <1>b, <1>d, <1>e, <1>f DEF AddActive, ControlPcs
<1>6. CASE AddTotal(c)
  BY <1>6, <1>a, <1>d DEF AddTotal
<1>7. CASE RemoveCas(c)
  BY <1>7, <1>a, <1>b, <1>c, <1>e, <1>f DEF RemoveCas, ControlPcs
<1>8. CASE RemoveRetry(c)
  BY <1>8, <1>3, <1>f DEF RemoveRetry
<1>9. CASE SubActive(c)
  BY <1>9, <1>b, <1>d, <1>e, <1>f DEF SubActive, ControlPcs
<1>10. CASE SubTotal(c)
  BY <1>10, <1>a, <1>d DEF SubTotal
<1> QED
  BY <1>1, <1>2, <1>4, <1>5, <1>6, <1>7, <1>8, <1>9, <1>10 DEF Call, Continue

(* A control step leaves the routing calls alone, but for their history.   *)
LEMMA ControlRouting ==
  ASSUME TypeOK, NEW c \in Controllers, Call(c) \/ Continue(c)
  PROVE  RoutingTypes'
<1>1. ASSUME NEW cs, Disturb(cs)
      PROVE  window' \in [Routers -> Windows]
  <2>1. \A r \in Routers : window[r] \in Windows
    BY DEF TypeOK, RoutingTypes
  <2>2. \A e, kind : Wanted(cs, e, kind) \in BOOLEAN
    BY DEF Wanted, Has
  <2>3. QED
    BY <1>1, <2>1, <2>2 DEF Disturb, Windows
<1>2. UNCHANGED routing
  BY DEF Call, Continue, UnknownId, AddCount, AddActive, AddTotal, RemoveLoad, RemoveLooks,
         RemoveCas, RemoveRetry, SubActive, SubTotal
<1>3. UNCHANGED window \/ \E cs : Disturb(cs)
  BY DEF Call, Continue, UnknownId, AddCount, AddActive, AddTotal, RemoveLoad, RemoveLooks,
         RemoveCas, RemoveRetry, SubActive, SubTotal
<1> QED
  BY <1>1, <1>2, <1>3 DEF routing, TypeOK, RoutingTypes

(* A routing step changes nothing but the routing calls.                   *)
LEMMA RouteFrame ==
  ASSUME NEW r \in Routers, Route(r)
  PROVE  UNCHANGED <<tables, control>>
BY DEF Route, RouteCall, RouteHasAny, RouteSerialized, RouteUserSerialized, RouteFast,
       RouteUserFast, RouteReturn, RouteNext

LEMMA RouteTyping ==
  ASSUME TypeOK, NEW r \in Routers, Route(r)
  PROVE  RoutingTypes'
<1> USE DEF TypeOK, RoutingTypes
<1>1. ASSUME NEW e \in Events, RouteCall(r, e)
      PROVE  RoutingTypes'
  <2>1. \A kind : Wanted(counts, e, kind) \in BOOLEAN
    BY DEF Wanted, Has
  <2>2. QED
    BY <1>1, <2>1 DEF RouteCall, RoutePcs, Windows
<1>2. ASSUME NEW label \in RoutePcs, RouteNext(r, label), serialized' \in [Routers -> BOOLEAN]
      PROVE  RoutingTypes'
  BY <1>2 DEF RouteNext
<1>3. ASSUME NEW result \in NetRoute, RouteReturn(r, result)
      PROVE  RoutingTypes'
  BY <1>3 DEF RouteReturn, RoutePcs, NoWindow, Windows
<1>4. \A f, s \in BOOLEAN : RouteOf(f, s) \in NetRoute
  BY DEF RouteOf, NetRoute
<1>5. CASE RouteHasAny(r)
  BY <1>5, <1>2, <1>3 DEF RouteHasAny, RoutePcs, NetRoute
<1>6. CASE RouteSerialized(r)
  BY <1>6, <1>2 DEF RouteSerialized, RoutePcs, Has
<1>7. CASE RouteUserSerialized(r)
  BY <1>7, <1>2 DEF RouteUserSerialized, RoutePcs, Has
<1>8. CASE RouteFast(r)
  BY <1>8, <1>2, <1>3, <1>4 DEF RouteFast, RoutePcs, Has
<1>9. CASE RouteUserFast(r)
  BY <1>9, <1>3, <1>4 DEF RouteUserFast, Has
<1> QED
  BY <1>1, <1>5, <1>6, <1>7, <1>8, <1>9 DEF Route

LEMMA TypeStep ==
  ASSUME TypeOK, [Next]_vars
  PROVE  TypeOK'
<1>1. ASSUME NEW c \in Controllers, Call(c) \/ Continue(c)
      PROVE  TypeOK'
  BY <1>1, CounterTyping, ControlTyping, ControlRouting DEF TypeOK
<1>2. ASSUME NEW r \in Routers, Route(r)
      PROVE  TypeOK'
  BY <1>2, RouteFrame, RouteTyping DEF TypeOK, CounterTypes, ControlTypes, tables, control
<1>3. CASE UNCHANGED vars
  BY <1>3 DEF TypeOK, CounterTypes, ControlTypes, RoutingTypes, vars, tables, control, routing
<1> QED
  BY <1>1, <1>2, <1>3 DEF Next

LEMMA InitTyped == Init => TypeOK
<1> SUFFICES ASSUME Init PROVE TypeOK
  OBVIOUS
<1>1. CounterTypes
  BY NetAssumption DEF Init, CounterTypes
<1>2. ControlTypes
  <2>1. 0 \in 0 .. MaxRefs
    BY NetAssumption
  <2>2. answer \in [Controllers -> (InputKeys \union {NoKey}) \X BOOLEAN]
    BY DEF Init
  <2>3. QED
    BY <2>1, <2>2 DEF Init, ControlTypes, ControlPcs
<1>3. RoutingTypes
  BY DEF Init, RoutingTypes, RoutePcs, NetRoute, NoWindow, Windows
<1> QED
  BY <1>1, <1>2, <1>3 DEF TypeOK

(* Every reachable state is well typed: in particular no remove takes a    *)
(* count below zero, however the removers interleave.                      *)
THEOREM TypeCorrect == Spec => []TypeOK
BY InitTyped, TypeStep, PTL DEF Spec

-----------------------------------------------------------------------------
(* The counters.  Each of them is a cardinality, plus and minus those of   *)
(* the threads that owe it a step; a control step moves one element.       *)

LEMMA KeysFinite ==
  /\ IsFiniteSet(Keys) /\ Cardinality(Keys) \in Nat
  /\ IsFiniteSet(Ids) /\ Cardinality(Ids) \in Nat
  /\ Cardinality(Ids) <= Cardinality(Keys)
<1>1. IsFiniteSet(Ids)
  BY NetAssumption, FS_Interval DEF Ids
<1>2. IsFiniteSet({"incoming", "outgoing", "user"}) /\ IsFiniteSet({"serialized", "fast"})
  <2>1. ASSUME NEW x, NEW y
        PROVE  IsFiniteSet({x, y})
    <3>1. IsFiniteSet({x}) /\ {x, y} = {x} \union {y}
      BY FS_Singleton
    <3>2. QED
      BY <3>1, FS_AddElement
  <2>2. ASSUME NEW x, NEW y, NEW z
        PROVE  IsFiniteSet({x, y, z})
    <3>1. IsFiniteSet({x, y}) /\ {x, y, z} = {x, y} \union {z}
      BY <2>1
    <3>2. QED
      BY <3>1, FS_AddElement
  <2>3. QED
    BY <2>1, <2>2
<1>3. IsFiniteSet(Tables)
  BY <1>2, FS_Product DEF Tables
<1>4. IsFiniteSet(Keys) /\ Cardinality(Keys) = Cardinality(Tables) * Cardinality(Ids)
  BY <1>1, <1>3, FS_Product DEF Keys
<1>5. Cardinality(Tables) \in Nat \ {0}
  BY <1>3, FS_CardinalityType, FS_EmptySet, <<"user", "fast">> \in Tables DEF Tables
<1>6. Cardinality(Ids) \in Nat /\ Cardinality(Keys) \in Nat
  BY <1>1, <1>4, FS_CardinalityType
<1>7. \A n \in Nat \ {0}, x \in Nat : x <= n * x
  OBVIOUS
<1> QED
  BY <1>1, <1>4, <1>5, <1>6, <1>7

LEMMA Owing ==
  ASSUME NEW S \in SUBSET Controllers
  PROVE  /\ IsFiniteSet(S) /\ Cardinality(S) \in Nat
         /\ Cardinality(S) <= Cardinality(Controllers) /\ Cardinality(Controllers) \in Nat
         /\ S # {} => Cardinality(S) > 0
BY NetAssumption, FS_Subset, FS_CardinalityType, FS_EmptySet

LEMMA Mounted ==
  /\ IsFiniteSet(MountedKeys) /\ Cardinality(MountedKeys) \in Nat
  /\ Cardinality(MountedKeys) <= Cardinality(Keys)
  /\ MountedKeys # {} => Cardinality(MountedKeys) > 0
  /\ \A t : /\ IsFiniteSet(MountedIds(t)) /\ Cardinality(MountedIds(t)) \in Nat
            /\ Cardinality(MountedIds(t)) <= Cardinality(Keys)
<1>1. MountedKeys \subseteq Keys /\ \A t : MountedIds(t) \subseteq Ids
  BY DEF MountedKeys, MountedIds
<1> QED
  BY <1>1, KeysFinite, FS_Subset, FS_CardinalityType, FS_EmptySet

LEMMA OneMore ==
  ASSUME NEW S, NEW x, IsFiniteSet(S)
  PROVE  /\ x \notin S => Cardinality(S \union {x}) = Cardinality(S) + 1
         /\ x \in S => Cardinality(S \ {x}) = Cardinality(S) - 1
         /\ x \notin S => S \ {x} = S
BY FS_AddElement, FS_RemoveElement

LEMMA WrappedSteps ==
  ASSUME NEW n \in Int, -W < n
  PROVE  /\ n < W - 1 => WrappingInc(Wrapped(n)) = Wrapped(n + 1)
         /\ WrappingDec(Wrapped(n)) = Wrapped(n - 1)
BY NetAssumption DEF WrappingInc, WrappingDec, Wrapped

(* Where a step of controller c moves it.                                  *)
LEMMA Moves ==
  ASSUME TypeOK, NEW c \in Controllers, NEW label, NEW k,
         pc' = [pc EXCEPT ![c] = label], key' = [key EXCEPT ![c] = k]
  PROVE  \A l : Adding(l)' = IF l = label THEN Adding(l) \union {c} ELSE Adding(l) \ {c}
BY DEF TypeOK, ControlTypes, Adding

LEMMA MovesInTable ==
  ASSUME TypeOK, NEW c \in Controllers, NEW label, NEW k, NEW t, NEW l,
         pc' = [pc EXCEPT ![c] = label], key' = [key EXCEPT ![c] = k]
  PROVE  InTable(Adding(l), t)' = IF l = label /\ k[1] = t
           THEN InTable(Adding(l), t) \union {c} ELSE InTable(Adding(l), t) \ {c}
BY DEF TypeOK, ControlTypes, Adding, InTable

LEMMA Remounts ==
  ASSUME TypeOK, NEW k \in Keys, NEW n \in Nat, counts' = [counts EXCEPT ![k] = n]
  PROVE  /\ n # 0 => MountedKeys' = MountedKeys \union {k}
         /\ n = 0 => MountedKeys' = MountedKeys \ {k}
         /\ \A t \in Tables :
              /\ t = k[1] /\ n # 0 => MountedIds(t)' = MountedIds(t) \union {k[2]}
              /\ t = k[1] /\ n = 0 => MountedIds(t)' = MountedIds(t) \ {k[2]}
              /\ t # k[1] => MountedIds(t)' = MountedIds(t)
<1>1. PICK t \in Tables, id \in Ids : k = <<t, id>>
  BY DEF Keys
<1>2. counts \in [Keys -> 0 .. MaxRefs]
  BY DEF TypeOK, CounterTypes
<1>3. \A s, i : <<s, i>> \in Keys <=> s \in Tables /\ i \in Ids
  BY DEF Keys
<1>4. \A t2 \in Tables, i \in Ids :
        counts'[<<t2, i>>] = IF t2 = t /\ i = id THEN n ELSE counts[<<t2, i>>]
  BY <1>1, <1>2, <1>3
<1> QED
  BY <1>1, <1>2, <1>4 DEF MountedKeys, MountedIds

LEMMA TotalStep ==
  ASSUME TypeOK, TotalAccounted, NEW c \in Controllers, Call(c) \/ Continue(c)
  PROVE  TotalAccounted'
<1> DEFINE n == Cardinality(MountedKeys)
           a == Cardinality(AddPending)
           s == Cardinality(SubPending)
<1>1. /\ total_active_tables = Wrapped(n - a + s)
      /\ AddPending \subseteq Controllers /\ SubPending \subseteq Controllers
      /\ IsFiniteSet(AddPending) /\ IsFiniteSet(SubPending) /\ IsFiniteSet(MountedKeys)
      /\ n \in Nat /\ a \in Nat /\ s \in Nat
      /\ Cardinality(Controllers) \in Nat /\ Cardinality(Keys) \in Nat
      /\ n <= Cardinality(Keys) /\ a <= Cardinality(Controllers) /\ s <= Cardinality(Controllers)
  BY Owing, Mounted, KeysFinite DEF TotalAccounted, AddPending, SubPending, Adding
<1>2. -W < n - a + s /\ n + s < W
  BY <1>1, NetAssumption
<1>3. SUFFICES total_active_tables' = Wrapped(n' - a' + s')
  BY DEF TotalAccounted
<1>g. ASSUME NEW label, NEW k, NEW e, Goto(c, k, label, e)
      PROVE  /\ AddPending' = IF label \in {"add_active", "add_total"}
                              THEN AddPending \union {c} ELSE AddPending \ {c}
             /\ SubPending' = IF label \in {"sub_active", "sub_total"}
                              THEN SubPending \union {c} ELSE SubPending \ {c}
  <2>1. \A l : Adding(l)' = IF l = label THEN Adding(l) \union {c} ELSE Adding(l) \ {c}
    BY <1>g, Moves DEF Goto
  <2>2. QED
    BY <2>1 DEF AddPending, SubPending
<1>h. ASSUME Return(c)
      PROVE  AddPending' = AddPending \ {c} /\ SubPending' = SubPending \ {c}
  <2>1. \A l : Adding(l)' = IF l = "idle" THEN Adding(l) \union {c} ELSE Adding(l) \ {c}
    BY <1>h, Moves DEF Return
  <2>2. QED
    BY <2>1 DEF AddPending, SubPending
<1>i. /\ c \in AddPending <=> pc[c] \in {"add_active", "add_total"}
      /\ c \in SubPending <=> pc[c] \in {"sub_active", "sub_total"}
  BY DEF AddPending, SubPending, Adding
<1>k. pc[c] # "idle" => key[c] \in Keys
  BY DEF TypeOK, ControlTypes
<1>m. UNCHANGED counts => MountedKeys' = MountedKeys
  BY DEF MountedKeys
<1>n. \A k \in Keys : (k \in MountedKeys <=> counts[k] # 0) /\ counts[k] \in 0 .. MaxRefs
  BY DEF MountedKeys, TypeOK, CounterTypes
<1>q. AddPending \ {c} = AddPending \/ c \in AddPending
  OBVIOUS
<1>4. ASSUME NEW k, UnknownId(c, k) \/ (pc[c] \in {"idle", "cas"} /\ RemoveLooks(c, k))
      PROVE  total_active_tables' = Wrapped(n' - a' + s')
  <2>1. AddPending' = AddPending /\ SubPending' = SubPending
    BY <1>4, <1>g, <1>h, <1>i DEF UnknownId, RemoveLooks
  <2>2. QED
    BY <1>4, <2>1, <1>1, <1>m DEF UnknownId, RemoveLooks, tables
<1>5. ASSUME NEW k \in InputKeys, AddCount(c, k)
      PROVE  total_active_tables' = Wrapped(n' - a' + s')
  <2>1. /\ k \in Keys /\ counts[k] + 1 \in Nat \ {0}
        /\ counts' = [counts EXCEPT ![k] = counts[k] + 1]
    <3>1. k \in Keys /\ counts[k] \in 0 .. MaxRefs - 1
      BY <1>5, <1>n, NetAssumption DEF AddCount
    <3>2. WrappingInc(counts[k]) = counts[k] + 1
      BY <3>1, NetAssumption DEF WrappingInc
    <3>3. QED
      BY <1>5, <3>1, <3>2 DEF AddCount
  <2>2. MountedKeys' = MountedKeys \union {k}
    BY <2>1, Remounts
  <2>3. CASE counts[k] = 0
    <3>1. AddPending' = AddPending \union {c} /\ SubPending' = SubPending
      BY <1>5, <2>3, <1>g, <1>i DEF AddCount
    <3>2. n' = n + 1 /\ a' = a + 1 /\ s' = s
      BY <1>1, <1>5, <1>i, <1>n, <2>1, <2>2, <2>3, <3>1, OneMore DEF AddCount
    <3>3. QED
      BY <1>1, <1>5, <3>2 DEF AddCount
  <2>4. CASE counts[k] # 0
    <3>1. AddPending' = AddPending /\ SubPending' = SubPending /\ MountedKeys' = MountedKeys
      BY <1>5, <1>h, <1>i, <1>n, <2>1, <2>2, <2>4 DEF AddCount
    <3>2. QED
      BY <1>1, <1>5, <3>1 DEF AddCount
  <2>5. QED
    BY <2>3, <2>4
<1>6. CASE AddActive(c)
  <2>1. AddPending' = AddPending /\ SubPending' = SubPending
    BY <1>6, <1>g, <1>i DEF AddActive
  <2>2. QED
    BY <1>6, <2>1, <1>1, <1>m DEF AddActive
<1>7. CASE AddTotal(c)
  <2>1. c \in AddPending /\ AddPending' = AddPending \ {c} /\ SubPending' = SubPending
    BY <1>7, <1>h, <1>i DEF AddTotal
  <2>2. n' = n /\ a' = a - 1 /\ s' = s /\ a >= 1
    BY <1>1, <1>7, <1>m, <2>1, OneMore, Owing DEF AddTotal
  <2>3. WrappingInc(Wrapped(n - a + s)) = Wrapped(n - a + s + 1)
    BY <1>1, <1>2, <2>2, WrappedSteps, NetAssumption
  <2>4. n - a + s + 1 = n' - a' + s'
    BY <1>1, <2>2
  <2>5. QED
    BY <1>1, <1>7, <2>3, <2>4 DEF AddTotal
<1>8. CASE RemoveCas(c)
  <2>1. /\ key[c] \in Keys /\ current[c] = counts[key[c]] /\ current[c] \in 1 .. MaxRefs
        /\ counts' = [counts EXCEPT ![key[c]] = current[c] - 1] /\ current[c] - 1 \in Nat
    <3>1. key[c] \in Keys /\ current[c] = counts[key[c]] /\ current[c] \in 1 .. MaxRefs
      BY <1>8, <1>k, <1>n DEF RemoveCas, TypeOK, ControlTypes
    <3>2. WrappingDec(current[c]) = current[c] - 1
      BY <3>1 DEF WrappingDec
    <3>3. QED
      BY <1>8, <3>1, <3>2 DEF RemoveCas
  <2>2. CASE current[c] = 1
    <3>1. AddPending' = AddPending /\ SubPending' = SubPending \union {c}
      BY <1>8, <2>2, <1>g, <1>i DEF RemoveCas
    <3>2. MountedKeys' = MountedKeys \ {key[c]} /\ key[c] \in MountedKeys
      <4>1. counts' = [counts EXCEPT ![key[c]] = 0]
        BY <2>1, <2>2
      <4>2. key[c] \in MountedKeys
        BY <1>n, <2>1
      <4>3. QED
        BY <2>1, <4>1, <4>2, Remounts
    <3>3. n' = n - 1 /\ a' = a /\ s' = s + 1
      BY <1>1, <1>8, <1>i, <3>1, <3>2, OneMore DEF RemoveCas
    <3>4. QED
      BY <1>1, <1>8, <3>3 DEF RemoveCas
  <2>3. CASE current[c] # 1
    <3>1. AddPending' = AddPending /\ SubPending' = SubPending
      BY <1>8, <2>3, <1>h, <1>i DEF RemoveCas
    <3>2. MountedKeys' = MountedKeys \union {key[c]} /\ key[c] \in MountedKeys
      <4>1. current[c] - 1 # 0
        BY <2>1, <2>3
      <4>2. key[c] \in MountedKeys
        BY <1>n, <2>1
      <4>3. QED
        BY <2>1, <4>1, <4>2, Remounts
    <3>3. QED
      BY <1>1, <1>8, <3>1, <3>2 DEF RemoveCas
  <2>4. QED
    BY <2>2, <2>3
<1>9. CASE SubActive(c)
  <2>1. AddPending' = AddPending /\ SubPending' = SubPending
    BY <1>9, <1>g, <1>i DEF SubActive
  <2>2. QED
    BY <1>9, <2>1, <1>1, <1>m DEF SubActive
<1>10. CASE SubTotal(c)
  <2>1. c \in SubPending /\ AddPending' = AddPending /\ SubPending' = SubPending \ {c}
    BY <1>10, <1>h, <1>i DEF SubTotal
  <2>2. n' = n /\ a' = a /\ s' = s - 1 /\ s >= 1
    BY <1>1, <1>10, <1>m, <2>1, OneMore, Owing DEF SubTotal
  <2>3. WrappingDec(Wrapped(n - a + s)) = Wrapped(n - a + s - 1)
    BY <1>1, <1>2, WrappedSteps
  <2>4. n - a + s - 1 = n' - a' + s'
    BY <1>1, <2>2
  <2>5. QED
    BY <1>1, <1>10, <2>3, <2>4 DEF SubTotal
<1> QED
  BY <1>4, <1>5, <1>6, <1>7, <1>8, <1>9, <1>10 DEF Call, Continue, RemoveLoad, RemoveRetry

LEMMA ActiveStep ==
  ASSUME TypeOK, ActiveIdsAccounted, NEW c \in Controllers, Call(c) \/ Continue(c)
  PROVE  ActiveIdsAccounted'
<1> SUFFICES ASSUME NEW t \in Tables
             PROVE  active_ids'[t] = Wrapped(Cardinality(MountedIds(t)')
                                             - Cardinality(InTable(Adding("add_active"), t)')
                                             + Cardinality(InTable(Adding("sub_active"), t)'))
  BY DEF ActiveIdsAccounted
<1> DEFINE AddOwed == InTable(Adding("add_active"), t)
           SubOwed == InTable(Adding("sub_active"), t)
           n == Cardinality(MountedIds(t))
           a == Cardinality(AddOwed)
           s == Cardinality(SubOwed)
<1>1. /\ active_ids[t] = Wrapped(n - a + s) /\ active_ids \in [Tables -> 0 .. W - 1]
      /\ AddOwed \subseteq Controllers /\ SubOwed \subseteq Controllers
      /\ IsFiniteSet(AddOwed) /\ IsFiniteSet(SubOwed) /\ IsFiniteSet(MountedIds(t))
      /\ n \in Nat /\ a \in Nat /\ s \in Nat
      /\ Cardinality(Controllers) \in Nat /\ Cardinality(Keys) \in Nat
      /\ n <= Cardinality(Keys) /\ a <= Cardinality(Controllers) /\ s <= Cardinality(Controllers)
  <2>1. AddOwed \subseteq Controllers /\ SubOwed \subseteq Controllers
    BY DEF InTable, Adding
  <2>2. QED
    BY <2>1, Owing, Mounted, KeysFinite DEF ActiveIdsAccounted, TypeOK, CounterTypes
<1>2. -W < n - a + s /\ n + s < W
  BY <1>1, NetAssumption
<1>3. SUFFICES active_ids'[t] = Wrapped(n' - a' + s')
  OBVIOUS
<1>g. ASSUME NEW label, NEW k, NEW e, Goto(c, k, label, e)
      PROVE  /\ AddOwed' = IF label = "add_active" /\ k[1] = t
                           THEN AddOwed \union {c} ELSE AddOwed \ {c}
             /\ SubOwed' = IF label = "sub_active" /\ k[1] = t
                           THEN SubOwed \union {c} ELSE SubOwed \ {c}
  <2>1. pc' = [pc EXCEPT ![c] = label] /\ key' = [key EXCEPT ![c] = k]
    BY <1>g DEF Goto
  <2>2. \A l : InTable(Adding(l), t)' = IF l = label /\ k[1] = t
                 THEN InTable(Adding(l), t) \union {c} ELSE InTable(Adding(l), t) \ {c}
    BY <2>1, MovesInTable
  <2>3. QED
    BY <2>2
<1>h. ASSUME Return(c)
      PROVE  AddOwed' = AddOwed \ {c} /\ SubOwed' = SubOwed \ {c}
  <2>1. pc' = [pc EXCEPT ![c] = "idle"] /\ key' = [key EXCEPT ![c] = NoKey]
    BY <1>h DEF Return
  <2>2. \A l : InTable(Adding(l), t)' = IF l = "idle" /\ NoKey[1] = t
                 THEN InTable(Adding(l), t) \union {c} ELSE InTable(Adding(l), t) \ {c}
    BY <2>1, MovesInTable
  <2>3. QED
    BY <2>2
<1>i. /\ c \in AddOwed <=> pc[c] = "add_active" /\ key[c][1] = t
      /\ c \in SubOwed <=> pc[c] = "sub_active" /\ key[c][1] = t
  BY DEF InTable, Adding
<1>k. pc[c] # "idle" => key[c] \in Keys
  BY DEF TypeOK, ControlTypes
<1>m. UNCHANGED counts => MountedIds(t)' = MountedIds(t)
  BY DEF MountedIds
<1>n. \A k \in Keys : /\ counts[k] \in 0 .. MaxRefs /\ k[1] \in Tables
                      /\ k[1] = t => (k[2] \in MountedIds(t) <=> counts[k] # 0)
  BY DEF MountedIds, TypeOK, CounterTypes, Keys
<1>4. ASSUME NEW k, UnknownId(c, k) \/ (pc[c] \in {"idle", "cas"} /\ RemoveLooks(c, k))
      PROVE  active_ids'[t] = Wrapped(n' - a' + s')
  <2>1. AddOwed' = AddOwed /\ SubOwed' = SubOwed
    BY <1>4, <1>g, <1>h, <1>i DEF UnknownId, RemoveLooks
  <2>2. QED
    BY <1>4, <2>1, <1>1, <1>m DEF UnknownId, RemoveLooks, tables
<1>5. ASSUME NEW k \in InputKeys, AddCount(c, k)
      PROVE  active_ids'[t] = Wrapped(n' - a' + s')
  <2>1. /\ k \in Keys /\ counts[k] + 1 \in Nat \ {0}
        /\ counts' = [counts EXCEPT ![k] = counts[k] + 1]
    <3>1. k \in Keys /\ counts[k] \in 0 .. MaxRefs - 1
      BY <1>5, <1>n, NetAssumption DEF AddCount
    <3>2. WrappingInc(counts[k]) = counts[k] + 1
      BY <3>1, NetAssumption DEF WrappingInc
    <3>3. QED
      BY <1>5, <3>1, <3>2 DEF AddCount
  <2>2. /\ k[1] = t => MountedIds(t)' = MountedIds(t) \union {k[2]}
        /\ k[1] # t => MountedIds(t)' = MountedIds(t)
    BY <2>1, Remounts
  <2>3. CASE counts[k] = 0 /\ k[1] = t
    <3>1. AddOwed' = AddOwed \union {c} /\ SubOwed' = SubOwed
      BY <1>5, <2>3, <1>g, <1>i DEF AddCount
    <3>2. n' = n + 1 /\ a' = a + 1 /\ s' = s
      <4>1. c \notin AddOwed /\ k[2] \notin MountedIds(t)
        BY <1>5, <1>i, <1>n, <2>1, <2>3 DEF AddCount
      <4>2. MountedIds(t)' = MountedIds(t) \union {k[2]}
        BY <2>2, <2>3
      <4>3. Cardinality(MountedIds(t) \union {k[2]}) = n + 1
        BY <1>1, <4>1, OneMore
      <4>4. Cardinality(AddOwed \union {c}) = a + 1
        BY <1>1, <4>1, OneMore
      <4>5. QED
        BY <3>1, <4>2, <4>3, <4>4
    <3>3. QED
      BY <1>1, <1>5, <3>2 DEF AddCount
  <2>4. CASE counts[k] # 0 \/ k[1] # t
    <3>1. AddOwed' = AddOwed /\ SubOwed' = SubOwed
      BY <1>5, <2>4, <1>g, <1>h, <1>i DEF AddCount
    <3>2. MountedIds(t)' = MountedIds(t)
      BY <1>n, <2>1, <2>2, <2>4
    <3>3. QED
      BY <1>1, <1>5, <3>1, <3>2 DEF AddCount
  <2>5. QED
    BY <2>3, <2>4
<1>6. CASE AddActive(c)
  <2>1. /\ AddOwed' = AddOwed \ {c} /\ SubOwed' = SubOwed /\ MountedIds(t)' = MountedIds(t)
        /\ active_ids' = [active_ids EXCEPT ![key[c][1]] = WrappingInc(@)]
    BY <1>6, <1>g, <1>i, <1>m DEF AddActive
  <2>2. CASE key[c][1] = t
    <3>1. c \in AddOwed
      BY <1>6, <1>i, <2>2 DEF AddActive
    <3>2. n' = n /\ a' = a - 1 /\ s' = s /\ a >= 1
      BY <1>1, <2>1, <3>1, OneMore, Owing
    <3>3. WrappingInc(Wrapped(n - a + s)) = Wrapped(n - a + s + 1)
      BY <1>1, <1>2, <3>2, WrappedSteps, NetAssumption
    <3>4. n - a + s + 1 = n' - a' + s'
      BY <1>1, <3>2
    <3>5. QED
      BY <1>1, <2>1, <2>2, <3>3, <3>4
  <2>3. CASE key[c][1] # t
    <3>1. AddOwed' = AddOwed /\ active_ids'[t] = active_ids[t]
      BY <1>1, <1>i, <2>1, <2>3
    <3>2. QED
      BY <1>1, <2>1, <3>1
  <2>4. QED
    BY <2>2, <2>3
<1>7. CASE AddTotal(c)
  <2>1. AddOwed' = AddOwed /\ SubOwed' = SubOwed
    BY <1>7, <1>h, <1>i DEF AddTotal
  <2>2. QED
    BY <1>7, <2>1, <1>1, <1>m DEF AddTotal
<1>8. CASE RemoveCas(c)
  <2>1. /\ key[c] \in Keys /\ current[c] = counts[key[c]] /\ current[c] \in 1 .. MaxRefs
        /\ counts' = [counts EXCEPT ![key[c]] = current[c] - 1] /\ current[c] - 1 \in Nat
    <3>1. key[c] \in Keys /\ current[c] = counts[key[c]] /\ current[c] \in 1 .. MaxRefs
      BY <1>8, <1>k, <1>n DEF RemoveCas, TypeOK, ControlTypes
    <3>2. WrappingDec(current[c]) = current[c] - 1
      BY <3>1 DEF WrappingDec
    <3>3. QED
      BY <1>8, <3>1, <3>2 DEF RemoveCas
  <2>2. key[c][1] # t => MountedIds(t)' = MountedIds(t)
    BY <2>1, Remounts
  <2>3. key[c][1] = t => key[c][2] \in MountedIds(t)
    BY <2>1, <1>n
  <2>4. CASE current[c] = 1 /\ key[c][1] = t
    <3>1. AddOwed' = AddOwed /\ SubOwed' = SubOwed \union {c}
      BY <1>8, <2>4, <1>g, <1>i DEF RemoveCas
    <3>2. MountedIds(t)' = MountedIds(t) \ {key[c][2]}
      <4>1. counts' = [counts EXCEPT ![key[c]] = 0]
        BY <2>1, <2>4
      <4>2. key[c] \in Keys /\ key[c][1] = t /\ 0 \in Nat
        BY <2>1, <2>4
      <4>3. \A u \in Tables : u = key[c][1] => MountedIds(u)' = MountedIds(u) \ {key[c][2]}
        BY <4>1, <4>2, Remounts
      <4>4. QED
        BY <4>2, <4>3
    <3>3. n' = n - 1 /\ a' = a /\ s' = s + 1
      <4>1. c \notin SubOwed /\ key[c][2] \in MountedIds(t)
        BY <1>8, <1>i, <2>3, <2>4 DEF RemoveCas
      <4>2. Cardinality(MountedIds(t) \ {key[c][2]}) = n - 1
        BY <1>1, <4>1, OneMore
      <4>3. Cardinality(SubOwed \union {c}) = s + 1
        BY <1>1, <4>1, OneMore
      <4>4. QED
        BY <3>1, <3>2, <4>2, <4>3
    <3>4. QED
      BY <1>1, <1>8, <3>3 DEF RemoveCas
  <2>5. CASE current[c] # 1 \/ key[c][1] # t
    <3>1. AddOwed' = AddOwed /\ SubOwed' = SubOwed
      BY <1>8, <2>5, <1>g, <1>h, <1>i DEF RemoveCas
    <3>2. MountedIds(t)' = MountedIds(t)
      <4>1. CASE key[c][1] = t
        <5>1. current[c] - 1 # 0
          BY <2>1, <2>5, <4>1
        <5>2. MountedIds(t)' = MountedIds(t) \union {key[c][2]}
          <6>1. key[c] \in Keys /\ current[c] - 1 \in Nat
            BY <2>1, <2>5
          <6>2. counts' = [counts EXCEPT ![key[c]] = current[c] - 1]
            BY <2>1
          <6>3. QED
            BY <4>1, <5>1, <6>1, <6>2, Remounts
        <5>3. QED
          BY <2>3, <4>1, <5>2
      <4>2. QED
        BY <2>2, <4>1
    <3>3. QED
      BY <1>1, <1>8, <3>1, <3>2 DEF RemoveCas
  <2>6. QED
    BY <2>4, <2>5
<1>9. CASE SubActive(c)
  <2>1. /\ AddOwed' = AddOwed /\ SubOwed' = SubOwed \ {c} /\ MountedIds(t)' = MountedIds(t)
        /\ active_ids' = [active_ids EXCEPT ![key[c][1]] = WrappingDec(@)]
    BY <1>9, <1>g, <1>i, <1>m DEF SubActive
  <2>2. CASE key[c][1] = t
    <3>1. c \in SubOwed
      BY <1>9, <1>i, <2>2 DEF SubActive
    <3>2. n' = n /\ a' = a /\ s' = s - 1 /\ s >= 1
      BY <1>1, <2>1, <3>1, OneMore, Owing
    <3>3. WrappingDec(Wrapped(n - a + s)) = Wrapped(n - a + s - 1)
      BY <1>1, <1>2, WrappedSteps
    <3>4. n - a + s - 1 = n' - a' + s'
      BY <1>1, <3>2
    <3>5. QED
      BY <1>1, <2>1, <2>2, <3>3, <3>4
  <2>3. CASE key[c][1] # t
    <3>1. SubOwed' = SubOwed /\ active_ids'[t] = active_ids[t]
      BY <1>1, <1>i, <2>1, <2>3
    <3>2. QED
      BY <1>1, <2>1, <3>1
  <2>4. QED
    BY <2>2, <2>3
<1>10. CASE SubTotal(c)
  <2>1. AddOwed' = AddOwed /\ SubOwed' = SubOwed
    BY <1>10, <1>h, <1>i DEF SubTotal
  <2>2. QED
    BY <1>10, <2>1, <1>1, <1>m DEF SubTotal
<1> QED
  BY <1>4, <1>5, <1>6, <1>7, <1>8, <1>9, <1>10 DEF Call, Continue, RemoveLoad, RemoveRetry

LEMMA InitAccounted == Init => ActiveIdsAccounted /\ TotalAccounted
<1> SUFFICES ASSUME Init PROVE ActiveIdsAccounted /\ TotalAccounted
  OBVIOUS
<1>1. /\ MountedKeys = {} /\ AddPending = {} /\ SubPending = {}
      /\ \A t \in Tables : /\ MountedIds(t) = {}
                           /\ InTable(Adding("add_active"), t) = {}
                           /\ InTable(Adding("sub_active"), t) = {}
  BY DEF Init, MountedKeys, AddPending, SubPending, MountedIds, InTable, Adding, Keys
<1>2. Cardinality({}) = 0 /\ Wrapped(0 - 0 + 0) = 0
  BY FS_EmptySet DEF Wrapped
<1> QED
  BY <1>1, <1>2 DEF Init, ActiveIdsAccounted, TotalAccounted

LEMMA AccountedStep ==
  ASSUME CountersAccounted, [Next]_vars
  PROVE  CountersAccounted'
<1>1. TypeOK'
  BY TypeStep DEF CountersAccounted
<1>2. ASSUME NEW c \in Controllers, Call(c) \/ Continue(c)
      PROVE  ActiveIdsAccounted' /\ TotalAccounted'
  BY <1>2, ActiveStep, TotalStep DEF CountersAccounted
<1>3. ASSUME UNCHANGED <<tables, control>>
      PROVE  ActiveIdsAccounted' /\ TotalAccounted'
  <2>1. UNCHANGED <<counts, active_ids, total_active_tables, pc, key>>
    BY <1>3 DEF tables, control
  <2>2. /\ MountedKeys' = MountedKeys /\ AddPending' = AddPending /\ SubPending' = SubPending
        /\ \A t : /\ MountedIds(t)' = MountedIds(t)
                  /\ InTable(Adding("add_active"), t)' = InTable(Adding("add_active"), t)
                  /\ InTable(Adding("sub_active"), t)' = InTable(Adding("sub_active"), t)
    BY <2>1 DEF MountedKeys, AddPending, SubPending, MountedIds, InTable, Adding
  <2>3. QED
    BY <2>1, <2>2 DEF CountersAccounted, ActiveIdsAccounted, TotalAccounted
<1>4. CASE \E r \in Routers : Route(r)
  BY <1>1, <1>3, <1>4, RouteFrame DEF CountersAccounted
<1>5. CASE UNCHANGED vars
  BY <1>1, <1>3, <1>5 DEF vars, CountersAccounted
<1> QED
  BY <1>1, <1>2, <1>4, <1>5 DEF Next, CountersAccounted

(* At every moment each counter is the number of things mounted, corrected *)
(* by the threads between their instructions, modulo 2^32: no interleaving *)
(* of InterestTable::add, remove, track and untrack loses an update.       *)
THEOREM CountersCorrect == Spec => []CountersAccounted
<1>1. Init => CountersAccounted
  BY InitTyped, InitAccounted DEF CountersAccounted
<1> QED
  BY <1>1, AccountedStep, PTL DEF Spec

LEMMA AccountedIsExact == ASSUME CountersAccounted PROVE ExactWhenSettled
<1> SUFFICES ASSUME Publishing = {}
             PROVE  /\ total_active_tables = Cardinality(MountedKeys)
                    /\ \A t \in Tables : active_ids[t] = Cardinality(MountedIds(t))
  BY DEF ExactWhenSettled
<1>1. /\ AddPending = {} /\ SubPending = {}
      /\ \A t : InTable(Adding("add_active"), t) = {} /\ InTable(Adding("sub_active"), t) = {}
  BY DEF Publishing, AddPending, SubPending, InTable, Adding
<1>2. Cardinality({}) = 0 /\ \A n \in Nat : Wrapped(n - 0 + 0) = n
  BY FS_EmptySet DEF Wrapped
<1> QED
  BY <1>1, <1>2, Mounted DEF CountersAccounted, ActiveIdsAccounted, TotalAccounted

(* Once every call is outside its bumps, the gate and the table counters   *)
(* are exact: the counters never drift, over any number of calls.          *)
THEOREM SettledExact == Spec => []ExactWhenSettled
BY AccountedIsExact, CountersCorrect, PTL

(* The gate of route_message can be shut over mounted interest only by an  *)
(* add that has not yet reached track: the window is that of one call.     *)
THEOREM ShutIsTransient == Spec => []ShutOnlyWhileAdding
<1>1. CountersAccounted => ShutOnlyWhileAdding
  <2> SUFFICES ASSUME CountersAccounted, MountedKeys # {}, total_active_tables = 0, AddPending = {}
               PROVE  FALSE
    BY DEF ShutOnlyWhileAdding
  <2>1. Cardinality(AddPending) = 0 /\ Cardinality(MountedKeys) \in Nat \ {0}
    BY FS_EmptySet, Mounted
  <2>2. Cardinality(SubPending) \in Nat
    BY Owing DEF SubPending, Adding
  <2>3. QED
    BY <2>1, <2>2 DEF CountersAccounted, TotalAccounted, Wrapped
<1> QED
  BY <1>1, CountersCorrect, PTL

-----------------------------------------------------------------------------
(* Routing.  The inductive invariant says what a route_message in progress *)
(* has learned: the window covers what is wanted now and what was found,   *)
(* and in a quiet window the loads already made are still true.            *)

HasMessage(r, kind) == Has(counts, <<event[r].direction, kind>>, event[r].msg_id)

Covers(r) ==
  /\ Wanted(counts, event[r], "serialized") \/ serialized[r] => window[r].serialized
  /\ Wanted(counts, event[r], "fast") => window[r].fast

LoadsHold(r) ==
  /\ Publishing = {}
  /\ rpc[r] = "user_serialized" => ~HasMessage(r, "serialized")
  /\ rpc[r] \in {"fast", "user_fast"} => (serialized[r] <=> Wanted(counts, event[r], "serialized"))
  /\ rpc[r] = "user_fast" => ~HasMessage(r, "fast")

RouteKnows(r) ==
  /\ rpc[r] = "idle" => ~serialized[r]
  /\ rpc[r] # "idle" => event[r] \in Events /\ Covers(r) /\ (window[r].quiet => LoadsHold(r))
  /\ rpc[r] \in {"user_serialized", "user_fast"} => event[r].user # NoUser

RoutesKnow == \A r \in Routers : RouteKnows(r)

LEMMA WantedIs ==
  /\ \A cs, e, kind : Wanted(cs, e, kind) \in BOOLEAN
  /\ \A r, kind : HasMessage(r, kind) \in BOOLEAN
  /\ \A r, kind : Wanted(counts, event[r], kind)
       <=> HasMessage(r, kind) \/ (event[r].user # NoUser /\ Has(counts, <<"user", kind>>, event[r].user))
BY DEF Wanted, Has, HasMessage

\* What the callers of RouteOf make of its answer.
LEMMA RouteOfAnswers ==
  ASSUME NEW f \in BOOLEAN, NEW s \in BOOLEAN
  PROVE  (WantsFast(RouteOf(f, s)) <=> f) /\ (WantsSerialized(RouteOf(f, s)) <=> s)
BY DEF RouteOf, WantsFast, WantsSerialized

LEMMA RouteEvents ==
  ASSUME NEW e \in Events
  PROVE  e # NoEvent /\ \A kind \in {"serialized", "fast"} : <<e.direction, kind>> \in Tables /\ <<"user", kind>> \in Tables
BY DEF Events, NoEvent, Tables

(* A gate that is shut while nobody publishes is shut over nothing.        *)
LEMMA ShutOverNothing ==
  ASSUME CountersAccounted, Publishing = {}, total_active_tables = 0,
         NEW e \in Events, NEW kind \in {"serialized", "fast"}
  PROVE  ~Wanted(counts, e, kind)
<1>1. MountedKeys = {}
  BY AccountedIsExact, Mounted DEF ExactWhenSettled
<1>2. \A k \in Keys : counts[k] = 0
  BY <1>1 DEF MountedKeys
<1>3. \A t \in Tables : \A id : ~Has(counts, t, id)
  BY <1>2 DEF Has, Keys
<1> QED
  BY <1>3, RouteEvents DEF Wanted

(* A control step either leaves the counts, the windows and the publishing *)
(* threads alone, or ends the quiet of every window and widens it.         *)
LEMMA ControlDisturbs ==
  ASSUME TypeOK, NEW c \in Controllers, Call(c) \/ Continue(c)
  PROVE  /\ UNCHANGED routing
         /\ UNCHANGED <<counts, window, Publishing>> \/ Disturb(counts')
<1>1. pc \in [Controllers -> ControlPcs]
  BY DEF TypeOK, ControlTypes
<1>2. ASSUME pc[c] \in {"idle", "cas"}, NEW label \in {"idle", "cas"}, pc' = [pc EXCEPT ![c] = label]
      PROVE  Publishing' = Publishing
  BY <1>1, <1>2 DEF Publishing
<1>3. ASSUME NEW k, pc[c] \in {"idle", "cas"}, RemoveLooks(c, k)
      PROVE  UNCHANGED <<routing, counts, window, Publishing>>
  <2>1. UNCHANGED <<routing, counts, window>>
    BY <1>3 DEF RemoveLooks, tables
  <2>2. PICK label \in {"idle", "cas"} : pc' = [pc EXCEPT ![c] = label]
    BY <1>3 DEF RemoveLooks, Return, Goto
  <2>3. QED
    BY <1>2, <1>3, <2>1, <2>2
<1>4. ASSUME NEW k, UnknownId(c, k)
      PROVE  UNCHANGED <<routing, counts, window, Publishing>>
  BY <1>2, <1>4 DEF UnknownId, Return, tables
<1>5. ASSUME NEW k, AddCount(c, k)
      PROVE  UNCHANGED routing /\ Disturb(counts')
  BY <1>5 DEF AddCount
<1>6. CASE AddActive(c) \/ AddTotal(c) \/ SubActive(c) \/ SubTotal(c)
  BY <1>6 DEF AddActive, AddTotal, SubActive, SubTotal
<1>7. CASE RemoveCas(c)
  BY <1>7 DEF RemoveCas
<1> QED
  BY <1>3, <1>4, <1>5, <1>6, <1>7 DEF Call, Continue, RemoveLoad, RemoveRetry

LEMMA ControlKeepsKnown ==
  ASSUME TypeOK, RoutesKnow, NEW c \in Controllers, Call(c) \/ Continue(c), NEW r \in Routers
  PROVE  RouteKnows(r)'
<1>1. UNCHANGED <<rpc, event, serialized>> /\ RouteKnows(r)
  BY ControlDisturbs DEF routing, RoutesKnow
<1>2. CASE UNCHANGED <<counts, window, Publishing>>
  BY <1>1, <1>2 DEF RouteKnows, Covers, LoadsHold, HasMessage, Wanted, Has
<1>3. CASE Disturb(counts') /\ rpc[r] # "idle"
  <2> DEFINE ser == Wanted(counts', event[r], "serialized")
             fast == Wanted(counts', event[r], "fast")
  <2>1. /\ ~window'[r].quiet
        /\ window'[r].serialized = (window[r].serialized \/ ser)
        /\ window'[r].fast = (window[r].fast \/ fast)
    BY <1>3 DEF Disturb
  <2>2. /\ ser \in BOOLEAN /\ fast \in BOOLEAN
        /\ serialized[r] => window[r].serialized
        /\ Covers(r)' <=> /\ ser \/ serialized[r] => window'[r].serialized
                          /\ fast => window'[r].fast
    BY <1>1, <1>3, WantedIs DEF RouteKnows, Covers
  <2> HIDE DEF ser, fast
  <2>3. Covers(r)'
    BY <2>1, <2>2
  <2>4. QED
    BY <1>1, <2>1, <2>3, <1>3 DEF RouteKnows
<1>4. CASE rpc[r] = "idle"
  BY <1>1, <1>4 DEF RouteKnows
<1> QED
  BY <1>2, <1>3, <1>4, ControlDisturbs

LEMMA RouteKeepsKnown ==
  ASSUME TypeOK, RoutesKnow, NEW s \in Routers, Route(s), NEW r \in Routers
  PROVE  RouteKnows(r)'
<1>1. /\ UNCHANGED counts /\ Publishing' = Publishing
      /\ rpc \in [Routers -> RoutePcs] /\ window \in [Routers -> Windows]
      /\ event \in [Routers -> Events \union {NoEvent}] /\ serialized \in [Routers -> BOOLEAN]
  BY RouteFrame DEF tables, control, Publishing, TypeOK, RoutingTypes
<1>2. RouteKnows(r)
  BY DEF RoutesKnow
<1>3. CASE UNCHANGED <<rpc[r], event[r], serialized[r], window[r]>>
  BY <1>1, <1>2, <1>3 DEF RouteKnows, Covers, LoadsHold, HasMessage
<1>4. ASSUME r # s PROVE UNCHANGED <<rpc[r], event[r], serialized[r], window[r]>>
  BY <1>1, <1>4 DEF Route, RouteCall, RouteHasAny, RouteSerialized, RouteUserSerialized, RouteFast,
         RouteUserFast, RouteReturn, RouteNext
<1>5. ASSUME NEW result, RouteReturn(r, result) PROVE RouteKnows(r)'
  BY <1>1, <1>5 DEF RouteReturn, RouteKnows
<1>6. ASSUME NEW e \in Events, RouteCall(r, e) PROVE RouteKnows(r)'
  <2>1. /\ rpc'[r] = "has_any" /\ event'[r] = e /\ ~serialized'[r]
        /\ window'[r] = [quiet |-> Publishing = {}, serialized |-> Wanted(counts, e, "serialized"),
                         fast |-> Wanted(counts, e, "fast")]
    BY <1>1, <1>2, <1>6 DEF RouteCall, RouteKnows
  <2>2. Covers(r)'
    BY <1>1, <2>1, WantedIs DEF Covers
  <2>3. window'[r].quiet => LoadsHold(r)'
    <3>1. window'[r].quiet = (Publishing = {})
      BY <2>1
    <3>2. QED
      BY <1>1, <2>1, <3>1 DEF LoadsHold
  <2>4. QED
    BY <1>6, <2>1, <2>2, <2>3 DEF RouteKnows
<1>7. ASSUME rpc[r] # "idle", NEW label \in RoutePcs \ {"idle"}, RouteNext(r, label),
             serialized'[r] \in BOOLEAN, serialized'[r] => window[r].serialized,
             label \in {"user_serialized", "user_fast"} => event[r].user # NoUser,
             window[r].quiet =>
               /\ label = "user_serialized" => ~HasMessage(r, "serialized")
               /\ label \in {"fast", "user_fast"} => (serialized'[r] <=> Wanted(counts, event[r], "serialized"))
               /\ label = "user_fast" => ~HasMessage(r, "fast")
      PROVE  RouteKnows(r)'
  <2>1. rpc'[r] = label /\ UNCHANGED <<event, window>>
    BY <1>1, <1>7 DEF RouteNext
  <2>2. Covers(r)'
    BY <1>1, <1>2, <1>7, <2>1 DEF RouteKnows, Covers
  <2>3. window'[r].quiet => LoadsHold(r)'
    BY <1>1, <1>2, <1>7, <2>1 DEF RouteKnows, LoadsHold, HasMessage
  <2>4. QED
    BY <1>2, <1>7, <2>1, <2>2, <2>3 DEF RouteKnows
<1>8. \A kind : Wanted(counts, event[r], kind)
        <=> HasMessage(r, kind) \/ (event[r].user # NoUser /\ Has(counts, <<"user", kind>>, event[r].user))
  BY WantedIs
<1>9. CASE RouteHasAny(r)
  <2>1. CASE total_active_tables = 0
    BY <1>5, <1>9, <2>1 DEF RouteHasAny
  <2>2. CASE total_active_tables # 0
    <3>1. rpc[r] = "has_any" /\ RouteNext(r, "serialized") /\ UNCHANGED serialized
      BY <1>9, <2>2 DEF RouteHasAny
    <3>2. serialized[r] \in BOOLEAN /\ (serialized[r] => window[r].serialized)
      BY <1>1, <1>2, <3>1 DEF RouteKnows, Covers
    <3>3. QED
      BY <1>7, <3>1, <3>2 DEF RoutePcs
  <2>3. QED
    BY <2>1, <2>2
<1>10. CASE RouteSerialized(r)
  <2> DEFINE has == HasMessage(r, "serialized")
             label == IF ~has /\ event[r].user # NoUser THEN "user_serialized" ELSE "fast"
  <2>1. /\ rpc[r] = "serialized" /\ serialized'[r] = has
        /\ RouteNext(r, label) /\ has \in BOOLEAN
    BY <1>1, <1>10, WantedIs DEF RouteSerialized, HasMessage
  <2>2. has => window[r].serialized
    BY <1>2, <1>8, <2>1 DEF RouteKnows, Covers
  <2>3. label = "fast" => (has <=> Wanted(counts, event[r], "serialized"))
    BY <1>8, <2>1
  <2>4. label \in {"user_serialized", "fast"} /\ (label = "user_serialized" => ~has /\ event[r].user # NoUser)
    OBVIOUS
  <2> HIDE DEF label
  <2>5. QED
    BY <1>7, <2>1, <2>2, <2>3, <2>4 DEF RoutePcs
<1>11. CASE RouteUserSerialized(r)
  <2> DEFINE has == Has(counts, <<"user", "serialized">>, event[r].user)
  <2>1. rpc[r] = "user_serialized" /\ serialized'[r] = has /\ RouteNext(r, "fast") /\ has \in BOOLEAN
    BY <1>1, <1>11 DEF RouteUserSerialized, Has
  <2>2. event[r].user # NoUser
    BY <1>2, <2>1 DEF RouteKnows
  <2>3. has => window[r].serialized
    BY <1>2, <1>8, <2>1, <2>2 DEF RouteKnows, Covers
  <2>4. window[r].quiet => (has <=> Wanted(counts, event[r], "serialized"))
    BY <1>2, <1>8, <2>1, <2>2 DEF RouteKnows, LoadsHold
  <2> HIDE DEF has
  <2>5. QED
    BY <1>7, <2>1, <2>3, <2>4 DEF RoutePcs
<1>12. CASE RouteFast(r)
  <2>1. rpc[r] = "fast"
    BY <1>12 DEF RouteFast
  <2>2. CASE ~HasMessage(r, "fast") /\ event[r].user # NoUser
    <3>1. RouteNext(r, "user_fast") /\ UNCHANGED serialized
      BY <1>12, <2>2 DEF RouteFast, HasMessage
    <3>2. /\ serialized[r] \in BOOLEAN /\ (serialized[r] => window[r].serialized)
          /\ window[r].quiet => (serialized[r] <=> Wanted(counts, event[r], "serialized"))
      BY <1>1, <1>2, <2>1 DEF RouteKnows, Covers, LoadsHold
    <3>3. QED
      BY <1>7, <2>1, <2>2, <3>1, <3>2 DEF RoutePcs
  <2>3. CASE ~(~HasMessage(r, "fast") /\ event[r].user # NoUser)
    BY <1>5, <1>12, <2>3 DEF RouteFast, HasMessage
  <2>4. QED
    BY <2>2, <2>3
<1>13. CASE RouteUserFast(r)
  BY <1>5, <1>13 DEF RouteUserFast
<1> QED
  BY <1>3, <1>4, <1>6, <1>9, <1>10, <1>11, <1>12, <1>13 DEF Route

LEMMA RoutesKnowStep ==
  ASSUME TypeOK, RoutesKnow, [Next]_vars
  PROVE  RoutesKnow'
<1>1. CASE UNCHANGED vars
  BY <1>1 DEF vars, tables, control, routing, RoutesKnow, RouteKnows, Covers, LoadsHold, HasMessage, Publishing
<1>2. QED
  BY <1>1, ControlKeepsKnown, RouteKeepsKnown DEF Next, RoutesKnow

LEMMA AlwaysKnown == Spec => [](CountersAccounted /\ RoutesKnow)
<1>1. Init => RoutesKnow
  BY DEF Init, RoutesKnow, RouteKnows
<1>2. CountersAccounted => TypeOK
  BY DEF CountersAccounted
<1> QED
  BY <1>1, <1>2, RoutesKnowStep, CountersCorrect, PTL DEF Spec

(* What a route_message answers, from what it knows when it returns.       *)
LEMMA Returned ==
  ASSUME CountersAccounted, RoutesKnow, [Next]_vars, NEW r \in Routers, RouteReturns(r)
  PROVE  /\ WantsSerialized(route'[r]) => window[r].serialized
         /\ WantsFast(route'[r]) => window[r].fast
         /\ window[r].quiet => /\ WantsSerialized(route'[r]) <=> Wanted(counts, event[r], "serialized")
                               /\ WantsFast(route'[r]) <=> Wanted(counts, event[r], "fast")
<1>1. /\ TypeOK /\ rpc[r] # "idle" /\ rpc'[r] = "idle"
      /\ rpc \in [Routers -> RoutePcs] /\ serialized \in [Routers -> BOOLEAN] /\ route \in [Routers -> NetRoute]
      /\ event[r] \in Events /\ Covers(r) /\ (window[r].quiet => LoadsHold(r)) /\ RouteKnows(r)
  BY DEF CountersAccounted, TypeOK, RoutingTypes, RouteReturns, RoutesKnow, RouteKnows
<1>2. Route(r)
  <2>1. ASSUME NEW c \in Controllers, Call(c) \/ Continue(c) PROVE FALSE
    BY <1>1, <2>1, ControlDisturbs DEF routing
  <2>2. ASSUME NEW s \in Routers, Route(s), s # r PROVE FALSE
    BY <1>1, <2>2 DEF Route, RouteCall, RouteHasAny, RouteSerialized, RouteUserSerialized, RouteFast,
           RouteUserFast, RouteReturn, RouteNext
  <2>3. QED
    BY <1>1, <2>1, <2>2 DEF Next, vars, routing
<1>3. \A kind : Wanted(counts, event[r], kind)
        <=> HasMessage(r, kind) \/ (event[r].user # NoUser /\ Has(counts, <<"user", kind>>, event[r].user))
  BY WantedIs
<1>4. ASSUME NEW fast \in BOOLEAN, RouteReturn(r, RouteOf(fast, serialized[r])), rpc[r] \in {"fast", "user_fast"},
             fast => Wanted(counts, event[r], "fast"),
             window[r].quiet => (fast <=> Wanted(counts, event[r], "fast"))
      PROVE  /\ WantsSerialized(route'[r]) => window[r].serialized
             /\ WantsFast(route'[r]) => window[r].fast
             /\ window[r].quiet => /\ WantsSerialized(route'[r]) <=> Wanted(counts, event[r], "serialized")
                                   /\ WantsFast(route'[r]) <=> Wanted(counts, event[r], "fast")
  <2>1. route'[r] = RouteOf(fast, serialized[r]) /\ serialized[r] \in BOOLEAN
    BY <1>1, <1>4 DEF RouteReturn
  <2>2. (WantsFast(route'[r]) <=> fast) /\ (WantsSerialized(route'[r]) <=> serialized[r])
    BY <2>1, RouteOfAnswers
  <2>3. QED
    BY <1>1, <1>4, <2>2 DEF Covers, LoadsHold
<1>5. CASE RouteHasAny(r)
  <2>1. total_active_tables = 0 /\ route'[r] = "NoInterest"
    BY <1>1, <1>5 DEF RouteHasAny, RouteNext, RouteReturn
  <2>2. ~WantsSerialized(route'[r]) /\ ~WantsFast(route'[r])
    BY <2>1 DEF WantsSerialized, WantsFast
  <2>3. window[r].quiet => ~Wanted(counts, event[r], "serialized") /\ ~Wanted(counts, event[r], "fast")
    BY <1>1, <2>1, ShutOverNothing DEF LoadsHold
  <2>4. QED
    BY <2>2, <2>3
<1>6. CASE RouteFast(r)
  <2>1. ~(~HasMessage(r, "fast") /\ event[r].user # NoUser)
    BY <1>1, <1>6 DEF RouteFast, RouteNext, HasMessage
  <2>2. rpc[r] = "fast" /\ RouteReturn(r, RouteOf(HasMessage(r, "fast"), serialized[r]))
    BY <1>6, <2>1 DEF RouteFast, HasMessage
  <2>3. HasMessage(r, "fast") \in BOOLEAN /\ (HasMessage(r, "fast") <=> Wanted(counts, event[r], "fast"))
    BY <1>3, <2>1, WantedIs
  <2>4. QED
    BY <1>4, <2>2, <2>3
<1>7. CASE RouteUserFast(r)
  <2> DEFINE has == Has(counts, <<"user", "fast">>, event[r].user)
  <2>1. rpc[r] = "user_fast" /\ RouteReturn(r, RouteOf(has, serialized[r])) /\ has \in BOOLEAN
    BY <1>7 DEF RouteUserFast, Has
  <2>2. event[r].user # NoUser
    BY <1>1, <2>1 DEF RouteKnows
  <2>3. has => Wanted(counts, event[r], "fast")
    BY <1>3, <2>2
  <2>4. window[r].quiet => (has <=> Wanted(counts, event[r], "fast"))
    BY <1>1, <1>3, <2>1, <2>2 DEF LoadsHold
  <2> HIDE DEF has
  <2>5. QED
    BY <1>4, <2>1, <2>3, <2>4
<1>8. CASE RouteSerialized(r) \/ RouteUserSerialized(r) \/ \E e \in Events : RouteCall(r, e)
  BY <1>1, <1>8 DEF RouteSerialized, RouteUserSerialized, RouteNext, RouteCall
<1> QED
  BY <1>2, <1>5, <1>6, <1>7, <1>8 DEF Route

(* A route_message that no add or remove disturbs answers exactly for the  *)
(* interest mounted in its message, for any tables, ids and threads: its   *)
(* gate, its order of loads and its early exits skip nothing that matters. *)
THEOREM RoutesExact == Spec => RouteExactWhenQuiet
<1>1. ASSUME CountersAccounted, RoutesKnow, [Next]_vars
      PROVE  \A r \in Routers : (RouteReturns(r) /\ window[r].quiet) =>
               /\ WantsSerialized(route'[r]) <=> Wanted(counts, event[r], "serialized")
               /\ WantsFast(route'[r]) <=> Wanted(counts, event[r], "fast")
  BY <1>1, Returned
<1> QED
  BY <1>1, AlwaysKnown, PTL DEF Spec, RouteExactWhenQuiet

(* And one that is disturbed asks for no work that nobody wanted during    *)
(* the call, however many adds and removes come between its loads.         *)
THEOREM RoutesInventNothing == Spec => RouteInventsNothing
<1>1. ASSUME CountersAccounted, RoutesKnow, [Next]_vars
      PROVE  \A r \in Routers : RouteReturns(r) =>
               /\ WantsSerialized(route'[r]) => window[r].serialized
               /\ WantsFast(route'[r]) => window[r].fast
  BY <1>1, Returned
<1> QED
  BY <1>1, AlwaysKnown, PTL DEF Spec, RouteInventsNothing

-----------------------------------------------------------------------------
(* Refinement: each step is one of RefCountedInterest's, or none.          *)

LEMMA CountSteps ==
  ASSUME TypeOK, NEW c \in Controllers, Call(c) \/ Continue(c)
  PROVE  [RefCounts!Next]_(RefCounts!vars)
<1> USE DEF RefCounts!Next, RefCounts!vars
<1>1. ASSUME NEW k \in InputKeys, UnknownId(c, k)
      PROVE  \E u \in UnknownKeys : RefCounts!NoEntry(c, u)
  BY <1>1 DEF UnknownId, Answers, tables, UnknownKeys, RefCounts!NoEntry
<1>2. ASSUME NEW k \in InputKeys, AddCount(c, k)
      PROVE  k \in Keys /\ RefCounts!Mount(c, k)
  <2>1. k \in Keys /\ counts[k] \in 0 .. MaxRefs - 1
    BY <1>2, NetAssumption DEF AddCount, TypeOK, CounterTypes
  <2>2. WrappingInc(counts[k]) = counts[k] + 1
    BY <2>1, NetAssumption DEF WrappingInc
  <2>3. QED
    BY <1>2, <2>1, <2>2 DEF AddCount, Answers, RefCounts!Mount
<1>3. ASSUME NEW k \in Keys, RemoveLooks(c, k)
      PROVE  RefCounts!UnmountNothing(c, k) \/ UNCHANGED <<counts, answer>>
  BY <1>3 DEF RemoveLooks, Answers, tables, RefCounts!UnmountNothing
<1>4. CASE RemoveCas(c)
  <2>1. key[c] \in Keys /\ counts[key[c]] = current[c] /\ current[c] \in 1 .. MaxRefs
    BY <1>4 DEF RemoveCas, TypeOK, ControlTypes
  <2>2. WrappingDec(current[c]) = current[c] - 1
    BY <2>1 DEF WrappingDec
  <2>3. RefCounts!Unmount(c, key[c])
    BY <1>4, <2>1, <2>2 DEF RemoveCas, Answers, RefCounts!Unmount
  <2>4. QED
    BY <2>1, <2>3
<1>5. CASE AddActive(c) \/ AddTotal(c) \/ SubActive(c) \/ SubTotal(c)
  BY <1>5 DEF AddActive, AddTotal, SubActive, SubTotal
<1>6. RemoveRetry(c) => key[c] \in Keys
  BY DEF RemoveRetry, TypeOK, ControlTypes
<1> QED
  BY <1>1, <1>2, <1>3, <1>4, <1>5, <1>6 DEF Call, Continue, RemoveLoad, RemoveRetry

(* The interleaved tables implement the abstract reference counts: every   *)
(* add_* and remove_* takes effect in one step, an unmount is never lost   *)
(* or doubled, and exactly the enabling and the disabling call say so.     *)
THEOREM Refinement == Spec => ImplementsRefCounts
<1>1. Init => RefCounts!Init
  BY DEF Init, RefCounts!Init, UnknownKeys
<1>2. ASSUME TypeOK, [Next]_vars
      PROVE  [RefCounts!Next]_(RefCounts!vars)
  <2>1. ASSUME UNCHANGED <<tables, control>>
        PROVE  UNCHANGED RefCounts!vars
    BY <2>1 DEF tables, control, RefCounts!vars
  <2>2. CASE \E c \in Controllers : Call(c) \/ Continue(c)
    BY <1>2, <2>2, CountSteps
  <2>3. CASE \E r \in Routers : Route(r)
    BY <2>1, <2>3, RouteFrame
  <2>4. CASE UNCHANGED vars
    BY <2>1, <2>4 DEF vars
  <2>5. QED
    BY <1>2, <2>2, <2>3, <2>4 DEF Next
<1> QED
  BY <1>1, <1>2, TypeCorrect, PTL DEF Spec, RefCounts!Spec, ImplementsRefCounts
=============================================================================
