-------------------------- MODULE WalkerPatrol_proofs --------------------------
(***************************************************************************)
(* Proofs about WalkerPatrol, for any threads, environments and bounds.    *)
(***************************************************************************)
EXTENDS WalkerPatrol, FiniteSetTheorems, SequenceTheorems, TLAPS

-----------------------------------------------------------------------------
(* The inductive invariant: what the counters say between the steps of the *)
(* callbacks, by how many threads are at what.                             *)

\* The threads at one of the phases S, and how many they are.
In(S) == {t \in Threads : thread[t].at \in S}
N(S) == Cardinality(In(S))

\* Of whom a counter does not tell yet: what became of the callback, whether it took its turn, where its
\* teleport ended, how its read of the origin ended.
Undecided == Refusals \union {"walker", "nested"}
Turning == {"turn"}
Teleporting ==
  {"origin", "body_component_missing", "scene_node_missing", "implausible", "read", "teleport", "nested"}
Reading == {"body_component_missing", "scene_node_missing", "implausible", "read"}

\* Every callback has been counted with what became of it or has yet to be.
Accounted ==
  /\ count["damage_callbacks"] =
       count["skipped_recursive"] + count["missing_identity"] + count["missing_designer_name"]
       + count["non_walker_victims"] + count["candidate_walkers"] + N(Undecided)
  /\ count["candidate_walkers"] \div config.stride = count["teleport_attempts"] + N(Turning)
  /\ count["teleport_attempts"] =
       count["teleport_calls"] + count["origin_read_failures"] + N(Teleporting)
  /\ count["origin_read_attempts"] =
       count["origin_read_successes"] + count["origin_read_failures"] + N(Reading)

\* The round robin of all turns so far, and those given but not yet taken.
Fair(w) == {k \in 1 .. count["candidate_walkers"] \div config.stride :
              (k - 1) % Len(config.waypoints) = w - 1}
Owed(w) == {t \in In(Turning) : Waypoint(thread[t].index) = w}
Shared == \A w \in DOMAIN config.waypoints :
            served[w] + Cardinality(Owed(w)) = Cardinality(Fair(w))

\* A reset that meets no callback works on counters that rest.
Resetting ==
  /\ AtRest /\ served = NoTurns
  /\ \A i \in 1 .. control.next - 1 : count[Order[i]] = 0

Counting == clean => IF control.op = "reset" THEN Resetting ELSE Accounted /\ Shared

\* And a snapshot that meets none copies counters that add up.
Copying ==
  settled /\ control.op = "snapshot" =>
    clean /\ AtRest /\ \A i \in 1 .. control.next - 1 : copy[Order[i]] = count[Order[i]]

\* A counter and the threads that may yet add to it are within the callbacks.
Ahead == [k \in Counters |->
  CASE k = "damage_callbacks" -> {}
    [] k = "skipped_recursive" -> {"skipped_recursive", "nested"}
    [] k \in Refusals \ {"skipped_recursive"} -> {k}
    [] k = "candidate_walkers" -> {"walker"}
    [] k = "teleport_attempts" -> {"walker", "turn"}
    [] k = "teleport_calls" -> {"walker", "turn", "origin", "read", "teleport", "nested"}
    [] k = "origin_read_attempts" -> {"walker", "turn", "origin"}
    [] k \in {"body_component_missing", "scene_node_missing"} -> {"walker", "turn", "origin", k}
    [] k = "origin_read_successes" -> {"walker", "turn", "origin", "read"}
    [] k = "origin_read_failures" ->
         {"walker", "turn", "origin", "body_component_missing", "scene_node_missing", "implausible"}]

Bounded ==
  /\ \A k \in Counters : count[k] + N(Ahead[k]) <= made
  /\ \A w \in DOMAIN NoTurns : served[w] + N({"walker", "turn"}) <= made

IInv == TypeOK /\ Bounded /\ Counting /\ Copying /\ SnapshotAccounts

-----------------------------------------------------------------------------
(* Arithmetic and counting.                                                *)

LEMMA MaxOfTwo ==
  ASSUME NEW a \in Nat, NEW b \in Nat
  PROVE  Max({a, b}) \in {a, b} /\ Max({a, b}) >= a /\ Max({a, b}) >= b
<1>1. \E x \in {a, b} : \A y \in {a, b} : x >= y
  OBVIOUS
<1>2. QED
  BY <1>1 DEF Max

LEMMA MinOfTwo ==
  ASSUME NEW a \in Nat, NEW b \in Nat
  PROVE  Min({a, b}) \in {a, b} /\ Min({a, b}) <= a /\ Min({a, b}) <= b
<1>1. \E x \in {a, b} : \A y \in {a, b} : x <= y
  OBVIOUS
<1>2. QED
  BY <1>1 DEF Min

LEMMA Quotient == ASSUME NEW c \in Nat, NEW s \in Nat \ {0} PROVE c \div s \in Nat
  OBVIOUS
LEMMA Remainder == ASSUME NEW c \in Nat, NEW s \in Nat \ {0} PROVE c % s \in 0 .. s - 1
  OBVIOUS
LEMMA Cycle == ASSUME NEW c \in Int, NEW s \in Nat \ {0} PROVE c % s \in 0 .. s - 1
  OBVIOUS
LEMMA Division == ASSUME NEW c \in Nat, NEW s \in Nat \ {0} PROVE c = s * (c \div s) + (c % s)
  OBVIOUS

LEMMA Multiples ==
  ASSUME NEW d \in Int, NEW s \in Nat \ {0}
  PROVE  (d >= 1 => d * s >= s) /\ (d <= -1 => d * s <= -s) /\ (d >= 2 => d * s >= s + s)
  OBVIOUS

\* Each multiple of s begins a new quotient.
LEMMA NextQuotient ==
  ASSUME NEW c \in Nat, NEW s \in Nat \ {0}
  PROVE  (c + 1) \div s = (c \div s) + (IF (c + 1) % s = 0 THEN 1 ELSE 0)
<1> DEFINE q == c \div s
           r == c % s
           q1 == (c + 1) \div s
           r1 == (c + 1) % s
<1>1. q \in Nat /\ r \in 0 .. s - 1 /\ c = s * q + r
  BY Quotient, Remainder, Division
<1>2. q1 \in Nat /\ r1 \in 0 .. s - 1 /\ c + 1 = s * q1 + r1
  <2>1. c + 1 \in Nat
    OBVIOUS
  <2>2. QED
    BY <2>1, Quotient, Remainder, Division
<1> HIDE DEF q, r, q1, r1
<1>3. (q1 - q) * s = r + 1 - r1
  <2>1. (q1 - q) * s = s * q1 - s * q
    BY <1>1, <1>2
  <2>2. s * q \in Int /\ s * q1 \in Int
    BY <1>1, <1>2
  <2>3. QED
    BY <1>1, <1>2, <2>1, <2>2
<1>4. q1 - q \in Int /\ (q1 - q) * s \in Int
  BY <1>1, <1>2
<1>5. /\ q1 - q >= 1 => (q1 - q) * s >= s
      /\ q1 - q <= -1 => (q1 - q) * s <= -s
      /\ q1 - q >= 2 => (q1 - q) * s >= s + s
  BY <1>4, Multiples
<1>6. q1 - q = IF r1 = 0 THEN 1 ELSE 0
  <2> DEFINE d == q1 - q
             m == d * s
  <2> HIDE DEF d, m
  <2>1. /\ d \in Int /\ m \in Int /\ m = r + 1 - r1
        /\ d >= 1 => m >= s
        /\ d <= -1 => m <= -s
        /\ d >= 2 => m >= s + s
        /\ d = 0 => m = 0
    BY <1>3, <1>4, <1>5 DEF d, m
  <2>2. d = IF r1 = 0 THEN 1 ELSE 0
    BY <1>1, <1>2, <2>1
  <2>3. QED
    BY <2>2 DEF d
<1>7. QED
  BY <1>1, <1>2, <1>6 DEF q, q1, r1

LEMMA OrderFacts ==
  /\ Len(Order) = 13 /\ DOMAIN Order = 1 .. 13
  /\ Counters = {"damage_callbacks", "candidate_walkers", "non_walker_victims", "skipped_recursive",
                 "missing_identity", "missing_designer_name", "teleport_attempts", "teleport_calls",
                 "body_component_missing", "scene_node_missing", "origin_read_attempts",
                 "origin_read_successes", "origin_read_failures"}
  /\ \A i, j \in 1 .. 13 : Order[i] = Order[j] => i = j
<1>1. /\ Len(Order) = 13 /\ DOMAIN Order = 1 .. 13
      /\ Order[1] = "damage_callbacks" /\ Order[2] = "candidate_walkers" /\ Order[3] = "non_walker_victims"
      /\ Order[4] = "skipped_recursive" /\ Order[5] = "missing_identity" /\ Order[6] = "missing_designer_name"
      /\ Order[7] = "teleport_attempts" /\ Order[8] = "teleport_calls" /\ Order[9] = "body_component_missing"
      /\ Order[10] = "scene_node_missing" /\ Order[11] = "origin_read_attempts"
      /\ Order[12] = "origin_read_successes" /\ Order[13] = "origin_read_failures"
  BY DEF Order
<1>2. \A i \in 1 .. 13 : i \in {1, 2, 3, 4, 5, 6, 7, 8, 9, 10, 11, 12, 13}
  OBVIOUS
<1>3. {1, 2, 3, 4, 5, 6, 7, 8, 9, 10, 11, 12, 13} \subseteq 1 .. 13
  OBVIOUS
<1>4. Counters = {Order[i] : i \in {1, 2, 3, 4, 5, 6, 7, 8, 9, 10, 11, 12, 13}}
  BY <1>1, <1>2, <1>3 DEF Counters
<1>5. Counters = {Order[1], Order[2], Order[3], Order[4], Order[5], Order[6], Order[7], Order[8], Order[9],
                  Order[10], Order[11], Order[12], Order[13]}
  BY <1>4
<1>6. \A i, j \in {1, 2, 3, 4, 5, 6, 7, 8, 9, 10, 11, 12, 13} : Order[i] = Order[j] => i = j
  BY <1>1
<1>7. QED
  BY <1>1, <1>2, <1>5, <1>6

\* How many threads are at some phases, after one has gone from one to another.
Step(x, S) == IF x \in S THEN 1 ELSE 0

LEMMA CountOne ==
  ASSUME NEW S, IsFiniteSet(S), NEW T, NEW t, \A u : u # t => (u \in T <=> u \in S)
  PROVE  /\ IsFiniteSet(T) /\ Cardinality(S) \in Nat /\ Cardinality(T) \in Nat
         /\ Cardinality(T) = Cardinality(S) - Step(t, S) + Step(t, T)
<1>0. Cardinality(S) \in Nat
  BY FS_CardinalityType
<1>1. CASE t \in S /\ t \in T
  <2>1. S = T
    BY <1>1
  <2>2. QED
    BY <1>0, <1>1, <2>1 DEF Step
<1>2. CASE t \notin S /\ t \notin T
  <2>1. S = T
    BY <1>2
  <2>2. QED
    BY <1>0, <1>2, <2>1 DEF Step
<1>3. CASE t \in S /\ t \notin T
  <2>1. T = S \ {t}
    BY <1>3
  <2>2. IsFiniteSet(T) /\ Cardinality(T) = Cardinality(S) - 1
    BY <1>3, <2>1, FS_RemoveElement
  <2>3. Cardinality(T) \in Nat
    BY <2>2, FS_CardinalityType
  <2>4. QED
    BY <1>0, <1>3, <2>2, <2>3 DEF Step
<1>4. CASE t \notin S /\ t \in T
  <2>1. T = S \union {t}
    BY <1>4
  <2>2. IsFiniteSet(T) /\ Cardinality(T) = Cardinality(S) + 1
    BY <1>4, <2>1, FS_AddElement
  <2>3. QED
    BY <1>0, <1>4, <2>2 DEF Step
<1>5. QED
  BY <1>1, <1>2, <1>3, <1>4

LEMMA InFinite == ASSUME NEW S PROVE IsFiniteSet(In(S)) /\ N(S) \in Nat
<1>1. In(S) \subseteq Threads /\ IsFiniteSet(Threads)
  BY WalkerAssumption DEF In
<1>2. IsFiniteSet(In(S))
  BY <1>1, FS_Subset
<1>3. QED
  BY <1>2, FS_CardinalityType DEF N

LEMMA Moved ==
  ASSUME NEW t \in Threads, \A u \in Threads \ {t} : thread'[u].at = thread[u].at, NEW S
  PROVE  /\ N(S) \in Nat /\ N(S)' \in Nat
         /\ N(S)' = N(S) - Step(thread[t].at, S) + Step(thread'[t].at, S)
<1> DEFINE A == In(S)
           B == {u \in Threads : thread'[u].at \in S}
<1>1. B = In(S)' /\ N(S) = Cardinality(A) /\ N(S)' = Cardinality(B)
  BY DEF In, N
<1>2. \A u : u # t => (u \in B <=> u \in A)
  BY DEF In
<1>3. Step(t, A) = Step(thread[t].at, S) /\ Step(t, B) = Step(thread'[t].at, S)
  BY DEF Step, In
<1>4. IsFiniteSet(A)
  BY InFinite
<1> HIDE DEF A, B
<1>5. QED
  BY <1>1, <1>2, <1>3, <1>4, CountOne

LEMMA AtRestCounts ==
  ASSUME AtRest, NEW S, "none" \notin S
  PROVE  In(S) = {} /\ N(S) = 0
<1>1. In(S) = {}
  BY DEF AtRest, In
<1>2. QED
  BY <1>1, FS_EmptySet DEF N

LEMMA CountsAtRest ==
  ASSUME NEW S, NEW t \in Threads, thread[t].at \in S
  PROVE  N(S) >= 1
<1>1. t \in In(S) /\ IsFiniteSet(In(S))
  BY InFinite DEF In
<1>2. Cardinality(In(S)) # 0 /\ Cardinality(In(S)) \in Nat
  BY <1>1, FS_EmptySet, FS_CardinalityType
<1>3. QED
  BY <1>2 DEF N

-----------------------------------------------------------------------------
(* The configuration that the environment gives.                           *)

LEMMA StrideTyped ==
  ASSUME NEW text, text = Unset \/ text \in Nat
  PROVE  Stride(text) \in 1 .. Max({DefaultStride, MaxStride})
<1>1. DefaultStride \in Nat \ {0} /\ MaxStride \in Nat \ {0}
  BY WalkerAssumption
<1>2. /\ Max({DefaultStride, MaxStride}) \in Nat
      /\ Max({DefaultStride, MaxStride}) >= DefaultStride /\ Max({DefaultStride, MaxStride}) >= MaxStride
  BY <1>1, MaxOfTwo
<1>3. CASE text = Unset \/ text > MaxStride
  BY <1>1, <1>2, <1>3 DEF Stride
<1>4. CASE ~(text = Unset \/ text > MaxStride)
  <2>1. text \in Nat /\ text <= MaxStride
    BY <1>1, <1>4
  <2>2. Max({1, text}) \in {1, text} /\ Max({1, text}) >= 1
    BY <2>1, MaxOfTwo
  <2>3. QED
    BY <1>1, <1>2, <1>4, <2>1, <2>2 DEF Stride
<1>5. QED
  BY <1>3, <1>4

LEMMA WaypointsTyped ==
  ASSUME NEW items, items = Unset \/ items \in Seq(STRING)
  PROVE  /\ DOMAIN Waypoints(items) = 1 .. Len(Waypoints(items))
         /\ Len(Waypoints(items)) \in 1 .. Max({4, MaxWaypoints})
<1> DEFINE valid == IF items = Unset THEN {} ELSE {i \in DOMAIN items : items[i] \notin {"empty", "bad"}}
           nth(n) == CHOOSE i \in valid : Cardinality({j \in valid : j <= i}) = n
           m == Min({Cardinality(valid), MaxWaypoints})
           some == [n \in 1 .. m |-> items[nth(n)]]
<1>1. /\ MaxWaypoints \in Nat \ {0} /\ Max({4, MaxWaypoints}) \in Nat
      /\ Max({4, MaxWaypoints}) >= 4 /\ Max({4, MaxWaypoints}) >= MaxWaypoints
  BY WalkerAssumption, MaxOfTwo
<1>2. Waypoints(items) = IF valid = {} THEN DefaultVectors ELSE some
  BY DEF Waypoints
<1>3. CASE valid = {}
  <2>1. Len(DefaultVectors) = 4 /\ DOMAIN DefaultVectors = 1 .. 4
    BY DEF DefaultVectors
  <2>2. Waypoints(items) = DefaultVectors
    BY <1>2, <1>3
  <2>3. 4 \in 1 .. Max({4, MaxWaypoints})
    BY <1>1
  <2>4. QED
    BY <2>1, <2>2, <2>3
<1>4. CASE valid # {}
  <2>1. items \in Seq(STRING) /\ valid \subseteq 1 .. Len(items)
    BY <1>4
  <2>2. IsFiniteSet(valid)
    <3>1. Len(items) \in Nat
      BY <2>1
    <3>2. IsFiniteSet(1 .. Len(items))
      BY <3>1, FS_Interval
    <3>3. QED
      BY <2>1, <3>2, FS_Subset
  <2>3. Cardinality(valid) \in Nat \ {0}
    BY <1>4, <2>2, FS_EmptySet, FS_CardinalityType
  <2> HIDE DEF valid
  <2>4. m \in Nat /\ m >= 1 /\ m <= MaxWaypoints
    BY <1>1, <2>3, MinOfTwo
  <2> HIDE DEF m, nth
  <2> DEFINE S == {items[nth(n)] : n \in 1 .. m}
  <2>5. some \in [1 .. m -> S]
    OBVIOUS
  <2>6. some \in Seq(S)
    BY <2>4, <2>5, SeqDef
  <2>7. DOMAIN some = 1 .. m /\ Len(some) = m
    <3>1. DOMAIN some = 1 .. m
      OBVIOUS
    <3> HIDE DEF some
    <3>2. DOMAIN some = 1 .. Len(some) /\ Len(some) \in Nat
      BY <2>6, LenProperties
    <3>3. QED
      BY <2>4, <3>1, <3>2
  <2> HIDE DEF some
  <2>8. QED
    BY <1>1, <1>2, <1>4, <2>4, <2>7
<1>5. QED
  BY <1>3, <1>4

LEMMA InitTyped == Init => TypeOK
<1> SUFFICES ASSUME Init PROVE TypeOK
  OBVIOUS
<1>1. /\ scenario \in DOMAIN Scenarios
      /\ Bound.calls \in Nat /\ Bound.controls \in Nat
  BY WalkerAssumption DEF Init, Bound
<1>2. PICK env \in Bound.environments : config = Configured(env)
  BY DEF Init
<1>3. /\ env.mode \in {"velocity", "origin"}
      /\ env.stride = Unset \/ env.stride \in Nat
      /\ env.vectors = Unset \/ env.vectors \in Seq(STRING)
  BY <1>1, WalkerAssumption DEF Bound
<1>4. /\ config.mode = env.mode /\ config.stride = Stride(env.stride)
      /\ config.waypoints = Waypoints(env.vectors)
  BY <1>2 DEF Configured
<1>5. /\ config.mode \in {"velocity", "origin"}
      /\ config.stride \in 1 .. Max({DefaultStride, MaxStride})
      /\ DOMAIN config.waypoints = 1 .. Len(config.waypoints)
      /\ Len(config.waypoints) \in 1 .. Max({4, MaxWaypoints})
  BY <1>3, <1>4, StrideTyped, WaypointsTyped
<1>6. /\ count \in [Counters -> 0 .. Bound.calls] /\ copy \in [Counters -> 0 .. Bound.calls]
      /\ thread \in [Threads -> [at : Phases, index : 0 .. Bound.calls]]
      /\ made \in 0 .. Bound.calls
  BY <1>1 DEF Init, Phases
<1>7. control \in [op : {"none", "reset", "snapshot"}, next : 1 .. Len(Order), left : 0 .. Bound.controls]
  BY <1>1, OrderFacts DEF Init
<1>8. served \in [DOMAIN NoTurns -> 0 .. Bound.calls] /\ clean \in BOOLEAN /\ settled \in BOOLEAN
  <2>1. served = NoTurns /\ clean = TRUE /\ settled = FALSE
    BY DEF Init
  <2>2. 0 \in 0 .. Bound.calls
    BY <1>1
  <2>3. NoTurns \in [DOMAIN NoTurns -> 0 .. Bound.calls]
    BY <2>2 DEF NoTurns
  <2>4. QED
    BY <2>1, <2>3
<1>9. QED
  BY <1>1, <1>5, <1>6, <1>7, <1>8 DEF TypeOK

-----------------------------------------------------------------------------
(* A step of a callback: a thread goes from one phase to another, and adds *)
(* one to a counter k.                                                     *)

Moves(t, k) ==
  /\ t \in Threads /\ k \in Counters /\ Counted(k)
  /\ \A u \in Threads \ {t} : thread'[u] = thread[u]
  /\ scenario' = scenario /\ config' = config /\ copy' = copy /\ control' = control

\* The step makes up for what it counts, but for the d callbacks it begins.
Keeps(from, k, to, d) ==
  /\ \A j \in Counters : Step(to, Ahead[j]) + Step(j, {k}) <= Step(from, Ahead[j]) + d
  /\ Step(to, {"walker", "turn"}) <= Step(from, {"walker", "turn"}) + d

\* And tells what the callback is about to count, turns being the turns it gives.
Tells(from, k, to, turns) ==
  /\ Step(k, {"damage_callbacks"}) =
       Step(k, Refusals \union {"candidate_walkers"}) + Step(to, Undecided) - Step(from, Undecided)
  /\ turns = Step(k, {"teleport_attempts"}) + Step(to, Turning) - Step(from, Turning)
  /\ Step(k, {"teleport_attempts"}) =
       Step(k, {"teleport_calls", "origin_read_failures"}) + Step(to, Teleporting) - Step(from, Teleporting)
  /\ Step(k, {"origin_read_attempts"}) =
       Step(k, {"origin_read_successes", "origin_read_failures"}) + Step(to, Reading) - Step(from, Reading)

LEMMA AheadValues ==
  /\ Ahead["damage_callbacks"] = {}
  /\ Ahead["skipped_recursive"] = {"skipped_recursive", "nested"}
  /\ Ahead["missing_identity"] = {"missing_identity"}
  /\ Ahead["missing_designer_name"] = {"missing_designer_name"}
  /\ Ahead["non_walker_victims"] = {"non_walker_victims"}
  /\ Ahead["candidate_walkers"] = {"walker"}
  /\ Ahead["teleport_attempts"] = {"walker", "turn"}
  /\ Ahead["teleport_calls"] = {"walker", "turn", "origin", "read", "teleport", "nested"}
  /\ Ahead["origin_read_attempts"] = {"walker", "turn", "origin"}
  /\ Ahead["body_component_missing"] = {"walker", "turn", "origin", "body_component_missing"}
  /\ Ahead["scene_node_missing"] = {"walker", "turn", "origin", "scene_node_missing"}
  /\ Ahead["origin_read_successes"] = {"walker", "turn", "origin", "read"}
  /\ Ahead["origin_read_failures"] =
       {"walker", "turn", "origin", "body_component_missing", "scene_node_missing", "implausible"}
  BY OrderFacts DEF Ahead, Refusals

LEMMA NoneAhead == \A j \in Counters : "none" \notin Ahead[j]
  BY OrderFacts, AheadValues

LEMMA CountTyped ==
  ASSUME TypeOK
  PROVE  /\ Bound.calls \in Nat /\ Bound.controls \in Nat
         /\ count \in [Counters -> Nat] /\ served \in [DOMAIN NoTurns -> Nat] /\ made \in Nat
         /\ config.stride \in Nat \ {0} /\ Len(config.waypoints) \in Nat \ {0}
         /\ DOMAIN config.waypoints = 1 .. Len(config.waypoints)
         /\ DOMAIN config.waypoints \subseteq DOMAIN NoTurns
<1>1. Bound.calls \in Nat /\ Bound.controls \in Nat
  BY WalkerAssumption DEF TypeOK, Bound
<1>2. /\ count \in [Counters -> Nat] /\ served \in [DOMAIN NoTurns -> Nat] /\ made \in Nat
  BY <1>1 DEF TypeOK
<1>3. Max({DefaultStride, MaxStride}) \in Nat /\ Max({4, MaxWaypoints}) \in Nat
  BY WalkerAssumption, MaxOfTwo
<1>4. config.stride \in Nat \ {0} /\ Len(config.waypoints) \in Nat \ {0}
  BY <1>3 DEF TypeOK
<1>5. DOMAIN config.waypoints = 1 .. Len(config.waypoints)
  BY DEF TypeOK
<1>6. Len(config.waypoints) <= Max({4, MaxWaypoints})
  BY <1>3 DEF TypeOK
<1>7. DOMAIN config.waypoints \subseteq DOMAIN NoTurns
  BY <1>3, <1>4, <1>5, <1>6 DEF NoTurns
<1>8. QED
  BY <1>1, <1>2, <1>4, <1>5, <1>7

LEMMA CountedOne ==
  ASSUME TypeOK, NEW k \in Counters, Counted(k)
  PROVE  /\ count' \in [Counters -> Nat]
         /\ \A j \in Counters : count'[j] = count[j] + Step(j, {k})
<1>1. count \in [Counters -> Nat]
  BY CountTyped
<1>2. QED
  BY <1>1 DEF Counted, Step

LEMMA BoundedStep ==
  ASSUME TypeOK, Bounded, NEW t, NEW k, Moves(t, k), NEW d \in {0, 1}, made' = made + d,
         Keeps(thread[t].at, k, thread'[t].at, d)
  PROVE  \A j \in Counters : count'[j] + N(Ahead[j])' <= made'
<1>1. /\ count \in [Counters -> Nat] /\ made \in Nat
  BY CountTyped
<1> SUFFICES ASSUME NEW j \in Counters PROVE count'[j] + N(Ahead[j])' <= made'
  OBVIOUS
<1>2. count'[j] = count[j] + Step(j, {k})
  BY CountedOne DEF Moves
<1>3. /\ N(Ahead[j]) \in Nat /\ N(Ahead[j])' \in Nat
      /\ N(Ahead[j])' = N(Ahead[j]) - Step(thread[t].at, Ahead[j]) + Step(thread'[t].at, Ahead[j])
  <2>1. t \in Threads /\ \A u \in Threads \ {t} : thread'[u].at = thread[u].at
    BY DEF Moves
  <2>2. QED
    BY <2>1, Moved
<1>4. /\ Step(thread'[t].at, Ahead[j]) + Step(j, {k}) <= Step(thread[t].at, Ahead[j]) + d
      /\ count[j] + N(Ahead[j]) <= made
  BY DEF Keeps, Bounded
<1>5. /\ Step(thread'[t].at, Ahead[j]) \in Nat /\ Step(j, {k}) \in Nat
      /\ Step(thread[t].at, Ahead[j]) \in Nat
  BY DEF Step
<1>6. count[j] \in Nat
  BY <1>1
<1>7. QED
  BY <1>1, <1>2, <1>3, <1>4, <1>5, <1>6

LEMMA ServedStep ==
  ASSUME TypeOK, Bounded, NEW t, NEW k, Moves(t, k), NEW d \in {0, 1}, made' = made + d,
         Keeps(thread[t].at, k, thread'[t].at, d), served' = served
  PROVE  \A w \in DOMAIN NoTurns : served'[w] + N({"walker", "turn"})' <= made'
<1> DEFINE S == {"walker", "turn"}
<1>1. /\ served \in [DOMAIN NoTurns -> Nat] /\ made \in Nat
  BY CountTyped
<1>2. /\ N(S) \in Nat /\ N(S)' \in Nat
      /\ N(S)' = N(S) - Step(thread[t].at, S) + Step(thread'[t].at, S)
  <2>1. t \in Threads /\ \A u \in Threads \ {t} : thread'[u].at = thread[u].at
    BY DEF Moves
  <2>2. QED
    BY <2>1, Moved
<1>3. Step(thread'[t].at, S) <= Step(thread[t].at, S) + d
  BY DEF Keeps
<1>4. /\ Step(thread'[t].at, S) \in Nat /\ Step(thread[t].at, S) \in Nat
  BY DEF Step
<1> SUFFICES ASSUME NEW w \in DOMAIN NoTurns PROVE served'[w] + N(S)' <= made'
  OBVIOUS
<1>5. served[w] \in Nat /\ served'[w] = served[w] /\ served[w] + N(S) <= made
  BY <1>1 DEF Bounded
<1> HIDE DEF S
<1>6. QED
  BY <1>1, <1>2, <1>3, <1>4, <1>5

LEMMA AccountedStep ==
  ASSUME TypeOK, Accounted, NEW t, NEW k, Moves(t, k), NEW turns \in {0, 1},
         count'["candidate_walkers"] \div config.stride = (count["candidate_walkers"] \div config.stride) + turns,
         Tells(thread[t].at, k, thread'[t].at, turns)
  PROVE  Accounted'
<1> DEFINE from == thread[t].at
           to == thread'[t].at
<1>1. /\ count \in [Counters -> Nat] /\ count' \in [Counters -> Nat]
      /\ \A j \in Counters : count'[j] = count[j] + Step(j, {k})
  BY CountTyped, CountedOne DEF Moves
<1>2. t \in Threads /\ \A u \in Threads \ {t} : thread'[u].at = thread[u].at
  BY DEF Moves
<1>3. /\ N(Undecided) \in Nat /\ N(Undecided)' \in Nat
      /\ N(Undecided)' = N(Undecided) - Step(from, Undecided) + Step(to, Undecided)
  BY <1>2, Moved
<1>4. /\ N(Turning) \in Nat /\ N(Turning)' \in Nat
      /\ N(Turning)' = N(Turning) - Step(from, Turning) + Step(to, Turning)
  BY <1>2, Moved
<1>5. /\ N(Teleporting) \in Nat /\ N(Teleporting)' \in Nat
      /\ N(Teleporting)' = N(Teleporting) - Step(from, Teleporting) + Step(to, Teleporting)
  BY <1>2, Moved
<1>6. /\ N(Reading) \in Nat /\ N(Reading)' \in Nat
      /\ N(Reading)' = N(Reading) - Step(from, Reading) + Step(to, Reading)
  BY <1>2, Moved
<1>7. \A x, S : Step(x, S) \in {0, 1}
  BY DEF Step
<1>8. k \in Counters
  BY DEF Moves
<1>9. count'["damage_callbacks"] =
        count'["skipped_recursive"] + count'["missing_identity"] + count'["missing_designer_name"]
        + count'["non_walker_victims"] + count'["candidate_walkers"] + N(Undecided)'
  <2>1. Step(k, {"damage_callbacks"}) =
          Step(k, Refusals \union {"candidate_walkers"}) + Step(to, Undecided) - Step(from, Undecided)
    BY DEF Tells
  <2>2. Step(k, Refusals \union {"candidate_walkers"}) =
          Step("skipped_recursive", {k}) + Step("missing_identity", {k}) + Step("missing_designer_name", {k})
          + Step("non_walker_victims", {k}) + Step("candidate_walkers", {k})
    BY <1>8, OrderFacts DEF Step, Refusals
  <2>3. Step("damage_callbacks", {k}) = Step(k, {"damage_callbacks"})
    BY DEF Step
  <2>4. count["damage_callbacks"] =
          count["skipped_recursive"] + count["missing_identity"] + count["missing_designer_name"]
          + count["non_walker_victims"] + count["candidate_walkers"] + N(Undecided)
    BY DEF Accounted
  <2>5. /\ \A j \in Counters : count[j] \in Nat
        /\ {"damage_callbacks", "skipped_recursive", "missing_identity", "missing_designer_name",
            "non_walker_victims", "candidate_walkers"} \subseteq Counters
    BY <1>1, OrderFacts
  <2> HIDE DEF from, to
  <2>6. QED
    BY <1>1, <1>3, <1>7, <2>1, <2>2, <2>3, <2>4, <2>5
<1>10. count'["candidate_walkers"] \div config.stride = count'["teleport_attempts"] + N(Turning)'
  <2>1. turns = Step(k, {"teleport_attempts"}) + Step(to, Turning) - Step(from, Turning)
    BY DEF Tells
  <2>2. Step("teleport_attempts", {k}) = Step(k, {"teleport_attempts"})
    BY DEF Step
  <2>3. count["candidate_walkers"] \div config.stride = count["teleport_attempts"] + N(Turning)
    BY DEF Accounted
  <2>4. "teleport_attempts" \in Counters /\ count["teleport_attempts"] \in Nat
    BY <1>1, OrderFacts
  <2>5. count'["teleport_attempts"] = count["teleport_attempts"] + Step("teleport_attempts", {k})
    BY <1>1, <2>4
  <2> DEFINE q == count["candidate_walkers"] \div config.stride
             q1 == count'["candidate_walkers"] \div config.stride
  <2>6. q = count["teleport_attempts"] + N(Turning) /\ q1 = q + turns
    BY <2>3
  <2> HIDE DEF from, to, q, q1
  <2>7. q1 = count'["teleport_attempts"] + N(Turning)'
    BY <1>4, <1>7, <2>1, <2>2, <2>4, <2>5, <2>6
  <2>8. QED
    BY <2>7 DEF q1
<1>11. count'["teleport_attempts"] =
         count'["teleport_calls"] + count'["origin_read_failures"] + N(Teleporting)'
  <2>1. Step(k, {"teleport_attempts"}) =
          Step(k, {"teleport_calls", "origin_read_failures"}) + Step(to, Teleporting) - Step(from, Teleporting)
    BY DEF Tells
  <2>2. /\ Step("teleport_attempts", {k}) = Step(k, {"teleport_attempts"})
        /\ Step(k, {"teleport_calls", "origin_read_failures"}) =
             Step("teleport_calls", {k}) + Step("origin_read_failures", {k})
    BY DEF Step
  <2>3. count["teleport_attempts"] =
          count["teleport_calls"] + count["origin_read_failures"] + N(Teleporting)
    BY DEF Accounted
  <2>4. /\ {"teleport_attempts", "teleport_calls", "origin_read_failures"} \subseteq Counters
        /\ \A j \in Counters : count[j] \in Nat
    BY <1>1, OrderFacts
  <2> HIDE DEF from, to
  <2>5. QED
    BY <1>1, <1>5, <1>7, <2>1, <2>2, <2>3, <2>4
<1>12. count'["origin_read_attempts"] =
         count'["origin_read_successes"] + count'["origin_read_failures"] + N(Reading)'
  <2>1. Step(k, {"origin_read_attempts"}) =
          Step(k, {"origin_read_successes", "origin_read_failures"}) + Step(to, Reading) - Step(from, Reading)
    BY DEF Tells
  <2>2. /\ Step("origin_read_attempts", {k}) = Step(k, {"origin_read_attempts"})
        /\ Step(k, {"origin_read_successes", "origin_read_failures"}) =
             Step("origin_read_successes", {k}) + Step("origin_read_failures", {k})
    BY DEF Step
  <2>3. count["origin_read_attempts"] =
          count["origin_read_successes"] + count["origin_read_failures"] + N(Reading)
    BY DEF Accounted
  <2>4. /\ {"origin_read_attempts", "origin_read_successes", "origin_read_failures"} \subseteq Counters
        /\ \A j \in Counters : count[j] \in Nat
    BY <1>1, OrderFacts
  <2> HIDE DEF from, to
  <2>5. QED
    BY <1>1, <1>6, <1>7, <2>1, <2>2, <2>3, <2>4
<1>13. config' = config
  BY DEF Moves
<1>14. QED
  BY <1>9, <1>10, <1>11, <1>12, <1>13 DEF Accounted

-----------------------------------------------------------------------------
(* The round robin.                                                        *)

LEMMA FairFinite ==
  ASSUME TypeOK, NEW w
  PROVE  IsFiniteSet(Fair(w)) /\ Cardinality(Fair(w)) \in Nat
<1>1. count["candidate_walkers"] \in Nat /\ config.stride \in Nat \ {0}
  BY CountTyped, OrderFacts
<1>2. count["candidate_walkers"] \div config.stride \in Nat
  BY <1>1, Quotient
<1>3. IsFiniteSet(1 .. count["candidate_walkers"] \div config.stride)
  BY <1>2, FS_Interval
<1>4. Fair(w) \subseteq 1 .. count["candidate_walkers"] \div config.stride
  BY DEF Fair
<1>5. QED
  BY <1>3, <1>4, FS_Subset, FS_CardinalityType

LEMMA OwedFinite == ASSUME NEW w PROVE IsFiniteSet(Owed(w)) /\ Cardinality(Owed(w)) \in Nat
<1>1. IsFiniteSet(In(Turning)) /\ Owed(w) \subseteq In(Turning)
  BY InFinite DEF Owed
<1>2. QED
  BY <1>1, FS_Subset, FS_CardinalityType

\* A step of a callback that gives no turn and takes none.
LEMMA SharedKept ==
  ASSUME TypeOK, Shared, NEW t, NEW k, Moves(t, k), served' = served,
         count'["candidate_walkers"] \div config.stride = count["candidate_walkers"] \div config.stride,
         thread[t].at # "turn", thread'[t].at # "turn"
  PROVE  Shared'
<1>1. config' = config /\ t \in Threads /\ \A u \in Threads \ {t} : thread'[u] = thread[u]
  BY DEF Moves
<1>2. In(Turning)' = In(Turning) /\ t \notin In(Turning)
  BY <1>1 DEF In, Turning
<1>3. \A u \in In(Turning) : thread'[u] = thread[u]
  BY <1>1, <1>2 DEF In
<1> SUFFICES ASSUME NEW w \in DOMAIN config.waypoints
             PROVE  served'[w] + Cardinality(Owed(w)') = Cardinality(Fair(w)')
  BY <1>1 DEF Shared
<1>4. Owed(w)' = Owed(w)
  BY <1>1, <1>2, <1>3 DEF Owed, Waypoint
<1>5. Fair(w)' = Fair(w)
  BY <1>1 DEF Fair
<1>6. QED
  BY <1>4, <1>5 DEF Shared

\* Every stride-th walker has a turn, that of the waypoint which the round robin is at.
LEMMA SharedCandidate ==
  ASSUME TypeOK, Shared, NEW t \in Threads, Candidate(t)
  PROVE  Shared'
<1> DEFINE c == count["candidate_walkers"]
           stride == config.stride
           q == c \div stride
           L == Len(config.waypoints)
           gives == (c + 1) % stride = 0
<1>1. /\ c \in Nat /\ stride \in Nat \ {0} /\ L \in Nat \ {0} /\ q \in Nat
      /\ DOMAIN config.waypoints = 1 .. L
  BY CountTyped, OrderFacts, Quotient
<1>2. /\ thread[t].at = "walker" /\ config' = config /\ served' = served
      /\ count'["candidate_walkers"] = c + 1
      /\ \A u \in Threads \ {t} : thread'[u] = thread[u]
      /\ thread'[t].index = c + 1
  BY OrderFacts, CountTyped DEF Candidate, Counted, TypeOK
<1>3. thread'[t].at = IF gives THEN "turn" ELSE "none"
  <2>1. config.waypoints # <<>>
    BY <1>1
  <2>2. QED
    BY <2>1 DEF Candidate, TypeOK
<1>4. (c + 1) \div stride = q + (IF gives THEN 1 ELSE 0)
  BY <1>1, NextQuotient
<1>5. \A u \in Threads \ {t} : u \in In(Turning)' <=> u \in In(Turning)
  BY <1>2 DEF In
<1>6. t \notin In(Turning) /\ (t \in In(Turning)' <=> gives)
  BY <1>2, <1>3 DEF In, Turning
<1> SUFFICES ASSUME NEW w \in DOMAIN config.waypoints
             PROVE  served'[w] + Cardinality(Owed(w)') = Cardinality(Fair(w)')
  BY <1>2 DEF Shared
<1> DEFINE fair == {i \in 1 .. (c + 1) \div stride : (i - 1) % L = w - 1}
           due == gives /\ q % L = w - 1
<1>7. Fair(w)' = fair /\ Fair(w) = {i \in 1 .. q : (i - 1) % L = w - 1}
  BY <1>2 DEF Fair
<1>8. q + 1 \in Nat /\ (q + 1) - 1 = q /\ q + 1 \notin Fair(w)
  BY <1>1, <1>7
<1>9. fair = IF due THEN Fair(w) \union {q + 1} ELSE Fair(w)
  <2> HIDE DEF q, L, gives
  <2>1. CASE gives
    <3>1. fair = {i \in 1 .. q + 1 : (i - 1) % L = w - 1}
      BY <1>4, <2>1
    <3>2. 1 .. q + 1 = (1 .. q) \union {q + 1}
      BY <1>1
    <3>3. QED
      BY <1>7, <1>8, <2>1, <3>1, <3>2
  <2>2. CASE ~gives
    BY <1>1, <1>4, <1>7, <2>2
  <2>3. QED
    BY <2>1, <2>2
<1>10. Owed(w)' = IF due THEN Owed(w) \union {t} ELSE Owed(w)
  <2>1. \A u \in Threads \ {t} : u \in Owed(w)' <=> u \in Owed(w)
    BY <1>2, <1>5 DEF Owed, Waypoint
  <2>2. Owed(w) \subseteq Threads \ {t} /\ Owed(w)' \subseteq Threads
    BY <1>6 DEF Owed, In
  <2>3. gives => Waypoint(thread[t].index)' = (q % L) + 1
    BY <1>1, <1>2, <1>4, <1>8 DEF Waypoint
  <2>4. t \in Owed(w)' <=> gives /\ (q % L) + 1 = w
    BY <1>6, <2>3 DEF Owed
  <2>5. q % L \in Nat /\ w \in Nat
    <3>1. w \in Nat
      BY <1>1
    <3> HIDE DEF q, L
    <3>2. q % L \in 0 .. L - 1
      BY <1>1, Remainder
    <3>3. QED
      BY <3>1, <3>2
  <2>6. t \in Owed(w)' <=> due
    <3> HIDE DEF q, L, gives
    <3>1. QED
      BY <2>4, <2>5
  <2> HIDE DEF due
  <2>7. QED
    BY <2>1, <2>2, <2>6
<1>11. served[w] + Cardinality(Owed(w)) = Cardinality(Fair(w))
  BY DEF Shared
<1>12. CASE due
  <2>1. t \notin Owed(w)
    BY <1>6 DEF Owed
  <2>2. Cardinality(Owed(w)') = Cardinality(Owed(w)) + 1
    BY <1>10, <1>12, <2>1, OwedFinite, FS_AddElement
  <2>3. Cardinality(Fair(w)') = Cardinality(Fair(w)) + 1
    <3>1. Fair(w)' = Fair(w) \union {q + 1}
      BY <1>7, <1>9, <1>12
    <3>2. Cardinality(Fair(w) \union {q + 1}) = Cardinality(Fair(w)) + 1
      <4> HIDE DEF q
      <4>1. IsFiniteSet(Fair(w)) /\ q + 1 \notin Fair(w)
        BY <1>8, FairFinite
      <4>2. QED
        BY <4>1, FS_AddElement
    <3>3. QED
      BY <3>1, <3>2
  <2>4. served[w] \in Nat /\ Cardinality(Owed(w)) \in Nat /\ Cardinality(Fair(w)) \in Nat
    BY CountTyped, OwedFinite, FairFinite
  <2> HIDE DEF fair, due, c, stride, q, L, gives
  <2>5. QED
    BY <1>2, <1>11, <2>2, <2>3, <2>4
<1>13. CASE ~due
  BY <1>2, <1>7, <1>9, <1>10, <1>11, <1>13
<1>14. QED
  BY <1>12, <1>13

LEMMA SharedAttempt ==
  ASSUME TypeOK, Shared, NEW t \in Threads, Attempt(t)
  PROVE  Shared'
<1> DEFINE v == Waypoint(thread[t].index)
<1>1. /\ thread[t].at = "turn" /\ thread'[t].at # "turn" /\ config' = config
      /\ \A u \in Threads \ {t} : thread'[u] = thread[u]
      /\ count'["candidate_walkers"] = count["candidate_walkers"]
      /\ served' = [served EXCEPT ![v] = @ + 1]
  BY OrderFacts DEF Attempt, Goes, Counted, TypeOK
<1>2. In(Turning)' = In(Turning) \ {t} /\ t \in In(Turning)
  BY <1>1 DEF In, Turning
<1>3. \A u \in In(Turning)' : thread'[u] = thread[u]
  BY <1>1, <1>2 DEF In
<1>4. served \in [DOMAIN NoTurns -> Nat] /\ DOMAIN config.waypoints \subseteq DOMAIN NoTurns
  BY CountTyped
<1> SUFFICES ASSUME NEW w \in DOMAIN config.waypoints
             PROVE  served'[w] + Cardinality(Owed(w)') = Cardinality(Fair(w)')
  BY <1>1 DEF Shared
<1>5. Owed(w)' = Owed(w) \ {t} /\ (t \in Owed(w) <=> v = w)
  BY <1>1, <1>2, <1>3 DEF Owed, Waypoint
<1>6. Fair(w)' = Fair(w)
  BY <1>1 DEF Fair
<1>7. served[w] + Cardinality(Owed(w)) = Cardinality(Fair(w))
  BY DEF Shared
<1>8. served[w] \in Nat /\ served'[w] = IF v = w THEN served[w] + 1 ELSE served[w]
  BY <1>1, <1>4
<1>9. Cardinality(Owed(w)') = Cardinality(Owed(w)) - (IF v = w THEN 1 ELSE 0)
  <2>1. IsFiniteSet(Owed(w)) /\ Cardinality(Owed(w)) \in Nat
    BY OwedFinite
  <2>2. CASE v = w
    <3>1. t \in Owed(w) /\ Owed(w)' = Owed(w) \ {t}
      BY <1>5, <2>2
    <3>2. Cardinality(Owed(w) \ {t}) = Cardinality(Owed(w)) - 1
      BY <2>1, <3>1, FS_RemoveElement
    <3>3. QED
      BY <2>2, <3>1, <3>2
  <2>3. CASE v # w
    <3>1. Owed(w)' = Owed(w)
      BY <1>5, <2>3
    <3>2. QED
      BY <2>1, <2>3, <3>1
  <2>4. QED
    BY <2>2, <2>3
<1>10. Cardinality(Owed(w)) \in Nat
  BY OwedFinite
<1> HIDE DEF v
<1>11. QED
  BY <1>6, <1>7, <1>8, <1>9, <1>10

-----------------------------------------------------------------------------
(* Every step of a callback keeps the invariant.                           *)

LEMMA ThreadGoes ==
  ASSUME TypeOK, NEW t \in Threads, NEW to \in Phases, Goes(t, to)
  PROVE  /\ thread' \in [Threads -> [at : Phases, index : 0 .. Bound.calls]]
         /\ thread'[t].at = to
         /\ \A u \in Threads \ {t} : thread'[u] = thread[u]
  BY DEF TypeOK, Goes

\* A callback in progress spoils a reset, and a snapshot.
LEMMA Busy ==
  ASSUME IInv, NEW t \in Threads, thread[t].at # "none"
  PROVE  (clean => control.op # "reset") /\ (settled => control.op # "snapshot")
<1>1. ~AtRest
  BY DEF AtRest
<1>2. QED
  BY <1>1 DEF IInv, Counting, Resetting, Copying

LEMMA CallbackKeeps ==
  ASSUME IInv, NEW t, NEW k, Moves(t, k), NEW d \in {0, 1}, made' = made + d, made' <= Bound.calls,
         Keeps(thread[t].at, k, thread'[t].at, d),
         thread' \in [Threads -> [at : Phases, index : 0 .. Bound.calls]],
         served' \in [DOMAIN NoTurns -> Nat],
         \A w \in DOMAIN NoTurns : served'[w] + N({"walker", "turn"})' <= made',
         clean' \in BOOLEAN, clean' => clean /\ control.op # "reset",
         settled' \in BOOLEAN, settled' => settled /\ control.op # "snapshot",
         Accounted /\ Shared => Accounted' /\ Shared'
  PROVE  IInv'
<1> USE DEF IInv
<1>1. /\ Bound.calls \in Nat /\ Bound' = Bound /\ made' \in Nat
  BY CountTyped DEF Moves, Bound
<1>2. Bounded'
  BY BoundedStep DEF Bounded
<1>3. count' \in [Counters -> 0 .. Bound.calls]
  <2>1. count' \in [Counters -> Nat]
    BY CountedOne DEF Moves
  <2>2. ASSUME NEW j \in Counters PROVE count'[j] \in 0 .. Bound.calls
    <3>1. count'[j] + N(Ahead[j])' <= made'
      BY BoundedStep
    <3>2. count'[j] \in Nat /\ N(Ahead[j])' \in Nat
      <4>1. t \in Threads /\ \A u \in Threads \ {t} : thread'[u].at = thread[u].at
        BY DEF Moves
      <4>2. N(Ahead[j])' \in Nat
        BY <4>1, Moved
      <4>3. QED
        BY <2>1, <4>2
    <3>3. QED
      BY <1>1, <3>1, <3>2
  <2>3. QED
    BY <2>1, <2>2
<1>4. served' \in [DOMAIN NoTurns -> 0 .. Bound.calls]
  <2>1. ASSUME NEW w \in DOMAIN NoTurns PROVE served'[w] \in 0 .. Bound.calls
    <3>1. t \in Threads /\ \A u \in Threads \ {t} : thread'[u].at = thread[u].at
      BY DEF Moves
    <3>2. N({"walker", "turn"})' \in Nat /\ served'[w] \in Nat
      BY <3>1, Moved
    <3>3. QED
      BY <1>1, <3>2
  <2>2. QED
    BY <2>1
<1>5. TypeOK'
  <2>1. made' \in 0 .. Bound.calls
    BY <1>1
  <2>2. /\ scenario' = scenario /\ config' = config /\ copy' = copy /\ control' = control
    BY DEF Moves
  <2>3. QED
    BY <1>1, <1>3, <1>4, <2>1, <2>2 DEF TypeOK
<1>6. Counting'
  BY DEF Counting, Moves
<1>7. Copying'
  BY DEF Copying, Moves
<1>8. SnapshotAccounts'
  BY DEF SnapshotAccounts, Accounts, Moves
<1>9. QED
  BY <1>2, <1>5, <1>6, <1>7, <1>8

\* The same for the steps that neither begin a callback nor are about turns.
LEMMA StepsKeep ==
  ASSUME IInv, NEW t \in Threads, NEW from \in Phases \ {"none", "turn"}, NEW to \in Phases \ {"turn"},
         NEW k \in Counters \ {"candidate_walkers"}, Steps(t, from, k, to),
         Keeps(from, k, to, 0), Tells(from, k, to, 0)
  PROVE  IInv'
<1>1. /\ thread[t].at = from /\ Counted(k) /\ Goes(t, to) /\ TypeOK /\ Bounded
      /\ UNCHANGED <<scenario, config, made, copy, control, served, clean, settled>>
  BY DEF Steps, IInv
<1>2. /\ thread' \in [Threads -> [at : Phases, index : 0 .. Bound.calls]]
      /\ thread'[t].at = to
      /\ \A u \in Threads \ {t} : thread'[u] = thread[u]
  BY <1>1, ThreadGoes
<1>3. Moves(t, k)
  BY <1>1, <1>2 DEF Moves
<1>4. made' = made + 0 /\ made' <= Bound.calls /\ Bound.calls \in Nat
  BY <1>1, CountTyped DEF TypeOK
<1>5. Keeps(thread[t].at, k, thread'[t].at, 0) /\ Tells(thread[t].at, k, thread'[t].at, 0)
  BY <1>1, <1>2
<1>6. served' \in [DOMAIN NoTurns -> Nat]
  BY <1>1, CountTyped
<1>7. \A w \in DOMAIN NoTurns : served'[w] + N({"walker", "turn"})' <= made'
  BY <1>1, <1>3, <1>4, <1>5, ServedStep
<1>8. /\ clean' \in BOOLEAN /\ (clean' => clean /\ control.op # "reset")
      /\ settled' \in BOOLEAN /\ (settled' => settled /\ control.op # "snapshot")
  BY <1>1, Busy DEF TypeOK
<1>9. ASSUME Accounted, Shared PROVE Accounted' /\ Shared'
  <2>1. count'["candidate_walkers"] = count["candidate_walkers"]
    BY <1>1, OrderFacts, CountTyped DEF Counted
  <2>2. count["candidate_walkers"] \div config.stride \in Nat
    BY <1>1, CountTyped, OrderFacts, Quotient
  <2>3. count'["candidate_walkers"] \div config.stride = (count["candidate_walkers"] \div config.stride) + 0
    BY <2>1, <2>2
  <2>4. Accounted'
    BY <1>1, <1>3, <1>5, <1>9, <2>3, AccountedStep
  <2>5. Shared'
    BY <1>1, <1>2, <1>3, <1>9, <2>1, SharedKept
  <2>6. QED
    BY <2>4, <2>5
<1>10. QED
  BY <1>2, <1>3, <1>4, <1>5, <1>6, <1>7, <1>8, <1>9, CallbackKeeps

LEMMA Quiet ==
  ASSUME IInv, NEW t \in Threads,
         \/ Refuse(t)
         \/ ReadOrigin(t) \/ Missing(t) \/ Failure(t) \/ Success(t)
         \/ NestedReturns(t) \/ Teleported(t)
  PROVE  IInv'
<1>1. CASE Refuse(t)
  <2>1. PICK k \in Refusals : Steps(t, k, k, "none")
    BY <1>1 DEF Refuse
  <2>2. k \in Counters \ {"candidate_walkers"} /\ Tells(k, k, "none", 0)
    BY OrderFacts DEF Tells, Step, Refusals, Undecided, Turning, Teleporting, Reading
  <2>3. Keeps(k, k, "none", 0)
    BY OrderFacts, AheadValues DEF Keeps, Step, Refusals
  <2>4. k \in Phases \ {"none", "turn"} /\ "none" \in Phases \ {"turn"}
    BY DEF Phases, Refusals
  <2>5. QED
    BY <2>1, <2>2, <2>3, <2>4, StepsKeep
<1>2. CASE ReadOrigin(t)
  <2>1. PICK found \in {"body_component_missing", "scene_node_missing", "implausible", "read"} :
          Steps(t, "origin", "origin_read_attempts", found)
    BY <1>2 DEF ReadOrigin
  <2>2. /\ "origin_read_attempts" \in Counters \ {"candidate_walkers"}
        /\ Tells("origin", "origin_read_attempts", found, 0)
    BY OrderFacts DEF Tells, Step, Refusals, Undecided, Turning, Teleporting, Reading
  <2>3. Keeps("origin", "origin_read_attempts", found, 0)
    BY OrderFacts, AheadValues DEF Keeps, Step, Refusals
  <2>4. {"origin", found} \subseteq Phases \ {"none", "turn"}
    BY DEF Phases, Refusals
  <2>5. QED
    BY <2>1, <2>2, <2>3, <2>4, StepsKeep
<1>3. CASE Missing(t)
  <2>1. PICK k \in {"body_component_missing", "scene_node_missing"} : Steps(t, k, k, "implausible")
    BY <1>3 DEF Missing
  <2>2. k \in Counters \ {"candidate_walkers"} /\ Tells(k, k, "implausible", 0)
    BY OrderFacts DEF Tells, Step, Refusals, Undecided, Turning, Teleporting, Reading
  <2>3. Keeps(k, k, "implausible", 0)
    BY OrderFacts, AheadValues DEF Keeps, Step, Refusals
  <2>4. {k, "implausible"} \subseteq Phases \ {"none", "turn"}
    BY DEF Phases, Refusals
  <2>5. QED
    BY <2>1, <2>2, <2>3, <2>4, StepsKeep
<1>4. CASE Failure(t)
  <2>1. Steps(t, "implausible", "origin_read_failures", "none")
    BY <1>4 DEF Failure
  <2>2. /\ "origin_read_failures" \in Counters \ {"candidate_walkers"}
        /\ Tells("implausible", "origin_read_failures", "none", 0)
    BY OrderFacts DEF Tells, Step, Refusals, Undecided, Turning, Teleporting, Reading
  <2>3. Keeps("implausible", "origin_read_failures", "none", 0)
    BY OrderFacts, AheadValues DEF Keeps, Step, Refusals
  <2>4. "implausible" \in Phases \ {"none", "turn"} /\ "none" \in Phases \ {"turn"}
    BY DEF Phases, Refusals
  <2>5. QED
    BY <2>1, <2>2, <2>3, <2>4, StepsKeep
<1>5. CASE Success(t)
  <2>1. Steps(t, "read", "origin_read_successes", "teleport")
    BY <1>5 DEF Success
  <2>2. /\ "origin_read_successes" \in Counters \ {"candidate_walkers"}
        /\ Tells("read", "origin_read_successes", "teleport", 0)
    BY OrderFacts DEF Tells, Step, Refusals, Undecided, Turning, Teleporting, Reading
  <2>3. Keeps("read", "origin_read_successes", "teleport", 0)
    BY OrderFacts, AheadValues DEF Keeps, Step, Refusals
  <2>4. {"read", "teleport"} \subseteq Phases \ {"none", "turn"}
    BY DEF Phases, Refusals
  <2>5. QED
    BY <2>1, <2>2, <2>3, <2>4, StepsKeep
<1>6. CASE NestedReturns(t)
  <2>1. Steps(t, "nested", "skipped_recursive", "teleport")
    BY <1>6 DEF NestedReturns
  <2>2. /\ "skipped_recursive" \in Counters \ {"candidate_walkers"}
        /\ Tells("nested", "skipped_recursive", "teleport", 0)
    BY OrderFacts DEF Tells, Step, Refusals, Undecided, Turning, Teleporting, Reading
  <2>3. Keeps("nested", "skipped_recursive", "teleport", 0)
    BY OrderFacts, AheadValues DEF Keeps, Step, Refusals
  <2>4. {"nested", "teleport"} \subseteq Phases \ {"none", "turn"}
    BY DEF Phases, Refusals
  <2>5. QED
    BY <2>1, <2>2, <2>3, <2>4, StepsKeep
<1>7. CASE Teleported(t)
  <2>1. Steps(t, "teleport", "teleport_calls", "none")
    BY <1>7 DEF Teleported
  <2>2. /\ "teleport_calls" \in Counters \ {"candidate_walkers"}
        /\ Tells("teleport", "teleport_calls", "none", 0)
    BY OrderFacts DEF Tells, Step, Refusals, Undecided, Turning, Teleporting, Reading
  <2>3. Keeps("teleport", "teleport_calls", "none", 0)
    BY OrderFacts, AheadValues DEF Keeps, Step, Refusals
  <2>4. "teleport" \in Phases \ {"none", "turn"} /\ "none" \in Phases \ {"turn"}
    BY DEF Phases, Refusals
  <2>5. QED
    BY <2>1, <2>2, <2>3, <2>4, StepsKeep
<1>8. QED
  BY <1>1, <1>2, <1>3, <1>4, <1>5, <1>6, <1>7

LEMMA DamageKeeps ==
  ASSUME IInv, NEW t \in Bound.threads, NEW victim \in Bound.victims, Damage(t, victim)
  PROVE  IInv'
<1> DEFINE k == "damage_callbacks"
<1>1. /\ thread[t].at = "none" /\ made < Bound.calls /\ Counted(k) /\ Goes(t, victim) /\ made' = made + 1
      /\ clean' = (clean /\ control.op # "reset") /\ settled' = (settled /\ control.op # "snapshot")
      /\ UNCHANGED <<scenario, config, copy, control, served>>
  BY DEF Damage
<1>2. /\ TypeOK /\ Bounded /\ Bound.calls \in Nat /\ made \in Nat
  BY CountTyped DEF IInv
<1>3. t \in Threads /\ victim \in Refusals \union {"walker"} /\ victim \in Phases
  BY <1>2, WalkerAssumption DEF TypeOK, Bound, Phases
<1>4. /\ thread' \in [Threads -> [at : Phases, index : 0 .. Bound.calls]]
      /\ thread'[t].at = victim
      /\ \A u \in Threads \ {t} : thread'[u] = thread[u]
  BY <1>1, <1>2, <1>3, ThreadGoes
<1>5. Moves(t, k)
  BY <1>1, <1>3, <1>4, OrderFacts DEF Moves
<1>6. made' <= Bound.calls
  BY <1>1, <1>2
<1>7. Keeps("none", k, victim, 1)
  <2>1. \A j \in Counters : Step(j, {k}) = 0 \/ Ahead[j] = {}
    BY AheadValues DEF Step
  <2>2. QED
    BY <2>1 DEF Keeps, Step
<1>8. Tells("none", k, victim, 0)
  BY <1>3 DEF Tells, Step, Refusals, Undecided, Turning, Teleporting, Reading
<1>9. served' \in [DOMAIN NoTurns -> Nat]
  BY <1>1, <1>2, CountTyped
<1>10. \A w \in DOMAIN NoTurns : served'[w] + N({"walker", "turn"})' <= made'
  BY <1>1, <1>2, <1>4, <1>5, <1>7, ServedStep
<1>11. /\ clean' \in BOOLEAN /\ (clean' => clean /\ control.op # "reset")
       /\ settled' \in BOOLEAN /\ (settled' => settled /\ control.op # "snapshot")
  BY <1>1, <1>2 DEF TypeOK
<1>12. ASSUME Accounted, Shared PROVE Accounted' /\ Shared'
  <2>1. count'["candidate_walkers"] = count["candidate_walkers"]
    BY <1>1, <1>2, OrderFacts, CountTyped DEF Counted
  <2>2. count["candidate_walkers"] \div config.stride \in Nat
    BY <1>2, CountTyped, OrderFacts, Quotient
  <2>3. count'["candidate_walkers"] \div config.stride = (count["candidate_walkers"] \div config.stride) + 0
    BY <2>1, <2>2
  <2>4. Accounted'
    BY <1>1, <1>2, <1>4, <1>5, <1>8, <1>12, <2>3, AccountedStep
  <2>5. victim # "turn"
    BY <1>3 DEF Refusals
  <2>6. Shared'
    BY <1>1, <1>2, <1>4, <1>5, <1>12, <2>1, <2>5, SharedKept
  <2>7. QED
    BY <2>4, <2>6
<1>13. QED
  BY <1>1, <1>4, <1>5, <1>6, <1>7, <1>9, <1>10, <1>11, <1>12, CallbackKeeps

LEMMA NestedKeeps ==
  ASSUME IInv, NEW t \in Threads, Nested(t)
  PROVE  IInv'
<1> DEFINE k == "damage_callbacks"
<1>1. /\ thread[t].at = "teleport" /\ made < Bound.calls /\ Counted(k) /\ Goes(t, "nested")
      /\ made' = made + 1
      /\ UNCHANGED <<scenario, config, copy, control, served, clean, settled>>
  BY DEF Nested
<1>2. /\ TypeOK /\ Bounded /\ Bound.calls \in Nat /\ made \in Nat /\ "nested" \in Phases
  BY CountTyped DEF IInv, Phases
<1>3. /\ thread' \in [Threads -> [at : Phases, index : 0 .. Bound.calls]]
      /\ thread'[t].at = "nested"
      /\ \A u \in Threads \ {t} : thread'[u] = thread[u]
  BY <1>1, <1>2, ThreadGoes
<1>4. Moves(t, k)
  BY <1>1, <1>3, OrderFacts DEF Moves
<1>5. made' <= Bound.calls
  BY <1>1, <1>2
<1>6. Keeps("teleport", k, "nested", 1)
  BY OrderFacts, AheadValues DEF Keeps, Step
<1>7. Tells("teleport", k, "nested", 0)
  BY DEF Tells, Step, Refusals, Undecided, Turning, Teleporting, Reading
<1>8. served' \in [DOMAIN NoTurns -> Nat]
  BY <1>1, <1>2, CountTyped
<1>9. \A w \in DOMAIN NoTurns : served'[w] + N({"walker", "turn"})' <= made'
  BY <1>1, <1>2, <1>3, <1>4, <1>6, ServedStep
<1>10. /\ clean' \in BOOLEAN /\ (clean' => clean /\ control.op # "reset")
       /\ settled' \in BOOLEAN /\ (settled' => settled /\ control.op # "snapshot")
  BY <1>1, <1>2, Busy DEF TypeOK
<1>11. ASSUME Accounted, Shared PROVE Accounted' /\ Shared'
  <2>1. count'["candidate_walkers"] = count["candidate_walkers"]
    BY <1>1, <1>2, OrderFacts, CountTyped DEF Counted
  <2>2. count["candidate_walkers"] \div config.stride \in Nat
    BY <1>2, CountTyped, OrderFacts, Quotient
  <2>3. count'["candidate_walkers"] \div config.stride = (count["candidate_walkers"] \div config.stride) + 0
    BY <2>1, <2>2
  <2>4. Accounted'
    BY <1>1, <1>2, <1>3, <1>4, <1>7, <1>11, <2>3, AccountedStep
  <2>5. Shared'
    BY <1>1, <1>2, <1>3, <1>4, <1>11, <2>1, SharedKept
  <2>6. QED
    BY <2>4, <2>5
<1>12. QED
  BY <1>1, <1>3, <1>4, <1>5, <1>6, <1>8, <1>9, <1>10, <1>11, CallbackKeeps

\* The index that a candidate takes is one of the callbacks'.
LEMMA IndexBounded ==
  ASSUME TypeOK, Bounded, NEW t \in Threads, thread[t].at = "walker"
  PROVE  count["candidate_walkers"] + 1 \in 0 .. Bound.calls
<1>1. /\ count["candidate_walkers"] \in Nat /\ "candidate_walkers" \in Counters
      /\ made \in Nat /\ Bound.calls \in Nat /\ made <= Bound.calls
  <2>1. /\ "candidate_walkers" \in Counters /\ count \in [Counters -> Nat]
        /\ made \in Nat /\ Bound.calls \in Nat
    BY CountTyped, OrderFacts
  <2>2. made \in 0 .. Bound.calls
    BY DEF TypeOK
  <2>3. QED
    BY <2>1, <2>2
<1>2. Ahead["candidate_walkers"] = {"walker"} /\ N({"walker"}) >= 1 /\ N({"walker"}) \in Nat
  BY AheadValues, CountsAtRest, InFinite
<1>3. count["candidate_walkers"] + N({"walker"}) <= made
  BY <1>1, <1>2 DEF Bounded
<1>4. QED
  BY <1>1, <1>2, <1>3

LEMMA CandidateKeeps ==
  ASSUME IInv, NEW t \in Threads, Candidate(t)
  PROVE  IInv'
<1> DEFINE k == "candidate_walkers"
           c == count[k]
           gives == (c + 1) % config.stride = 0
           to == IF gives THEN "turn" ELSE "none"
           turns == IF gives THEN 1 ELSE 0
<1>1. /\ TypeOK /\ Bounded /\ Bound.calls \in Nat /\ made \in Nat /\ c \in Nat
      /\ config.stride \in Nat \ {0} /\ config.waypoints # <<>>
      /\ to \in Phases /\ thread \in [Threads -> [at : Phases, index : 0 .. Bound.calls]]
  <2>1. TypeOK /\ Bounded
    BY DEF IInv
  <2>2. /\ Bound.calls \in Nat /\ made \in Nat /\ count \in [Counters -> Nat] /\ k \in Counters
        /\ config.stride \in Nat \ {0}
    BY <2>1, CountTyped, OrderFacts
  <2>3. config.waypoints # <<>>
    BY <2>1, CountTyped
  <2>4. to \in Phases
    BY DEF Phases
  <2>5. thread \in [Threads -> [at : Phases, index : 0 .. Bound.calls]]
    BY <2>1 DEF TypeOK
  <2>6. QED
    BY <2>1, <2>2, <2>3, <2>4, <2>5
<1>2. /\ thread[t].at = "walker" /\ Counted(k)
      /\ thread' = [thread EXCEPT ![t] = [at |-> to, index |-> c + 1]]
      /\ UNCHANGED <<scenario, config, made, copy, control, served, clean, settled>>
  BY <1>1 DEF Candidate
<1>3. c + 1 \in 0 .. Bound.calls
  BY <1>1, <1>2, IndexBounded
<1> HIDE DEF to, c
<1>4. /\ thread' \in [Threads -> [at : Phases, index : 0 .. Bound.calls]]
      /\ thread'[t].at = to
      /\ \A u \in Threads \ {t} : thread'[u] = thread[u]
  BY <1>1, <1>2, <1>3
<1>5. Moves(t, k)
  BY <1>2, <1>4, OrderFacts DEF Moves
<1>6. made' = made + 0 /\ made' <= Bound.calls
  BY <1>1, <1>2 DEF TypeOK
<1>7. Keeps("walker", k, to, 0)
  <2>1. to \in {"turn", "none"}
    BY DEF to
  <2>2. QED
    BY <2>1, OrderFacts, AheadValues DEF Keeps, Step
<1>8. Tells("walker", k, to, turns)
  BY DEF Tells, Step, Refusals, Undecided, Turning, Teleporting, Reading, to
<1>9. served' \in [DOMAIN NoTurns -> Nat]
  BY <1>1, <1>2, CountTyped
<1>10. \A w \in DOMAIN NoTurns : served'[w] + N({"walker", "turn"})' <= made'
  BY <1>1, <1>2, <1>4, <1>5, <1>6, <1>7, ServedStep
<1>11. /\ clean' \in BOOLEAN /\ (clean' => clean /\ control.op # "reset")
       /\ settled' \in BOOLEAN /\ (settled' => settled /\ control.op # "snapshot")
  BY <1>1, <1>2, Busy DEF TypeOK
<1>12. ASSUME Accounted, Shared PROVE Accounted' /\ Shared'
  <2>1. count'[k] = c + 1
    BY <1>1, <1>2, OrderFacts, CountTyped DEF Counted, c
  <2>2. (c + 1) \div config.stride = (c \div config.stride) + turns
    BY <1>1, NextQuotient
  <2>3. count'[k] \div config.stride = (count[k] \div config.stride) + turns
    BY <2>1, <2>2 DEF c
  <2>4. turns \in {0, 1}
    OBVIOUS
  <2> HIDE DEF turns
  <2>5. Accounted'
    BY <1>1, <1>2, <1>4, <1>5, <1>8, <1>12, <2>3, <2>4, AccountedStep
  <2>6. Shared'
    BY <1>1, <1>12, SharedCandidate
  <2>7. QED
    BY <2>5, <2>6
<1> HIDE DEF turns, gives
<1>13. QED
  BY <1>2, <1>4, <1>5, <1>6, <1>7, <1>9, <1>10, <1>11, <1>12, CallbackKeeps

LEMMA AttemptKeeps ==
  ASSUME IInv, NEW t \in Threads, Attempt(t)
  PROVE  IInv'
<1> DEFINE k == "teleport_attempts"
           to == IF config.mode = "origin" THEN "origin" ELSE "teleport"
           v == Waypoint(thread[t].index)
           S == {"walker", "turn"}
<1>1. /\ thread[t].at = "turn" /\ Counted(k) /\ Goes(t, to)
      /\ served' = [served EXCEPT ![v] = @ + 1]
      /\ UNCHANGED <<scenario, config, made, copy, control, clean, settled>>
  BY DEF Attempt
<1>2. /\ TypeOK /\ Bounded /\ Bound.calls \in Nat /\ made \in Nat /\ to \in Phases
  BY CountTyped DEF IInv, Phases
<1>3. /\ thread' \in [Threads -> [at : Phases, index : 0 .. Bound.calls]]
      /\ thread'[t].at = to
      /\ \A u \in Threads \ {t} : thread'[u] = thread[u]
  BY <1>1, <1>2, ThreadGoes
<1> HIDE DEF to
<1>4. Moves(t, k)
  BY <1>1, <1>3, OrderFacts DEF Moves
<1>5. made' = made + 0 /\ made' <= Bound.calls
  BY <1>1, <1>2 DEF TypeOK
<1>6. to \in {"origin", "teleport"}
  BY DEF to
<1>7. Keeps("turn", k, to, 0)
  BY <1>6, OrderFacts, AheadValues DEF Keeps, Step
<1>8. Tells("turn", k, to, 0)
  BY <1>6 DEF Tells, Step, Refusals, Undecided, Turning, Teleporting, Reading
<1>9. served \in [DOMAIN NoTurns -> Nat] /\ served' \in [DOMAIN NoTurns -> Nat]
  <2> DEFINE D == DOMAIN NoTurns
  <2>1. served \in [D -> Nat]
    BY <1>2, CountTyped
  <2> HIDE DEF v, D
  <2>2. served' = [w \in D |-> IF w = v THEN served[w] + 1 ELSE served[w]]
    BY <1>1, <2>1
  <2>3. served' \in [D -> Nat]
    BY <2>1, <2>2
  <2>4. QED
    BY <2>1, <2>3 DEF D
<1>10. \A w \in DOMAIN NoTurns : served'[w] + N(S)' <= made'
  <2>1. N(S) \in Nat /\ N(S)' \in Nat /\ N(S)' = N(S) - 1
    <3>1. /\ N(S) \in Nat /\ N(S)' \in Nat
          /\ N(S)' = N(S) - Step(thread[t].at, S) + Step(thread'[t].at, S)
      BY <1>3, Moved
    <3>2. Step(thread[t].at, S) = 1 /\ Step(thread'[t].at, S) = 0
      BY <1>1, <1>3, <1>6 DEF Step
    <3> HIDE DEF S
    <3>3. QED
      BY <3>1, <3>2
  <2> SUFFICES ASSUME NEW w \in DOMAIN NoTurns PROVE served'[w] + N(S)' <= made'
    OBVIOUS
  <2>2. served[w] \in Nat /\ served'[w] \in Nat /\ served'[w] <= served[w] + 1
    <3> HIDE DEF v
    <3>1. QED
      BY <1>1, <1>9
  <2>3. served[w] + N(S) <= made
    BY <1>2 DEF Bounded
  <2> HIDE DEF S
  <2>4. QED
    BY <1>2, <1>5, <2>1, <2>2, <2>3
<1>11. /\ clean' \in BOOLEAN /\ (clean' => clean /\ control.op # "reset")
       /\ settled' \in BOOLEAN /\ (settled' => settled /\ control.op # "snapshot")
  BY <1>1, <1>2, Busy DEF TypeOK
<1>12. ASSUME Accounted, Shared PROVE Accounted' /\ Shared'
  <2>1. count'["candidate_walkers"] = count["candidate_walkers"]
    BY <1>1, <1>2, OrderFacts, CountTyped DEF Counted
  <2>2. count["candidate_walkers"] \div config.stride \in Nat
    BY <1>2, CountTyped, OrderFacts, Quotient
  <2>3. count'["candidate_walkers"] \div config.stride = (count["candidate_walkers"] \div config.stride) + 0
    BY <2>1, <2>2
  <2>4. Accounted'
    BY <1>1, <1>2, <1>3, <1>4, <1>8, <1>12, <2>3, AccountedStep
  <2>5. Shared'
    BY <1>2, <1>12, SharedAttempt
  <2>6. QED
    BY <2>4, <2>5
<1> HIDE DEF v
<1>13. QED
  BY <1>1, <1>3, <1>4, <1>5, <1>7, <1>9, <1>10, <1>11, <1>12, CallbackKeeps

-----------------------------------------------------------------------------
(* Resets and snapshots.                                                   *)

\* At rest nothing is left to be counted, and no turn is owed.
LEMMA Rested ==
  ASSUME AtRest
  PROVE  /\ \A j \in Counters : N(Ahead[j]) = 0
         /\ N({"walker", "turn"}) = 0
         /\ N(Undecided) = 0 /\ N(Turning) = 0 /\ N(Teleporting) = 0 /\ N(Reading) = 0
         /\ \A w : Owed(w) = {} /\ Cardinality(Owed(w)) = 0
<1>1. \A j \in Counters : N(Ahead[j]) = 0
  BY NoneAhead, AtRestCounts
<1>2. N({"walker", "turn"}) = 0
  BY AtRestCounts
<1>3. N(Undecided) = 0 /\ N(Turning) = 0 /\ N(Teleporting) = 0 /\ N(Reading) = 0
  BY AtRestCounts DEF Undecided, Turning, Teleporting, Reading, Refusals
<1>4. \A w : Owed(w) = {}
  BY AtRestCounts DEF Owed, Turning
<1>5. QED
  BY <1>1, <1>2, <1>3, <1>4, FS_EmptySet

LEMMA RestedAccounts ==
  ASSUME TypeOK, AtRest, Accounted
  PROVE  Accounts(count)
<1>1. /\ \A j \in Counters : count[j] \in Nat
      /\ {"damage_callbacks", "skipped_recursive", "missing_identity", "missing_designer_name",
          "non_walker_victims", "candidate_walkers", "teleport_attempts", "teleport_calls",
          "origin_read_attempts", "origin_read_successes", "origin_read_failures"} \subseteq Counters
  BY CountTyped, OrderFacts
<1>2. N(Undecided) = 0 /\ N(Turning) = 0 /\ N(Teleporting) = 0 /\ N(Reading) = 0
  BY Rested
<1> DEFINE q == count["candidate_walkers"] \div config.stride
<1>3. q = count["teleport_attempts"] + N(Turning)
  BY DEF Accounted
<1> HIDE DEF q
<1>4. q = count["teleport_attempts"]
  BY <1>1, <1>2, <1>3
<1>5. count["damage_callbacks"] = count["skipped_recursive"] + count["missing_identity"]
        + count["missing_designer_name"] + count["non_walker_victims"] + count["candidate_walkers"]
  BY <1>1, <1>2 DEF Accounted
<1>6. /\ count["teleport_attempts"] = count["teleport_calls"] + count["origin_read_failures"]
      /\ count["origin_read_attempts"] = count["origin_read_successes"] + count["origin_read_failures"]
  BY <1>1, <1>2 DEF Accounted
<1>7. QED
  BY <1>4, <1>5, <1>6 DEF Accounts, q

\* Counters of which all are 0 add up, and the round robin has not begun.
LEMMA Zeroes ==
  ASSUME TypeOK, AtRest, served = NoTurns, \A j \in Counters : count[j] = 0
  PROVE  Accounted /\ Shared
<1>1. /\ config.stride \in Nat \ {0}
      /\ DOMAIN config.waypoints \subseteq DOMAIN NoTurns
      /\ {"damage_callbacks", "skipped_recursive", "missing_identity", "missing_designer_name",
          "non_walker_victims", "candidate_walkers", "teleport_attempts", "teleport_calls",
          "origin_read_attempts", "origin_read_successes", "origin_read_failures"} \subseteq Counters
  BY CountTyped, OrderFacts
<1>2. N(Undecided) = 0 /\ N(Turning) = 0 /\ N(Teleporting) = 0 /\ N(Reading) = 0
  BY Rested
<1>3. 0 \div config.stride = 0
  BY <1>1
<1>4. Accounted
  BY <1>1, <1>2, <1>3 DEF Accounted
<1>5. \A w \in DOMAIN config.waypoints : Fair(w) = {}
  BY <1>1, <1>3 DEF Fair
<1>6. \A w \in DOMAIN config.waypoints : served[w] = 0
  BY <1>1 DEF NoTurns
<1>7. Shared
  BY <1>5, <1>6, Rested, FS_EmptySet DEF Shared
<1>8. QED
  BY <1>4, <1>7

\* What is said of the threads does not change with what the injector does.
LEMMA ThreadsKept ==
  ASSUME UNCHANGED thread
  PROVE  /\ AtRest' = AtRest
         /\ \A S : N(S)' = N(S)
  BY DEF AtRest, N, In

LEMMA InitInvariant == Init => IInv
<1> SUFFICES ASSUME Init PROVE IInv
  OBVIOUS
<1>1. TypeOK
  BY InitTyped
<1>2. /\ AtRest /\ served = NoTurns /\ (\A j \in Counters : count[j] = 0) /\ made = 0
      /\ settled = FALSE /\ control.op = "none"
  BY DEF Init, AtRest
<1>3. Bounded
  BY <1>2, Rested DEF Bounded, NoTurns
<1>4. Accounted /\ Shared
  BY <1>1, <1>2, Zeroes
<1>5. QED
  BY <1>1, <1>2, <1>3, <1>4 DEF IInv, Counting, Copying, SnapshotAccounts

LEMMA BeginKeeps ==
  ASSUME IInv, BeginReset \/ BeginSnapshot
  PROVE  IInv'
<1>1. /\ TypeOK /\ Bounded /\ Counting /\ Copying /\ SnapshotAccounts
      /\ Bound.calls \in Nat /\ Bound.controls \in Nat
  BY CountTyped DEF IInv
<1>2. /\ UNCHANGED <<scenario, config, count, thread, made, copy>>
      /\ control.op = "none" /\ control.left > 0
      /\ control'.op \in {"reset", "snapshot"} /\ control'.next = 1
      /\ control' \in [op : {"none", "reset", "snapshot"}, next : 1 .. Len(Order), left : 0 .. Bound.controls]
  <2>1. PICK op \in {"reset", "snapshot"} : BeginControl(op)
    BY DEF BeginReset, BeginSnapshot
  <2>2. control.left \in 0 .. Bound.controls /\ Len(Order) = 13
    BY <1>1, OrderFacts DEF TypeOK
  <2>3. control.left - 1 \in 0 .. Bound.controls
    BY <1>1, <2>1, <2>2 DEF BeginControl
  <2>4. QED
    BY <2>1, <2>2, <2>3 DEF BeginControl
<1>3. Bound' = Bound /\ AtRest' = AtRest /\ \A S : N(S)' = N(S)
  BY <1>2, ThreadsKept DEF Bound
<1>4. CASE BeginReset
  <2>1. clean' = AtRest /\ served' = NoTurns /\ settled' = settled /\ control'.op = "reset"
    BY <1>4 DEF BeginReset, BeginControl
  <2>2. NoTurns \in [DOMAIN NoTurns -> 0 .. Bound.calls]
    BY <1>1 DEF NoTurns
  <2>3. TypeOK'
    BY <1>1, <1>2, <1>3, <2>1, <2>2 DEF TypeOK, AtRest
  <2>4. Bounded'
    <3>1. N({"walker", "turn"}) <= made /\ made \in Nat /\ N({"walker", "turn"}) \in Nat
      <4>1. 1 \in DOMAIN NoTurns
        BY <1>1, CountTyped
      <4>2. served[1] \in Nat /\ served[1] + N({"walker", "turn"}) <= made /\ made \in Nat
        BY <1>1, <4>1, CountTyped DEF Bounded
      <4>3. QED
        BY <4>2, InFinite
    <3>2. \A w \in DOMAIN NoTurns : NoTurns[w] = 0
      BY DEF NoTurns
    <3>3. QED
      BY <1>1, <1>2, <1>3, <2>1, <3>1, <3>2 DEF Bounded
  <2>5. Counting'
    BY <1>2, <1>3, <2>1 DEF Counting, Resetting
  <2>6. Copying' /\ SnapshotAccounts'
    BY <1>1, <1>2, <2>1 DEF Copying, SnapshotAccounts, Accounts
  <2>7. QED
    BY <2>3, <2>4, <2>5, <2>6 DEF IInv
<1>5. CASE BeginSnapshot
  <2>1. settled' = (clean /\ AtRest) /\ served' = served /\ clean' = clean /\ control'.op = "snapshot"
    BY <1>5 DEF BeginSnapshot, BeginControl
  <2>2. TypeOK'
    BY <1>1, <1>2, <1>3, <2>1 DEF TypeOK, AtRest
  <2>3. Bounded'
    BY <1>1, <1>2, <1>3, <2>1 DEF Bounded
  <2>4. Counting'
    <3>1. Accounted' = Accounted
      BY <1>2, <1>3 DEF Accounted
    <3>2. Shared' = Shared
      BY <1>2, <2>1 DEF Shared, Owed, Fair, In, Waypoint
    <3>3. QED
      BY <1>1, <1>2, <2>1, <3>1, <3>2 DEF Counting
  <2>5. Copying'
    <3>1. 1 .. control'.next - 1 = {}
      BY <1>2
    <3>2. settled' => clean' /\ AtRest'
      BY <1>3, <2>1
    <3>3. QED
      BY <3>1, <3>2 DEF Copying
  <2>6. SnapshotAccounts'
    BY <2>1 DEF SnapshotAccounts
  <2>7. QED
    BY <2>2, <2>3, <2>4, <2>5, <2>6 DEF IInv
<1>6. QED
  BY <1>4, <1>5

\* Where the injector's thread is in Order after a step, and that it is done after the last one.
LEMMA ControlSteps ==
  ASSUME TypeOK, control.op # "none", StepControl
  PROVE  /\ control.next \in 1 .. 13 /\ At \in Counters /\ At = Order[control.next]
         /\ control' \in [op : {"none", "reset", "snapshot"}, next : 1 .. Len(Order), left : 0 .. Bound.controls]
         /\ IF control.next < 13
            THEN control'.op = control.op /\ control'.next = control.next + 1
            ELSE control'.op = "none"
<1>1. /\ control \in [op : {"none", "reset", "snapshot"}, next : 1 .. 13, left : 0 .. Bound.controls]
      /\ Len(Order) = 13
  BY OrderFacts DEF TypeOK
<1>2. control.next \in 1 .. 13 /\ At = Order[control.next] /\ At \in Counters
  BY <1>1, OrderFacts DEF At, Counters
<1>3. CASE control.next < 13
  <2>1. control' = [control EXCEPT !.next = @ + 1] /\ control.next + 1 \in 1 .. 13
    BY <1>1, <1>2, <1>3 DEF StepControl
  <2>2. QED
    BY <1>1, <1>2, <1>3, <2>1
<1>4. CASE ~(control.next < 13)
  <2>1. control' = [control EXCEPT !.op = "none", !.next = 1]
    BY <1>1, <1>4 DEF StepControl
  <2>2. control' = [op |-> "none", next |-> 1, left |-> control.left] /\ control.left \in 0 .. Bound.controls
    BY <1>1, <2>1
  <2>3. /\ control' \in [op : {"none", "reset", "snapshot"}, next : 1 .. 13, left : 0 .. Bound.controls]
        /\ control'.op = "none"
    BY <2>2
  <2>4. QED
    BY <1>1, <1>2, <1>4, <2>2, <2>3
<1>5. QED
  BY <1>3, <1>4

LEMMA StoreKeeps ==
  ASSUME IInv, Store
  PROVE  IInv'
<1>1. /\ TypeOK /\ Bounded /\ Counting /\ Copying /\ SnapshotAccounts
      /\ Bound.calls \in Nat /\ count \in [Counters -> Nat] /\ made \in Nat
  BY CountTyped DEF IInv
<1>2. /\ control.op = "reset" /\ StepControl /\ count' = [count EXCEPT ![At] = 0]
      /\ UNCHANGED <<scenario, config, thread, made, copy, served, clean, settled>>
  BY DEF Store
<1>3. /\ control.next \in 1 .. 13 /\ At \in Counters /\ At = Order[control.next]
      /\ control' \in [op : {"none", "reset", "snapshot"}, next : 1 .. Len(Order), left : 0 .. Bound.controls]
      /\ IF control.next < 13
         THEN control'.op = control.op /\ control'.next = control.next + 1
         ELSE control'.op = "none"
  BY <1>1, <1>2, ControlSteps
<1> DEFINE n == control.next
<1>n. n \in 1 .. 13 /\ (n < 13 => control'.next = n + 1)
  BY <1>3
<1>4. Bound' = Bound /\ AtRest' = AtRest /\ \A S : N(S)' = N(S)
  BY <1>2, ThreadsKept DEF Bound
<1>5. \A j \in Counters : count'[j] = IF j = At THEN 0 ELSE count[j]
  BY <1>1, <1>2
<1>6. TypeOK'
  <2>1. count' \in [Counters -> 0 .. Bound.calls]
    BY <1>1, <1>2, <1>3 DEF TypeOK
  <2>2. QED
    BY <1>1, <1>2, <1>3, <1>4, <2>1 DEF TypeOK
<1>7. Bounded'
  <2>1. ASSUME NEW j \in Counters PROVE count'[j] + N(Ahead[j])' <= made'
    <3>1. count[j] + N(Ahead[j]) <= made /\ N(Ahead[j]) \in Nat /\ count[j] \in Nat
      BY <1>1, InFinite DEF Bounded
    <3>2. N(Ahead[j])' = N(Ahead[j]) /\ made' = made
      BY <1>2, <1>4
    <3>3. count'[j] \in Nat /\ count'[j] <= count[j]
      BY <1>5, <3>1
    <3>4. QED
      BY <1>1, <3>1, <3>2, <3>3
  <2>2. QED
    BY <1>1, <1>2, <1>4, <2>1 DEF Bounded
<1>8. Counting'
  <2> SUFFICES ASSUME clean PROVE IF control'.op = "reset" THEN Resetting' ELSE Accounted' /\ Shared'
    BY <1>2 DEF Counting
  <2>1. Resetting
    BY <1>1, <1>2 DEF Counting
  <2>2. \A i \in 1 .. control.next : count'[Order[i]] = 0
    <3> SUFFICES ASSUME NEW i \in 1 .. control.next PROVE count'[Order[i]] = 0
      OBVIOUS
    <3>1. Order[i] \in Counters
      BY <1>3, OrderFacts DEF Counters
    <3>2. CASE i = control.next
      BY <1>3, <1>5, <3>1, <3>2
    <3>3. CASE i # control.next
      <4>1. i \in 1 .. n - 1
        <5> HIDE DEF n
        <5>1. n \in 1 .. 13 /\ i \in 1 .. n /\ i # n
          BY <1>n, <3>3 DEF n
        <5>2. QED
          BY <5>1
      <4>2. QED
        BY <1>5, <2>1, <3>1, <4>1 DEF Resetting
    <3>4. QED
      BY <3>2, <3>3
  <2>3. CASE control.next < 13
    <3>1. control'.op = "reset" /\ control'.next - 1 = n
      <4>1. control'.op = "reset"
        BY <1>2, <1>3, <2>3
      <4>2. n \in 1 .. 13 /\ control'.next = n + 1
        BY <1>n, <2>3
      <4> HIDE DEF n
      <4>3. control'.next - 1 = n
        BY <4>2
      <4>4. QED
        BY <4>1, <4>3
    <3>2. QED
      BY <1>2, <1>4, <2>1, <2>2, <3>1 DEF Resetting
  <2>4. CASE ~(control.next < 13)
    <3>1. control'.op = "none" /\ control.next = 13
      <4>1. control'.op = "none"
        BY <1>3, <2>4
      <4>2. n = 13
        <5>1. n \in 1 .. 13 /\ ~(n < 13)
          BY <1>n, <2>4
        <5> HIDE DEF n
        <5>2. QED
          BY <5>1
      <4>3. QED
        BY <4>1, <4>2
    <3>2. \A j \in Counters : count'[j] = 0
      <4>1. \A j \in Counters : \E i \in 1 .. 13 : j = Order[i]
        BY OrderFacts DEF Counters
      <4>2. QED
        BY <2>2, <3>1, <4>1
    <3>3. TypeOK' /\ AtRest' /\ served' = NoTurns
      BY <1>2, <1>4, <1>6, <2>1 DEF Resetting
    <3>4. 0 \div config.stride = 0 /\ DOMAIN config.waypoints \subseteq DOMAIN NoTurns
      <4>1. config.stride \in Nat \ {0} /\ DOMAIN config.waypoints \subseteq DOMAIN NoTurns
        BY <1>1, CountTyped
      <4>2. QED
        BY <4>1
    <3>5. Accounted'
      <4>1. AtRest
        BY <2>1 DEF Resetting
      <4>2. N(Undecided)' = 0 /\ N(Turning)' = 0 /\ N(Teleporting)' = 0 /\ N(Reading)' = 0
        BY <1>4, <4>1, Rested
      <4>3. {"damage_callbacks", "skipped_recursive", "missing_identity", "missing_designer_name",
             "non_walker_victims", "candidate_walkers", "teleport_attempts", "teleport_calls",
             "origin_read_attempts", "origin_read_successes", "origin_read_failures"} \subseteq Counters
        BY OrderFacts
      <4>4. QED
        BY <1>2, <3>2, <3>4, <4>2, <4>3 DEF Accounted
    <3>6. Shared'
      <4> SUFFICES ASSUME NEW w \in DOMAIN config.waypoints
                   PROVE  served'[w] + Cardinality(Owed(w)') = Cardinality(Fair(w)')
        BY <1>2 DEF Shared
      <4>1. served'[w] = 0
        BY <3>3, <3>4 DEF NoTurns
      <4>2. Fair(w)' = {}
        <5>1. count'["candidate_walkers"] = 0
          BY <3>2, OrderFacts
        <5>2. QED
          BY <1>2, <3>4, <5>1 DEF Fair
      <4>3. Owed(w)' = {}
        <5>1. Owed(w)' = Owed(w)
          BY <1>2 DEF Owed, In, Waypoint
        <5>2. QED
          BY <2>1, <5>1, Rested DEF Resetting
      <4>4. QED
        BY <4>1, <4>2, <4>3, FS_EmptySet
    <3>7. QED
      BY <3>1, <3>5, <3>6
  <2>5. QED
    BY <2>3, <2>4
<1>9. Copying'
  BY <1>2, <1>3 DEF Copying
<1>10. SnapshotAccounts'
  BY <1>1, <1>2 DEF SnapshotAccounts, Accounts
<1>11. QED
  BY <1>6, <1>7, <1>8, <1>9, <1>10 DEF IInv

LEMMA LoadKeeps ==
  ASSUME IInv, Load
  PROVE  IInv'
<1>1. /\ TypeOK /\ Bounded /\ Counting /\ Copying /\ SnapshotAccounts
      /\ Bound.calls \in Nat /\ count \in [Counters -> 0 .. Bound.calls] /\ copy \in [Counters -> 0 .. Bound.calls]
  BY CountTyped DEF IInv, TypeOK
<1>2. /\ control.op = "snapshot" /\ StepControl /\ copy' = [copy EXCEPT ![At] = count[At]]
      /\ UNCHANGED <<scenario, config, count, thread, made, served, clean, settled>>
  BY DEF Load
<1>3. /\ control.next \in 1 .. 13 /\ At \in Counters /\ At = Order[control.next]
      /\ control' \in [op : {"none", "reset", "snapshot"}, next : 1 .. Len(Order), left : 0 .. Bound.controls]
      /\ IF control.next < 13
         THEN control'.op = control.op /\ control'.next = control.next + 1
         ELSE control'.op = "none"
  BY <1>1, <1>2, ControlSteps
<1> DEFINE n == control.next
<1>n. n \in 1 .. 13 /\ (n < 13 => control'.next = n + 1)
  BY <1>3
<1>4. Bound' = Bound /\ AtRest' = AtRest /\ \A S : N(S)' = N(S)
  BY <1>2, ThreadsKept DEF Bound
<1>5. \A j \in Counters : copy'[j] = IF j = At THEN count[j] ELSE copy[j]
  BY <1>1, <1>2
<1>6. TypeOK'
  <2>1. copy' \in [Counters -> 0 .. Bound.calls]
    BY <1>1, <1>2, <1>3
  <2>2. QED
    BY <1>1, <1>2, <1>3, <1>4, <2>1 DEF TypeOK
<1>7. Bounded'
  BY <1>1, <1>2, <1>4 DEF Bounded
<1>8. Counting'
  <2>1. Accounted' = Accounted
    BY <1>2, <1>4 DEF Accounted
  <2>2. Shared' = Shared
    BY <1>2 DEF Shared, Owed, Fair, In, Waypoint
  <2>3. control'.op # "reset"
    BY <1>2, <1>3
  <2>4. QED
    BY <1>1, <1>2, <2>1, <2>2, <2>3 DEF Counting
<1>9. settled => \A i \in 1 .. control.next : copy'[Order[i]] = count[Order[i]]
  <2> SUFFICES ASSUME settled, NEW i \in 1 .. control.next PROVE copy'[Order[i]] = count[Order[i]]
    OBVIOUS
  <2>1. Order[i] \in Counters
    BY <1>3, OrderFacts DEF Counters
  <2>2. CASE i = control.next
    BY <1>3, <1>5, <2>1, <2>2
  <2>3. CASE i # control.next
    <3>1. i \in 1 .. n - 1
      <4> HIDE DEF n
      <4>1. n \in 1 .. 13 /\ i \in 1 .. n /\ i # n
        BY <1>n, <2>3 DEF n
      <4>2. QED
        BY <4>1
    <3>2. QED
      BY <1>1, <1>2, <1>5, <2>1, <3>1 DEF Copying
  <2>4. QED
    BY <2>2, <2>3
<1>10. Copying'
  <2> SUFFICES ASSUME settled, control'.op = "snapshot"
               PROVE  clean' /\ AtRest' /\ \A i \in 1 .. control'.next - 1 : copy'[Order[i]] = count'[Order[i]]
    BY <1>2 DEF Copying
  <2>1. n \in 1 .. 13 /\ control'.next = n + 1
    BY <1>3, <1>n
  <2>2. control'.next - 1 = n
    <3> HIDE DEF n
    <3>1. QED
      BY <2>1
  <2>3. clean /\ AtRest
    BY <1>1, <1>2 DEF Copying
  <2>4. QED
    BY <1>2, <1>4, <1>9, <2>2, <2>3
<1>11. SnapshotAccounts'
  <2> SUFFICES ASSUME settled, control'.op # "snapshot" PROVE Accounts(copy)'
    BY <1>2 DEF SnapshotAccounts
  <2>1. control.next = 13 /\ clean /\ AtRest
    <3>1. ~(n < 13)
      BY <1>2, <1>3
    <3>2. n = 13
      <4> HIDE DEF n
      <4>1. QED
        BY <1>n, <3>1
    <3>3. clean /\ AtRest
      BY <1>1, <1>2 DEF Copying
    <3>4. QED
      BY <3>2, <3>3
  <2>2. \A j \in Counters : copy'[j] = count[j]
    <3>1. \A j \in Counters : \E i \in 1 .. 13 : j = Order[i]
      BY OrderFacts DEF Counters
    <3>2. QED
      BY <1>9, <2>1, <3>1
  <2>3. copy' = count
    BY <1>1, <1>6, <2>2 DEF TypeOK
  <2>4. Accounts(count)
    BY <1>1, <1>2, <2>1, RestedAccounts DEF Counting
  <2>5. QED
    BY <1>2, <2>3, <2>4 DEF Accounts
<1>12. QED
  BY <1>6, <1>7, <1>8, <1>10, <1>11 DEF IInv

LEMMA Invariance == Spec => []IInv
<1>1. ASSUME IInv, [Next]_vars PROVE IInv'
  <2>1. Bound.threads \subseteq Threads
    BY <1>1, WalkerAssumption DEF IInv, TypeOK, Bound
  <2>2. CASE Next
    <3>1. CASE \E t \in Bound.threads : \E victim \in Bound.victims : Damage(t, victim)
      BY <1>1, <3>1, DamageKeeps
    <3>2. CASE \E t \in Bound.threads :
                 \/ Refuse(t) \/ Candidate(t) \/ Attempt(t)
                 \/ ReadOrigin(t) \/ Missing(t) \/ Failure(t) \/ Success(t)
                 \/ Nested(t) \/ NestedReturns(t) \/ Teleported(t)
      <4>1. PICK t \in Threads :
                 \/ Refuse(t) \/ Candidate(t) \/ Attempt(t)
                 \/ ReadOrigin(t) \/ Missing(t) \/ Failure(t) \/ Success(t)
                 \/ Nested(t) \/ NestedReturns(t) \/ Teleported(t)
        BY <2>1, <3>2
      <4>2. CASE Candidate(t)
        BY <1>1, <4>2, CandidateKeeps
      <4>3. CASE Attempt(t)
        BY <1>1, <4>3, AttemptKeeps
      <4>4. CASE Nested(t)
        BY <1>1, <4>4, NestedKeeps
      <4>5. CASE ~(Candidate(t) \/ Attempt(t) \/ Nested(t))
        BY <1>1, <4>1, <4>5, Quiet
      <4>6. QED
        BY <4>2, <4>3, <4>4, <4>5
    <3>3. CASE BeginReset \/ BeginSnapshot
      BY <1>1, <3>3, BeginKeeps
    <3>4. CASE Store
      BY <1>1, <3>4, StoreKeeps
    <3>5. CASE Load
      BY <1>1, <3>5, LoadKeeps
    <3>6. QED
      BY <2>2, <3>1, <3>2, <3>3, <3>4, <3>5 DEF Next
  <2>3. CASE UNCHANGED vars
    <3>1. UNCHANGED <<scenario, config, count, thread, made, copy, control, served, clean, settled>>
      BY <2>3 DEF vars
    <3>2. TypeOK' = TypeOK
      BY <3>1 DEF TypeOK, Bound
    <3>3. AtRest' = AtRest /\ \A S : N(S)' = N(S)
      BY <3>1, ThreadsKept
    <3>4. Bounded' = Bounded
      BY <3>1, <3>3 DEF Bounded
    <3>5. Accounted' = Accounted
      BY <3>1, <3>3 DEF Accounted
    <3>6. Shared' = Shared
      BY <3>1 DEF Shared, Owed, Fair, In, Waypoint
    <3>7. Counting' = Counting
      BY <3>1, <3>3, <3>5, <3>6 DEF Counting, Resetting
    <3>8. Copying' = Copying
      BY <3>1, <3>3 DEF Copying
    <3>9. SnapshotAccounts' = SnapshotAccounts
      BY <3>1 DEF SnapshotAccounts, Accounts
    <3>10. QED
      BY <1>1, <3>2, <3>4, <3>7, <3>8, <3>9 DEF IInv
  <2>4. QED
    BY <1>1, <2>2, <2>3
<1>2. QED
  BY InitInvariant, <1>1, PTL DEF Spec

-----------------------------------------------------------------------------
(* The theorems.                                                           *)

\* Counters, snapshots, indexes and turns stay within the callbacks made.
THEOREM TypeCorrect == Spec => []TypeOK
<1>1. IInv => TypeOK
  BY DEF IInv
<1>2. QED
  BY Invariance, <1>1, PTL

\* Between callbacks the counters account for every callback, walker, teleport and read, on however many
\* threads the callbacks were, unless the last reset met one.
THEOREM Adds == Spec => []PatrolAccounts
<1>1. IInv => PatrolAccounts
  BY RestedAccounts DEF IInv, Counting, PatrolAccounts
<1>2. QED
  BY Invariance, <1>1, PTL

\* Between callbacks the waypoints have had their turns evenly, from the first one on.
THEOREM TakesTurns == Spec => []EvenTurns
<1>1. IInv => EvenTurns
  <2> SUFFICES ASSUME IInv, clean, AtRest, control.op # "reset", NEW w \in DOMAIN config.waypoints
               PROVE  served[w] = Cardinality({k \in 1 .. count["teleport_attempts"] :
                                                (k - 1) % Len(config.waypoints) = w - 1})
    BY DEF EvenTurns
  <2>1. Accounted /\ Shared /\ TypeOK
    BY DEF IInv, Counting
  <2>2. count["teleport_attempts"] = count["candidate_walkers"] \div config.stride
    BY <2>1, RestedAccounts DEF Accounts
  <2>3. Fair(w) = {k \in 1 .. count["teleport_attempts"] : (k - 1) % Len(config.waypoints) = w - 1}
    BY <2>2 DEF Fair
  <2>4. served[w] + Cardinality(Owed(w)) = Cardinality(Fair(w)) /\ Cardinality(Owed(w)) = 0
    BY <2>1, Rested DEF Shared
  <2>5. served[w] \in Nat
    BY <2>1, CountTyped
  <2>6. served[w] = Cardinality(Fair(w))
    BY <2>4, <2>5
  <2>7. QED
    BY <2>3, <2>6
<1>2. QED
  BY Invariance, <1>1, PTL

\* A snapshot that met no callback adds up.
THEOREM SnapshotAdds == Spec => []SnapshotAccounts
<1>1. IInv => SnapshotAccounts
  BY DEF IInv
<1>2. QED
  BY Invariance, <1>1, PTL
=============================================================================
