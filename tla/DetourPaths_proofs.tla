-------------------------- MODULE DetourPaths_proofs --------------------------
(***************************************************************************)
(* Proofs about DetourPaths: for every environment and every input the     *)
(* path of a call balances, but for the results of the filter where the    *)
(* probe is disabled, and advances no counter more than three times.  With *)
(* CallCounters_proofs, the counters of the probe balance at rest.         *)
(***************************************************************************)
EXTENDS DetourPaths, CallCounters_proofs

\* What a sequence of counters advances of some of them, sequence after sequence.
Path(p) == \E T : p \in Seq(T)
One(k, some) == IF k \in some THEN 1 ELSE 0

\* What is proved of every path but one: the filter's with the probe disabled.
Fair(p) ==
  /\ Path(p)
  /\ \A b \in AllBalances : Advances(p, b.whole) = Advances(p, b.parts)
  /\ \A k : Advances(p, {k}) <= 3

-----------------------------------------------------------------------------
(* Paths are put together from pieces.                                     *)

LEMMA PathFinite ==
  ASSUME NEW p, Path(p), NEW S
  PROVE  IsFiniteSet(Places(p, S)) /\ Advances(p, S) \in Nat /\ Len(p) \in Nat /\ DOMAIN p = 1 .. Len(p)
<1>1. PICK T : p \in Seq(T)
  BY DEF Path
<1>2. Len(p) \in Nat /\ DOMAIN p = 1 .. Len(p)
  BY <1>1, LenProperties
<1>3. Places(p, S) \subseteq 1 .. Len(p) /\ IsFiniteSet(1 .. Len(p))
  BY <1>2, FS_Interval DEF Places
<1>4. QED
  BY <1>2, <1>3, FS_Subset, FS_CardinalityType DEF Advances

LEMMA Nothing ==
  ASSUME NEW S
  PROVE  Path(<<>>) /\ Advances(<<>>, S) = 0
<1>1. Path(<<>>)
  BY EmptySeq DEF Path
<1>2. Places(<<>>, S) = {}
  BY DEF Places
<1>3. QED
  BY <1>1, <1>2, FS_EmptySet DEF Advances

LEMMA Single ==
  ASSUME NEW k, NEW S
  PROVE  Path(<<k>>) /\ Advances(<<k>>, S) = One(k, S)
<1>1. <<k>> \in Seq({k})
  OBVIOUS
<1>2. Path(<<k>>)
  BY <1>1 DEF Path
<1>3. Places(<<k>>, S) = IF k \in S THEN {1} ELSE {}
  BY DEF Places
<1>4. QED
  BY <1>2, <1>3, FS_EmptySet, FS_Singleton DEF Advances, One

LEMMA Joined ==
  ASSUME NEW p, NEW q, Path(p), Path(q), NEW S
  PROVE  Path(p \o q) /\ Advances(p \o q, S) = Advances(p, S) + Advances(q, S)
<1>1. PICK T : p \in Seq(T)
  BY DEF Path
<1>2. PICK V : q \in Seq(V)
  BY DEF Path
<1>3. p \in Seq(T \union V) /\ q \in Seq(T \union V)
  BY <1>1, <1>2, SeqMonotonic
<1> DEFINE r == p \o q
           A == Places(p, S)
           B == Places(q, S)
           n == Len(p)
           move == [i \in B |-> i + n]
           C == {i + n : i \in B}
<1>4. /\ r \in Seq(T \union V) /\ Len(r) = n + Len(q)
      /\ \A i \in 1 .. n : r[i] = p[i]
      /\ \A i \in 1 .. Len(q) : r[i + n] = q[i]
  <2>1. \A i \in 1 .. Len(q) : i + n > n /\ i + n \in 1 .. (n + Len(q)) /\ (i + n) - n = i
    BY <1>3, LenProperties
  <2>2. QED
    BY <1>3, <2>1, ConcatProperties, LenProperties
<1>5. /\ IsFiniteSet(A) /\ IsFiniteSet(B) /\ n \in Nat /\ Len(q) \in Nat /\ DOMAIN p = 1 .. n /\ DOMAIN q = 1 .. Len(q)
      /\ DOMAIN r = 1 .. (n + Len(q))
  BY <1>3, <1>4, PathFinite, LenProperties
<1> HIDE DEF n, r
<1>6. Places(r, S) = A \union C
  <2>1. ASSUME NEW x \in Places(r, S) PROVE x \in A \union C
    <3>1. x \in 1 .. (n + Len(q)) /\ r[x] \in S
      BY <1>5 DEF Places
    <3>2. CASE x <= n
      BY <1>4, <1>5, <3>1, <3>2 DEF Places
    <3>3. CASE x > n
      <4>1. x - n \in 1 .. Len(q) /\ x = (x - n) + n
        BY <1>5, <3>1, <3>3
      <4>2. r[x] = q[x - n]
        BY <1>4, <4>1
      <4>3. x - n \in B
        BY <1>5, <3>1, <4>1, <4>2 DEF Places
      <4>4. QED
        BY <4>1, <4>3
    <3>4. QED
      BY <1>5, <3>1, <3>2, <3>3
  <2>2. ASSUME NEW x \in A PROVE x \in Places(r, S)
    BY <1>4, <1>5 DEF Places
  <2>3. ASSUME NEW i \in B PROVE i + n \in Places(r, S)
    BY <1>4, <1>5 DEF Places
  <2>4. QED
    BY <2>1, <2>2, <2>3
<1>7. A \intersect C = {}
  BY <1>5 DEF Places
<1>8. IsFiniteSet(C) /\ Cardinality(C) = Cardinality(B)
  <2>1. B \subseteq Nat
    BY <1>5 DEF Places
  <2>2. move \in Bijection(B, C)
    <3>1. move \in Injection(B, C)
      <4>1. move \in [B -> C]
        OBVIOUS
      <4>2. \A i, j \in B : move[i] = move[j] => i = j
        <5>1. SUFFICES ASSUME NEW i \in B, NEW j \in B, i + n = j + n PROVE i = j
          OBVIOUS
        <5>2. i \in Nat /\ j \in Nat
          BY <2>1
        <5>3. QED
          BY <1>5, <5>1, <5>2
      <4>3. QED
        BY <4>1, <4>2 DEF Injection, IsInjective
    <3>2. move \in Surjection(B, C)
      <4>1. \A x \in C : \E i \in B : move[i] = x
        <5>1. TAKE x \in C
        <5>2. PICK i \in B : x = i + n
          OBVIOUS
        <5>3. WITNESS i \in B
        <5>4. QED
          BY <5>2
      <4>2. move \in [B -> C]
        OBVIOUS
      <4> HIDE DEF move, B, C
      <4>3. QED
        BY <4>1, <4>2 DEF Surjection
    <3>3. QED
      BY <3>1, <3>2 DEF Bijection
  <2> HIDE DEF move
  <2>3. ExistsBijection(B, C)
    BY <2>2 DEF ExistsBijection
  <2> HIDE DEF B, C
  <2>4. QED
    BY <1>5, <2>3, FS_Bijection
<1>9. Cardinality(A \union C) = Cardinality(A) + Cardinality(C)
  <2>1. Cardinality(A \union C) = Cardinality(A) + Cardinality(C) - Cardinality(A \intersect C)
    BY <1>5, <1>8, FS_Union
  <2>2. Cardinality(A) \in Nat /\ Cardinality(C) \in Nat /\ Cardinality(A \intersect C) = 0
    BY <1>5, <1>7, <1>8, FS_EmptySet, FS_CardinalityType
  <2> HIDE DEF A, C
  <2>3. QED
    BY <2>1, <2>2
<1>10. QED
  BY <1>4, <1>6, <1>8, <1>9 DEF Advances, Path, r

LEMMA PairJoined ==
  ASSUME NEW k, NEW l
  PROVE  <<k, l>> = <<k>> \o <<l>>
<1> DEFINE T == {k, l}
           p == <<k>>
           q == <<l>>
           r == <<k, l>>
<1>1. p \in Seq(T) /\ q \in Seq(T) /\ Len(p) = 1 /\ Len(q) = 1 /\ p[1] = k /\ q[1] = l
  OBVIOUS
<1>2. r \in Seq(T) /\ Len(r) = 2 /\ r[1] = k /\ r[2] = l
  OBVIOUS
<1> HIDE DEF p, q, r, T
<1>3. p \o q \in Seq(T) /\ Len(p \o q) = 2
  <2>1. p \o q \in Seq(T) /\ Len(p \o q) = Len(p) + Len(q)
    BY <1>1, ConcatProperties
  <2>2. QED
    BY <1>1, <2>1
<1>4. 1 \in 1 .. (Len(p) + Len(q)) /\ 2 \in 1 .. (Len(p) + Len(q)) /\ 1 <= Len(p) /\ ~(2 <= Len(p)) /\ 2 - Len(p) = 1
  BY <1>1
<1>5. \A i \in 1 .. Len(p) + Len(q) : (p \o q)[i] = IF i <= Len(p) THEN p[i] ELSE q[i - Len(p)]
  BY <1>1, ConcatProperties
<1>6. (p \o q)[1] = k /\ (p \o q)[2] = l
  BY <1>1, <1>4, <1>5
<1>7. \A i \in 1 .. Len(p \o q) : (p \o q)[i] = r[i]
  BY <1>2, <1>3, <1>6
<1>8. p \o q = r
  BY <1>2, <1>3, <1>7, SeqEqual
<1>9. QED
  BY <1>8 DEF p, q, r

LEMMA Pair ==
  ASSUME NEW k, NEW l, NEW S
  PROVE  Path(<<k, l>>) /\ Advances(<<k, l>>, S) = One(k, S) + One(l, S)
<1> DEFINE p == <<k>>
           q == <<l>>
<1>1. Path(p) /\ Path(q) /\ Advances(p, S) = One(k, S) /\ Advances(q, S) = One(l, S)
  BY Single
<1>2. <<k, l>> = p \o q
  BY PairJoined
<1> HIDE DEF p, q
<1>3. Path(p \o q) /\ Advances(p \o q, S) = One(k, S) + One(l, S)
  BY <1>1, Joined
<1>4. QED
  BY <1>2, <1>3

-----------------------------------------------------------------------------
(* The counters which weigh alike in every balance.                        *)

\* How much more counter k says of the whole than of the parts.
Excess(k, b) == One(k, b.whole) - One(k, b.parts)

LEMMA NeutralizeExcess ==
  ASSUME NEW b \in AllBalances
  PROVE  /\ Excess("neutralize_null", b) = Excess("neutralize_invalid_team", b)
         /\ Excess("neutralize_applied", b) = Excess("neutralize_already", b)
         /\ Excess("neutralize_teams", b) = Excess("neutralize_teams_overflow", b)
         /\ Excess("neutralize_attempts", b) + Excess("neutralize_null", b) = 0
         /\ Excess("neutralize_attempts", b) + Excess("neutralize_teams", b) + Excess("neutralize_applied", b) = 0
  BY DEF AllBalances, FilterResults, Adds, Excess, One, Seen, Counted, Events

LEMMA FilterExcess ==
  ASSUME NEW b \in AllBalances
  PROVE  /\ Excess("filter_allowed", b) = Excess("filter_denied", b)
         /\ Excess("filter_unit_types", b) = Excess("filter_unit_type_overflow", b)
         /\ Excess("filter_calls", b) + Excess("filter_allowed", b) + Excess("filter_unit_types", b) = 0
         /\ Excess("same_team_allowed", b) = Excess("same_team_denied", b)
         /\ Excess("same_team_calls", b) + Excess("same_team_allowed", b) = 0
         /\ Excess("objective_allowed", b) = Excess("objective_denied", b)
         /\ Excess("objective_calls", b) + Excess("objective_allowed", b) = 0
  BY DEF AllBalances, FilterResults, Adds, Excess, One, Seen, Counted, Events

LEMMA SpoofExcess ==
  ASSUME NEW b \in AllBalances
  PROVE  /\ Excess("source_spoof_allowed", b) = Excess("source_spoof_denied", b)
         /\ Excess("source_spoof_attempts", b) + Excess("source_spoof_applied", b)
              + Excess("source_spoof_allowed", b) + Excess("source_spoof_restored", b) = 0
         /\ Excess("target_spoof_allowed", b) = Excess("target_spoof_denied", b)
         /\ Excess("target_spoof_attempts", b) + Excess("target_spoof_applied", b)
              + Excess("target_spoof_allowed", b) + Excess("target_spoof_restored", b) = 0
         /\ Excess("bitset_applied", b) = Excess("bitset_failures", b)
         /\ Excess("bitset_attempts", b) + Excess("bitset_applied", b) = 0
         /\ Excess("classifier_spoof_attempts", b) + Excess("classifier_spoof_applied", b) = 0
  BY DEF AllBalances, FilterResults, Adds, Excess, One, Seen, Counted, Events

LEMMA UnbalancedExcess ==
  ASSUME NEW b \in AllBalances
  PROVE  /\ Excess("filter_invalid_source_team", b) = 0
         /\ Excess("filter_invalid_target_team", b) = 0
         /\ Excess("filter_neutral", b) = 0
         /\ Excess("filter_midboss", b) = 0
         /\ Excess("filter_forced", b) = 0
         /\ Excess("classifier_calls", b) = 0
         /\ Excess("classifier_invalid", b) = 0
         /\ Excess("caller_forced", b) = 0
         /\ Excess("caller_0x1a_candidates", b) = 0
         /\ Excess("secondary_forced", b) = 0
         /\ Excess("victim_invalid_team", b) = 0
         /\ Excess("victim_objective", b) = 0
         /\ Excess("victim_neutral", b) = 0
         /\ Excess("victim_midboss", b) = 0
         /\ Excess("attacker_self", b) = 0
         /\ Excess("same_team_objective", b) = 0
         /\ Excess("invalid_team", b) = 0
  BY DEF AllBalances, FilterResults, Adds, Excess, One, Seen, Counted, Events

LEMMA GateExcess ==
  ASSUME NEW b \in AllBalances
  PROVE  /\ Excess("caller_allowed", b) = Excess("caller_denied", b)
         /\ Excess("caller_calls", b) + Excess("caller_allowed", b) = 0
         /\ Excess("secondary_allowed", b) = Excess("secondary_denied", b)
         /\ Excess("secondary_calls", b) + Excess("secondary_allowed", b) = 0
  BY DEF AllBalances, FilterResults, Adds, Excess, One, Seen, Counted, Events

LEMMA VictimExcess ==
  ASSUME NEW b \in AllBalances
  PROVE  /\ Excess("victim_unit_types", b) = Excess("victim_unit_type_overflow", b)
         /\ Excess("inflictor_valid", b) = Excess("inflictor_invalid", b)
         /\ Excess("attacker_opposing", b) = Excess("attacker_other_team", b)
         /\ Excess("attacker_same_team", b) + Excess("same_team_unit_types", b) = Excess("attacker_opposing", b)
         /\ Excess("attacker_invalid", b) =
              Excess("attacker_valid", b) + Excess("attacker_unit_types", b) + Excess("attacker_opposing", b)
         /\ Excess("victim_calls", b) + Excess("victim_unit_types", b)
              + Excess("inflictor_valid", b) + Excess("attacker_invalid", b) = 0
  BY DEF AllBalances, FilterResults, Adds, Excess, One, Seen, Counted, Events

LEMMA FriendlyFireExcess ==
  ASSUME NEW b \in AllBalances
  PROVE  /\ Excess("damage_callbacks", b) + Excess("skipped_recursive", b) = 0
         /\ Excess("damage_callbacks", b) + Excess("missing_identity", b) = 0
         /\ Excess("damage_callbacks", b) + Excess("missing_designer_name", b) = 0
         /\ Excess("damage_callbacks", b) + Excess("non_objective_victims", b) = 0
         /\ Excess("damage_callbacks", b) + Excess("objective_candidates", b) = 0
         /\ Excess("team_spoof_attempts", b) + Excess("team_spoof_applied", b) + Excess("team_spoof_restored", b) = 0
  BY DEF AllBalances, FilterResults, Adds, Excess, One, Seen, Counted, Events

LEMMA RecordExcess ==
  ASSUME NEW b \in AllBalances, NEW event \in Events
  PROVE  Excess(Seen(event), b) + Excess(Counted(event), b) = 0
  BY DEF AllBalances, FilterResults, Adds, Excess, One, Seen, Counted, Events

-----------------------------------------------------------------------------
(* The paths.                                                              *)

NeutralizeCounters ==
  {"neutralize_attempts", "neutralize_null", "neutralize_invalid_team", "neutralize_teams",
   "neutralize_teams_overflow", "neutralize_already", "neutralize_applied"}

LEMMA NeutralizeFair ==
  ASSUME NEW cf, NEW e
  PROVE  /\ Path(Neutralize(cf, e))
         /\ \A b \in AllBalances : Advances(Neutralize(cf, e), b.whole) = Advances(Neutralize(cf, e), b.parts)
         /\ \A k : Advances(Neutralize(cf, e), {k}) <= One(k, NeutralizeCounters)
<1> DEFINE p == Neutralize(cf, e)
           team == IF e.team < 8 THEN "neutralize_teams" ELSE "neutralize_teams_overflow"
           done == IF e.team = cf.neutral_team THEN "neutralize_already" ELSE "neutralize_applied"
<1>1. \A k : One(k, NeutralizeCounters) \in {0, 1}
  BY DEF One
<1>2. CASE ~(cf.probe /\ cf.neutralize)
  <2>1. p = <<>>
    BY <1>2 DEF Neutralize
  <2>2. QED
    BY <1>1, <2>1, Nothing
<1>3. CASE cf.probe /\ cf.neutralize /\ (e.null \/ ~e.readable)
  <2>1. PICK x \in {"neutralize_null", "neutralize_invalid_team"} : p = <<"neutralize_attempts">> \o <<x>>
    BY <1>3 DEF Neutralize
  <2> HIDE DEF p
  <2>2. Path(p) /\ \A S : Advances(p, S) = One("neutralize_attempts", S) + One(x, S)
    BY <2>1, Single, Joined
  <2>3. ASSUME NEW b \in AllBalances PROVE Advances(p, b.whole) = Advances(p, b.parts)
    <3>1. Excess("neutralize_attempts", b) + Excess(x, b) = 0
      BY NeutralizeExcess
    <3>2. QED
      BY <2>2, <3>1 DEF Excess, One
  <2>4. \A k : One("neutralize_attempts", {k}) + One(x, {k}) <= One(k, NeutralizeCounters)
    BY DEF One, NeutralizeCounters
  <2>5. QED
    BY <2>2, <2>3, <2>4 DEF p
<1>4. CASE cf.probe /\ cf.neutralize /\ ~e.null /\ e.readable
  <2>1. PICK x \in {"neutralize_teams", "neutralize_teams_overflow"},
             y \in {"neutralize_already", "neutralize_applied"} : p = <<"neutralize_attempts">> \o <<x, y>>
    BY <1>4 DEF Neutralize
  <2> HIDE DEF p
  <2>2. Path(p) /\ \A S : Advances(p, S) = One("neutralize_attempts", S) + (One(x, S) + One(y, S))
    BY <2>1, Single, Pair, Joined
  <2>3. ASSUME NEW b \in AllBalances PROVE Advances(p, b.whole) = Advances(p, b.parts)
    <3>1. Excess("neutralize_attempts", b) + Excess(x, b) + Excess(y, b) = 0
      BY NeutralizeExcess
    <3>2. QED
      BY <2>2, <3>1 DEF Excess, One
  <2>4. \A k : One("neutralize_attempts", {k}) + (One(x, {k}) + One(y, {k})) <= One(k, NeutralizeCounters)
    BY DEF One, NeutralizeCounters
  <2>5. QED
    BY <2>2, <2>3, <2>4 DEF p
<1>5. QED
  BY <1>2, <1>3, <1>4

\* Pieces which weigh alike together, and advance only some counters, once.
Alone(p, some) ==
  /\ Path(p)
  /\ \A b \in AllBalances : Advances(p, b.whole) = Advances(p, b.parts)
  /\ \A k : Advances(p, {k}) <= One(k, some)
Together(p, q, some) ==
  /\ Path(p) /\ Path(q)
  /\ \A b \in AllBalances : Advances(p, b.whole) + Advances(q, b.whole) = Advances(p, b.parts) + Advances(q, b.parts)
  /\ \A k : Advances(p, {k}) + Advances(q, {k}) <= One(k, some)

\* A counter of no balance.
LEMMA Loose ==
  ASSUME NEW k, \A b \in AllBalances : Excess(k, b) = 0, NEW p \in {<<>>, <<k>>}
  PROVE  Alone(p, {k})
<1>1. CASE p = <<>>
  BY <1>1, Nothing DEF Alone, One
<1>2. CASE p = <<k>>
  <2>1. Path(p) /\ \A S : Advances(p, S) = One(k, S)
    BY <1>2, Single
  <2>2. \A b \in AllBalances : One(k, b.whole) = One(k, b.parts)
    BY DEF Excess, One
  <2>3. \A l : One(k, {l}) <= One(l, {k})
    BY DEF One
  <2>4. QED
    BY <2>1, <2>2, <2>3 DEF Alone
<1>3. QED
  BY <1>1, <1>2

\* A counter, and its outcome at the end of the call.
LEMMA Outcome ==
  ASSUME NEW k, NEW l, NEW m, k # l, k # m, l # m,
         \A b \in AllBalances : Excess(k, b) + Excess(l, b) = 0 /\ Excess(l, b) = Excess(m, b),
         NEW p, NEW q, \/ p = <<>> /\ q = <<>>
                       \/ p = <<k>> /\ q \in {<<l>>, <<m>>}
  PROVE  Together(p, q, {k, l, m})
<1>1. CASE p = <<>> /\ q = <<>>
  BY <1>1, Nothing DEF Together, One
<1>2. ASSUME NEW x \in {l, m}, p = <<k>>, q = <<x>> PROVE Together(p, q, {k, l, m})
  <2>1. Path(p) /\ Path(q) /\ \A S : Advances(p, S) = One(k, S) /\ Advances(q, S) = One(x, S)
    BY <1>2, Single
  <2>2. \A b \in AllBalances : One(k, b.whole) + One(x, b.whole) = One(k, b.parts) + One(x, b.parts)
    BY DEF Excess, One
  <2>3. \A n : One(k, {n}) + One(x, {n}) <= One(n, {k, l, m})
    BY DEF One
  <2>4. QED
    BY <2>1, <2>2, <2>3 DEF Together
<1>3. QED
  BY <1>1, <1>2

\* Two counters, and two at the end of the call.
LEMMA Undone ==
  ASSUME NEW k, NEW l, NEW m, NEW n, NEW some,
         \A b \in AllBalances : Excess(k, b) + Excess(l, b) + Excess(m, b) + Excess(n, b) = 0,
         \A x : One(k, {x}) + One(l, {x}) + One(m, {x}) + One(n, {x}) <= One(x, some)
  PROVE  Together(<<k, l>>, <<m, n>>, some)
<1> DEFINE p == <<k, l>>
           q == <<m, n>>
<1>1. Path(p) /\ Path(q) /\ \A S : Advances(p, S) = One(k, S) + One(l, S) /\ Advances(q, S) = One(m, S) + One(n, S)
  BY Pair
<1> HIDE DEF p, q
<1>2. \A b \in AllBalances : One(k, b.whole) + One(l, b.whole) + (One(m, b.whole) + One(n, b.whole))
                               = One(k, b.parts) + One(l, b.parts) + (One(m, b.parts) + One(n, b.parts))
  BY DEF Excess, One
<1>3. \A x : One(k, {x}) + One(l, {x}) + (One(m, {x}) + One(n, {x})) <= One(x, some)
  BY DEF One
<1>4. Together(p, q, some)
  BY <1>1, <1>2, <1>3 DEF Together
<1>5. QED
  BY <1>4 DEF p, q

LEMMA NothingTogether ==
  ASSUME NEW some
  PROVE  Together(<<>>, <<>>, some) /\ Alone(<<>>, some)
BY Nothing DEF Together, Alone, One

SourceSpoofCounters ==
  {"source_spoof_attempts", "source_spoof_applied", "source_spoof_restored", "source_spoof_allowed",
   "source_spoof_denied"}
TargetSpoofCounters ==
  {"target_spoof_attempts", "target_spoof_applied", "target_spoof_restored", "target_spoof_allowed",
   "target_spoof_denied"}
BitsetCounters == {"bitset_attempts", "bitset_applied", "bitset_failures"}

LEMMA BitsetFair ==
  ASSUME NEW cf, NEW in, NEW same
  PROVE  Alone(AllowBitset(cf, in, same), BitsetCounters)
<1> DEFINE p == AllowBitset(cf, in, same)
<1>1. CASE p = <<>>
  BY <1>1, NothingTogether
<1>2. ASSUME NEW x \in {"bitset_applied", "bitset_failures"}, p = <<"bitset_attempts", x>>
      PROVE  Alone(p, BitsetCounters)
  <2> HIDE DEF p
  <2>1. Path(p) /\ \A S : Advances(p, S) = One("bitset_attempts", S) + One(x, S)
    BY <1>2, Pair
  <2>2. \A b \in AllBalances : One("bitset_attempts", b.whole) + One(x, b.whole)
                                 = One("bitset_attempts", b.parts) + One(x, b.parts)
    BY SpoofExcess DEF Excess, One
  <2>3. \A k : One("bitset_attempts", {k}) + One(x, {k}) <= One(k, BitsetCounters)
    BY DEF One, BitsetCounters
  <2>4. QED
    BY <2>1, <2>2, <2>3 DEF Alone
<1>3. QED
  BY <1>1, <1>2 DEF AllowBitset

LEMMA FilterFair ==
  ASSUME NEW cf, NEW in, cf.probe
  PROVE  Fair(FilterPath(cf, in))
<1> DEFINE same == SameTeam(After(cf, in.source), After(cf, in.target))
           allowed == in.result \/ Forced(cf, in, same)
           spoofs == same /\ ~in.one
           n1 == Neutralize(cf, in.source)
           n2 == Neutralize(cf, IF in.one THEN After(cf, in.source) ELSE in.target)
           a1 == <<"filter_calls">>
           a2 == <<IF in.unit < 32 THEN "filter_unit_types" ELSE "filter_unit_type_overflow">>
           a3 == <<IF allowed THEN "filter_allowed" ELSE "filter_denied">>
           i1 == IF ~in.source.readable THEN <<"filter_invalid_source_team">> ELSE <<>>
           i2 == IF ~in.target.readable THEN <<"filter_invalid_target_team">> ELSE <<>>
           s1 == IF same THEN <<"same_team_calls">> ELSE <<>>
           s2 == IF same THEN <<IF allowed THEN "same_team_allowed" ELSE "same_team_denied">> ELSE <<>>
           o1 == IF in.name = "objective" THEN <<"objective_calls">> ELSE <<>>
           o2 == IF in.name = "objective" THEN <<IF allowed THEN "objective_allowed" ELSE "objective_denied">> ELSE <<>>
           m1 == IF in.name = "neutral" THEN <<"filter_neutral">> ELSE <<>>
           m2 == IF in.name = "midboss" THEN <<"filter_midboss">> ELSE <<>>
           g1 == IF cf.source_spoof /\ spoofs /\ Opposing(After(cf, in.target).team) # 0
                 THEN <<"source_spoof_attempts", "source_spoof_applied">> ELSE <<>>
           g2 == IF cf.source_spoof /\ spoofs /\ Opposing(After(cf, in.target).team) # 0
                 THEN <<IF allowed THEN "source_spoof_allowed" ELSE "source_spoof_denied",
                        "source_spoof_restored">> ELSE <<>>
           t1 == IF cf.target_spoof /\ spoofs THEN <<"target_spoof_attempts", "target_spoof_applied">> ELSE <<>>
           t2 == IF cf.target_spoof /\ spoofs
                 THEN <<IF allowed THEN "target_spoof_allowed" ELSE "target_spoof_denied",
                        "target_spoof_restored">> ELSE <<>>
           bits == AllowBitset(cf, in, same)
           force == IF Forced(cf, in, same) THEN <<"filter_forced">> ELSE <<>>
           first == n1 \o n2 \o a1 \o i1 \o i2 \o a2 \o s1 \o (o1 \o m1 \o m2) \o g1 \o t1
           last == force \o (a3 \o s2 \o o2) \o g2 \o t2
<1>1. FilterPath(cf, in) = first \o bits \o last
  <2>1. BeginFilter(cf, in, same) = first
    <3>1. o1 \o m1 \o m2 = Name(<<"objective_calls", "filter_neutral", "filter_midboss">>, in.name)
      BY DEF Name, When
    <3>2. /\ i1 = When(~in.source.readable, "filter_invalid_source_team")
          /\ i2 = When(~in.target.readable, "filter_invalid_target_team")
          /\ s1 = When(same, "same_team_calls")
      BY DEF When
    <3> HIDE DEF n1, n2, a1, i1, i2, s1, o1, m1, m2
    <3>3. QED
      BY <3>1, <3>2 DEF BeginFilter, n1, n2, a1
  <2>2. FinishFilter(cf, in, same) = last
    BY DEF FinishFilter, Result, When
  <2> HIDE DEF first, last
  <2>3. QED
    BY <2>1, <2>2 DEF FilterPath
<1>2. Alone(n1, NeutralizeCounters) /\ Alone(n2, NeutralizeCounters)
  BY NeutralizeFair DEF Alone
<1>3. Alone(i1, {"filter_invalid_source_team"}) /\ Alone(i2, {"filter_invalid_target_team"})
  BY Loose, UnbalancedExcess
<1>4. Alone(m1, {"filter_neutral"}) /\ Alone(m2, {"filter_midboss"}) /\ Alone(force, {"filter_forced"})
  BY Loose, UnbalancedExcess
<1>5. Together(s1, s2, {"same_team_calls", "same_team_allowed", "same_team_denied"})
  BY Outcome, FilterExcess
<1>6. Together(o1, o2, {"objective_calls", "objective_allowed", "objective_denied"})
  BY Outcome, FilterExcess
<1>7. Alone(bits, BitsetCounters)
  BY BitsetFair
<1>8. Together(g1, g2, SourceSpoofCounters)
  <2>1. CASE g1 = <<>> /\ g2 = <<>>
    BY <2>1, NothingTogether
  <2>2. ASSUME NEW x \in {"source_spoof_allowed", "source_spoof_denied"},
               g1 = <<"source_spoof_attempts", "source_spoof_applied">>, g2 = <<x, "source_spoof_restored">>
        PROVE  Together(g1, g2, SourceSpoofCounters)
    <3>1. \A b \in AllBalances : Excess("source_spoof_attempts", b) + Excess("source_spoof_applied", b)
                                   + Excess(x, b) + Excess("source_spoof_restored", b) = 0
      BY SpoofExcess
    <3>2. \A k : One("source_spoof_attempts", {k}) + One("source_spoof_applied", {k}) + One(x, {k})
                   + One("source_spoof_restored", {k}) <= One(k, SourceSpoofCounters)
      BY DEF One, SourceSpoofCounters
    <3>3. QED
      BY <2>2, <3>1, <3>2, Undone
  <2>3. QED
    BY <2>1, <2>2
<1>9. Together(t1, t2, TargetSpoofCounters)
  <2>1. CASE t1 = <<>> /\ t2 = <<>>
    BY <2>1, NothingTogether
  <2>2. ASSUME NEW x \in {"target_spoof_allowed", "target_spoof_denied"},
               t1 = <<"target_spoof_attempts", "target_spoof_applied">>, t2 = <<x, "target_spoof_restored">>
        PROVE  Together(t1, t2, TargetSpoofCounters)
    <3>1. \A b \in AllBalances : Excess("target_spoof_attempts", b) + Excess("target_spoof_applied", b)
                                   + Excess(x, b) + Excess("target_spoof_restored", b) = 0
      BY SpoofExcess
    <3>2. \A k : One("target_spoof_attempts", {k}) + One("target_spoof_applied", {k}) + One(x, {k})
                   + One("target_spoof_restored", {k}) <= One(k, TargetSpoofCounters)
      BY DEF One, TargetSpoofCounters
    <3>3. QED
      BY <2>2, <3>1, <3>2, Undone
  <2>3. QED
    BY <2>1, <2>2
<1>10. PICK x \in {"filter_allowed", "filter_denied"}, y \in {"filter_unit_types", "filter_unit_type_overflow"} :
         a2 = <<y>> /\ a3 = <<x>>
  OBVIOUS
<1> HIDE DEF n1, n2, a1, a2, a3, i1, i2, s1, s2, o1, o2, m1, m2, g1, g2, t1, t2, bits, force
<1>11. /\ Path(a1) /\ Path(a2) /\ Path(a3)
       /\ \A S : Advances(a1, S) = One("filter_calls", S) /\ Advances(a2, S) = One(y, S) /\ Advances(a3, S) = One(x, S)
  BY <1>10, Single DEF a1
<1>12. /\ Path(n1) /\ Path(n2) /\ Path(i1) /\ Path(i2) /\ Path(s1) /\ Path(s2) /\ Path(o1) /\ Path(o2)
       /\ Path(m1) /\ Path(m2) /\ Path(g1) /\ Path(g2) /\ Path(t1) /\ Path(t2) /\ Path(bits) /\ Path(force)
  BY <1>2, <1>3, <1>4, <1>5, <1>6, <1>7, <1>8, <1>9 DEF Alone, Together
<1>13. Path(first) /\ \A S : Advances(first, S) =
         Advances(n1, S) + Advances(n2, S) + Advances(a1, S) + Advances(i1, S) + Advances(i2, S) + Advances(a2, S)
           + Advances(s1, S) + (Advances(o1, S) + Advances(m1, S) + Advances(m2, S)) + Advances(g1, S) + Advances(t1, S)
  BY <1>11, <1>12, Joined
<1>14. Path(last) /\ \A S : Advances(last, S) =
         Advances(force, S) + (Advances(a3, S) + Advances(s2, S) + Advances(o2, S)) + Advances(g2, S) + Advances(t2, S)
  BY <1>11, <1>12, Joined
<1> HIDE DEF first, last
<1>15. /\ Path(FilterPath(cf, in))
       /\ \A S : Advances(FilterPath(cf, in), S) = Advances(first, S) + Advances(bits, S) + Advances(last, S)
  BY <1>1, <1>12, <1>13, <1>14, Joined
<1>16. \A S : /\ Advances(n1, S) \in Nat /\ Advances(n2, S) \in Nat /\ Advances(i1, S) \in Nat /\ Advances(i2, S) \in Nat
              /\ Advances(s1, S) \in Nat /\ Advances(s2, S) \in Nat /\ Advances(o1, S) \in Nat /\ Advances(o2, S) \in Nat
              /\ Advances(m1, S) \in Nat /\ Advances(m2, S) \in Nat /\ Advances(g1, S) \in Nat /\ Advances(g2, S) \in Nat
              /\ Advances(t1, S) \in Nat /\ Advances(t2, S) \in Nat /\ Advances(bits, S) \in Nat /\ Advances(force, S) \in Nat
  BY <1>12, PathFinite
<1> DEFINE Sum(S) ==
  Advances(n1, S) + Advances(n2, S) + (One("filter_calls", S) + One(y, S) + One(x, S))
    + Advances(i1, S) + Advances(i2, S) + Advances(m1, S) + Advances(m2, S) + Advances(force, S) + Advances(bits, S)
    + (Advances(s1, S) + Advances(s2, S)) + (Advances(o1, S) + Advances(o2, S))
    + (Advances(g1, S) + Advances(g2, S)) + (Advances(t1, S) + Advances(t2, S))
<1>17. ASSUME NEW S PROVE Advances(FilterPath(cf, in), S) = Sum(S)
  <2>1. Advances(FilterPath(cf, in), S) = Advances(first, S) + Advances(bits, S) + Advances(last, S)
    BY <1>15
  <2>2. Advances(first, S) =
         Advances(n1, S) + Advances(n2, S) + One("filter_calls", S) + Advances(i1, S) + Advances(i2, S) + One(y, S)
           + Advances(s1, S) + (Advances(o1, S) + Advances(m1, S) + Advances(m2, S)) + Advances(g1, S) + Advances(t1, S)
    BY <1>11, <1>13
  <2>3. Advances(last, S) =
         Advances(force, S) + (One(x, S) + Advances(s2, S) + Advances(o2, S)) + Advances(g2, S) + Advances(t2, S)
    BY <1>11, <1>14
  <2>4. One("filter_calls", S) \in Nat /\ One(y, S) \in Nat /\ One(x, S) \in Nat
    BY DEF One
  <2>5. QED
    BY <1>16, <2>1, <2>2, <2>3, <2>4
<1>18. ASSUME NEW b \in AllBalances
       PROVE  Advances(FilterPath(cf, in), b.whole) = Advances(FilterPath(cf, in), b.parts)
  <2>1. One("filter_calls", b.whole) + One(y, b.whole) + One(x, b.whole)
          = One("filter_calls", b.parts) + One(y, b.parts) + One(x, b.parts)
    BY <1>10, FilterExcess DEF Excess, One
  <2>2. /\ Advances(n1, b.whole) = Advances(n1, b.parts) /\ Advances(n2, b.whole) = Advances(n2, b.parts)
        /\ Advances(i1, b.whole) = Advances(i1, b.parts) /\ Advances(i2, b.whole) = Advances(i2, b.parts)
        /\ Advances(m1, b.whole) = Advances(m1, b.parts) /\ Advances(m2, b.whole) = Advances(m2, b.parts)
        /\ Advances(bits, b.whole) = Advances(bits, b.parts) /\ Advances(force, b.whole) = Advances(force, b.parts)
    BY <1>2, <1>3, <1>4, <1>7 DEF Alone
  <2>3. /\ Advances(s1, b.whole) + Advances(s2, b.whole) = Advances(s1, b.parts) + Advances(s2, b.parts)
        /\ Advances(o1, b.whole) + Advances(o2, b.whole) = Advances(o1, b.parts) + Advances(o2, b.parts)
        /\ Advances(g1, b.whole) + Advances(g2, b.whole) = Advances(g1, b.parts) + Advances(g2, b.parts)
        /\ Advances(t1, b.whole) + Advances(t2, b.whole) = Advances(t1, b.parts) + Advances(t2, b.parts)
    BY <1>5, <1>6, <1>8, <1>9 DEF Together
  <2>4. Sum(b.whole) = Sum(b.parts)
    BY <2>1, <2>2, <2>3
  <2> HIDE DEF Sum
  <2>5. QED
    BY <1>17, <2>4
<1>19. ASSUME NEW k
       PROVE  Advances(FilterPath(cf, in), {k}) <= 3
  <2> DEFINE S == {k}
  <2>1. /\ Advances(n1, S) <= One(k, NeutralizeCounters) /\ Advances(n2, S) <= One(k, NeutralizeCounters)
        /\ Advances(i1, S) <= One(k, {"filter_invalid_source_team"})
        /\ Advances(i2, S) <= One(k, {"filter_invalid_target_team"})
        /\ Advances(m1, S) <= One(k, {"filter_neutral"}) /\ Advances(m2, S) <= One(k, {"filter_midboss"})
        /\ Advances(bits, S) <= One(k, BitsetCounters) /\ Advances(force, S) <= One(k, {"filter_forced"})
    BY <1>2, <1>3, <1>4, <1>7 DEF Alone
  <2>2. /\ Advances(s1, S) + Advances(s2, S) <= One(k, {"same_team_calls", "same_team_allowed", "same_team_denied"})
        /\ Advances(o1, S) + Advances(o2, S) <= One(k, {"objective_calls", "objective_allowed", "objective_denied"})
        /\ Advances(g1, S) + Advances(g2, S) <= One(k, SourceSpoofCounters)
        /\ Advances(t1, S) + Advances(t2, S) <= One(k, TargetSpoofCounters)
    BY <1>5, <1>6, <1>8, <1>9 DEF Together
  <2>3. One("filter_calls", S) + One(y, S) + One(x, S)
          + One(k, {"filter_invalid_source_team"}) + One(k, {"filter_invalid_target_team"})
          + One(k, {"filter_neutral"}) + One(k, {"filter_midboss"}) + One(k, BitsetCounters) + One(k, {"filter_forced"})
          + One(k, {"same_team_calls", "same_team_allowed", "same_team_denied"})
          + One(k, {"objective_calls", "objective_allowed", "objective_denied"})
          + One(k, SourceSpoofCounters) + One(k, TargetSpoofCounters) <= 1
    BY <1>10 DEF One, BitsetCounters, SourceSpoofCounters, TargetSpoofCounters
  <2>4. Sum(S) <= 3
    <3> HIDE DEF S, Sum
    <3>1. /\ Advances(n1, S) \in Nat /\ Advances(n2, S) \in Nat /\ Advances(i1, S) \in Nat /\ Advances(i2, S) \in Nat
          /\ Advances(s1, S) \in Nat /\ Advances(s2, S) \in Nat /\ Advances(o1, S) \in Nat /\ Advances(o2, S) \in Nat
          /\ Advances(m1, S) \in Nat /\ Advances(m2, S) \in Nat /\ Advances(g1, S) \in Nat /\ Advances(g2, S) \in Nat
          /\ Advances(t1, S) \in Nat /\ Advances(t2, S) \in Nat /\ Advances(bits, S) \in Nat /\ Advances(force, S) \in Nat
      BY <1>16
    <3>2. /\ One("filter_calls", S) \in Nat /\ One(y, S) \in Nat /\ One(x, S) \in Nat
          /\ One(k, {"filter_invalid_source_team"}) \in Nat /\ One(k, {"filter_invalid_target_team"}) \in Nat
          /\ One(k, {"filter_neutral"}) \in Nat /\ One(k, {"filter_midboss"}) \in Nat
          /\ One(k, BitsetCounters) \in Nat /\ One(k, {"filter_forced"}) \in Nat
          /\ One(k, {"same_team_calls", "same_team_allowed", "same_team_denied"}) \in Nat
          /\ One(k, {"objective_calls", "objective_allowed", "objective_denied"}) \in Nat
          /\ One(k, SourceSpoofCounters) \in Nat /\ One(k, TargetSpoofCounters) \in Nat
      BY DEF One
    <3>3. One(k, NeutralizeCounters) \in Nat /\ One(k, NeutralizeCounters) <= 1
      BY DEF One
    <3>4. Advances(n1, S) + Advances(n2, S) <= 2
      BY <2>1, <3>1, <3>3
    <3> DEFINE others ==
      One("filter_calls", S) + One(y, S) + One(x, S)
        + Advances(i1, S) + Advances(i2, S) + Advances(m1, S) + Advances(m2, S) + Advances(force, S) + Advances(bits, S)
        + (Advances(s1, S) + Advances(s2, S)) + (Advances(o1, S) + Advances(o2, S))
        + (Advances(g1, S) + Advances(g2, S)) + (Advances(t1, S) + Advances(t2, S))
    <3>5. others <= 1
      BY <2>1, <2>2, <2>3, <3>1, <3>2
    <3>6. Sum(S) = Advances(n1, S) + Advances(n2, S) + others
      BY <3>1, <3>2 DEF Sum
    <3>7. Advances(n1, S) + Advances(n2, S) \in Int
      BY <3>1
    <3>8. others \in Int
      BY <3>1, <3>2
    <3> HIDE DEF others
    <3>9. QED
      BY <3>4, <3>5, <3>6, <3>7, <3>8
  <2> HIDE DEF Sum
  <2>5. QED
    BY <1>17, <2>4
<1>20. QED
  BY <1>15, <1>18, <1>19 DEF Fair

-----------------------------------------------------------------------------
(* The other paths are put together from pieces that balance.              *)

UpTo(n, p, some) ==
  /\ Path(p)
  /\ \A b \in AllBalances : Advances(p, b.whole) = Advances(p, b.parts)
  /\ \A k : Advances(p, {k}) <= IF k \in some THEN n ELSE 0

LEMMA UpToFair ==
  ASSUME NEW p, NEW some, UpTo(3, p, some)
  PROVE  Fair(p)
<1>1. \A k : Advances(p, {k}) \in Nat
  BY PathFinite DEF UpTo
<1>2. QED
  BY <1>1 DEF UpTo, Fair

LEMMA AloneUpTo ==
  ASSUME NEW p, NEW some, Alone(p, some), NEW n \in Nat \ {0}
  PROVE  UpTo(n, p, some)
<1>1. \A k : Advances(p, {k}) \in Nat
  BY PathFinite DEF Alone
<1>2. ASSUME NEW k PROVE Advances(p, {k}) <= IF k \in some THEN n ELSE 0
  <2>1. Advances(p, {k}) <= IF k \in some THEN 1 ELSE 0
    BY DEF Alone, One
  <2>2. Advances(p, {k}) \in Nat
    BY <1>1
  <2>3. QED
    BY <2>1, <2>2
<1>3. QED
  BY <1>2 DEF Alone, UpTo

\* Pieces that advance the same counters.
LEMMA Repeated ==
  ASSUME NEW n \in Nat, NEW m \in Nat, NEW p, NEW q, NEW some, UpTo(n, p, some), UpTo(m, q, some)
  PROVE  UpTo(n + m, p \o q, some)
<1>1. Path(p \o q) /\ \A S : Advances(p \o q, S) = Advances(p, S) + Advances(q, S)
  BY Joined DEF UpTo
<1>2. \A S : Advances(p, S) \in Nat /\ Advances(q, S) \in Nat
  BY PathFinite DEF UpTo
<1>3. \A b \in AllBalances : Advances(p \o q, b.whole) = Advances(p \o q, b.parts)
  BY <1>1 DEF UpTo
<1>4. ASSUME NEW k PROVE Advances(p \o q, {k}) <= IF k \in some THEN n + m ELSE 0
  <2>1. /\ Advances(p, {k}) <= IF k \in some THEN n ELSE 0
        /\ Advances(q, {k}) <= IF k \in some THEN m ELSE 0
    BY DEF UpTo
  <2>2. Advances(p, {k}) \in Nat /\ Advances(q, {k}) \in Nat /\ Advances(p \o q, {k}) = Advances(p, {k}) + Advances(q, {k})
    BY <1>1, <1>2
  <2>3. QED
    BY <2>1, <2>2
<1>5. QED
  BY <1>1, <1>3, <1>4 DEF UpTo

\* Pieces that advance different counters.
LEMMA Apart ==
  ASSUME NEW n \in Nat, NEW p, NEW q, NEW some, NEW more, some \intersect more = {},
         UpTo(n, p, some), UpTo(n, q, more)
  PROVE  UpTo(n, p \o q, some \union more)
<1>1. Path(p \o q) /\ \A S : Advances(p \o q, S) = Advances(p, S) + Advances(q, S)
  BY Joined DEF UpTo
<1>2. \A S : Advances(p, S) \in Nat /\ Advances(q, S) \in Nat
  BY PathFinite DEF UpTo
<1>3. \A b \in AllBalances : Advances(p \o q, b.whole) = Advances(p \o q, b.parts)
  BY <1>1 DEF UpTo
<1>4. ASSUME NEW k PROVE Advances(p \o q, {k}) <= IF k \in some \union more THEN n ELSE 0
  <2>1. /\ Advances(p, {k}) <= IF k \in some THEN n ELSE 0
        /\ Advances(q, {k}) <= IF k \in more THEN n ELSE 0
    BY DEF UpTo
  <2>2. Advances(p, {k}) \in Nat /\ Advances(q, {k}) \in Nat /\ Advances(p \o q, {k}) = Advances(p, {k}) + Advances(q, {k})
    BY <1>1, <1>2
  <2>3. QED
    BY <2>1, <2>2
<1>5. QED
  BY <1>1, <1>3, <1>4 DEF UpTo

LEMMA Associative ==
  ASSUME NEW p, NEW q, NEW r, Path(p), Path(q), Path(r)
  PROVE  (p \o q) \o r = p \o (q \o r)
<1>1. PICK A, B, C : p \in Seq(A) /\ q \in Seq(B) /\ r \in Seq(C)
  BY DEF Path
<1>2. p \in Seq(A \union B \union C) /\ q \in Seq(A \union B \union C) /\ r \in Seq(A \union B \union C)
  BY <1>1, SeqMonotonic
<1>3. QED
  BY <1>2, ConcatAssociative

\* Two counters that balance each other.
LEMMA PairAlone ==
  ASSUME NEW k, NEW l, k # l, \A b \in AllBalances : Excess(k, b) + Excess(l, b) = 0
  PROVE  Alone(<<k, l>>, {k, l})
<1> DEFINE p == <<k, l>>
<1>1. Path(p) /\ \A S : Advances(p, S) = One(k, S) + One(l, S)
  BY Pair
<1> HIDE DEF p
<1>2. \A b \in AllBalances : One(k, b.whole) + One(l, b.whole) = One(k, b.parts) + One(l, b.parts)
  BY DEF Excess, One
<1>3. \A m : One(k, {m}) + One(l, {m}) <= One(m, {k, l})
  BY DEF One
<1>4. Alone(p, {k, l})
  BY <1>1, <1>2, <1>3 DEF Alone
<1>5. QED
  BY <1>4 DEF p

LEMMA Wider ==
  ASSUME NEW p, NEW some, NEW more, some \subseteq more, Alone(p, some)
  PROVE  Alone(p, more)
<1>1. ASSUME NEW m PROVE Advances(p, {m}) <= One(m, more)
  <2>1. Advances(p, {m}) \in Nat
    BY PathFinite DEF Alone
  <2>2. Advances(p, {m}) <= One(m, some)
    BY DEF Alone
  <2>3. QED
    BY <2>1, <2>2 DEF One
<1>2. QED
  BY <1>1 DEF Alone

\* A call with one of two outcomes, counted one after the other.
LEMMA OutcomeAlone ==
  ASSUME NEW k, NEW l, NEW m, k # l, k # m, NEW x \in {l, m},
         \A b \in AllBalances : Excess(k, b) + Excess(l, b) = 0 /\ Excess(l, b) = Excess(m, b)
  PROVE  Alone(<<k>> \o <<x>>, {k, l, m})
<1> DEFINE p == <<k, x>>
<1>1. \A b \in AllBalances : Excess(k, b) + Excess(x, b) = 0
  OBVIOUS
<1>2. Alone(p, {k, x})
  BY <1>1, PairAlone
<1> HIDE DEF p
<1>3. Alone(p, {k, l, m})
  BY <1>2, Wider
<1>4. QED
  BY <1>3, PairJoined DEF p

LEMMA NothingFair == Fair(<<>>)
BY Nothing DEF Fair

RecordCounters == {"damage_seen", "damage_counted", "entity_input_seen", "entity_input_counted",
                   "entity_output_seen", "entity_output_counted", "entity_touch_seen", "entity_touch_counted"}

LEMMA RecordFair ==
  ASSUME NEW cf, NEW event \in Events
  PROVE  Alone(Record(cf, event), RecordCounters)
<1>1. CASE event \notin cf.mounts
  <2>1. Alone(<<>>, RecordCounters) /\ Record(cf, event) = <<>>
    BY <1>1, NothingTogether DEF Record
  <2>2. QED
    BY <2>1
<1>2. CASE event \in cf.mounts
  <2> DEFINE k == Seen(event)
             l == Counted(event)
  <2>1. k # l /\ k \in RecordCounters /\ l \in RecordCounters
    BY DEF Seen, Counted, Events, RecordCounters
  <2>2. \A b \in AllBalances : Excess(k, b) + Excess(l, b) = 0
    BY RecordExcess
  <2>3. Record(cf, event) = <<k, l>>
    BY <1>2 DEF Record
  <2> HIDE DEF k, l
  <2>4. Alone(<<k, l>>, {k, l})
    BY <2>1, <2>2, PairAlone
  <2>5. Alone(<<k, l>>, RecordCounters)
    BY <2>1, <2>4, Wider
  <2>6. QED
    BY <2>3, <2>5
<1>3. QED
  BY <1>1, <1>2

LEMMA NeutralizeUpTo ==
  ASSUME NEW cf, NEW e
  PROVE  UpTo(1, Neutralize(cf, e), NeutralizeCounters) /\ UpTo(3, Neutralize(cf, e), NeutralizeCounters)
<1>1. Alone(Neutralize(cf, e), NeutralizeCounters)
  BY NeutralizeFair DEF Alone
<1>2. QED
  BY <1>1, AloneUpTo

LEMMA ThreeNeutralized ==
  ASSUME NEW cf, NEW d, NEW e, NEW f
  PROVE  UpTo(3, Neutralize(cf, d) \o Neutralize(cf, e) \o Neutralize(cf, f), NeutralizeCounters)
<1>1. UpTo(2, Neutralize(cf, d) \o Neutralize(cf, e), NeutralizeCounters)
  <2>1. UpTo(1 + 1, Neutralize(cf, d) \o Neutralize(cf, e), NeutralizeCounters)
    BY NeutralizeUpTo, Repeated
  <2>2. QED
    BY <2>1
<1>2. UpTo(2 + 1, Neutralize(cf, d) \o Neutralize(cf, e) \o Neutralize(cf, f), NeutralizeCounters)
  BY <1>1, NeutralizeUpTo, Repeated
<1>3. QED
  BY <1>2

LEMMA IoFair ==
  ASSUME NEW cf, NEW in, NEW event \in Events
  PROVE  Fair(IoPath(cf, event, in))
<1> DEFINE n == Neutralize(cf, in.self) \o Neutralize(cf, in.activator) \o Neutralize(cf, in.caller)
<1>1. UpTo(3, n, NeutralizeCounters)
  BY ThreeNeutralized
<1>2. NeutralizeCounters \intersect RecordCounters = {}
  BY DEF NeutralizeCounters, RecordCounters
<1>3. IoPath(cf, event, in) = n \o Record(cf, event)
  BY DEF IoPath
<1> HIDE DEF n
<1>4. UpTo(3, n \o Record(cf, event), NeutralizeCounters \union RecordCounters)
  BY <1>1, <1>2, RecordFair, AloneUpTo, Apart
<1>5. QED
  BY <1>3, <1>4, UpToFair

LEMMA ClassifierFair ==
  ASSUME NEW cf, NEW in
  PROVE  Fair(ClassifierPath(cf, in))
<1> DEFINE n == Neutralize(cf, in.target)
           c == <<"classifier_calls">>
           i == IF in.bit = "invalid" THEN <<"classifier_invalid">> ELSE <<>>
           s == IF cf.classifier /\ in.spoofed
                THEN <<"classifier_spoof_attempts", "classifier_spoof_applied">> ELSE <<>>
           spoof == {"classifier_spoof_attempts", "classifier_spoof_applied"}
<1>1. CASE ~cf.probe
  BY <1>1, NothingFair DEF ClassifierPath
<1>2. CASE cf.probe
  <2>1. ClassifierPath(cf, in) = n \o c \o i \o s
    BY <1>2 DEF ClassifierPath, When
  <2>2. UpTo(3, n, NeutralizeCounters)
    BY NeutralizeUpTo
  <2>3. Alone(c, {"classifier_calls"}) /\ Alone(i, {"classifier_invalid"})
    BY Loose, UnbalancedExcess
  <2>4. Alone(s, spoof)
    <3>1. Alone(<<"classifier_spoof_attempts", "classifier_spoof_applied">>, spoof)
      BY PairAlone, SpoofExcess
    <3>2. QED
      BY <3>1, NothingTogether
  <2> HIDE DEF n, c, i, s
  <2>5. UpTo(3, n \o c, NeutralizeCounters \union {"classifier_calls"})
    BY <2>2, <2>3, AloneUpTo, Apart DEF NeutralizeCounters
  <2>6. UpTo(3, n \o c \o i, NeutralizeCounters \union {"classifier_calls"} \union {"classifier_invalid"})
    BY <2>3, <2>5, AloneUpTo, Apart DEF NeutralizeCounters
  <2>7. UpTo(3, n \o c \o i \o s, NeutralizeCounters \union {"classifier_calls"} \union {"classifier_invalid"} \union spoof)
    BY <2>4, <2>6, AloneUpTo, Apart DEF NeutralizeCounters
  <2>8. QED
    BY <2>1, <2>7, UpToFair
<1>3. QED
  BY <1>1, <1>2

LEMMA CallerFair ==
  ASSUME NEW cf, NEW in
  PROVE  Fair(CallerPath(cf, in))
<1> DEFINE same == SameTeam(After(cf, in.source), After(cf, in.target))
           forced == Forced(cf, in, same)
           n == Neutralize(cf, in.source) \o Neutralize(cf, IF in.one THEN After(cf, in.source) ELSE in.target)
           f == IF forced THEN <<"caller_forced">> ELSE <<>>
           c == <<"caller_calls">>
           x == IF in.result \/ forced THEN "caller_allowed" ELSE "caller_denied"
           d == IF in.unit = 26 THEN <<"caller_0x1a_candidates">> ELSE <<>>
           gate == {"caller_calls", "caller_allowed", "caller_denied"}
<1>1. CASE ~cf.probe
  BY <1>1, NothingFair DEF CallerPath
<1>2. CASE cf.probe
  <2>1. CallerPath(cf, in) = n \o f \o c \o <<x>> \o d
    BY <1>2 DEF CallerPath, When
  <2>2. UpTo(3, n, NeutralizeCounters)
    <3>1. Alone(Neutralize(cf, in.source), NeutralizeCounters)
      BY NeutralizeFair DEF Alone
    <3>2. UpTo(2, Neutralize(cf, in.source), NeutralizeCounters)
      BY <3>1, AloneUpTo
    <3>3. UpTo(2 + 1, n, NeutralizeCounters)
      BY <3>2, NeutralizeUpTo, Repeated
    <3>4. QED
      BY <3>3
  <2>3. Alone(f, {"caller_forced"}) /\ Alone(d, {"caller_0x1a_candidates"})
    BY Loose, UnbalancedExcess
  <2> DEFINE p == c \o <<x>>
  <2>4. x \in {"caller_allowed", "caller_denied"}
    OBVIOUS
  <2>5. Alone(p, gate)
    <3> HIDE DEF x
    <3>1. QED
      BY <2>4, GateExcess, OutcomeAlone
  <2>6. Path(c) /\ Path(<<x>>)
    BY Single
  <2> HIDE DEF n, f, c, x, d
  <2>7. UpTo(3, n \o f, NeutralizeCounters \union {"caller_forced"})
    BY <2>2, <2>3, AloneUpTo, Apart DEF NeutralizeCounters
  <2>8. n \o f \o c \o <<x>> = n \o f \o p
    BY <2>6, <2>7, Associative DEF UpTo
  <2>9. UpTo(3, p, gate)
    BY <2>5, AloneUpTo
  <2> HIDE DEF p
  <2>10. UpTo(3, n \o f \o p, NeutralizeCounters \union {"caller_forced"} \union gate)
    BY <2>7, <2>9, Apart DEF NeutralizeCounters
  <2>11. UpTo(3, n \o f \o p \o d, NeutralizeCounters \union {"caller_forced"} \union gate \union {"caller_0x1a_candidates"})
    BY <2>3, <2>10, AloneUpTo, Apart DEF NeutralizeCounters
  <2>12. QED
    BY <2>1, <2>8, <2>11, UpToFair
<1>3. QED
  BY <1>1, <1>2

LEMMA SecondaryFair ==
  ASSUME NEW cf, NEW in
  PROVE  Fair(SecondaryPath(cf, in))
<1> DEFINE forced == ~in.result /\ cf.secondary_allow
           n == Neutralize(cf, in.source) \o Neutralize(cf, in.target) \o Neutralize(cf, in.third)
           f == IF forced THEN <<"secondary_forced">> ELSE <<>>
           c == <<"secondary_calls">>
           x == IF in.result \/ forced THEN "secondary_allowed" ELSE "secondary_denied"
           gate == {"secondary_calls", "secondary_allowed", "secondary_denied"}
<1>1. CASE ~cf.probe
  BY <1>1, NothingFair DEF SecondaryPath
<1>2. CASE cf.probe
  <2>1. SecondaryPath(cf, in) = n \o f \o c \o <<x>>
    BY <1>2 DEF SecondaryPath, When
  <2>2. UpTo(3, n, NeutralizeCounters)
    BY ThreeNeutralized
  <2>3. Alone(f, {"secondary_forced"})
    BY Loose, UnbalancedExcess
  <2> DEFINE p == c \o <<x>>
  <2>4. x \in {"secondary_allowed", "secondary_denied"}
    OBVIOUS
  <2>5. Alone(p, gate)
    <3> HIDE DEF x
    <3>1. QED
      BY <2>4, GateExcess, OutcomeAlone
  <2>6. Path(c) /\ Path(<<x>>)
    BY Single
  <2> HIDE DEF n, f, c, x
  <2>7. UpTo(3, n \o f, NeutralizeCounters \union {"secondary_forced"})
    BY <2>2, <2>3, AloneUpTo, Apart DEF NeutralizeCounters
  <2>8. n \o f \o c \o <<x>> = n \o f \o p
    BY <2>6, <2>7, Associative DEF UpTo
  <2>9. UpTo(3, p, gate)
    BY <2>5, AloneUpTo
  <2> HIDE DEF p
  <2>10. UpTo(3, n \o f \o p, NeutralizeCounters \union {"secondary_forced"} \union gate)
    BY <2>7, <2>9, Apart DEF NeutralizeCounters
  <2>11. QED
    BY <2>1, <2>8, <2>10, UpToFair
<1>3. QED
  BY <1>1, <1>2

AttackerCounters ==
  {"attacker_valid", "attacker_invalid", "attacker_unit_types", "attacker_self", "attacker_same_team",
   "attacker_opposing", "attacker_other_team", "same_team_unit_types", "same_team_objective"}

\* What an attacker counts weighs what none does.
AsAttacker(p) ==
  /\ Path(p)
  /\ \A b \in AllBalances : Advances(p, b.whole) + One("attacker_invalid", b.parts)
                              = Advances(p, b.parts) + One("attacker_invalid", b.whole)
  /\ \A k : Advances(p, {k}) <= One(k, AttackerCounters)

RelationCounters == {"attacker_same_team", "attacker_opposing", "attacker_other_team", "same_team_unit_types"}
AsRelation(p, q) ==
  /\ Path(p) /\ Path(q)
  /\ \A b \in AllBalances : Advances(p, b.whole) + Advances(q, b.whole) + One("attacker_opposing", b.parts)
                              = Advances(p, b.parts) + Advances(q, b.parts) + One("attacker_opposing", b.whole)
  /\ \A k : Advances(p, {k}) + Advances(q, {k}) <= One(k, RelationCounters)

LEMMA RelationFair ==
  ASSUME NEW p, NEW q,
         \/ p = <<"attacker_same_team">> /\ q = <<"same_team_unit_types">>
         \/ p \in {<<"attacker_opposing">>, <<"attacker_other_team">>} /\ q = <<>>
  PROVE  AsRelation(p, q)
<1>1. CASE p = <<"attacker_same_team">> /\ q = <<"same_team_unit_types">>
  <2>1. /\ Path(p) /\ Path(q)
        /\ \A S : Advances(p, S) = One("attacker_same_team", S) /\ Advances(q, S) = One("same_team_unit_types", S)
    BY <1>1, Single
  <2>2. \A b \in AllBalances :
          One("attacker_same_team", b.whole) + One("same_team_unit_types", b.whole) + One("attacker_opposing", b.parts)
            = One("attacker_same_team", b.parts) + One("same_team_unit_types", b.parts) + One("attacker_opposing", b.whole)
    BY VictimExcess DEF Excess, One
  <2>3. \A k : One("attacker_same_team", {k}) + One("same_team_unit_types", {k}) <= One(k, RelationCounters)
    BY DEF One, RelationCounters
  <2>4. QED
    BY <2>1, <2>2, <2>3 DEF AsRelation
<1>2. ASSUME NEW x \in {"attacker_opposing", "attacker_other_team"}, p = <<x>>, q = <<>>
      PROVE  AsRelation(p, q)
  <2>1. /\ Path(p) /\ Path(q)
        /\ \A S : Advances(p, S) = One(x, S) /\ Advances(q, S) = 0
    BY <1>2, Single, Nothing
  <2>2. \A b \in AllBalances : One(x, b.whole) + 0 + One("attacker_opposing", b.parts)
                                 = One(x, b.parts) + 0 + One("attacker_opposing", b.whole)
    BY VictimExcess DEF Excess, One
  <2>3. \A k : One(x, {k}) + 0 <= One(k, RelationCounters)
    BY DEF One, RelationCounters
  <2>4. QED
    BY <2>1, <2>2, <2>3 DEF AsRelation
<1>3. QED
  BY <1>1, <1>2

LEMMA AttackerFair ==
  ASSUME NEW self, Alone(self, {"attacker_self"}), NEW object, Alone(object, {"same_team_objective"}),
         NEW relation, NEW unit, AsRelation(relation, unit)
  PROVE  AsAttacker(<<"attacker_valid", "attacker_unit_types">> \o self \o relation \o unit \o object)
<1> DEFINE v == <<"attacker_valid", "attacker_unit_types">>
           p == v \o self \o relation \o unit \o object
<1>1. Path(v) /\ \A S : Advances(v, S) = One("attacker_valid", S) + One("attacker_unit_types", S)
  BY Pair
<1>2. /\ Path(self) /\ Path(object) /\ Path(relation) /\ Path(unit)
      /\ \A S : /\ Advances(self, S) \in Nat /\ Advances(object, S) \in Nat
                /\ Advances(relation, S) \in Nat /\ Advances(unit, S) \in Nat
  BY PathFinite DEF Alone, AsRelation
<1> HIDE DEF v
<1>3. Path(p) /\ \A S : Advances(p, S) = One("attacker_valid", S) + One("attacker_unit_types", S) + Advances(self, S)
                                           + Advances(relation, S) + Advances(unit, S) + Advances(object, S)
  BY <1>1, <1>2, Joined
<1>4. ASSUME NEW b \in AllBalances
      PROVE  Advances(p, b.whole) + One("attacker_invalid", b.parts)
               = Advances(p, b.parts) + One("attacker_invalid", b.whole)
  <2> DEFINE W == b.whole
             P == b.parts
  <2>1. /\ Advances(p, W) = One("attacker_valid", W) + One("attacker_unit_types", W)
             + Advances(self, W) + Advances(relation, W) + Advances(unit, W) + Advances(object, W)
        /\ Advances(p, P) = One("attacker_valid", P) + One("attacker_unit_types", P)
             + Advances(self, P) + Advances(relation, P) + Advances(unit, P) + Advances(object, P)
    BY <1>3
  <2>2. /\ Advances(self, W) = Advances(self, P) /\ Advances(object, W) = Advances(object, P)
        /\ Advances(relation, W) + Advances(unit, W) + One("attacker_opposing", P)
             = Advances(relation, P) + Advances(unit, P) + One("attacker_opposing", W)
    BY DEF Alone, AsRelation
  <2>3. One("attacker_invalid", W) - One("attacker_invalid", P)
          = (One("attacker_valid", W) - One("attacker_valid", P))
              + (One("attacker_unit_types", W) - One("attacker_unit_types", P))
              + (One("attacker_opposing", W) - One("attacker_opposing", P))
    BY VictimExcess DEF Excess
  <2>4. /\ Advances(self, W) \in Nat /\ Advances(object, W) \in Nat /\ Advances(relation, W) \in Nat
        /\ Advances(unit, W) \in Nat /\ Advances(relation, P) \in Nat /\ Advances(unit, P) \in Nat
    BY <1>2
  <2>5. \A l, S : One(l, S) \in Nat
    BY DEF One
  <2> HIDE DEF p, W, P
  <2>6. /\ One("attacker_valid", W) \in Nat /\ One("attacker_unit_types", W) \in Nat
        /\ One("attacker_opposing", W) \in Nat /\ One("attacker_invalid", W) \in Nat
        /\ One("attacker_valid", P) \in Nat /\ One("attacker_unit_types", P) \in Nat
        /\ One("attacker_opposing", P) \in Nat /\ One("attacker_invalid", P) \in Nat
    BY <2>5
  <2> DEFINE whole == Advances(relation, W) + Advances(unit, W)
             parts == Advances(relation, P) + Advances(unit, P)
             base == One("attacker_valid", W) + One("attacker_unit_types", W)
             other == One("attacker_valid", P) + One("attacker_unit_types", P)
             extra == Advances(self, P) + Advances(object, P)
  <2>7. whole \in Nat /\ parts \in Nat /\ base \in Nat /\ other \in Nat /\ extra \in Nat
    BY <2>2, <2>4, <2>6
  <2>8. Advances(p, W) = base + extra + whole /\ Advances(p, P) = other + extra + parts
    BY <2>1, <2>2, <2>4, <2>6
  <2>9. whole + One("attacker_opposing", P) = parts + One("attacker_opposing", W)
    BY <2>2
  <2>10. One("attacker_invalid", W) - One("attacker_invalid", P)
           = (base - other) + (One("attacker_opposing", W) - One("attacker_opposing", P))
    BY <2>3, <2>6
  <2> HIDE DEF whole, parts, base, other, extra
  <2>11. Advances(p, W) + One("attacker_invalid", P) = Advances(p, P) + One("attacker_invalid", W)
    BY <2>6, <2>7, <2>8, <2>9, <2>10
  <2>12. QED
    BY <2>11 DEF W, P
<1>5. ASSUME NEW k
      PROVE  Advances(p, {k}) <= One(k, AttackerCounters)
  <2> DEFINE S == {k}
  <2>1. /\ Advances(self, S) <= One(k, {"attacker_self"}) /\ Advances(object, S) <= One(k, {"same_team_objective"})
        /\ Advances(relation, S) + Advances(unit, S) <= One(k, RelationCounters)
    BY DEF Alone, AsRelation
  <2>2. Advances(p, S) = One("attacker_valid", S) + One("attacker_unit_types", S)
             + Advances(self, S) + Advances(relation, S) + Advances(unit, S) + Advances(object, S)
    BY <1>3
  <2>3. One("attacker_valid", S) + One("attacker_unit_types", S) + One(k, {"attacker_self"})
          + One(k, {"same_team_objective"}) + One(k, RelationCounters) <= One(k, AttackerCounters)
    BY DEF One, AttackerCounters, RelationCounters
  <2>4. /\ One("attacker_valid", S) \in Nat /\ One("attacker_unit_types", S) \in Nat /\ One(k, {"attacker_self"}) \in Nat
        /\ One(k, {"same_team_objective"}) \in Nat /\ One(k, RelationCounters) \in Nat /\ One(k, AttackerCounters) \in Nat
    BY DEF One
  <2>5. /\ Advances(self, S) \in Nat /\ Advances(object, S) \in Nat
        /\ Advances(relation, S) \in Nat /\ Advances(unit, S) \in Nat
    BY <1>2
  <2> HIDE DEF p, S
  <2>6. Advances(self, S) + (Advances(relation, S) + Advances(unit, S)) + Advances(object, S)
          <= One(k, {"attacker_self"}) + One(k, RelationCounters) + One(k, {"same_team_objective"})
    BY <2>1, <2>4, <2>5
  <2>7. Advances(p, S) <= One(k, AttackerCounters)
    BY <2>2, <2>3, <2>4, <2>5, <2>6
  <2>8. QED
    BY <2>7 DEF S
<1>6. QED
  BY <1>3, <1>4, <1>5 DEF AsAttacker, v

LEMMA NoAttackerFair == AsAttacker(<<"attacker_invalid">>)
<1> DEFINE p == <<"attacker_invalid">>
<1>1. Path(p) /\ \A S : Advances(p, S) = One("attacker_invalid", S)
  BY Single
<1>2. \A k : One("attacker_invalid", {k}) <= One(k, AttackerCounters)
  BY DEF One, AttackerCounters
<1>3. \A S : One("attacker_invalid", S) \in Nat
  BY DEF One
<1> HIDE DEF p
<1>4. AsAttacker(p)
  BY <1>1, <1>2, <1>3 DEF AsAttacker
<1>5. QED
  BY <1>4 DEF p

Once(p) ==
  /\ Path(p)
  /\ \A b \in AllBalances : Advances(p, b.whole) = Advances(p, b.parts)
  /\ \A k : Advances(p, {k}) <= 1

VictimNames == {"victim_objective", "victim_neutral", "victim_midboss"}

LEMMA VictimFair ==
  ASSUME NEW n, Alone(n, NeutralizeCounters), NEW i, Alone(i, {"victim_invalid_team"}),
         NEW o, Alone(o, VictimNames), NEW t, AsAttacker(t),
         NEW x \in {"victim_unit_types", "victim_unit_type_overflow"},
         NEW y \in {"inflictor_valid", "inflictor_invalid"}
  PROVE  Once(n \o <<"victim_calls">> \o i \o <<x>> \o o \o <<y>> \o t)
<1> DEFINE c == <<"victim_calls">>
           u == <<x>>
           f == <<y>>
           p == n \o c \o i \o u \o o \o f \o t
<1>1. /\ Path(c) /\ Path(u) /\ Path(f)
      /\ \A S : Advances(c, S) = One("victim_calls", S) /\ Advances(u, S) = One(x, S) /\ Advances(f, S) = One(y, S)
  BY Single
<1>2. /\ Path(n) /\ Path(i) /\ Path(o) /\ Path(t)
      /\ \A S : /\ Advances(n, S) \in Nat /\ Advances(i, S) \in Nat
                /\ Advances(o, S) \in Nat /\ Advances(t, S) \in Nat
  BY PathFinite DEF Alone, AsAttacker
<1> HIDE DEF c, u, f
<1>3. Path(p) /\ \A S : Advances(p, S) = Advances(n, S) + One("victim_calls", S) + Advances(i, S) + One(x, S)
                                           + Advances(o, S) + One(y, S) + Advances(t, S)
  BY <1>1, <1>2, Joined
<1>4. ASSUME NEW b \in AllBalances PROVE Advances(p, b.whole) = Advances(p, b.parts)
  <2> DEFINE W == b.whole
             P == b.parts
  <2>1. /\ Advances(n, W) = Advances(n, P) /\ Advances(i, W) = Advances(i, P) /\ Advances(o, W) = Advances(o, P)
        /\ Advances(t, W) + One("attacker_invalid", P) = Advances(t, P) + One("attacker_invalid", W)
    BY DEF Alone, AsAttacker
  <2>2. One("victim_calls", W) + One(x, W) + One(y, W) + One("attacker_invalid", W)
          = One("victim_calls", P) + One(x, P) + One(y, P) + One("attacker_invalid", P)
    BY VictimExcess DEF Excess, One
  <2>3. /\ Advances(p, W) = Advances(n, W) + One("victim_calls", W) + Advances(i, W) + One(x, W)
                                           + Advances(o, W) + One(y, W) + Advances(t, W)
        /\ Advances(p, P) = Advances(n, P) + One("victim_calls", P) + Advances(i, P) + One(x, P)
                                           + Advances(o, P) + One(y, P) + Advances(t, P)
    BY <1>3
  <2>4. /\ Advances(n, W) \in Nat /\ Advances(i, W) \in Nat /\ Advances(o, W) \in Nat
        /\ Advances(t, W) \in Nat /\ Advances(t, P) \in Nat
    BY <1>2
  <2>5. \A l, S : One(l, S) \in Nat
    BY DEF One
  <2> HIDE DEF p, W, P
  <2>6. /\ One("victim_calls", W) \in Nat /\ One(x, W) \in Nat /\ One(y, W) \in Nat /\ One("attacker_invalid", W) \in Nat
        /\ One("victim_calls", P) \in Nat /\ One(x, P) \in Nat /\ One(y, P) \in Nat /\ One("attacker_invalid", P) \in Nat
    BY <2>5
  <2>7. Advances(p, W) = Advances(p, P)
    BY <2>1, <2>2, <2>3, <2>4, <2>6
  <2>8. QED
    BY <2>7 DEF W, P
<1>5. ASSUME NEW k PROVE Advances(p, {k}) <= 1
  <2> DEFINE S == {k}
  <2>1. /\ Advances(n, S) <= One(k, NeutralizeCounters) /\ Advances(i, S) <= One(k, {"victim_invalid_team"})
        /\ Advances(o, S) <= One(k, VictimNames) /\ Advances(t, S) <= One(k, AttackerCounters)
    BY DEF Alone, AsAttacker
  <2>2. Advances(p, S) = Advances(n, S) + One("victim_calls", S) + Advances(i, S) + One(x, S)
                                           + Advances(o, S) + One(y, S) + Advances(t, S)
    BY <1>3
  <2>3. One(k, NeutralizeCounters) + One("victim_calls", S) + One(k, {"victim_invalid_team"}) + One(x, S)
          + One(k, VictimNames) + One(y, S) + One(k, AttackerCounters) <= 1
    BY DEF One, NeutralizeCounters, VictimNames, AttackerCounters
  <2>4. /\ One(k, NeutralizeCounters) \in Nat /\ One("victim_calls", S) \in Nat /\ One(k, {"victim_invalid_team"}) \in Nat
        /\ One(x, S) \in Nat /\ One(k, VictimNames) \in Nat /\ One(y, S) \in Nat /\ One(k, AttackerCounters) \in Nat
    BY DEF One
  <2>5. Advances(n, S) \in Nat /\ Advances(i, S) \in Nat /\ Advances(o, S) \in Nat /\ Advances(t, S) \in Nat
    BY <1>2
  <2> HIDE DEF p, S
  <2>6. Advances(p, S) <= 1
    BY <2>1, <2>2, <2>3, <2>4, <2>5
  <2>7. QED
    BY <2>6 DEF S
<1>6. QED
  BY <1>3, <1>4, <1>5 DEF Once, c, u, f

LEMMA RelationIs ==
  ASSUME NEW d, NEW e
  PROVE  \/ SameTeam(d, e) /\ Relation(d, e) = <<"attacker_same_team">>
         \/ ~SameTeam(d, e) /\ Relation(d, e) \in {<<"attacker_opposing">>, <<"attacker_other_team">>}
<1>1. CASE SameTeam(d, e)
  <2>1. ~(d.readable /\ e.readable /\ {d.team, e.team} = {2, 3})
    BY <1>1 DEF SameTeam
  <2>2. QED
    BY <1>1, <2>1 DEF Relation
<1>2. CASE ~SameTeam(d, e)
  BY <1>2 DEF Relation
<1>3. QED
  BY <1>1, <1>2

LEMMA NamesFair ==
  ASSUME NEW name
  PROVE  Alone(Name(<<"victim_objective", "victim_neutral", "victim_midboss">>, name), VictimNames)
<1> DEFINE o == IF name = "objective" THEN <<"victim_objective">> ELSE <<>>
           m1 == IF name = "neutral" THEN <<"victim_neutral">> ELSE <<>>
           m2 == IF name = "midboss" THEN <<"victim_midboss">> ELSE <<>>
<1>1. Name(<<"victim_objective", "victim_neutral", "victim_midboss">>, name) = o \o m1 \o m2
  BY DEF Name, When
<1>2. Alone(o, {"victim_objective"}) /\ Alone(m1, {"victim_neutral"}) /\ Alone(m2, {"victim_midboss"})
  BY Loose, UnbalancedExcess
<1> HIDE DEF o, m1, m2
<1>3. UpTo(1, o \o m1, {"victim_objective"} \union {"victim_neutral"})
  BY <1>2, AloneUpTo, Apart
<1>4. UpTo(1, o \o m1 \o m2, {"victim_objective"} \union {"victim_neutral"} \union {"victim_midboss"})
  BY <1>2, <1>3, AloneUpTo, Apart
<1>5. Alone(o \o m1 \o m2, VictimNames)
  BY <1>4 DEF UpTo, Alone, One, VictimNames
<1>6. QED
  BY <1>1, <1>5

LEMMA VictimPathFair ==
  ASSUME NEW cf, NEW in
  PROVE  Once(VictimPath(cf, in))
<1> DEFINE victim == After(cf, in.victim)
           attacker == IF in.self THEN victim ELSE in.attacker
           same == SameTeam(attacker, victim)
           n == Neutralize(cf, in.victim)
           i == IF ~victim.readable THEN <<"victim_invalid_team">> ELSE <<>>
           x == IF in.unit < 64 THEN "victim_unit_types" ELSE "victim_unit_type_overflow"
           o == Name(<<"victim_objective", "victim_neutral", "victim_midboss">>, in.name)
           y == IF in.inflictor THEN "inflictor_valid" ELSE "inflictor_invalid"
           self == IF in.self THEN <<"attacker_self">> ELSE <<>>
           relation == Relation(attacker, victim)
           unit == IF same THEN <<"same_team_unit_types">> ELSE <<>>
           object == IF same /\ in.name = "objective" THEN <<"same_team_objective">> ELSE <<>>
           v == <<"attacker_valid", "attacker_unit_types">> \o self \o relation \o unit \o object
           t == IF attacker.null THEN <<"attacker_invalid">> ELSE v
<1>1. CASE ~cf.probe \/ in.recursive
  BY <1>1, Nothing DEF VictimPath, Once
<1>2. CASE cf.probe /\ ~in.recursive
  <2>1. VictimPath(cf, in) = n \o <<"victim_calls">> \o i \o <<x>> \o o \o <<y>> \o t
    BY <1>2 DEF VictimPath, When
  <2>2. Alone(n, NeutralizeCounters) /\ Alone(o, VictimNames)
    BY NeutralizeFair, NamesFair DEF Alone
  <2>3. Alone(i, {"victim_invalid_team"}) /\ Alone(self, {"attacker_self"}) /\ Alone(object, {"same_team_objective"})
    BY Loose, UnbalancedExcess
  <2>4. AsRelation(relation, unit)
    BY RelationIs, RelationFair
  <2>5. x \in {"victim_unit_types", "victim_unit_type_overflow"} /\ y \in {"inflictor_valid", "inflictor_invalid"}
    OBVIOUS
  <2> HIDE DEF n, i, x, o, y, self, relation, unit, object
  <2>6. AsAttacker(v)
    BY <2>3, <2>4, AttackerFair
  <2>7. AsAttacker(t)
    BY <2>6, NoAttackerFair
  <2> HIDE DEF t
  <2>8. QED
    BY <2>1, <2>2, <2>3, <2>5, <2>7, VictimFair
<1>3. QED
  BY <1>1, <1>2

FriendlyFireCounters ==
  {"damage_callbacks", "skipped_recursive", "missing_identity", "missing_designer_name", "non_objective_victims",
   "objective_candidates", "invalid_team", "team_spoof_attempts", "team_spoof_applied", "team_spoof_restored"}

\* What begin_friendly_fire_damage and end_friendly_fire_damage count.
LEMMA FriendlyFireFair ==
  ASSUME NEW cf, NEW in
  PROVE  Together(FriendlyFirePath(cf, in), When(Applied(cf, in), "team_spoof_restored"), FriendlyFireCounters)
<1> DEFINE victim == After(cf, in.victim)
           refusal == Refusal(victim, in)
           g == FriendlyFirePath(cf, in)
           e == IF Applied(cf, in) THEN <<"team_spoof_restored">> ELSE <<>>
<1>1. CASE ~cf.friendly_fire
  <2>1. g = <<>> /\ e = <<>>
    BY <1>1 DEF FriendlyFirePath, Applied
  <2>2. QED
    BY <2>1, NothingTogether DEF When
<1>2. CASE cf.friendly_fire /\ refusal # <<>>
  <2>1. PICK r \in {"skipped_recursive", "missing_identity", "missing_designer_name", "non_objective_victims"} :
          refusal = <<r>>
    BY <1>2 DEF Refusal, When
  <2>2. g = <<"damage_callbacks">> \o <<r>> /\ e = <<>>
    BY <1>2, <2>1 DEF FriendlyFirePath, Applied
  <2> HIDE DEF g, e
  <2>3. Path(g) /\ Path(e) /\ \A S : Advances(g, S) = One("damage_callbacks", S) + One(r, S) /\ Advances(e, S) = 0
    BY <2>2, Single, Nothing, Joined
  <2>4. \A b \in AllBalances : One("damage_callbacks", b.whole) + One(r, b.whole) + 0
                                 = One("damage_callbacks", b.parts) + One(r, b.parts) + 0
    BY FriendlyFireExcess DEF Excess, One
  <2>5. \A k : One("damage_callbacks", {k}) + One(r, {k}) + 0 <= One(k, FriendlyFireCounters)
    BY DEF One, FriendlyFireCounters
  <2>6. Together(g, e, FriendlyFireCounters)
    BY <2>3, <2>4, <2>5 DEF Together
  <2>7. QED
    BY <2>6 DEF g, e, When
<1>3. CASE cf.friendly_fire /\ refusal = <<>>
  <2> DEFINE w == SpoofPath(cf, victim)
             c == <<"damage_callbacks", "objective_candidates">>
  <2>1. g = c \o w
    <3> DEFINE d == <<"damage_callbacks">>
               f == <<"objective_candidates">>
    <3>1. Path(d) /\ Path(f) /\ c = d \o f
      BY Single, PairJoined
    <3>2. Path(w)
      BY Single, Nothing, Pair DEF SpoofPath
    <3>3. g = d \o (f \o w)
      BY <1>3 DEF FriendlyFirePath
    <3> HIDE DEF c, d, f, g, w
    <3>4. QED
      BY <3>1, <3>2, <3>3, Associative
  <2>2. Alone(c, {"damage_callbacks", "objective_candidates"})
    BY PairAlone, FriendlyFireExcess
  <2>3. Together(w, e, {"invalid_team", "team_spoof_attempts", "team_spoof_applied", "team_spoof_restored"})
    <3>1. CASE Applied(cf, in)
      <4>1. w = <<"team_spoof_attempts", "team_spoof_applied">> /\ e = <<"team_spoof_restored">>
        BY <3>1 DEF Applied, SpoofPath
      <4> HIDE DEF w, e
      <4>2. Path(w) /\ Path(e)
            /\ \A S : /\ Advances(w, S) = One("team_spoof_attempts", S) + One("team_spoof_applied", S)
                      /\ Advances(e, S) = One("team_spoof_restored", S)
        BY <4>1, Pair, Single
      <4>3. \A b \in AllBalances :
              One("team_spoof_attempts", b.whole) + One("team_spoof_applied", b.whole) + One("team_spoof_restored", b.whole)
                = One("team_spoof_attempts", b.parts) + One("team_spoof_applied", b.parts) + One("team_spoof_restored", b.parts)
        BY FriendlyFireExcess DEF Excess, One
      <4>4. \A k : One("team_spoof_attempts", {k}) + One("team_spoof_applied", {k}) + One("team_spoof_restored", {k})
                     <= One(k, {"invalid_team", "team_spoof_attempts", "team_spoof_applied", "team_spoof_restored"})
        BY DEF One
      <4>5. QED
        BY <4>2, <4>3, <4>4 DEF Together
    <3>2. CASE ~Applied(cf, in)
      <4>1. w \in {<<>>, <<"invalid_team">>} /\ e = <<>>
        BY <1>3, <3>2 DEF Applied, SpoofPath
      <4> HIDE DEF w, e
      <4>2. Alone(w, {"invalid_team"})
        BY <4>1, Loose, UnbalancedExcess
      <4>3. Alone(w, {"invalid_team", "team_spoof_attempts", "team_spoof_applied", "team_spoof_restored"})
        BY <4>2, Wider
      <4>4. Path(e) /\ \A S : Advances(e, S) = 0
        BY <4>1, Nothing
      <4>5. \A S : Advances(w, S) \in Nat
        BY <4>3, PathFinite DEF Alone
      <4>6. QED
        BY <4>3, <4>4, <4>5 DEF Together, Alone
    <3>3. QED
      BY <3>1, <3>2
  <2> HIDE DEF c, w, g, e
  <2>4. /\ Path(c) /\ Path(w) /\ Path(e) /\ Path(g)
        /\ \A S : /\ Advances(c, S) \in Nat /\ Advances(w, S) \in Nat /\ Advances(e, S) \in Nat
                  /\ Advances(g, S) = Advances(c, S) + Advances(w, S)
    BY <2>1, <2>2, <2>3, PathFinite, Joined DEF Alone, Together
  <2>5. ASSUME NEW b \in AllBalances
        PROVE  Advances(g, b.whole) + Advances(e, b.whole) = Advances(g, b.parts) + Advances(e, b.parts)
    BY <2>2, <2>3, <2>4 DEF Alone, Together
  <2>6. ASSUME NEW k PROVE Advances(g, {k}) + Advances(e, {k}) <= One(k, FriendlyFireCounters)
    <3>1. /\ Advances(c, {k}) <= One(k, {"damage_callbacks", "objective_candidates"})
          /\ Advances(w, {k}) + Advances(e, {k})
               <= One(k, {"invalid_team", "team_spoof_attempts", "team_spoof_applied", "team_spoof_restored"})
      BY <2>2, <2>3 DEF Alone, Together
    <3>2. One(k, {"damage_callbacks", "objective_candidates"})
            + One(k, {"invalid_team", "team_spoof_attempts", "team_spoof_applied", "team_spoof_restored"})
            <= One(k, FriendlyFireCounters)
      BY DEF One, FriendlyFireCounters
    <3>3. /\ One(k, {"damage_callbacks", "objective_candidates"}) \in Nat
          /\ One(k, {"invalid_team", "team_spoof_attempts", "team_spoof_applied", "team_spoof_restored"}) \in Nat
          /\ One(k, FriendlyFireCounters) \in Nat
      BY DEF One
    <3>4. QED
      BY <2>4, <3>1, <3>2, <3>3
  <2>7. Together(g, e, FriendlyFireCounters)
    BY <2>4, <2>5, <2>6 DEF Together
  <2>8. QED
    BY <2>7 DEF g, e, When
<1>4. QED
  BY <1>1, <1>2, <1>3

LEMMA DamageFair ==
  ASSUME NEW cf, NEW in
  PROVE  Fair(DamagePath(cf, in))
<1> DEFINE v == VictimPath(cf, in)
           g == FriendlyFirePath(cf, in)
           r == IF in.recursive THEN <<>> ELSE Record(cf, "damage")
           e == When(Applied(cf, in), "team_spoof_restored")
           p == v \o g \o r \o e
<1>1. DamagePath(cf, in) = p
  BY DEF DamagePath
<1>2. Once(v) /\ Together(g, e, FriendlyFireCounters)
  BY VictimPathFair, FriendlyFireFair
<1>3. Once(r)
  <2>1. Once(<<>>)
    BY Nothing DEF Once
  <2>2. Once(Record(cf, "damage"))
    <3>1. "damage" \in Events
      BY DEF Events
    <3>2. Alone(Record(cf, "damage"), RecordCounters)
      BY <3>1, RecordFair
    <3> DEFINE q == Record(cf, "damage")
    <3>3. Alone(q, RecordCounters) /\ \A k : Advances(q, {k}) \in Nat
      BY <3>2, PathFinite DEF Alone
    <3> HIDE DEF q
    <3>4. ASSUME NEW k PROVE Advances(q, {k}) <= 1
      <4>1. Advances(q, {k}) <= One(k, RecordCounters)
        BY <3>3 DEF Alone
      <4>2. One(k, RecordCounters) \in Nat /\ One(k, RecordCounters) <= 1
        BY DEF One
      <4>3. QED
        BY <3>3, <4>1, <4>2
    <3>5. Once(q)
      BY <3>3, <3>4 DEF Alone, Once
    <3>6. QED
      BY <3>5 DEF q
  <2>3. QED
    BY <2>1, <2>2
<1> HIDE DEF v, g, r, e
<1>4. /\ Path(v) /\ Path(g) /\ Path(r) /\ Path(e)
      /\ \A S : /\ Advances(v, S) \in Nat /\ Advances(g, S) \in Nat
                /\ Advances(r, S) \in Nat /\ Advances(e, S) \in Nat
  BY <1>2, <1>3, PathFinite DEF Once, Together
<1>5. Path(p) /\ \A S : Advances(p, S) = Advances(v, S) + Advances(g, S) + Advances(r, S) + Advances(e, S)
  BY <1>4, Joined
<1>6. ASSUME NEW b \in AllBalances PROVE Advances(p, b.whole) = Advances(p, b.parts)
  <2>1. /\ Advances(v, b.whole) = Advances(v, b.parts) /\ Advances(r, b.whole) = Advances(r, b.parts)
        /\ Advances(g, b.whole) + Advances(e, b.whole) = Advances(g, b.parts) + Advances(e, b.parts)
    BY <1>2, <1>3 DEF Once, Together
  <2>2. QED
    BY <1>4, <1>5, <2>1
<1>7. ASSUME NEW k PROVE Advances(p, {k}) <= 3
  <2>1. /\ Advances(v, {k}) <= 1 /\ Advances(r, {k}) <= 1
        /\ Advances(g, {k}) + Advances(e, {k}) <= One(k, FriendlyFireCounters)
    BY <1>2, <1>3 DEF Once, Together
  <2>2. One(k, FriendlyFireCounters) \in Nat /\ One(k, FriendlyFireCounters) <= 1
    BY DEF One
  <2>3. QED
    BY <1>4, <1>5, <2>1, <2>2
<1>8. QED
  BY <1>1, <1>5, <1>6, <1>7 DEF Fair

-----------------------------------------------------------------------------
\* The paths of the code: any detour and input, in any environment with the probe enabled or disabled
\* (the hooks are installed all the same).
IsDetourPath(probe, p) ==
  \E cf, in :
    /\ cf.probe = probe
    /\ \/ p = FilterPath(cf, in) \/ p = ClassifierPath(cf, in) \/ p = CallerPath(cf, in)
       \/ p = SecondaryPath(cf, in) \/ p = DamagePath(cf, in)
       \/ \E event \in Events : p = IoPath(cf, event, in) \/ p = Record(cf, event)

\* Every scenario is of these paths, in environments with the probe or in environments without,
\* asks no more of its counters than their balances, and lists what the paths advance.
OfDetours ==
  \A n \in DOMAIN Scenarios :
    \E probe \in BOOLEAN :
      /\ Scenarios[n].balances \subseteq BalancesOf(probe)
      /\ \A p \in Scenarios[n].paths :
           IsDetourPath(probe, p) /\ \A i \in DOMAIN p : p[i] \in Listed(n)

\* What is proved of them.
FairOf(probe, p) ==
  /\ Path(p)
  /\ \A b \in BalancesOf(probe) : Advances(p, b.whole) = Advances(p, b.parts)
  /\ \A k : Advances(p, {k}) <= 3

\* A result of the filter without its call unbalances nothing but the results.
LEMMA DisabledFilterFair ==
  ASSUME NEW cf, NEW in, cf.probe = FALSE
  PROVE  FairOf(FALSE, FilterPath(cf, in))
<1>1. PICK k \in {"filter_allowed", "filter_denied"} : FilterPath(cf, in) = <<k>>
  BY DEF FilterPath
<1>2. Path(<<k>>) /\ \A S : Advances(<<k>>, S) = One(k, S)
  BY Single
<1>3. ASSUME NEW b \in BalancesOf(FALSE) PROVE One(k, b.whole) = One(k, b.parts)
  BY DEF BalancesOf, AllBalances, FilterResults, Adds, One, Seen, Counted, Events
<1>4. \A l : One(k, {l}) <= 3
  BY DEF One
<1>5. QED
  BY <1>1, <1>2, <1>3, <1>4 DEF FairOf

(* Whatever a detour finds, what one call counts adds up, as BalancesOf    *)
(* says of environments with the probe and of those without.               *)
THEOREM PathsBalance ==
  ASSUME NEW probe \in BOOLEAN, NEW p, IsDetourPath(probe, p)
  PROVE  FairOf(probe, p)
<1>1. PICK cf, in :
        /\ cf.probe = probe
        /\ \/ p = FilterPath(cf, in) \/ p = ClassifierPath(cf, in) \/ p = CallerPath(cf, in)
           \/ p = SecondaryPath(cf, in) \/ p = DamagePath(cf, in)
           \/ \E event \in Events : p = IoPath(cf, event, in) \/ p = Record(cf, event)
  BY DEF IsDetourPath
<1>2. Fair(p) => FairOf(probe, p)
  BY DEF Fair, FairOf, BalancesOf
<1>3. CASE p = FilterPath(cf, in)
  <2>1. CASE probe = TRUE
    BY <1>1, <1>2, <1>3, <2>1, FilterFair
  <2>2. CASE probe = FALSE
    BY <1>1, <1>3, <2>2, DisabledFilterFair
  <2>3. QED
    BY <2>1, <2>2
<1>4. CASE p = ClassifierPath(cf, in)
  BY <1>2, <1>4, ClassifierFair
<1>5. CASE p = CallerPath(cf, in)
  BY <1>2, <1>5, CallerFair
<1>6. CASE p = SecondaryPath(cf, in)
  BY <1>2, <1>6, SecondaryFair
<1>7. CASE p = DamagePath(cf, in)
  BY <1>2, <1>7, DamageFair
<1>8. ASSUME NEW event \in Events, p = IoPath(cf, event, in) PROVE FairOf(probe, p)
  BY <1>2, <1>8, IoFair
<1>9. ASSUME NEW event \in Events, p = Record(cf, event) PROVE FairOf(probe, p)
  BY <1>2, <1>9, RecordFair, AloneUpTo, UpToFair
<1>10. QED
  BY <1>1, <1>3, <1>4, <1>5, <1>6, <1>7, <1>8, <1>9

LEMMA DetoursEven == ASSUME OfDetours PROVE PathsEven
<1> SUFFICES ASSUME NEW n \in DOMAIN Scenarios, NEW p \in Scenarios[n].paths
             PROVE  Even(n, p) /\ Modest(p) /\ \A i \in DOMAIN p : p[i] \in Listed(n)
  BY DEF PathsEven
<1>1. PICK probe \in BOOLEAN :
        /\ Scenarios[n].balances \subseteq BalancesOf(probe)
        /\ \A q \in Scenarios[n].paths :
             IsDetourPath(probe, q) /\ \A i \in DOMAIN q : q[i] \in Listed(n)
  BY DEF OfDetours
<1>2. FairOf(probe, p)
  BY <1>1, PathsBalance
<1>3. QED
  BY <1>1, <1>2 DEF FairOf, Even, Modest

(* Whenever no call and no reset is in progress the counters of the probe  *)
(* balance (without the probe, all but the filter's results), whatever the *)
(* detours met, however their calls interleaved, and wherever a reset or a *)
(* snapshot came between, if the last reset met no call.                   *)
THEOREM DetoursBalanceAtRest == ASSUME OfDetours PROVE Spec => []BalancedAtRest
BY DetoursEven, BalanceAtRest

(* And a snapshot that met no call, since a reset that met none, shows     *)
(* counters that balance in the same way.                                  *)
THEOREM DetoursBalancedSnapshots == ASSUME OfDetours PROVE Spec => []SnapshotBalanced
BY DetoursEven, BalancedSnapshots

(* A reset that meets no call zeroes every counter a detour can advance, a *)
(* snapshot after it that meets none copies it.                            *)
THEOREM DetoursControlsComplete == ASSUME OfDetours PROVE Spec => ControlsReachAll
BY DetoursEven, ControlsComplete
=============================================================================
