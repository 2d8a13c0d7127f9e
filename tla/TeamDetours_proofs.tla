-------------------------- MODULE TeamDetours_proofs --------------------------
(***************************************************************************)
(* Proofs about TeamDetours, for any entities, environments and depth.     *)
(***************************************************************************)
EXTENDS TeamDetours, SequenceTheorems, TLAPS

-----------------------------------------------------------------------------
(* Restoration, entity by entity: what a step does to the stack and to the *)
(* team of e decides whether e will still get its team back.               *)

\* e's base follows its team as long as nothing spoofs it.
Follows(e) == base'[e] = IF Spoofed(stack, e) THEN base[e] ELSE team'[e]

LEMMA PushRestores ==
  ASSUME TypeOK, NEW e \in Entities, Restored(e), NEW f \in Frames, stack' = Append(stack, f),
         NEW t, base'[e] = IF Spoofed(stack, e) THEN base[e] ELSE t,
         Spoofs(f, e) => Saved(f, e) = t,
         ~Spoofs(f, e) => team'[e] = t
  PROVE  Restored(e)'
<1>1. /\ Len(stack) \in Nat /\ Len(stack') = Len(stack) + 1
      /\ \A i \in 1 .. Len(stack) : stack'[i] = stack[i]
      /\ stack'[Len(stack) + 1] = f
  BY DEF TypeOK
<1>2. \A i \in 1 .. Len(stack') : i \in 1 .. Len(stack) \/ i = Len(stack) + 1
  BY <1>1
<1>3. Spoofed(stack', e) <=> Spoofed(stack, e) \/ Spoofs(f, e)
  BY <1>1, <1>2 DEF Spoofed
<1>4. ~Spoofed(stack', e) => team'[e] = base'[e]
  BY <1>3
<1>5. ASSUME NEW i \in 1 .. Len(stack'), Spoofs(stack'[i], e),
             \A j \in 1 .. i - 1 : ~Spoofs(stack'[j], e)
      PROVE  Saved(stack'[i], e) = base'[e]
  <2>1. CASE i \in 1 .. Len(stack)
    <3>1. Spoofs(stack[i], e) /\ Spoofed(stack, e)
      BY <1>1, <1>5, <2>1 DEF Spoofed
    <3>2. \A j \in 1 .. i - 1 : ~Spoofs(stack[j], e)
      BY <1>1, <1>5, <2>1
    <3>3. Saved(stack[i], e) = base[e]
      BY <2>1, <3>1, <3>2 DEF Restored
    <3>4. QED
      BY <1>1, <2>1, <3>1, <3>3
  <2>2. CASE i = Len(stack) + 1
    <3>1. ~Spoofed(stack, e) /\ Spoofs(f, e)
      BY <1>1, <1>5, <2>2 DEF Spoofed
    <3>2. QED
      BY <1>1, <2>2, <3>1
  <2>3. QED
    BY <1>2, <2>1, <2>2
<1> QED
  BY <1>4, <1>5 DEF Restored

LEMMA SamePlaces ==
  ASSUME TypeOK, NEW e \in Entities, Restored(e), Follows(e), stack' \in Seq(Frames),
         Len(stack') \in {Len(stack), Len(stack) - 1},
         \A i \in 1 .. Len(stack') : (Spoofs(stack'[i], e) <=> Spoofs(stack[i], e))
                                    /\ (Spoofs(stack[i], e) => Saved(stack'[i], e) = Saved(stack[i], e)),
         Spoofed(stack', e) <=> Spoofed(stack, e)
  PROVE  Restored(e)'
<1>1. Len(stack) \in Nat /\ Len(stack') \in Nat /\ 1 .. Len(stack') \subseteq 1 .. Len(stack)
  BY DEF TypeOK
<1>2. ~Spoofed(stack', e) => team'[e] = base'[e]
  BY DEF Follows
<1>3. ASSUME NEW i \in 1 .. Len(stack'), Spoofs(stack'[i], e),
             \A j \in 1 .. i - 1 : ~Spoofs(stack'[j], e)
      PROVE  Saved(stack'[i], e) = base'[e]
  <2>1. i \in 1 .. Len(stack) /\ Spoofs(stack[i], e) /\ Spoofed(stack, e)
    BY <1>1, <1>3 DEF Spoofed
  <2>2. \A j \in 1 .. i - 1 : ~Spoofs(stack[j], e)
    BY <1>1, <1>3
  <2>3. Saved(stack[i], e) = base[e]
    BY <2>1, <2>2 DEF Restored
  <2>4. QED
    BY <1>3, <2>1, <2>3 DEF Follows
<1> QED
  BY <1>2, <1>3 DEF Restored

LEMMA PopFacts ==
  ASSUME TypeOK, stack # <<>>, Pop
  PROVE  /\ Len(stack) \in Nat \ {0} /\ Len(stack') = Len(stack) - 1
         /\ stack' \in Seq(Frames) /\ Top \in Frames /\ ScopeOf(Top)
         /\ \A i \in 1 .. Len(stack') : stack'[i] = stack[i]
<1>1. stack \in Seq(Frames) /\ stack # <<>> /\ \A i \in 1 .. Len(stack) : ScopeOf(stack[i])
  BY DEF TypeOK
<1>2. Len(stack) \in Nat \ {0}
  BY <1>1
<1>3. \A s \in Seq(Frames) : Len(s) \in Nat \ {0} =>
        /\ SubSeq(s, 1, Len(s) - 1) \in Seq(Frames) /\ Len(SubSeq(s, 1, Len(s) - 1)) = Len(s) - 1
        /\ \A i \in 1 .. Len(s) - 1 : SubSeq(s, 1, Len(s) - 1)[i] = s[i]
  <2> TAKE s \in Seq(Frames)
  <2> HAVE Len(s) \in Nat \ {0}
  <2> DEFINE n == Len(s) - 1
  <2>1. n \in Nat /\ \A i \in 1 .. n : s[i] \in Frames
    OBVIOUS
  <2> HIDE DEF n
  <2>2. /\ SubSeq(s, 1, n) \in Seq(Frames)
        /\ Len(SubSeq(s, 1, n)) = IF 1 <= n THEN n - 1 + 1 ELSE 0
        /\ \A i \in 1 .. n - 1 + 1 : SubSeq(s, 1, n)[i] = s[1 + i - 1]
    BY <2>1, SubSeqProperties
  <2>3. /\ n - 1 + 1 = n /\ (~(1 <= n) => n = 0)
        /\ \A i \in 1 .. n : 1 + i - 1 = i
    BY <2>1
  <2>4. /\ SubSeq(s, 1, n) \in Seq(Frames) /\ Len(SubSeq(s, 1, n)) = n
        /\ \A i \in 1 .. n : SubSeq(s, 1, n)[i] = s[i]
    BY <2>2, <2>3
  <2>5. QED
    BY <2>4 DEF n
<1>4. Len(stack) \in 1 .. Len(stack) /\ stack[Len(stack)] \in Frames
  BY <1>1, <1>2
<1> QED
  BY <1>1, <1>2, <1>3, <1>4 DEF Pop, Top

LEMMA PopRestores ==
  ASSUME TypeOK, NEW e \in Entities, Restored(e), stack # <<>>, Pop,
         IF Spoofs(Top, e) THEN team'[e] = Saved(Top, e) /\ base'[e] = base[e] ELSE Follows(e)
  PROVE  Restored(e)'
<1>1. /\ Len(stack) \in Nat \ {0} /\ Len(stack') = Len(stack) - 1 /\ stack' \in Seq(Frames)
      /\ \A i \in 1 .. Len(stack') : stack'[i] = stack[i]
  BY PopFacts
<1>2. \A i \in 1 .. Len(stack) : i \in 1 .. Len(stack') \/ i = Len(stack)
  BY <1>1
<1>3. CASE ~Spoofs(Top, e)
  <2>1. Spoofed(stack', e) <=> Spoofed(stack, e)
    BY <1>1, <1>2, <1>3 DEF Spoofed, Top
  <2>2. QED
    BY <1>1, <1>3, <2>1, SamePlaces
<1>4. CASE Spoofs(Top, e)
  <2>1. ASSUME ~Spoofed(stack', e)
        PROVE  team'[e] = base'[e]
    <3>1. \A j \in 1 .. Len(stack) - 1 : ~Spoofs(stack[j], e)
      BY <1>1, <2>1 DEF Spoofed
    <3>2. QED
      BY <1>1, <1>4, <3>1 DEF Restored, Top
  <2>2. ASSUME NEW i \in 1 .. Len(stack'), Spoofs(stack'[i], e),
               \A j \in 1 .. i - 1 : ~Spoofs(stack'[j], e)
        PROVE  Saved(stack'[i], e) = base'[e]
    <3>1. i \in 1 .. Len(stack) /\ Spoofs(stack[i], e) /\ \A j \in 1 .. i - 1 : ~Spoofs(stack[j], e)
      BY <1>1, <2>2
    <3>2. QED
      BY <1>1, <1>4, <3>1 DEF Restored
  <2>3. QED
    BY <2>1, <2>2 DEF Restored
<1> QED
  BY <1>3, <1>4

LEMMA TopTyped ==
  ASSUME TypeOK, stack # <<>>
  PROVE  Top \in Frames /\ ScopeOf(Top)
BY DEF TypeOK, Top

LEMMA TopFacts ==
  ASSUME TypeOK, stack # <<>>, NEW g \in Frames, ReplaceTop(g)
  PROVE  /\ Len(stack) \in Nat \ {0} /\ Len(stack') = Len(stack)
         /\ stack' \in Seq(Frames) /\ Top \in Frames /\ ScopeOf(Top)
         /\ \A i \in 1 .. Len(stack) : stack'[i] = IF i = Len(stack) THEN g ELSE stack[i]
BY DEF TypeOK, ReplaceTop, Top

LEMMA BeginRestores ==
  ASSUME TypeOK, NEW e \in Entities, Restored(e), stack # <<>>,
         NEW g \in Frames, ReplaceTop(g), base'[e] = base[e],
         \/ /\ Spoofs(g, e) <=> Spoofs(Top, e)
            /\ Saved(g, e) = Saved(Top, e) /\ team'[e] = team[e]
         \/ ~Spoofs(Top, e) /\ Spoofs(g, e) /\ Saved(g, e) = team[e]
  PROVE  Restored(e)'
<1>1. /\ Len(stack) \in Nat \ {0} /\ Len(stack') = Len(stack) /\ stack' \in Seq(Frames)
      /\ \A i \in 1 .. Len(stack) : stack'[i] = IF i = Len(stack) THEN g ELSE stack[i]
  BY TopFacts
<1>2. CASE (Spoofs(g, e) <=> Spoofs(Top, e)) /\ Saved(g, e) = Saved(Top, e) /\ team'[e] = team[e]
  <2>1. \A i \in 1 .. Len(stack) : (Spoofs(stack'[i], e) <=> Spoofs(stack[i], e))
                                  /\ Saved(stack'[i], e) = Saved(stack[i], e)
    BY <1>1, <1>2 DEF Top
  <2>2. Spoofed(stack', e) <=> Spoofed(stack, e)
    BY <1>1, <2>1 DEF Spoofed
  <2>3. Follows(e)
    BY <1>2 DEF Follows, Restored
  <2>4. QED
    BY <1>1, <2>1, <2>2, <2>3, SamePlaces
<1>3. CASE ~Spoofs(Top, e) /\ Spoofs(g, e) /\ Saved(g, e) = team[e]
  <2>1. Spoofed(stack', e)
    BY <1>1, <1>3 DEF Spoofed
  <2>2. ASSUME NEW i \in 1 .. Len(stack'), Spoofs(stack'[i], e),
               \A j \in 1 .. i - 1 : ~Spoofs(stack'[j], e)
        PROVE  Saved(stack'[i], e) = base'[e]
    <3>1. CASE i = Len(stack)
      <4>1. \A j \in 1 .. Len(stack) - 1 : ~Spoofs(stack[j], e)
        BY <1>1, <2>2, <3>1
      <4>2. ~Spoofed(stack, e)
        BY <1>1, <1>3, <4>1 DEF Spoofed, Top
      <4>3. QED
        BY <1>1, <1>3, <3>1, <4>2 DEF Restored
    <3>2. CASE i # Len(stack)
      <4>1. i \in 1 .. Len(stack) /\ stack'[i] = stack[i] /\ \A j \in 1 .. i - 1 : ~Spoofs(stack[j], e)
        BY <1>1, <2>2, <3>2
      <4>2. QED
        BY <2>2, <4>1 DEF Restored
    <3>3. QED
      BY <3>1, <3>2
  <2>3. QED
    BY <2>1, <2>2 DEF Restored
<1> QED
  BY <1>2, <1>3

-----------------------------------------------------------------------------
(* Types.                                                                  *)

LEMMA TeamTypes ==
  ASSUME TypeOK
  PROVE  /\ \A t : Opposing(t) \in Teams
         /\ \A P : Neutralized(P) \in [Entities -> Teams]
         /\ \A t : SpoofTeam(t) \in Teams
         /\ Recursive \in BOOLEAN
<1>1. \A t : Opposing(t) \in Teams
  BY DetourAssumption DEF Opposing
<1>2. config.neutral_team \in Teams /\ config.spoof_team \in Teams \union {OpposingTeam}
  BY DetourAssumption DEF TypeOK
<1> QED
  BY <1>1, <1>2 DEF TypeOK, Neutralized, SpoofTeam, Recursive

LEMMA RecursiveBoolean == Recursive \in BOOLEAN
  BY Zenon DEF Recursive

\* A scope as a detour creates it.
LEMMA NewFrame ==
  ASSUME NEW kind \in Kinds, NEW recursive \in BOOLEAN,
         NEW p \in Pointers, NEW q \in Pointers, NEW r \in Pointers
  PROVE  LET f == Frame(kind, recursive, p, q, r)
         IN /\ f \in Frames /\ f.kind = kind /\ f.source = p /\ f.target = q
            /\ ~f.source_applied /\ ~f.target_applied
<1>1. 0 \in Teams
  BY DetourAssumption
<1>2. QED
  BY <1>1 DEF Frame, Frames

\* One that begins before its original runs.
LEMMA EnteredFrame ==
  ASSUME NEW f \in Frames
  PROVE  LET g == [f EXCEPT !.phase = "entered"]
         IN /\ g \in Frames /\ g.kind = f.kind /\ g.source = f.source /\ g.target = f.target
            /\ g.source_applied = f.source_applied /\ g.target_applied = f.target_applied
            /\ g.phase = "entered"
  BY DEF Frames

LEMMA NewFilterScope ==
  ASSUME NEW p \in Pointers, NEW q \in Pointers, NEW now \in [Entities -> Teams], NEW after
  PROVE  LET f == FilterScope(p, q, now, after)
         IN /\ f \in Frames /\ f.kind = "filter" /\ f.source = p /\ f.target = q
            /\ f.original_source_team = IF p \in Entities THEN now[p] ELSE 0
            /\ f.original_target_team = IF q \in Entities THEN now[q] ELSE 0
<1> DEFINE f == Frame("filter", Recursive, p, q, NoEntity)
           first == IF p \in Entities THEN now[p] ELSE 0
           second == IF q \in Entities THEN now[q] ELSE 0
<1>1. first \in Teams /\ second \in Teams
  BY DetourAssumption
<1>2. f \in Frames /\ f.kind = "filter" /\ f.source = p /\ f.target = q
  <2>1. NoEntity \in Pointers
    BY DEF Pointers
  <2>2. QED
    BY <2>1, NewFrame, RecursiveBoolean DEF Kinds
<1> HIDE DEF f, first, second
<1>3. LET g == [f EXCEPT !.phase = "entered", !.original_source_team = first,
                         !.original_target_team = second]
      IN /\ g \in Frames /\ g.kind = "filter" /\ g.source = p /\ g.target = q
         /\ g.original_source_team = first /\ g.original_target_team = second
  BY <1>1, <1>2 DEF Frames
<1>4. FilterScope(p, q, now, after) = [f EXCEPT !.phase = "entered", !.original_source_team = first,
                                                  !.original_target_team = second]
  BY DEF FilterScope, f, first, second
<1>5. QED
  BY <1>3, <1>4 DEF first, second

LEMMA GivesTypes ==
  ASSUME TypeOK, NEW tm \in [Entities -> Teams], Stays(tm)
  PROVE  base' \in [Entities -> Teams]
BY DEF TypeOK, Stays

(* Every step keeps the types, and what a frame's kind says of its scope.  *)
LEMMA TypeStep ==
  ASSUME TypeOK, [Next]_vars
  PROVE  TypeOK'
<1> USE DEF TypeOK
<1>a. ASSUME NEW f \in Frames, Push(f), ScopeOf(f)
      PROVE  stack' \in Seq(Frames) /\ \A i \in 1 .. Len(stack') : ScopeOf(stack'[i])
  <2>1. /\ Len(stack) \in Nat /\ stack' = Append(stack, f) /\ stack' \in Seq(Frames)
        /\ Len(stack') = Len(stack) + 1
    BY <1>a DEF Push
  <2>2. \A i \in 1 .. Len(stack') : stack'[i] = f \/ (i \in 1 .. Len(stack) /\ stack'[i] = stack[i])
    BY <2>1
  <2>3. QED
    BY <1>a, <2>1, <2>2
<1>b. ASSUME stack # <<>>, Pop
      PROVE  stack' \in Seq(Frames) /\ \A i \in 1 .. Len(stack') : ScopeOf(stack'[i])
  <2>1. 1 .. Len(stack') \subseteq 1 .. Len(stack)
    BY <1>b, PopFacts
  <2>2. QED
    BY <1>b, <2>1, PopFacts
<1>c. ASSUME stack # <<>>, NEW g \in Frames, ReplaceTop(g), ScopeOf(g)
      PROVE  stack' \in Seq(Frames) /\ \A i \in 1 .. Len(stack') : ScopeOf(stack'[i])
  BY <1>c, TopFacts
<1>d. ASSUME stack # <<>>
      PROVE  Top \in Frames /\ ScopeOf(Top)
  <2>1. Len(stack) \in 1 .. Len(stack)
    BY <1>d
  <2>2. QED
    BY <2>1 DEF Top
<1>e. \A kind \in Kinds, p, q, r \in Pointers :
        Frame(kind, Recursive, p, q, r) \in Frames /\ ScopeOf(Frame(kind, Recursive, p, q, r))
  BY TeamTypes, DetourAssumption DEF Frame, Frames, ScopeOf
<1>f. Arguments \subseteq Pointers /\ NoEntity \in Pointers
  BY DetourAssumption DEF Pointers
<1>1. ASSUME NEW e \in Entities, NEW t \in Teams, GameSetsTeam(e, t)
      PROVE  TypeOK'
  <2>1. [team EXCEPT ![e] = t] \in [Entities -> Teams]
    OBVIOUS
  <2>2. QED
    BY <1>1, <2>1, GivesTypes DEF GameSetsTeam, Gives
<1>2. ASSUME NEW p \in Pointers, EnterDamage(p)
      PROVE  TypeOK'
  <2>1. [Frame("damage", Recursive, NoEntity, p, NoEntity) EXCEPT !.phase = "entered"] \in Frames
    BY NewFrame, EnteredFrame, RecursiveBoolean, <1>f DEF Kinds
  <2>2. ScopeOf([Frame("damage", Recursive, NoEntity, p, NoEntity) EXCEPT !.phase = "entered"])
    BY DEF Frame, ScopeOf
  <2>3. team' \in [Entities -> Teams] /\ base' \in [Entities -> Teams]
    BY <1>2, TeamTypes, GivesTypes DEF EnterDamage, Gives
  <2>4. QED
    BY <1>2, <1>a, <2>1, <2>2, <2>3 DEF EnterDamage
<1>3. CASE BeginDamage
  <2> DEFINE f == [Top EXCEPT !.phase = "original"]
             g == [f EXCEPT !.target_applied = TRUE, !.original_target_team = team[f.target]]
  <2>1. stack # <<>> /\ Top \in Frames /\ ScopeOf(Top) /\ Top.kind = "damage"
    BY <1>3, <1>d DEF BeginDamage, TopIs
  <2>2. f \in Frames /\ ScopeOf(f) /\ f.kind = "damage"
    BY <2>1 DEF Frames, ScopeOf
  <2>3. CASE FriendlyFireApplies(f)
    <3>1. f.target \in Entities /\ team' = [team EXCEPT ![f.target] = Opposing(@)] /\ ReplaceTop(g)
      BY <1>3, <2>3, DetourAssumption DEF BeginDamage, FriendlyFireApplies
    <3>2. g \in Frames /\ ScopeOf(g)
      BY <2>2, <3>1 DEF Frames, ScopeOf
    <3>3. team' \in [Entities -> Teams]
      BY <3>1, TeamTypes
    <3>4. QED
      BY <1>3, <1>c, <2>1, <3>1, <3>2, <3>3 DEF BeginDamage
  <2>4. CASE ~FriendlyFireApplies(f)
    BY <1>3, <1>c, <2>1, <2>2, <2>4 DEF BeginDamage
  <2>5. QED
    BY <2>3, <2>4
<1>4. CASE LeaveDamage
  <2>1. stack # <<>> /\ Top \in Frames
    BY <1>4, <1>d DEF LeaveDamage, TopIs
  <2>2. team' \in [Entities -> Teams]
    BY <1>4, <2>1 DEF LeaveDamage, Frames
  <2>3. QED
    BY <1>4, <1>b, <2>1, <2>2 DEF LeaveDamage
<1>5. ASSUME NEW p \in Pointers, NEW q \in Pointers, NEW r \in Pointers, EnterIo(p, q, r)
      PROVE  TypeOK'
  <2>1. team' \in [Entities -> Teams] /\ base' \in [Entities -> Teams]
    BY <1>5, TeamTypes, GivesTypes DEF EnterIo, Gives
  <2>2. QED
    BY <1>5, <1>a, <1>e, <2>1 DEF EnterIo, Kinds
<1>6. CASE LeaveIo
  BY <1>6, <1>b DEF LeaveIo, TopIs
<1>7. ASSUME NEW p \in Pointers, NEW q \in Pointers, EnterFilter(p, q)
      PROVE  TypeOK'
  <2> DEFINE now == Neutralized({p, q})
             same == {p, q} \subseteq Entities /\ now[p] = now[q]
             spoofs_source == /\ config.source_spoof /\ same /\ p # q
                              /\ Opposing(now[q]) # 0
             spoofs_target == config.target_spoof /\ same /\ p # q
             after == [e \in Entities |->
                         CASE spoofs_source /\ e = p -> Opposing(now[q])
                           [] spoofs_target /\ e = q -> SpoofTeam(now[p])
                           [] OTHER -> now[e]]
             f == FilterScope(p, q, now, after)
             marks == config.classifier /\ q # NoEntity /\ (same \/ q \in Objectives)
             g == [f EXCEPT !.source_applied = spoofs_source, !.target_applied = spoofs_target,
                            !.spoofs_classifier = marks]
             blank == [Frame("filter", Recursive, NoEntity, NoEntity, NoEntity) EXCEPT
                         !.phase = "entered"]
  <2>1. /\ Push(IF config.probe THEN g ELSE blank)
        /\ team' = IF config.probe THEN after ELSE team
        /\ Stays(now) /\ UNCHANGED <<config, slot>>
    BY <1>7 DEF EnterFilter
  <2>2. now \in [Entities -> Teams] /\ after \in [Entities -> Teams]
    BY TeamTypes
  <2>3. f \in Frames /\ f.kind = "filter" /\ f.source = p /\ f.target = q
    BY NewFilterScope, TeamTypes
  <2>4. config.source_spoof \in BOOLEAN /\ config.target_spoof \in BOOLEAN /\ config.classifier \in BOOLEAN
    BY DetourAssumption
  <2>5. g \in Frames /\ ScopeOf(g)
    <3>1. spoofs_source \in BOOLEAN /\ spoofs_target \in BOOLEAN /\ marks \in BOOLEAN
      BY <2>4
    <3>2. (spoofs_source => p \in Entities) /\ (spoofs_target => q \in Entities)
      OBVIOUS
    <3> HIDE DEF f, spoofs_source, spoofs_target, marks
    <3>3. QED
      BY <2>3, <3>1, <3>2 DEF Frames, ScopeOf
  <2>6. blank \in Frames /\ ScopeOf(blank)
    <3> DEFINE start == Frame("filter", Recursive, NoEntity, NoEntity, NoEntity)
    <3>1. start \in Frames /\ start.kind = "filter" /\ ~start.source_applied /\ ~start.target_applied
      BY <1>f, NewFrame, RecursiveBoolean DEF Kinds
    <3> HIDE DEF start
    <3>2. [start EXCEPT !.phase = "entered"] \in Frames /\ ScopeOf([start EXCEPT !.phase = "entered"])
      BY <3>1, EnteredFrame DEF ScopeOf
    <3>3. QED
      BY <3>2 DEF start
  <2>7. QED
    BY <1>a, <2>1, <2>2, <2>5, <2>6, GivesTypes
<1>8. CASE BeginFilter
  <2>1. stack # <<>> /\ Top \in Frames /\ ScopeOf(Top) /\ Top.kind = "filter"
    BY <1>8, <1>d DEF BeginFilter, TopIs
  <2>2. [Top EXCEPT !.phase = "original"] \in Frames /\ ScopeOf([Top EXCEPT !.phase = "original"])
    BY <2>1 DEF Frames, ScopeOf
  <2>3. slot' \in Pointers
    BY <1>8, <1>f, <2>1 DEF BeginFilter, Frames
  <2>4. QED
    BY <1>8, <1>c, <2>1, <2>2, <2>3 DEF BeginFilter
<1>9. CASE LeaveFilter
  <2>1. stack # <<>> /\ Top \in Frames
    BY <1>9, <1>d DEF LeaveFilter, TopIs
  <2>2. team' \in [Entities -> Teams]
    BY <1>9, <2>1 DEF LeaveFilter, Frames, Saved
  <2>3. QED
    BY <1>9, <1>b, <1>f, <2>1, <2>2 DEF LeaveFilter, CloseSlot
<1>10. ASSUME NEW kind \in {"caller", "secondary", "classifier"},
              NEW p \in Pointers, NEW q \in Pointers, NEW r \in Pointers, EnterObserver(kind, p, q, r)
       PROVE  TypeOK'
  BY <1>10, <1>a, <1>e DEF EnterObserver, Kinds
<1>11. CASE LeaveObserver
  <2>1. team' \in [Entities -> Teams] /\ base' \in [Entities -> Teams]
    BY <1>11, TeamTypes, GivesTypes DEF LeaveObserver, Gives
  <2>2. QED
    BY <1>11, <1>b, <2>1 DEF LeaveObserver
<1>12. CASE UNCHANGED vars
  BY <1>12 DEF vars
<1> QED
  BY <1>1, <1>2, <1>3, <1>4, <1>5, <1>6, <1>7, <1>8, <1>9, <1>10, <1>11, <1>12, <1>f DEF Next

LEMMA InitTyped == Init => TypeOK
BY DetourAssumption DEF Init, TypeOK, Pointers

\* TypeOK: the teams are teams, and the flags of a scope tell the truth
\* about the detour that owns it, in every environment and at any depth.
THEOREM TypeCorrect == Spec => []TypeOK
BY InitTyped, TypeStep, PTL DEF Spec

-----------------------------------------------------------------------------
(* Every step leaves each entity restored, or owed its team by the         *)
(* outermost detour that spoofs it.                                        *)

LEMMA UnspoofedPush ==
  ASSUME TypeOK, NEW e \in Entities, Restored(e), NEW f \in Frames, stack' = Append(stack, f),
         ~Spoofs(f, e), Follows(e)
  PROVE  Restored(e)'
BY PushRestores DEF Follows

LEMMA RestoredStep ==
  ASSUME TypeOK, NEW e \in Entities, Restored(e), [Next]_vars
  PROVE  Restored(e)'
<1>a. Arguments \subseteq Pointers /\ NoEntity \in Pointers
  BY DetourAssumption DEF Pointers
<1>b. \A tm \in [Entities -> Teams] : Gives(tm) => Follows(e)
  BY DEF Gives, Stays, Follows
<1>c. \A P : Neutralized(P) \in [Entities -> Teams]
  BY TeamTypes
<1>d. team \in [Entities -> Teams]
  BY DEF TypeOK
<1>e. \A kind \in Kinds, p, q, r \in Pointers :
        Frame(kind, Recursive, p, q, r) \in Frames /\ ~Spoofs(Frame(kind, Recursive, p, q, r), e)
  BY TeamTypes, DetourAssumption DEF Frame, Frames, Spoofs
<1>1. ASSUME NEW x \in Entities, NEW t \in Teams, GameSetsTeam(x, t)
      PROVE  Restored(e)'
  <2>1. Follows(e) /\ stack' = stack
    BY <1>1, <1>b, <1>d DEF GameSetsTeam
  <2>2. QED
    BY <2>1, SamePlaces DEF TypeOK
<1>2. ASSUME NEW p \in Pointers, EnterDamage(p)
      PROVE  Restored(e)'
  <2> DEFINE f == [Frame("damage", Recursive, NoEntity, p, NoEntity) EXCEPT !.phase = "entered"]
  <2>1. f \in Frames /\ ~Spoofs(f, e)
    <3> DEFINE start == Frame("damage", Recursive, NoEntity, p, NoEntity)
    <3>1. start \in Frames /\ ~start.source_applied /\ ~start.target_applied
      BY <1>a, NewFrame, RecursiveBoolean DEF Kinds
    <3> HIDE DEF start
    <3>2. [start EXCEPT !.phase = "entered"] \in Frames /\ ~Spoofs([start EXCEPT !.phase = "entered"], e)
      BY <3>1, EnteredFrame DEF Spoofs
    <3>3. QED
      BY <3>2 DEF start
  <2>2. Follows(e) /\ stack' = Append(stack, f)
    BY <1>2, <1>b, <1>c, <1>d DEF EnterDamage, Push
  <2>3. QED
    BY <2>1, <2>2, UnspoofedPush
<1>3. CASE BeginDamage
  <2> DEFINE f == [Top EXCEPT !.phase = "original"]
             g == [f EXCEPT !.target_applied = TRUE, !.original_target_team = team[f.target]]
  <2>1. stack # <<>> /\ base' = base
    BY <1>3 DEF BeginDamage, TopIs
  <2>2. Top \in Frames /\ ScopeOf(Top)
    BY <2>1, TopTyped
  <2>3. ~Top.target_applied /\ ~Top.source_applied
    BY <1>3, <2>2 DEF BeginDamage, TopIs, ScopeOf, Frames
  <2>4. f \in Frames /\ f.target = Top.target /\ ~Spoofs(f, e) /\ ~Spoofs(Top, e)
        /\ Saved(f, e) = Saved(Top, e)
    BY <2>2, <2>3 DEF Frames, Spoofs, Saved
  <2>5. CASE FriendlyFireApplies(f)
    <3>1. f.target \in Entities /\ ReplaceTop(g) /\ team' = [team EXCEPT ![f.target] = Opposing(@)]
      BY <1>3, <2>5, DetourAssumption DEF BeginDamage, FriendlyFireApplies
    <3>2. g \in Frames /\ g.target = f.target
      BY <1>d, <2>4, <3>1 DEF Frames
    <3>3. g.target_applied /\ ~g.source_applied /\ g.original_target_team = team[f.target]
      BY <2>3, <2>2 DEF Frames
    <3>4. CASE e = f.target
      <4>1. Spoofs(g, e) /\ Saved(g, e) = team[e]
        BY <3>2, <3>3, <3>4 DEF Spoofs, Saved
      <4>2. QED
        BY <2>1, <2>4, <3>1, <3>2, <4>1, BeginRestores
    <3>5. CASE e # f.target
      <4>1. ~Spoofs(g, e) /\ Saved(g, e) = Saved(Top, e) /\ team'[e] = team[e]
        BY <1>d, <2>2, <2>3, <3>1, <3>2, <3>3, <3>5 DEF Spoofs, Saved, Frames
      <4>2. QED
        BY <2>1, <2>4, <3>1, <3>2, <4>1, BeginRestores
    <3>6. QED
      BY <3>4, <3>5
  <2>6. CASE ~FriendlyFireApplies(f)
    <3>1. ReplaceTop(f) /\ team' = team
      BY <1>3, <2>6 DEF BeginDamage
    <3>2. QED
      BY <2>1, <2>4, <3>1, BeginRestores
  <2>7. QED
    BY <2>5, <2>6
<1>4. CASE LeaveDamage
  <2>1. /\ stack # <<>> /\ Pop /\ base' = base /\ Top.kind = "damage"
        /\ team' = IF Top.target_applied
                   THEN [team EXCEPT ![Top.target] = Top.original_target_team] ELSE team
    BY <1>4 DEF LeaveDamage, TopIs
  <2>2. Top \in Frames /\ ScopeOf(Top)
    BY <2>1, TopTyped
  <2>3. ~Top.source_applied
    BY <2>1, <2>2 DEF ScopeOf
  <2>4. Spoofs(Top, e) => team'[e] = Saved(Top, e)
    BY <1>d, <2>1, <2>3 DEF Spoofs, Saved
  <2>5. ~Spoofs(Top, e) => team'[e] = team[e]
    BY <1>d, <2>1 DEF Spoofs
  <2>6. ~Spoofs(Top, e) => Follows(e)
    BY <2>1, <2>5 DEF Follows, Restored
  <2>7. QED
    BY <2>1, <2>4, <2>6, PopRestores
<1>5. ASSUME NEW p \in Pointers, NEW q \in Pointers, NEW r \in Pointers, EnterIo(p, q, r)
      PROVE  Restored(e)'
  <2>1. Follows(e) /\ stack' = Append(stack, Frame("io", Recursive, p, q, r))
    BY <1>5, <1>b, <1>c, <1>d DEF EnterIo, Push
  <2>2. QED
    BY <2>1, <1>e, UnspoofedPush DEF Kinds
<1>6. CASE LeaveIo
  <2>1. /\ stack # <<>> /\ Pop /\ base' = base /\ team' = team /\ Top.kind = "io"
    BY <1>6 DEF LeaveIo, TopIs
  <2>2. ~Spoofs(Top, e)
    BY <2>1, TopTyped DEF ScopeOf, Spoofs
  <2>3. Follows(e)
    BY <2>1 DEF Follows, Restored
  <2>4. QED
    BY <2>1, <2>2, <2>3, PopRestores
<1>7. ASSUME NEW p \in Pointers, NEW q \in Pointers, EnterFilter(p, q)
      PROVE  Restored(e)'
  <2> DEFINE now == Neutralized({p, q})
             same == {p, q} \subseteq Entities /\ now[p] = now[q]
             spoofs_source == /\ config.source_spoof /\ same /\ p # q
                              /\ Opposing(now[q]) # 0
             spoofs_target == config.target_spoof /\ same /\ p # q
             after == [x \in Entities |->
                         CASE spoofs_source /\ x = p -> Opposing(now[q])
                           [] spoofs_target /\ x = q -> SpoofTeam(now[p])
                           [] OTHER -> now[x]]
             f == FilterScope(p, q, now, after)
             marks == config.classifier /\ q # NoEntity /\ (same \/ q \in Objectives)
             g == [f EXCEPT !.source_applied = spoofs_source, !.target_applied = spoofs_target,
                            !.spoofs_classifier = marks]
             blank == [Frame("filter", Recursive, NoEntity, NoEntity, NoEntity) EXCEPT
                         !.phase = "entered"]
  <2>1. /\ Push(IF config.probe THEN g ELSE blank)
        /\ team' = IF config.probe THEN after ELSE team
        /\ Stays(now)
    BY <1>7 DEF EnterFilter
  <2>2. base'[e] = IF Spoofed(stack, e) THEN base[e] ELSE now[e]
    BY <2>1 DEF Stays
  <2>3. CASE config.probe
    <3>1. /\ f \in Frames /\ f.source = p /\ f.target = q
          /\ f.original_source_team = IF p \in Entities THEN now[p] ELSE 0
          /\ f.original_target_team = IF q \in Entities THEN now[q] ELSE 0
      BY <1>c, NewFilterScope
    <3>2. /\ config.source_spoof \in BOOLEAN /\ config.target_spoof \in BOOLEAN
          /\ config.classifier \in BOOLEAN
      BY DetourAssumption DEF TypeOK
    <3> HIDE DEF f, now
    <3>3. /\ g \in Frames /\ g.source = p /\ g.target = q
          /\ g.original_source_team = f.original_source_team
          /\ g.original_target_team = f.original_target_team
          /\ g.source_applied = spoofs_source /\ g.target_applied = spoofs_target
      <4>1. spoofs_source \in BOOLEAN /\ spoofs_target \in BOOLEAN /\ marks \in BOOLEAN
        BY <3>2
      <4> HIDE DEF spoofs_source, spoofs_target, marks
      <4>2. QED
        BY <3>1, <4>1 DEF Frames
    <3>4. team'[e] = CASE spoofs_source /\ e = p -> Opposing(now[q])
                       [] spoofs_target /\ e = q -> SpoofTeam(now[p])
                       [] OTHER -> now[e]
      BY <2>1, <2>3
    <3> HIDE DEF g, spoofs_source, spoofs_target, after
    <3>5. Spoofs(g, e) <=> (spoofs_source /\ e = p) \/ (spoofs_target /\ e = q)
      BY <3>3 DEF Spoofs
    <3>6. Spoofs(g, e) => Saved(g, e) = now[e]
      BY <3>1, <3>3, <3>5 DEF Saved
    <3>7. ~Spoofs(g, e) => team'[e] = now[e]
      BY <3>4, <3>5
    <3>8. stack' = Append(stack, g)
      BY <2>1, <2>3 DEF Push
    <3>9. QED
      BY <2>2, <3>3, <3>6, <3>7, <3>8, PushRestores
  <2>4. CASE ~config.probe
    <3>1. blank \in Frames /\ ~Spoofs(blank, e)
      <4> DEFINE start == Frame("filter", Recursive, NoEntity, NoEntity, NoEntity)
      <4>1. start \in Frames /\ ~start.source_applied /\ ~start.target_applied
        BY <1>a, NewFrame, RecursiveBoolean DEF Kinds
      <4> HIDE DEF start
      <4>2. [start EXCEPT !.phase = "entered"] \in Frames /\ ~Spoofs([start EXCEPT !.phase = "entered"], e)
        BY <4>1, EnteredFrame DEF Spoofs
      <4>3. QED
        BY <4>2 DEF start
    <3>2. now = team
      BY <2>4 DEF Neutralized
    <3>3. Follows(e) /\ stack' = Append(stack, blank)
      BY <2>1, <2>2, <2>4, <3>2 DEF Follows, Push
    <3>4. QED
      BY <3>1, <3>3, UnspoofedPush
  <2>5. QED
    BY <2>3, <2>4
<1>8. CASE BeginFilter
  <2> DEFINE g == [Top EXCEPT !.phase = "original"]
  <2>1. stack # <<>> /\ base' = base /\ team' = team /\ ReplaceTop(g)
    BY <1>8 DEF BeginFilter, TopIs
  <2>2. Top \in Frames
    BY <2>1, TopTyped
  <2>3. g \in Frames /\ (Spoofs(g, e) <=> Spoofs(Top, e)) /\ Saved(g, e) = Saved(Top, e)
    BY <2>2 DEF Frames, Spoofs, Saved
  <2>4. QED
    BY <2>1, <2>3, BeginRestores
<1>9. CASE LeaveFilter
  <2>1. /\ stack # <<>> /\ Pop /\ base' = base
        /\ team' = [x \in Entities |-> IF Spoofs(Top, x) THEN Saved(Top, x) ELSE team[x]]
    BY <1>9 DEF LeaveFilter, TopIs
  <2>2. team'[e] = IF Spoofs(Top, e) THEN Saved(Top, e) ELSE team[e]
    BY <2>1
  <2>3. ~Spoofs(Top, e) => Follows(e)
    BY <2>1, <2>2 DEF Follows, Restored
  <2>4. QED
    BY <2>1, <2>2, <2>3, PopRestores
<1>10. ASSUME NEW kind \in {"caller", "secondary", "classifier"},
              NEW p \in Pointers, NEW q \in Pointers, NEW r \in Pointers, EnterObserver(kind, p, q, r)
       PROVE  Restored(e)'
  <2>1. stack' = Append(stack, Frame(kind, Recursive, p, q, r)) /\ team' = team /\ base' = base
    BY <1>10 DEF EnterObserver, Push
  <2>2. Follows(e)
    BY <2>1 DEF Follows, Restored
  <2>3. QED
    BY <2>1, <2>2, <1>e, UnspoofedPush DEF Kinds
<1>11. CASE LeaveObserver
  <2>1. stack # <<>> /\ Pop /\ Top.kind \in {"caller", "secondary", "classifier"} /\ Follows(e)
    BY <1>11, <1>b, <1>c, <1>d DEF LeaveObserver
  <2>2. ~Spoofs(Top, e)
    BY <2>1, TopTyped DEF ScopeOf, Spoofs
  <2>3. QED
    BY <2>1, <2>2, PopRestores
<1>12. CASE UNCHANGED vars
  BY <1>12 DEF vars, Restored
<1> QED
  BY <1>1, <1>2, <1>3, <1>4, <1>5, <1>6, <1>7, <1>8, <1>9, <1>10, <1>11, <1>12, <1>a DEF Next

\* TeamRestored: no spoof of a team outlives its call, for any entities,
\* environment and depth of nesting (end_friendly_fire_damage,
\* finish_target_filter).
THEOREM Restoration == Spec => []TeamRestored
<1>1. Init => TeamRestored
  BY DEF Init, TeamRestored, Restored
<1>2. TypeOK /\ TeamRestored /\ [Next]_vars => TeamRestored'
  BY RestoredStep DEF TeamRestored
<1>3. QED
  BY <1>1, <1>2, TypeCorrect, PTL DEF Spec

-----------------------------------------------------------------------------
(* What a step does to the stack, for the two invariants that follow: it   *)
(* pushes a detour that has not begun to spoof, pops one, or begins one.   *)

\* The detours hold what the scopes spoof, and base stays as it is for them.
LEMMA SpoofedKeepBase ==
  ASSUME TypeOK, [Next]_vars
  PROVE  config' = config /\ \A e \in Entities : Spoofed(stack, e) => base'[e] = base[e]
<1>1. ASSUME NEW tm, Stays(tm)
      PROVE  \A e \in Entities : Spoofed(stack, e) => base'[e] = base[e]
  BY <1>1 DEF Stays
<1>2. CASE UNCHANGED vars
  BY <1>2 DEF vars
<1>3. CASE Next
  BY <1>1, <1>3, Zenon DEF Next, GameSetsTeam, EnterDamage, BeginDamage, LeaveDamage, EnterIo, LeaveIo,
     EnterFilter, BeginFilter, LeaveFilter, EnterObserver, LeaveObserver, Gives
<1>4. QED
  BY <1>2, <1>3

\* A detour as it is pushed: it knows whether another is in progress, and
\* it has neither begun as a filter nor flipped a victim.
Fresh(f) == /\ f \in Frames /\ (f.recursive <=> Recursive)
            /\ f.kind = "filter" => f.phase = "entered"
            /\ f.kind = "damage" => ~f.target_applied

LEMMA StackStep ==
  ASSUME TypeOK, [Next]_vars
  PROVE  \/ stack' = stack /\ slot' = slot
         \/ \E f : Fresh(f) /\ stack' = Append(stack, f) /\ slot' = slot
         \/ /\ stack # <<>> /\ Pop
            /\ slot' = NoEntity \/ (slot' = slot /\ Top.kind # "filter")
         \/ BeginDamage \/ BeginFilter
<1> DEFINE Pushes == \E f : Fresh(f) /\ stack' = Append(stack, f) /\ slot' = slot
           Pops == /\ stack # <<>> /\ Pop
                   /\ slot' = NoEntity \/ (slot' = slot /\ Top.kind # "filter")
<1>a. Arguments \subseteq Pointers /\ NoEntity \in Pointers
  BY DetourAssumption DEF Pointers
<1>b. ASSUME NEW kind \in Kinds \ {"filter"}, NEW p \in Pointers, NEW q \in Pointers, NEW r \in Pointers
      PROVE  Fresh(Frame(kind, Recursive, p, q, r))
  <2>1. /\ Frame(kind, Recursive, p, q, r) \in Frames
        /\ Frame(kind, Recursive, p, q, r).kind = kind
        /\ ~Frame(kind, Recursive, p, q, r).target_applied
    BY NewFrame, RecursiveBoolean
  <2>2. Frame(kind, Recursive, p, q, r).recursive = Recursive
    BY DEF Frame
  <2>3. QED
    BY <2>1, <2>2 DEF Fresh
<1>c. ASSUME NEW f, Fresh(f), Push(f), slot' = slot
      PROVE  Pushes
  BY <1>c DEF Push
<1>d. ASSUME NEW f \in Frames, f.recursive <=> Recursive
      PROVE  Fresh([f EXCEPT !.phase = "entered"]) \/ f.kind = "damage"
  BY <1>d DEF Fresh, Frames
<1>1. ASSUME NEW e \in Entities, NEW t \in Teams, GameSetsTeam(e, t)
      PROVE  stack' = stack /\ slot' = slot
  BY <1>1 DEF GameSetsTeam
<1>2. ASSUME NEW p \in Pointers, EnterDamage(p)
      PROVE  Pushes
  <2> DEFINE f == Frame("damage", Recursive, NoEntity, p, NoEntity)
  <2>1. Fresh(f)
    BY <1>a, <1>b DEF Kinds
  <2> HIDE DEF f
  <2>2. Fresh([f EXCEPT !.phase = "entered"])
    BY <2>1 DEF Fresh, Frames
  <2>3. Push([f EXCEPT !.phase = "entered"]) /\ slot' = slot
    BY <1>2 DEF EnterDamage, f
  <2>4. QED
    BY <1>c, <2>2, <2>3
<1>3. ASSUME LeaveDamage
      PROVE  Pops
  BY <1>3, Zenon DEF LeaveDamage, TopIs
<1>4. ASSUME NEW p \in Pointers, NEW q \in Pointers, NEW r \in Pointers, EnterIo(p, q, r)
      PROVE  Pushes
  <2>1. Fresh(Frame("io", Recursive, p, q, r))
    BY <1>b DEF Kinds
  <2>2. QED
    BY <1>4, <1>c, <2>1 DEF EnterIo
<1>5. ASSUME LeaveIo
      PROVE  Pops
  BY <1>5, Zenon DEF LeaveIo, TopIs
<1>6. ASSUME NEW p \in Pointers, NEW q \in Pointers, EnterFilter(p, q)
      PROVE  Pushes
  <2> DEFINE now == Neutralized({p, q})
             same == {p, q} \subseteq Entities /\ now[p] = now[q]
             spoofs_source == /\ config.source_spoof /\ same /\ p # q
                              /\ Opposing(now[q]) # 0
             spoofs_target == config.target_spoof /\ same /\ p # q
             after == [e \in Entities |->
                         CASE spoofs_source /\ e = p -> Opposing(now[q])
                           [] spoofs_target /\ e = q -> SpoofTeam(now[p])
                           [] OTHER -> now[e]]
             f == FilterScope(p, q, now, after)
             marks == config.classifier /\ q # NoEntity /\ (same \/ q \in Objectives)
             g == [f EXCEPT !.source_applied = spoofs_source, !.target_applied = spoofs_target,
                            !.spoofs_classifier = marks]
             start == Frame("filter", Recursive, NoEntity, NoEntity, NoEntity)
             blank == [start EXCEPT !.phase = "entered"]
  <2>1. Push(IF config.probe THEN g ELSE blank) /\ slot' = slot
    BY <1>6 DEF EnterFilter
  <2>2. now \in [Entities -> Teams]
    BY TeamTypes
  <2>3. f \in Frames /\ f.kind = "filter" /\ f.phase = "entered" /\ f.recursive = Recursive
    <3>1. f \in Frames /\ f.kind = "filter"
      BY <2>2, NewFilterScope
    <3>2. f.phase = "entered" /\ f.recursive = Recursive
      BY DEF FilterScope, Frame
    <3>3. QED
      BY <3>1, <3>2
  <2>4. spoofs_source \in BOOLEAN /\ spoofs_target \in BOOLEAN /\ marks \in BOOLEAN
    BY DetourAssumption DEF TypeOK
  <2> HIDE DEF f, spoofs_source, spoofs_target, marks
  <2>5. Fresh(g)
    BY <2>3, <2>4 DEF Fresh, Frames
  <2>6. Fresh(blank)
    <3>1. start \in Frames /\ start.kind = "filter"
      BY <1>a, NewFrame, RecursiveBoolean DEF Kinds
    <3>2. start.recursive = Recursive
      BY DEF Frame
    <3> HIDE DEF start
    <3>3. QED
      BY <3>1, <3>2 DEF Fresh, Frames
  <2> HIDE DEF g, blank
  <2>7. QED
    BY <1>c, <2>1, <2>5, <2>6
<1>7. ASSUME LeaveFilter
      PROVE  Pops
  BY <1>7, Zenon DEF LeaveFilter, TopIs, CloseSlot
<1>8. ASSUME NEW kind \in {"caller", "secondary", "classifier"},
             NEW p \in Pointers, NEW q \in Pointers, NEW r \in Pointers, EnterObserver(kind, p, q, r)
      PROVE  Pushes
  <2>1. Fresh(Frame(kind, Recursive, p, q, r))
    BY <1>b DEF Kinds
  <2>2. QED
    BY <1>8, <1>c, <2>1 DEF EnterObserver
<1>9. ASSUME LeaveObserver
      PROVE  Pops
  <2>1. stack # <<>> /\ Pop /\ slot' = slot /\ Top.kind \in {"caller", "secondary", "classifier"}
    BY <1>9, Zenon DEF LeaveObserver
  <2>2. QED
    BY <2>1
<1>10. CASE UNCHANGED vars
  BY <1>10 DEF vars
<1> DEFINE Rests == stack' = stack /\ slot' = slot
<1> HIDE DEF Pushes, Pops
<1>11. LeaveDamage \/ LeaveIo \/ LeaveFilter \/ LeaveObserver => Pops
  BY <1>3, <1>5, <1>7, <1>9
<1>12. ASSUME Next
       PROVE  Rests \/ Pushes \/ Pops \/ BeginDamage \/ BeginFilter
  <2> HIDE DEF Rests
  <2>1. (\E e \in Entities, t \in Teams : GameSetsTeam(e, t)) => Rests
    BY <1>1 DEF Rests
  <2>2. (\E p \in Arguments : EnterDamage(p)) => Pushes
    BY <1>a, <1>2
  <2>3. (\E p, q, r \in Arguments : EnterIo(p, q, r)) => Pushes
    BY <1>a, <1>4
  <2>4. (\E p, q \in Arguments : EnterFilter(p, q)) => Pushes
    BY <1>a, <1>6
  <2>5. \/ \E p, q \in Arguments : EnterObserver("caller", p, q, NoEntity)
        \/ \E p, q, r \in Arguments : EnterObserver("secondary", p, q, r)
        \/ \E p \in Arguments : EnterObserver("classifier", NoEntity, p, NoEntity)
        => Pushes
    BY <1>a, <1>8
  <2>6. QED
    BY <1>12, <1>11, <2>1, <2>2, <2>3, <2>4, <2>5 DEF Next
<1>13. QED
  BY <1>10, <1>12, Zenon DEF Pushes, Pops

-----------------------------------------------------------------------------
(* The slot of the classifier is that of the innermost filter call.        *)

LEMMA SlotStep ==
  ASSUME TypeOK, SlotBelongsToInnermost, [Next]_vars
  PROVE  SlotBelongsToInnermost'
<1>0. stack \in Seq(Frames) /\ Len(stack) \in Nat
  BY DEF TypeOK
<1>1. CASE stack' = stack /\ slot' = slot
  BY <1>1 DEF SlotBelongsToInnermost, Begun
<1>2. ASSUME NEW f, Fresh(f), stack' = Append(stack, f), slot' = slot
      PROVE  SlotBelongsToInnermost'
  <2>1. /\ Len(stack') = Len(stack) + 1 /\ stack'[Len(stack) + 1] = f
        /\ \A i \in 1 .. Len(stack) : stack'[i] = stack[i]
    BY <1>0, <1>2 DEF Fresh
  <2>2. \A i \in 1 .. Len(stack) : Begun(i)' <=> Begun(i)
    BY <2>1 DEF Begun
  <2>3. \A i \in 1 .. Len(stack') : i = Len(stack) + 1 => ~Begun(i)'
    BY <1>2, <2>1 DEF Begun, Fresh
  <2>4. ASSUME slot # NoEntity
        PROVE  SlotBelongsToInnermost'
    <3>1. PICK i \in 1 .. Len(stack) : /\ Begun(i) /\ stack[i].target = slot /\ stack[i].spoofs_classifier
                                       /\ \A j \in i + 1 .. Len(stack) : ~Begun(j)
      BY <2>4 DEF SlotBelongsToInnermost
    <3>2. \A j \in i + 1 .. Len(stack') : j \in i + 1 .. Len(stack) \/ j = Len(stack) + 1
      BY <1>0, <2>1
    <3>3. i \in 1 .. Len(stack') /\ i + 1 .. Len(stack) \subseteq 1 .. Len(stack)
      BY <1>0, <2>1
    <3>4. \A j \in i + 1 .. Len(stack') : ~Begun(j)'
      <4>1. \A j \in i + 1 .. Len(stack') : j \in 1 .. Len(stack')
        BY <1>0, <2>1
      <4>2. QED
        BY <2>2, <2>3, <3>1, <3>2, <3>3, <4>1
    <3>5. Begun(i)' /\ stack'[i] = stack[i]
      BY <2>1, <2>2, <3>1
    <3>6. QED
      BY <1>2, <3>1, <3>3, <3>4, <3>5 DEF SlotBelongsToInnermost
  <2>5. QED
    BY <1>2, <2>4 DEF SlotBelongsToInnermost
<1>3. ASSUME stack # <<>>, Pop, slot' = slot, Top.kind # "filter"
      PROVE  SlotBelongsToInnermost'
  <2>1. /\ Len(stack) \in Nat \ {0} /\ Len(stack') = Len(stack) - 1
        /\ \A i \in 1 .. Len(stack') : stack'[i] = stack[i]
    BY <1>3, PopFacts
  <2>2. \A i \in 1 .. Len(stack') : i \in 1 .. Len(stack) /\ (Begun(i)' <=> Begun(i))
    BY <2>1 DEF Begun
  <2>3. ~Begun(Len(stack))
    BY <1>3 DEF Begun, Top
  <2>4. ASSUME slot # NoEntity
        PROVE  SlotBelongsToInnermost'
    <3>1. PICK i \in 1 .. Len(stack) : /\ Begun(i) /\ stack[i].target = slot /\ stack[i].spoofs_classifier
                                       /\ \A j \in i + 1 .. Len(stack) : ~Begun(j)
      BY <2>4 DEF SlotBelongsToInnermost
    <3>2. i \in 1 .. Len(stack') /\ \A j \in i + 1 .. Len(stack') : j \in 1 .. Len(stack') /\ j \in i + 1 .. Len(stack)
      BY <2>1, <2>3, <3>1
    <3>3. \A j \in i + 1 .. Len(stack') : ~Begun(j)'
      BY <2>2, <3>1, <3>2
    <3>4. Begun(i)' /\ stack'[i] = stack[i]
      BY <2>1, <2>2, <3>1, <3>2
    <3>5. QED
      BY <1>3, <3>1, <3>2, <3>3, <3>4 DEF SlotBelongsToInnermost
  <2>5. QED
    BY <1>3, <2>4 DEF SlotBelongsToInnermost
<1>4. CASE slot' = NoEntity
  BY <1>4 DEF SlotBelongsToInnermost
<1>5. ASSUME NEW g \in Frames, stack # <<>>, ReplaceTop(g), slot' = slot, g.kind = Top.kind, Top.kind # "filter"
      PROVE  SlotBelongsToInnermost'
  <2>1. /\ Len(stack') = Len(stack)
        /\ \A i \in 1 .. Len(stack) : stack'[i] = IF i = Len(stack) THEN g ELSE stack[i]
    BY <1>5, TopFacts
  <2>2. \A i \in 1 .. Len(stack) : (Begun(i)' <=> Begun(i)) /\ (Begun(i) => stack'[i] = stack[i])
    BY <1>5, <2>1 DEF Begun, Top
  <2>3. \A i \in 1 .. Len(stack) : \A j \in i + 1 .. Len(stack) : j \in 1 .. Len(stack)
    BY <1>0
  <2>4. QED
    BY <1>5, <2>1, <2>2, <2>3 DEF SlotBelongsToInnermost
<1>6. CASE BeginDamage
  <2> DEFINE f == [Top EXCEPT !.phase = "original"]
             g == [f EXCEPT !.target_applied = TRUE, !.original_target_team = team[f.target]]
  <2>1. stack # <<>> /\ Top \in Frames /\ Top.kind = "damage" /\ slot' = slot
    BY <1>6, TopTyped DEF BeginDamage, TopIs
  <2>2. f \in Frames /\ f.kind = "damage" /\ f.target = Top.target
    BY <2>1 DEF Frames
  <2>3. CASE FriendlyFireApplies(f)
    <3>1. f.target \in Entities /\ ReplaceTop(g)
      BY <1>6, <2>3, DetourAssumption DEF BeginDamage, FriendlyFireApplies
    <3>2. team[f.target] \in Teams
      BY <3>1 DEF TypeOK
    <3> HIDE DEF f
    <3>3. g \in Frames /\ g.kind = "damage"
      BY <2>2, <3>2 DEF Frames
    <3>4. QED
      BY <1>5, <2>1, <3>1, <3>3
  <2>4. CASE ~FriendlyFireApplies(f)
    <3>1. ReplaceTop(f)
      BY <1>6, <2>4 DEF BeginDamage
    <3>2. QED
      BY <1>5, <2>1, <2>2, <3>1
  <2>5. QED
    BY <2>3, <2>4
<1>7. CASE BeginFilter
  <2> DEFINE g == [Top EXCEPT !.phase = "original"]
  <2>1. /\ stack # <<>> /\ Top.kind = "filter" /\ ReplaceTop(g)
        /\ slot' = IF Top.spoofs_classifier THEN Top.target ELSE NoEntity
    BY <1>7 DEF BeginFilter, TopIs
  <2>2. Top \in Frames
    BY <2>1, TopTyped
  <2>3. /\ g \in Frames /\ g.kind = "filter" /\ g.phase = "original"
        /\ g.target = Top.target /\ g.spoofs_classifier = Top.spoofs_classifier
    BY <2>1, <2>2 DEF Frames
  <2> HIDE DEF g
  <2>4. Len(stack) \in Nat \ {0} /\ Len(stack') = Len(stack) /\ stack'[Len(stack)] = g
    BY <2>1, <2>3, TopFacts
  <2>5. Len(stack) \in 1 .. Len(stack') /\ \A j \in Len(stack) + 1 .. Len(stack') : FALSE
    BY <2>4
  <2>6. QED
    BY <1>4, <2>1, <2>3, <2>4, <2>5 DEF SlotBelongsToInnermost, Begun
<1>8. QED
  BY <1>1, <1>2, <1>3, <1>4, <1>6, <1>7, StackStep

\* SlotBelongsToInnermost: no classification is spoofed but for the innermost
\* filter call whose original runs, however deep the detours nest
\* (begin_ and end_target_classifier_spoof_scope).
THEOREM SlotIsInnermost == Spec => []SlotBelongsToInnermost
<1>1. Init => SlotBelongsToInnermost
  BY DEF Init, SlotBelongsToInnermost
<1>2. QED
  BY <1>1, SlotStep, TypeCorrect, PTL DEF Spec

-----------------------------------------------------------------------------
(* Whom the friendly-fire spoof flips.  The invariant alone is not         *)
(* inductive: that the team it reads is the one the entity really has      *)
(* follows from there being no other spoof, and that from the recursion    *)
(* guard, since the classifier, the only detour that opens no scope, does  *)
(* not spoof.                                                              *)

\* A detour that is not recursive has only classifiers below it, and only
\* such a detour flips its victim.
FlipsOutermost ==
  \A i \in 1 .. Len(stack) :
    /\ ~stack[i].recursive => \A j \in 1 .. i - 1 : stack[j].kind = "classifier"
    /\ stack[i].kind = "damage" /\ stack[i].target_applied => ~stack[i].recursive

\* The flip of one detour, with the teams b that entities really have.
Own(f, b) == f.kind = "damage" /\ f.target_applied =>
            /\ ~f.recursive /\ f.original_target_team = b[f.target]
            /\ config.local_team \in {AnyTeam, b[f.target]}

LEMMA FlipStep ==
  ASSUME TypeOK, TeamRestored, FlipsOutermost, OnlyOwnObjectivesFlipped, [Next]_vars
  PROVE  FlipsOutermost' /\ OnlyOwnObjectivesFlipped'
<1> DEFINE Guarded(st, i) ==
             ~st[i].recursive => \A j \in 1 .. i - 1 : st[j].kind = "classifier"
<1>0. stack \in Seq(Frames) /\ Len(stack) \in Nat
  BY DEF TypeOK
<1>1. \A i \in 1 .. Len(stack) : stack[i] \in Frames /\ ScopeOf(stack[i])
  BY <1>0 DEF TypeOK
<1>2. \A i \in 1 .. Len(stack) : Guarded(stack, i) /\ Own(stack[i], base)
  BY DEF FlipsOutermost, OnlyOwnObjectivesFlipped, Own
<1>3. ASSUME \A i \in 1 .. Len(stack') : Guarded(stack', i) /\ Own(stack'[i], base')
      PROVE  FlipsOutermost' /\ OnlyOwnObjectivesFlipped'
  BY <1>3, SpoofedKeepBase DEF FlipsOutermost, OnlyOwnObjectivesFlipped, Own
<1>4. config' = config /\ \A e \in Entities : Spoofed(stack, e) => base'[e] = base[e]
  BY SpoofedKeepBase
<1>5. ASSUME NEW f, NEW i \in 1 .. Len(stack), stack[i] = f
      PROVE  Own(f, base')
  <2>1. ASSUME f.kind = "damage", f.target_applied
        PROVE  base'[f.target] = base[f.target]
    <3>1. f.target \in Entities /\ Spoofs(stack[i], f.target)
      BY <1>1, <1>5, <2>1 DEF ScopeOf, Spoofs
    <3>2. QED
      BY <1>4, <3>1 DEF Spoofed
  <2>2. Own(f, base)
    BY <1>2, <1>5
  <2>3. QED
    BY <1>4, <2>1, <2>2 DEF Own
<1>6. CASE stack' = stack
  BY <1>2, <1>3, <1>5, <1>6
<1>7. ASSUME NEW f, Fresh(f), stack' = Append(stack, f)
      PROVE  FlipsOutermost' /\ OnlyOwnObjectivesFlipped'
  <2>1. /\ Len(stack') = Len(stack) + 1 /\ stack'[Len(stack) + 1] = f
        /\ \A i \in 1 .. Len(stack) : stack'[i] = stack[i]
    BY <1>0, <1>7 DEF Fresh
  <2>2. ASSUME NEW i \in 1 .. Len(stack)
        PROVE  Guarded(stack', i) /\ Own(stack'[i], base')
    <3>1. \A j \in 1 .. i - 1 : j \in 1 .. Len(stack)
      BY <1>0
    <3>2. Own(stack'[i], base')
      BY <1>5, <2>1
    <3>3. QED
      BY <1>2, <2>1, <3>1, <3>2
  <2>3. Own(f, base')
    BY <1>7 DEF Fresh, Own
  <2>4. Guarded(stack', Len(stack) + 1)
    <3>1. ~f.recursive => \A j \in 1 .. Len(stack) : stack[j].kind = "classifier"
      BY <1>7 DEF Fresh, Recursive
    <3>2. Len(stack) + 1 - 1 = Len(stack)
      BY <1>0
    <3>3. QED
      BY <2>1, <3>1, <3>2
  <2>5. \A i \in 1 .. Len(stack') : i \in 1 .. Len(stack) \/ i = Len(stack) + 1
    BY <1>0, <2>1
  <2>6. QED
    BY <1>3, <2>1, <2>2, <2>3, <2>4, <2>5
<1>8. CASE stack # <<>> /\ Pop
  <2>1. /\ Len(stack) \in Nat \ {0} /\ Len(stack') = Len(stack) - 1
        /\ \A i \in 1 .. Len(stack') : stack'[i] = stack[i]
    BY <1>8, PopFacts
  <2>2. ASSUME NEW i \in 1 .. Len(stack')
        PROVE  Guarded(stack', i) /\ Own(stack'[i], base')
    <3>1. i \in 1 .. Len(stack) /\ \A j \in 1 .. i - 1 : j \in 1 .. Len(stack')
      BY <2>1
    <3>2. Own(stack'[i], base')
      BY <1>5, <2>1, <3>1
    <3>3. QED
      BY <1>2, <2>1, <3>1, <3>2
  <2>3. QED
    BY <1>3, <2>2
<1>9. ASSUME NEW g \in Frames, stack # <<>>, ReplaceTop(g),
             g.kind = Top.kind, g.recursive = Top.recursive, Own(g, base')
      PROVE  FlipsOutermost' /\ OnlyOwnObjectivesFlipped'
  <2>1. /\ Len(stack) \in Nat \ {0} /\ Len(stack') = Len(stack)
        /\ \A i \in 1 .. Len(stack) : stack'[i] = IF i = Len(stack) THEN g ELSE stack[i]
    BY <1>9, TopFacts
  <2>2. \A i \in 1 .. Len(stack) : stack'[i].kind = stack[i].kind /\ stack'[i].recursive = stack[i].recursive
    BY <1>9, <2>1 DEF Top
  <2>3. ASSUME NEW i \in 1 .. Len(stack)
        PROVE  Guarded(stack', i) /\ Own(stack'[i], base')
    <3>1. \A j \in 1 .. i - 1 : j \in 1 .. Len(stack)
      BY <1>0
    <3>2. Own(stack'[i], base')
      BY <1>5, <1>9, <2>1
    <3>3. QED
      BY <1>2, <2>2, <3>1, <3>2
  <2>4. QED
    BY <1>3, <2>1, <2>3
<1>10. CASE BeginDamage
  <2> DEFINE f == [Top EXCEPT !.phase = "original"]
             g == [f EXCEPT !.target_applied = TRUE, !.original_target_team = team[f.target]]
  <2>1. stack # <<>> /\ Top.kind = "damage" /\ Top.phase = "entered" /\ base' = base
    BY <1>10 DEF BeginDamage, TopIs
  <2>2. Top \in Frames /\ ScopeOf(Top)
    BY <2>1, TopTyped
  <2>3. ~Top.target_applied /\ ~Top.source_applied
    BY <2>1, <2>2 DEF ScopeOf
  <2>4. /\ f \in Frames /\ f.kind = "damage" /\ f.target = Top.target
        /\ f.recursive = Top.recursive /\ ~f.target_applied
    BY <2>1, <2>2, <2>3 DEF Frames
  <2>5. CASE FriendlyFireApplies(f)
    <3>1. /\ f.target \in Entities /\ ReplaceTop(g) /\ ~f.recursive
          /\ config.local_team \in {AnyTeam, team[f.target]}
      BY <1>10, <2>5, DetourAssumption DEF BeginDamage, FriendlyFireApplies
    <3>2. team[f.target] \in Teams
      BY <3>1 DEF TypeOK
    <3>3. team[f.target] = base[f.target]
      <4>1. Len(stack) \in 1 .. Len(stack) /\ Len(stack) - 1 \in Nat
        BY <1>0, <2>1
      <4>2. \A j \in 1 .. Len(stack) - 1 : j \in 1 .. Len(stack) /\ stack[j].kind = "classifier"
        BY <1>2, <2>4, <3>1, <4>1 DEF Top
      <4>3. \A j \in 1 .. Len(stack) - 1 : ~Spoofs(stack[j], f.target)
        BY <1>1, <4>2 DEF ScopeOf, Spoofs
      <4>4. ~Spoofs(stack[Len(stack)], f.target)
        BY <2>3 DEF Spoofs, Top
      <4>5. \A j \in 1 .. Len(stack) : j \in 1 .. Len(stack) - 1 \/ j = Len(stack)
        BY <1>0
      <4>6. ~Spoofed(stack, f.target)
        BY <4>3, <4>4, <4>5 DEF Spoofed
      <4>7. QED
        BY <3>1, <4>6 DEF TeamRestored, Restored
    <3> HIDE DEF f
    <3>4. /\ g \in Frames /\ g.kind = "damage" /\ g.target = f.target /\ g.recursive = f.recursive
          /\ g.original_target_team = team[f.target]
      BY <2>4, <3>2 DEF Frames
    <3> HIDE DEF g
    <3>5. Own(g, base')
      BY <1>4, <2>1, <3>1, <3>3, <3>4 DEF Own
    <3>6. QED
      BY <1>9, <2>1, <2>4, <3>1, <3>4, <3>5
  <2>6. CASE ~FriendlyFireApplies(f)
    <3>1. ReplaceTop(f)
      BY <1>10, <2>6 DEF BeginDamage
    <3> HIDE DEF f
    <3>2. Own(f, base')
      BY <2>4 DEF Own
    <3>3. QED
      BY <1>9, <2>1, <2>4, <3>1, <3>2
  <2>7. QED
    BY <2>5, <2>6
<1>11. CASE BeginFilter
  <2> DEFINE g == [Top EXCEPT !.phase = "original"]
  <2>1. stack # <<>> /\ Top.kind = "filter" /\ ReplaceTop(g)
    BY <1>11 DEF BeginFilter, TopIs
  <2>2. Top \in Frames
    BY <2>1, TopTyped
  <2>3. g \in Frames /\ g.kind = "filter" /\ g.recursive = Top.recursive
    BY <2>1, <2>2 DEF Frames
  <2> HIDE DEF g
  <2>4. Own(g, base')
    BY <2>3 DEF Own
  <2>5. QED
    BY <1>9, <2>1, <2>3, <2>4
<1>12. QED
  BY <1>6, <1>7, <1>8, <1>10, <1>11, StackStep

\* OnlyOwnObjectivesFlipped: a victim is flipped only away from the team it
\* really has, and never an enemy's, for any entities, environment and depth
\* (begin_friendly_fire_damage).
THEOREM FlipsAreOwn == Spec => []OnlyOwnObjectivesFlipped
<1>1. Init => FlipsOutermost /\ OnlyOwnObjectivesFlipped
  BY DEF Init, FlipsOutermost, OnlyOwnObjectivesFlipped
<1>2. QED
  BY <1>1, FlipStep, TypeCorrect, Restoration, PTL DEF Spec
=============================================================================
