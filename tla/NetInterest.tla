----------------------------- MODULE NetInterest -----------------------------
(***************************************************************************)
(* dwrt-core's net-message interest: six ref-counted InterestTables and    *)
(* the counter that gates the packet path.  Every step is one atomic       *)
(* instruction of the code, so the count of an id, the active-id count of  *)
(* its table and the total of the six tables change in three separate      *)
(* steps that other threads interleave with.                               *)
(*                                                                         *)
(* total_active_tables, whatever its name says, counts the mounted         *)
(* (table, id) pairs: track adds one for every id that becomes enabled.    *)
(***************************************************************************)
EXTENDS Integers, FiniteSets

CONSTANTS
  Controllers,  \* threads that add and remove interest
  Routers,      \* threads that route messages
  Capacity,     \* entries of a table
  MsgIds,       \* ids the callers name, some of them outside the tables
  MountTables,  \* tables the controllers use (bounds the inputs)
  NoUser,       \* "no nested user message"
  MaxRefs,      \* bound: mounts of one key held at a time
  W,            \* the counters are unsigned and wrap at W (2^32)
  SpuriousCas   \* may compare_exchange_weak fail without a reason

Ids == 0 .. Capacity - 1
Tables == {"incoming", "outgoing", "user"} \X {"serialized", "fast"}
Keys == Tables \X Ids
NoKey == <<<<"none", "none">>, 0>>
InputKeys == MountTables \X MsgIds
UnknownKeys == (InputKeys \ Keys) \union {NoKey}

ASSUME NetAssumption ==
  /\ IsFiniteSet(Controllers)
  /\ Capacity \in Nat
  /\ MsgIds \subseteq Int
  /\ MountTables \subseteq Tables
  /\ NoUser \notin MsgIds
  /\ SpuriousCas \in BOOLEAN
  /\ W \in Nat /\ MaxRefs \in 1 .. W - 1
  /\ Cardinality(Keys) + Cardinality(Controllers) < W

VARIABLES
  counts,               \* [Keys -> 0 .. W-1]
  active_ids,           \* [Tables -> 0 .. W-1]
  total_active_tables,  \* 0 .. W-1
  pc,                   \* [Controllers -> ...] next instruction of a control call
  key,                  \* the key that call names
  current,              \* remove's local: the count it expects
  answer,               \* <<key, transitioned>>: what each controller's last
                        \* effective call answers, or answered
  rpc,                  \* [Routers -> ...] next instruction of route_message
  event,                \* route_message's arguments
  serialized,           \* route_message's local of that name
  route,                \* what the last route_message returned
  window                \* history: what was mounted while route_message ran

tables == <<counts, active_ids, total_active_tables>>
control == <<pc, key, current, answer>>
routing == <<rpc, event, serialized, route>>
vars == <<tables, control, routing, window>>

ControlPcs == {"idle", "add_active", "add_total", "cas", "sub_active", "sub_total"}
RoutePcs == {"idle", "has_any", "serialized", "user_serialized", "fast", "user_fast"}
NetRoute == {"NoInterest", "FastOnly", "SerializedOnly", "FastAndSerialized"}

Events == [direction : {"incoming", "outgoing"}, msg_id : MsgIds,
           user : MsgIds \union {NoUser}]
NoEvent == [direction |-> "none", msg_id |-> 0, user |-> NoUser]
Windows == [quiet : BOOLEAN, serialized : BOOLEAN, fast : BOOLEAN]
NoWindow == [quiet |-> FALSE, serialized |-> FALSE, fast |-> FALSE]

WrappingInc(n) == IF n = W - 1 THEN 0 ELSE n + 1
WrappingDec(n) == IF n = 0 THEN W - 1 ELSE n - 1

\* InterestTable::has over the counts cs, false for an id without an entry.
Has(cs, table, id) == id \in Ids /\ cs[<<table, id>>] # 0

Init ==
  /\ counts = [k \in Keys |-> 0]
  /\ active_ids = [t \in Tables |-> 0]
  /\ total_active_tables = 0
  /\ pc = [c \in Controllers |-> "idle"]
  /\ key = [c \in Controllers |-> NoKey]
  /\ current = [c \in Controllers |-> 0]
  /\ answer = [c \in Controllers |-> <<NoKey, FALSE>>]
  /\ rpc = [r \in Routers |-> "idle"]
  /\ event = [r \in Routers |-> NoEvent]
  /\ serialized = [r \in Routers |-> FALSE]
  /\ route = [r \in Routers |-> "NoInterest"]
  /\ window = [r \in Routers |-> NoWindow]

-----------------------------------------------------------------------------
(* The history of a routing call: which interest in its message existed at *)
(* some moment of the call, and whether the tables stood still throughout. *)

Wanted(cs, e, kind) ==
  \/ Has(cs, <<e.direction, kind>>, e.msg_id)
  \/ e.user # NoUser /\ Has(cs, <<"user", kind>>, e.user)

Publishing == {c \in Controllers : pc[c] \notin {"idle", "cas"}}

\* A control step changed the tables under the routing calls in flight.
Disturb(cs) ==
  window' = [r \in Routers |->
    IF rpc[r] = "idle" THEN window[r]
    ELSE [quiet |-> FALSE,
          serialized |-> window[r].serialized \/ Wanted(cs, event[r], "serialized"),
          fast |-> window[r].fast \/ Wanted(cs, event[r], "fast")]]

-----------------------------------------------------------------------------
(* Control calls: add_* and remove_*, their table and track or untrack.    *)

Return(c) ==
  /\ pc' = [pc EXCEPT ![c] = "idle"]
  /\ key' = [key EXCEPT ![c] = NoKey]
  /\ current' = [current EXCEPT ![c] = 0]

Goto(c, k, label, expected) ==
  /\ pc' = [pc EXCEPT ![c] = label]
  /\ key' = [key EXCEPT ![c] = k]
  /\ current' = [current EXCEPT ![c] = expected]

Answers(c, k, transitioned) == answer' = [answer EXCEPT ![c] = <<k, transitioned>>]

\* add or remove of an id without an entry.
UnknownId(c, k) ==
  /\ pc[c] = "idle" /\ k \notin Keys
  /\ Return(c) /\ Answers(c, k, FALSE)
  /\ UNCHANGED <<tables, routing, window>>

\* add: the fetch_add on the count.
AddCount(c, k) ==
  /\ pc[c] = "idle" /\ k \in Keys
  /\ counts[k] < MaxRefs
  /\ counts' = [counts EXCEPT ![k] = WrappingInc(@)]
  /\ IF counts[k] = 0 THEN Goto(c, k, "add_active", 0) ELSE Return(c)
  /\ Answers(c, k, counts[k] = 0)
  /\ Disturb(counts')
  /\ UNCHANGED <<active_ids, total_active_tables, routing>>

\* Seeded fault: the thread that enabled the id does not count it.
AddActiveForgotten(c) ==
  /\ pc[c] = "add_active"
  /\ Goto(c, key[c], "add_total", 0)
  /\ Disturb(counts)
  /\ UNCHANGED <<tables, answer, routing>>

\* add: the fetch_add on active_ids, by the thread that enabled the id.
AddActive(c) ==
  /\ pc[c] = "add_active"
  /\ active_ids' = [active_ids EXCEPT ![key[c][1]] = WrappingInc(@)]
  /\ Goto(c, key[c], "add_total", 0)
  /\ Disturb(counts)
  /\ UNCHANGED <<counts, total_active_tables, answer, routing>>

\* track.
AddTotal(c) ==
  /\ pc[c] = "add_total"
  /\ total_active_tables' = WrappingInc(total_active_tables)
  /\ Return(c)
  /\ Disturb(counts)
  /\ UNCHANGED <<counts, active_ids, answer, routing>>

\* Seeded fault: remove does not test the count for zero.
RemoveLooksUntested(c, k) ==
  /\ Goto(c, k, "cas", counts[k])
  /\ UNCHANGED <<answer, tables, routing, window>>

\* remove looks at the count it loaded: nothing to remove if it is zero.
RemoveLooks(c, k) ==
  /\ IF counts[k] = 0
     THEN Return(c) /\ Answers(c, k, FALSE)
     ELSE Goto(c, k, "cas", counts[k]) /\ UNCHANGED answer
  /\ UNCHANGED <<tables, routing, window>>

RemoveLoad(c, k) == pc[c] = "idle" /\ k \in Keys /\ RemoveLooks(c, k)

\* Seeded fault: a load and a store in place of the compare-exchange.
RemoveStore(c) ==
  LET k == key[c]
  IN /\ pc[c] = "cas"
     /\ counts' = [counts EXCEPT ![k] = WrappingDec(current[c])]
     /\ IF current[c] = 1 THEN Goto(c, k, "sub_active", 0) ELSE Return(c)
     /\ Answers(c, k, current[c] = 1)
     /\ Disturb(counts')
     /\ UNCHANGED <<active_ids, total_active_tables, routing>>

\* Seeded fault: every remove of a mounted id counts as its last.
RemoveAlwaysLast(c) ==
  LET k == key[c]
  IN /\ pc[c] = "cas"
     /\ counts[k] = current[c]
     /\ counts' = [counts EXCEPT ![k] = WrappingDec(current[c])]
     /\ Goto(c, k, "sub_active", 0)
     /\ Answers(c, k, TRUE)
     /\ Disturb(counts')
     /\ UNCHANGED <<active_ids, total_active_tables, routing>>

\* remove: compare_exchange_weak succeeds.
RemoveCas(c) ==
  LET k == key[c]
  IN /\ pc[c] = "cas"
     /\ counts[k] = current[c]
     /\ counts' = [counts EXCEPT ![k] = WrappingDec(current[c])]
     /\ IF current[c] = 1 THEN Goto(c, k, "sub_active", 0) ELSE Return(c)
     /\ Answers(c, k, current[c] = 1)
     /\ Disturb(counts')
     /\ UNCHANGED <<active_ids, total_active_tables, routing>>

\* Seeded fault: current is not reloaded when the exchange fails.
RemoveRetryStale(c) ==
  /\ pc[c] = "cas"
  /\ counts[key[c]] # current[c] \/ SpuriousCas
  /\ UNCHANGED vars

\* remove: it fails, current becomes what is there, and the loop starts over.
RemoveRetry(c) ==
  /\ pc[c] = "cas"
  /\ counts[key[c]] # current[c] \/ SpuriousCas
  /\ RemoveLooks(c, key[c])

\* Seeded fault: remove_* does not pass what its table answers to untrack.
SubActiveUntracked(c) ==
  /\ pc[c] = "sub_active"
  /\ active_ids' = [active_ids EXCEPT ![key[c][1]] = WrappingDec(@)]
  /\ Return(c)
  /\ Disturb(counts)
  /\ UNCHANGED <<counts, total_active_tables, answer, routing>>

\* remove: the fetch_sub on active_ids, by the thread that disabled the id.
SubActive(c) ==
  /\ pc[c] = "sub_active"
  /\ active_ids' = [active_ids EXCEPT ![key[c][1]] = WrappingDec(@)]
  /\ Goto(c, key[c], "sub_total", 0)
  /\ Disturb(counts)
  /\ UNCHANGED <<counts, total_active_tables, answer, routing>>

\* untrack.
SubTotal(c) ==
  /\ pc[c] = "sub_total"
  /\ total_active_tables' = WrappingDec(total_active_tables)
  /\ Return(c)
  /\ Disturb(counts)
  /\ UNCHANGED <<counts, active_ids, answer, routing>>

Call(c) == \E k \in InputKeys : UnknownId(c, k) \/ AddCount(c, k) \/ RemoveLoad(c, k)
Continue(c) == \/ AddActive(c) \/ AddTotal(c)
               \/ RemoveCas(c) \/ RemoveRetry(c) \/ SubActive(c) \/ SubTotal(c)

-----------------------------------------------------------------------------
(* route_message, one load a step.                                          *)

RouteOf(fast, ser) ==
  CASE fast /\ ser   -> "FastAndSerialized"
    [] fast /\ ~ser  -> "FastOnly"
    [] ~fast /\ ser  -> "SerializedOnly"
    [] ~fast /\ ~ser -> "NoInterest"

RouteCall(r, e) ==
  /\ rpc[r] = "idle"
  /\ rpc' = [rpc EXCEPT ![r] = "has_any"]
  /\ event' = [event EXCEPT ![r] = e]
  /\ window' = [window EXCEPT ![r] =
       [quiet |-> Publishing = {},
        serialized |-> Wanted(counts, e, "serialized"), fast |-> Wanted(counts, e, "fast")]]
  /\ UNCHANGED <<tables, control, serialized, route>>

RouteReturn(r, result) ==
  /\ rpc' = [rpc EXCEPT ![r] = "idle"]
  /\ event' = [event EXCEPT ![r] = NoEvent]
  /\ serialized' = [serialized EXCEPT ![r] = FALSE]
  /\ route' = [route EXCEPT ![r] = result]
  /\ window' = [window EXCEPT ![r] = NoWindow]
  /\ UNCHANGED <<tables, control>>

RouteNext(r, label) ==
  /\ rpc' = [rpc EXCEPT ![r] = label]
  /\ UNCHANGED <<tables, control, event, route, window>>

\* has_any: the gate of the hot path.
RouteHasAny(r) ==
  /\ rpc[r] = "has_any"
  /\ IF total_active_tables = 0
     THEN RouteReturn(r, "NoInterest")
     ELSE RouteNext(r, "serialized") /\ UNCHANGED serialized

\* Seeded fault: the nested user message matters only if the envelope does.
RouteSerializedBoth(r) ==
  LET has == Has(counts, <<event[r].direction, "serialized">>, event[r].msg_id)
  IN /\ rpc[r] = "serialized"
     /\ serialized' = [serialized EXCEPT ![r] = has]
     /\ RouteNext(r, IF has /\ event[r].user # NoUser THEN "user_serialized" ELSE "fast")

\* The two loads behind `serialized`; the second only if the first is false.
RouteSerialized(r) ==
  LET has == Has(counts, <<event[r].direction, "serialized">>, event[r].msg_id)
  IN /\ rpc[r] = "serialized"
     /\ serialized' = [serialized EXCEPT ![r] = has]
     /\ RouteNext(r, IF ~has /\ event[r].user # NoUser THEN "user_serialized" ELSE "fast")

RouteUserSerialized(r) ==
  /\ rpc[r] = "user_serialized"
  /\ serialized' = [serialized EXCEPT ![r] = Has(counts, <<"user", "serialized">>, event[r].user)]
  /\ RouteNext(r, "fast")

\* Seeded fault: the table of the other direction.
RouteFastIncoming(r) ==
  LET has == Has(counts, <<"incoming", "fast">>, event[r].msg_id)
  IN /\ rpc[r] = "fast"
     /\ IF ~has /\ event[r].user # NoUser
        THEN RouteNext(r, "user_fast") /\ UNCHANGED serialized
        ELSE RouteReturn(r, RouteOf(has, serialized[r]))

\* The two loads behind `fast`, and the answer.
RouteFast(r) ==
  LET has == Has(counts, <<event[r].direction, "fast">>, event[r].msg_id)
  IN /\ rpc[r] = "fast"
     /\ IF ~has /\ event[r].user # NoUser
        THEN RouteNext(r, "user_fast") /\ UNCHANGED serialized
        ELSE RouteReturn(r, RouteOf(has, serialized[r]))

RouteUserFast(r) ==
  /\ rpc[r] = "user_fast"
  /\ RouteReturn(r, RouteOf(Has(counts, <<"user", "fast">>, event[r].user), serialized[r]))

Route(r) == \/ \E e \in Events : RouteCall(r, e)
            \/ RouteHasAny(r) \/ RouteSerialized(r) \/ RouteUserSerialized(r)
            \/ RouteFast(r) \/ RouteUserFast(r)

-----------------------------------------------------------------------------
Next == \/ \E c \in Controllers : Call(c) \/ Continue(c)
        \/ \E r \in Routers : Route(r)

Spec == Init /\ [][Next]_vars

\* The operating system schedules every thread that is inside a call.
FairSpec == Spec /\ \A c \in Controllers : WF_vars(Continue(c))
-----------------------------------------------------------------------------
(* Properties.                                                              *)

Adding(label) == {c \in Controllers : pc[c] = label}
InTable(cs, t) == {c \in cs : key[c][1] = t}
MountedIds(t) == {id \in Ids : counts[<<t, id>>] # 0}
MountedKeys == {k \in Keys : counts[k] # 0}

CounterTypes ==
  /\ counts \in [Keys -> 0 .. MaxRefs]
  /\ active_ids \in [Tables -> 0 .. W - 1]
  /\ total_active_tables \in 0 .. W - 1

\* A controller past its first instruction named a key with an entry, and one
\* in the compare-exchange loop expects a count that it may decrement.
ControlTypes ==
  /\ pc \in [Controllers -> ControlPcs]
  /\ key \in [Controllers -> (InputKeys \intersect Keys) \union {NoKey}]
  /\ current \in [Controllers -> 0 .. MaxRefs]
  /\ answer \in [Controllers -> (InputKeys \union {NoKey}) \X BOOLEAN]
  /\ \A c \in Controllers : /\ pc[c] # "idle" <=> key[c] # NoKey
                            /\ pc[c] = "cas" <=> current[c] # 0

RoutingTypes ==
  /\ rpc \in [Routers -> RoutePcs]
  /\ event \in [Routers -> Events \union {NoEvent}]
  /\ serialized \in [Routers -> BOOLEAN]
  /\ route \in [Routers -> NetRoute]
  /\ window \in [Routers -> Windows]

(* Type correctness; the bound on counts says that no interleaving of      *)
(* remove's load and compare-exchange takes a count below zero, where it   *)
(* would wrap to 2^32 - 1 and keep the id mounted for good.                *)
TypeOK == CounterTypes /\ ControlTypes /\ RoutingTypes

Wrapped(n) == IF n < 0 THEN n + W ELSE n

(* active_ids of a table is the number of its mounted ids, short by the    *)
(* adders and over by the removers that have changed a count and not yet   *)
(* active_ids, modulo 2^32: a remover that overtakes the adder of its own  *)
(* id takes it below zero (InterestTable::add and remove).                 *)
ActiveIdsAccounted ==
  \A t \in Tables :
    active_ids[t] = Wrapped(Cardinality(MountedIds(t))
                            - Cardinality(InTable(Adding("add_active"), t))
                            + Cardinality(InTable(Adding("sub_active"), t)))

AddPending == Adding("add_active") \union Adding("add_total")
SubPending == Adding("sub_active") \union Adding("sub_total")

(* The same of the gate of the packet path (NetInterest::track, untrack).  *)
TotalAccounted ==
  total_active_tables = Wrapped(Cardinality(MountedKeys)
                                - Cardinality(AddPending) + Cardinality(SubPending))

(* The inductive invariant the theorems of NetInterest_proofs rest on.     *)
CountersAccounted == TypeOK /\ ActiveIdsAccounted /\ TotalAccounted

(* When no thread is between its instructions the counters are exact: no   *)
(* interleaving of adds and removes leaves the gate of route_message shut  *)
(* over mounted interest, or open over none, for longer than the calls.    *)
ExactWhenSettled ==
  Publishing = {} =>
    /\ total_active_tables = Cardinality(MountedKeys)
    /\ \A t \in Tables : active_ids[t] = Cardinality(MountedIds(t))

(* The gate is shut over mounted interest only while some add has raised   *)
(* its count and not yet the total (has_any in route_message).             *)
ShutOnlyWhileAdding ==
  (MountedKeys # {} /\ total_active_tables = 0) => AddPending # {}

(* What the comment on InterestTable and route_message's gate promise: an  *)
(* id that is mounted and that no call in flight concerns makes has_any    *)
(* answer yes.                                                             *)
StableMountSeen ==
  \A k \in MountedKeys :
    (\A c \in Controllers : pc[c] # "idle" => key[c] # k) => total_active_tables # 0

RouteReturns(r) == rpc[r] # "idle" /\ rpc'[r] = "idle"
WantsSerialized(rt) == rt \in {"SerializedOnly", "FastAndSerialized"}
WantsFast(rt) == rt \in {"FastOnly", "FastAndSerialized"}

(* A routing call that no control call disturbs answers exactly for the    *)
(* interest mounted in its message: by direction, by kind and through the  *)
(* nested user message (route_message).                                    *)
RouteExactWhenQuiet ==
  [][\A r \in Routers : (RouteReturns(r) /\ window[r].quiet) =>
       /\ WantsSerialized(route'[r]) <=> Wanted(counts, event[r], "serialized")
       /\ WantsFast(route'[r]) <=> Wanted(counts, event[r], "fast")]_vars

(* However the loads of a routing call interleave with control calls, it   *)
(* asks for no work that nobody wanted at any moment of the call.          *)
RouteInventsNothing ==
  [][\A r \in Routers : RouteReturns(r) =>
       /\ WantsSerialized(route'[r]) => window[r].serialized
       /\ WantsFast(route'[r]) => window[r].fast]_vars

(* Lock freedom of remove's loop and of the bumps: while calls are in      *)
(* flight for good, calls keep returning.                                  *)
CallsKeepReturning ==
  <>[](\E c \in Controllers : pc[c] # "idle")
  => []<><<\E c \in Controllers : pc[c] # "idle" /\ pc'[c] = "idle">>_vars

(* The counts implement the abstract reference counts: each call takes     *)
(* effect in one step, and exactly the call that enables or disables a key *)
(* answers that it did.                                                    *)
RefCounts == INSTANCE RefCountedInterest WITH
  Callers <- Controllers, Keys <- Keys, Unknown <- UnknownKeys,
  refs <- counts, reply <- answer
ImplementsRefCounts == RefCounts!Spec
=============================================================================
