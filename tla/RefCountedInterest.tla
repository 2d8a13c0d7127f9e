------------------------- MODULE RefCountedInterest -------------------------
(***************************************************************************)
(* What the interest tables of dwrt-core promise to the plugins that mount *)
(* message ids: every key (table, id) has a reference count, a mount and   *)
(* an unmount take effect in one step, and the caller learns whether its   *)
(* call was the one that enabled or disabled the key.                      *)
(***************************************************************************)
EXTENDS Naturals

CONSTANTS Callers,  \* threads that mount and unmount
          Keys,     \* the keys that have an entry
          Unknown   \* keys a caller may name that have no entry

VARIABLES refs,     \* [Keys -> Nat]
          reply     \* [Callers -> <<key of the last call, was it a transition>>]

vars == <<refs, reply>>

Init == /\ refs = [k \in Keys |-> 0]
        /\ \E k \in Keys \union Unknown : reply = [c \in Callers |-> <<k, FALSE>>]

Mount(c, k) ==
  /\ refs' = [refs EXCEPT ![k] = @ + 1]
  /\ reply' = [reply EXCEPT ![c] = <<k, refs[k] = 0>>]

Unmount(c, k) ==
  /\ refs[k] > 0
  /\ refs' = [refs EXCEPT ![k] = @ - 1]
  /\ reply' = [reply EXCEPT ![c] = <<k, refs[k] = 1>>]

\* Removing what is not mounted changes nothing.
UnmountNothing(c, k) ==
  /\ refs[k] = 0
  /\ reply' = [reply EXCEPT ![c] = <<k, FALSE>>]
  /\ UNCHANGED refs

\* An id outside the table changes nothing.
NoEntry(c, k) ==
  /\ reply' = [reply EXCEPT ![c] = <<k, FALSE>>]
  /\ UNCHANGED refs

Next == \E c \in Callers :
          \/ \E k \in Keys : Mount(c, k) \/ Unmount(c, k) \/ UnmountNothing(c, k)
          \/ \E k \in Unknown : NoEntry(c, k)

Spec == Init /\ [][Next]_vars
=============================================================================
