--------------------------- MODULE MCWalkerPatrol ---------------------------
(***************************************************************************)
(* The walker patrol for TLC: environments that are unset, out of range or *)
(* partly invalid, with small limits.                                      *)
(***************************************************************************)
EXTENDS WalkerPatrol

CONSTANTS t1, t2, unset

Env(mode, stride, vectors) == [mode |-> mode, stride |-> stride, vectors |-> vectors]

\* Default vectors, too many of them, invalid ones, no stride.
AllEnvironments ==
  {Env(mode, stride, vectors) :
     mode \in {"velocity", "origin"}, stride \in {unset, 0, 1, 3, 9},
     vectors \in {unset, <<"bad">>, <<"a", "empty", "b">>, <<"bad", "a", "b", "c", "d">>}}
OneEnvironment == {Env("origin", 1, <<"a", "b">>)}

AllThreads == {t1, t2}
AllScenarios ==
  [turns |->      \* callbacks of two threads that overlap, in every environment
     [environments |-> AllEnvironments, victims |-> {"non_walker_victims", "walker"}, threads |-> AllThreads,
      calls |-> 5, controls |-> 0],
   refused |->    \* every reason to leave the victim alone
     [environments |-> OneEnvironment, victims |-> Refusals \union {"walker"}, threads |-> AllThreads,
      calls |-> 3, controls |-> 0],
   controlled |-> \* a reset and a snapshot between any two instructions
     [environments |-> OneEnvironment, victims |-> {"non_walker_victims", "walker"}, threads |-> {t1},
      calls |-> 2, controls |-> 2]]
=============================================================================
