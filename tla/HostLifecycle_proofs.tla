------------------------- MODULE HostLifecycle_proofs -------------------------
(***************************************************************************)
(* Proofs about HostLifecycle, for any hooks, configurations, calls and    *)
(* number of sessions.                                                     *)
(***************************************************************************)
EXTENDS HostLifecycle, TLAPS

\* Before the first initialize only a shutdown can run.
SessionKnown ==
  session = 0 => \/ pc = "idle"
                 \/ pc \in {"unhook", "forget", "free", "null", "clear"} /\ purpose = "shutdown"

Typed == TypeOK /\ SessionKnown

-----------------------------------------------------------------------------
(* What holds of the hooks while they are installed one by one and taken   *)
(* away again.                                                             *)

\* Hooks are enabled only from their installation to their removal.
HooksInTheirPhase ==
  /\ enabled # {} => pc \in {"idle", "install", "enable", "finish", "unhook"}
  /\ enabled # {} /\ pc = "idle" => initialized
  /\ todo # {} => pc \in {"install", "enable"}

\* A live trampoline is of an enabled hook or of the one being enabled, and
\* its original is known.
TrampolinesKnown ==
  /\ \A h \in Hooks : trampoline[h] # Null =>
       original[h] = trampoline[h] /\ (h \in enabled \/ (pc = "enable" /\ h \in todo))
  /\ \A h \in enabled : trampoline[h] # Null /\ h \notin todo
  /\ \A g, h \in todo : trampoline[g] # Null /\ trampoline[h] # Null => g = h

\* The pointer of the shim is to the only runtime there is.
RuntimeKnown ==
  /\ objects \subseteq {runtime}
  /\ runtime # Null => runtime \in objects \/ pc = "null"
  /\ pc \in {"null", "load"} => objects = {}

\* Hooking makes an original known as it makes its trampoline.  While a hook of
\* Borrowing is enabled, that of Lender is not taken away.
OriginalsKnown ==
  /\ pc \notin {"unhook", "forget"} => \A h \in Hooks : original[h] = trampoline[h]
  /\ enabled \intersect Borrowing # {} => original[Lender] = trampoline[Lender]

\* What a call whose own hook was not taken away has loaded is still there.
OwnKnown(call) ==
  call.phase # "out" /\ call.hook \notin call.overtaken =>
    /\ call.hook \in enabled
    /\ call.phase \notin {"freed_runtime", "freed_original"}
    /\ call.phase = "recording" => call.pointer \in objects
    /\ call.phase = "calling" => call.pointer = original[call.hook]
    /\ call.phase = "returning" => call.ran

\* What a call has borrowed is still there if the lender's hook was not taken away.
BorrowedKnown(call) ==
  /\ call.phase \in {"borrowing", "freed_borrowed"} => call.hook \in Borrowing
  /\ call.phase # "out" /\ call.hook \in Borrowing /\ Lender \notin call.overtaken =>
       /\ original[Lender] = trampoline[Lender]
       /\ call.phase # "freed_borrowed"
       /\ call.phase = "borrowing" => call.pointer \in {Null, trampoline[Lender]}

OwnsKnown == \A c \in Calls : OwnKnown(calls[c])
LoansKnown == \A c \in Calls : BorrowedKnown(calls[c])

HookInv == Typed /\ HooksInTheirPhase /\ TrampolinesKnown /\ OriginalsKnown
           /\ RuntimeKnown /\ OwnsKnown /\ LoansKnown

-----------------------------------------------------------------------------
(* What initialize has made sure of when it gets to each of its steps.     *)

RuntimeAsRequired == config.require_runtime => probe_ok /\ runtime \in objects
SignaturesAsRequired == config.require_signatures => ~failing /\ server # "none"

InstallInv ==
  /\ pc \in {"install", "enable"} => Hooks = todo \union failures \union enabled
  /\ pc = "finish" => enabled \in {{}, Hooks}
  /\ \A h \in Hooks : trampoline[h] # Null => server = "live" /\ matches[h] # "none"
  /\ pc \in {"install", "enable"} => server = "live" /\ config.install

RequiredInv ==
  /\ initialized /\ pc # "idle" => purpose = "shutdown"
  /\ purpose = "initialize" => pc \notin {"unhook", "forget", "clear"}
  /\ purpose = "rollback" => pc \notin {"free", "null", "load", "resolve", "install", "enable", "clear"}
  /\ purpose = "shutdown" => pc \in {"idle", "unhook", "forget", "free", "null", "clear"}
  /\ purpose = "shutdown" /\ pc = "idle" => ~initialized
  /\ pc \in {"resolve", "install", "enable", "finish"} => RuntimeAsRequired
  /\ pc \in {"unhook", "forget"} /\ purpose = "rollback" => RuntimeAsRequired /\ SignaturesAsRequired
  /\ pc \in {"install", "enable"} => SignaturesAsRequired
  /\ pc = "finish" => SignaturesAsRequired
                      /\ (config.require_signatures /\ config.install => enabled = Hooks)
  /\ pc = "idle" => (enabled # {} => enabled = Hooks)

IInv == HookInv /\ InstallInv /\ RequiredInv /\ InitializedAsRequired

-----------------------------------------------------------------------------
(* Types.                                                                  *)

LEMMA NullSession == Null \notin Sessions /\ \A s \in 1 .. MaxSessions : s \in Sessions
BY HostAssumption DEF Null, Sessions

LEMMA OutTyped == \A h \in Hooks : Out(h) \in CallType
BY DEF Out, CallType, Phases

LEMMA InitTyped == Init => Typed
<1> SUFFICES ASSUME Init PROVE Typed
  OBVIOUS
<1>1. calls \in [Calls -> CallType] /\ \A c \in Calls : calls[c].phase = "out"
  BY OutTyped DEF Init, Out
<1>2. session = 0 /\ session \in 0 .. MaxSessions
  BY HostAssumption DEF Init
<1> QED
  BY <1>1, <1>2 DEF Init, Typed, SessionKnown, TypeOK, Steps, Matches

\* A step of a detour replaces one call by another.
LEMMA StepTypes ==
  ASSUME TypeOK, NEW c \in Calls, NEW call \in CallType, Step(c, call),
         call.phase \in {"recording", "calling"} => call.pointer # Null
  PROVE  TypeOK'
<1>1. calls' = [calls EXCEPT ![c] = call]
  BY DEF Step
<1>2. calls' \in [Calls -> CallType]
        /\ \A d \in Calls : calls'[d].phase \in {"recording", "calling"} => calls'[d].pointer # Null
  BY <1>1 DEF TypeOK
<1> QED
  BY <1>2 DEF Step, TypeOK, control, found, library, hooking

LEMMA CallTypes ==
  ASSUME TypeOK, NEW c \in Calls
  PROVE  /\ calls[c] \in CallType
         /\ \A h \in Hooks : original[h] \in Sessions \union {Null}
BY DEF TypeOK

LEMMA DetourTypes ==
  ASSUME TypeOK, NEW c \in Calls, Detour(c)
  PROVE  TypeOK'
<1> USE CallTypes
<1>1. ASSUME NEW h \in Hooks, EnterDetour(c, h)
      PROVE  TypeOK'
  <2>1. [Out(h) EXCEPT !.phase = "entered"] \in CallType
        /\ [Out(h) EXCEPT !.phase = "entered"].phase = "entered"
    BY OutTyped DEF CallType, Phases
  <2>2. QED
    BY <1>1, <2>1, StepTypes DEF EnterDetour
<1>2. CASE ReadRuntime(c)
  <2>1. [calls[c] EXCEPT !.phase = "recording", !.pointer = runtime] \in CallType
    <3>1. runtime \in Sessions \union {Null}
      BY DEF TypeOK
    <3>2. QED
      BY <3>1 DEF CallType, Phases
  <2>2. QED
    BY <1>2, <2>1, StepTypes DEF ReadRuntime, CallType
<1>3. CASE SkipRecord(c)
  BY <1>3, StepTypes DEF SkipRecord, CallType, Phases
<1>4. CASE UseRuntime(c)
  BY <1>4, StepTypes DEF UseRuntime, CallType, Phases
<1>5. CASE ReadBorrowed(c)
  <2>1. original[Lender] \in Sessions \union {Null}
    BY HostAssumption
  <2>2. [calls[c] EXCEPT !.phase = "borrowing", !.pointer = original[Lender]] \in CallType
    BY <2>1 DEF CallType, Phases
  <2>3. QED
    BY <1>5, <2>2, StepTypes DEF ReadBorrowed, CallType
<1>6. CASE SkipBorrowed(c)
  BY <1>6, StepTypes DEF SkipBorrowed, CallType, Phases
<1>7. CASE CallBorrowed(c)
  BY <1>7, StepTypes DEF CallBorrowed, CallType, Phases
<1>8. CASE ReadOriginal(c)
  <2> DEFINE o == original[calls[c].hook]
             f == [calls[c] EXCEPT !.phase = IF o = Null THEN "returning" ELSE "calling", !.pointer = o]
  <2>1. f \in CallType /\ (f.phase \in {"recording", "calling"} => f.pointer # Null)
    BY DEF CallType, Phases
  <2>2. QED
    BY <1>8, <2>1, StepTypes DEF ReadOriginal
<1>9. CASE CallOriginal(c)
  <2>1. [calls[c] EXCEPT !.phase = "returning", !.ran = TRUE] \in CallType
        /\ [calls[c] EXCEPT !.phase = "freed_original"] \in CallType
    BY DEF CallType, Phases
  <2>2. QED
    BY <1>9, <2>1, StepTypes DEF CallOriginal, CallType
<1>10. CASE LeaveDetour(c)
  <2>1. Out(calls[c].hook) \in CallType /\ Out(calls[c].hook).phase = "out"
    BY OutTyped DEF CallType, Out
  <2>2. QED
    BY <1>10, <2>1, StepTypes DEF LeaveDetour
<1> QED
  BY <1>1, <1>2, <1>3, <1>4, <1>5, <1>6, <1>7, <1>8, <1>9, <1>10 DEF Detour

\* A hook is taken away from calls.
LEMMA OvertakeTypes ==
  ASSUME TypeOK, NEW h \in Hooks, Overtake(h), NEW c \in Calls
  PROVE  /\ calls' \in [Calls -> CallType]
         /\ calls'[c].phase = calls[c].phase /\ calls'[c].hook = calls[c].hook
         /\ calls'[c].pointer = calls[c].pointer /\ calls'[c].ran = calls[c].ran
         /\ calls[c].overtaken \subseteq calls'[c].overtaken
         /\ calls[c].phase # "out" /\ h \in Uses(calls[c].hook) => h \in calls'[c].overtaken
<1> DEFINE after(d) == [calls[d] EXCEPT !.overtaken = @ \union {h}]
<1>1. \A d \in Calls : calls[d] \in CallType
  BY DEF TypeOK
<1>2. \A d \in Calls : after(d) \in CallType
  BY <1>1 DEF CallType
<1>3. \A d \in Calls : calls'[d] = IF calls[d].phase # "out" /\ h \in Uses(calls[d].hook)
                                   THEN after(d) ELSE calls[d]
  BY DEF Overtake
<1>4. calls' \in [Calls -> CallType]
  BY <1>1, <1>2 DEF Overtake
<1>5. /\ after(c).phase = calls[c].phase /\ after(c).hook = calls[c].hook
      /\ after(c).pointer = calls[c].pointer /\ after(c).ran = calls[c].ran
      /\ after(c).overtaken = calls[c].overtaken \union {h}
  BY <1>1 DEF CallType
<1> QED
  BY <1>3, <1>4, <1>5

LEMMA ControlTypes ==
  ASSUME Typed, Control
  PROVE  Typed'
<1> USE DEF Typed, SessionKnown, TypeOK, Steps, FailOr, control, found, library, hooking
<1>1. ASSUME NEW c \in Configs, Initialize(c)
      PROVE  Typed'
  <2>1. session' \in 1 .. MaxSessions
    BY <1>1, HostAssumption DEF Initialize
  <2>2. session' # 0 /\ session' \in 0 .. MaxSessions
    BY <2>1, HostAssumption
  <2>3. pc' \in Steps /\ matches' \in [Hooks -> Matches]
    BY <1>1 DEF Initialize, Matches
  <2>4. /\ trampoline' \in [Hooks -> Sessions \union {Null}]
        /\ original' \in [Hooks -> Sessions \union {Null}]
        /\ failures' = {} /\ enabled' = {} /\ todo' = {}
    BY <1>1 DEF Initialize, Unhooked
  <2>5. QED
    BY <1>1, <2>2, <2>3, <2>4 DEF Initialize
<1>2. CASE FreeRuntime
  BY <1>2 DEF FreeRuntime
<1>3. CASE NullRuntime
  BY <1>3 DEF NullRuntime
<1>4. CASE LoadFails
  BY <1>4 DEF LoadFails
<1>5. ASSUME NEW ok \in BOOLEAN, LoadRuntime(ok)
      PROVE  Typed'
  <2>1. session \in Sessions
    BY <1>5, HostAssumption DEF LoadRuntime, Sessions
  <2>2. QED
    BY <1>5, <2>1 DEF LoadRuntime
<1>6. CASE ServerMissing
  BY <1>6 DEF ServerMissing
<1>7. ASSUME NEW m \in {"live", "mapped"}, NEW found_at \in [Hooks -> Matches], NEW others \in BOOLEAN,
             Resolve(m, found_at, others)
      PROVE  Typed'
  BY <1>7 DEF Resolve, Unhooked, Refused, Acceptable
<1>8. CASE Finish
  BY <1>8 DEF Finish
<1>9. ASSUME NEW h \in Hooks, CreateHook(h) \/ EnableHook(h) \/ CreateFails(h) \/ EnableFails(h)
      PROVE  Typed'
  <2>1. CreateHook(h) => session \in Sessions
    BY HostAssumption DEF CreateHook, Sessions
  <2>2. CASE CreateHook(h)
    BY <2>1, <2>2 DEF CreateHook
  <2>3. CASE EnableHook(h)
    BY <2>1, <2>3 DEF EnableHook
  <2>4. CASE CreateFails(h)
    BY <2>1, <2>4 DEF CreateFails, Skip
  <2>5. CASE EnableFails(h)
    <3>1. calls' \in [Calls -> CallType]
          /\ \A c \in Calls : calls'[c].phase \in {"recording", "calling"} => calls'[c].pointer # Null
      BY <2>5, OvertakeTypes DEF EnableFails, Overtake
    <3>2. /\ trampoline' \in [Hooks -> Sessions \union {Null}]
          /\ original' \in [Hooks -> Sessions \union {Null}]
      BY <2>5 DEF EnableFails
    <3>3. QED
      BY <2>5, <3>1, <3>2 DEF EnableFails, Skip
  <2>6. QED
    BY <1>9, <2>2, <2>3, <2>4, <2>5
<1>10. CASE EndInstall
  BY <1>10 DEF EndInstall
<1>11. CASE Shutdown
  BY <1>11 DEF Shutdown
<1>12. ASSUME NEW h \in Hooks, Unhook(h)
       PROVE  Typed'
  <2>2. calls' \in [Calls -> CallType]
        /\ \A c \in Calls : calls'[c].phase \in {"recording", "calling"} => calls'[c].pointer # Null
    BY <1>12, OvertakeTypes DEF Unhook, Overtake
  <2>3. trampoline' \in [Hooks -> Sessions \union {Null}] /\ enabled' \subseteq Hooks
    BY <1>12 DEF Unhook
  <2>4. QED
    BY <1>12, <2>2, <2>3 DEF Unhook
<1>13. ASSUME NEW h \in Hooks, ForgetOriginal(h)
       PROVE  Typed'
  BY <1>13 DEF ForgetOriginal
<1>14. CASE EndUnhook
  BY <1>14 DEF EndUnhook
<1>15. CASE EndForget
  BY <1>15 DEF EndForget
<1>16. CASE Clear
  BY <1>16 DEF Clear, Matches
<1> QED
  BY <1>1, <1>2, <1>3, <1>4, <1>5, <1>6, <1>7, <1>8, <1>9, <1>10, <1>11, <1>12, <1>13, <1>14, <1>15, <1>16 DEF Control

LEMMA TypeStep == Typed /\ [Next]_vars => Typed'
<1>1. Typed /\ UNCHANGED vars => Typed'
  BY DEF Typed, SessionKnown, TypeOK, vars, control, found, library, hooking
<1>2. ASSUME Typed, NEW c \in Calls, Detour(c)
      PROVE  Typed'
  <2>1. UNCHANGED control
    BY <1>2 DEF Detour, EnterDetour, ReadRuntime, SkipRecord, UseRuntime, ReadBorrowed, SkipBorrowed,
                CallBorrowed, ReadOriginal, CallOriginal, LeaveDetour, Step
  <2>2. QED
    BY <1>2, <2>1, DetourTypes DEF Typed, SessionKnown, control
<1> QED
  BY <1>1, <1>2, ControlTypes DEF Next

-----------------------------------------------------------------------------
(* The hooks.                                                              *)

\* A detour changes nothing but its call.
LEMMA DetourChanges ==
  ASSUME NEW c \in Calls, Detour(c)
  PROVE  UNCHANGED <<control, found, library, hooking, initialized>>
BY DEF Detour, EnterDetour, ReadRuntime, SkipRecord, UseRuntime, ReadBorrowed, SkipBorrowed,
       CallBorrowed, ReadOriginal, CallOriginal, LeaveDetour, Step

LEMMA PhaseStep ==
  ASSUME HooksInTheirPhase, Next
  PROVE  HooksInTheirPhase'
<1> USE DEF HooksInTheirPhase, control, found, library, hooking, FailOr
<1>1. ASSUME NEW c \in Configs, Initialize(c)
      PROVE  HooksInTheirPhase'
  BY <1>1 DEF Initialize, Unhooked
<1>2. CASE FreeRuntime \/ NullRuntime \/ LoadFails \/ ServerMissing
  BY <1>2 DEF FreeRuntime, NullRuntime, LoadFails, ServerMissing
<1>3. ASSUME NEW ok \in BOOLEAN, LoadRuntime(ok)
      PROVE  HooksInTheirPhase'
  BY <1>3 DEF LoadRuntime
<1>4. ASSUME NEW m \in {"live", "mapped"}, NEW found_at \in [Hooks -> Matches], NEW others \in BOOLEAN,
             Resolve(m, found_at, others)
      PROVE  HooksInTheirPhase'
  BY <1>4 DEF Resolve, Unhooked, Refused
<1>5. CASE Finish \/ EndInstall \/ Shutdown \/ EndUnhook \/ EndForget \/ Clear
  BY <1>5 DEF Finish, EndInstall, Shutdown, EndUnhook, EndForget, Clear
<1>6. ASSUME NEW h \in Hooks, CreateHook(h) \/ EnableHook(h) \/ CreateFails(h) \/ EnableFails(h)
      PROVE  HooksInTheirPhase'
  BY <1>6 DEF CreateHook, EnableHook, CreateFails, EnableFails, Skip
<1>7. ASSUME NEW h \in Hooks, Unhook(h) \/ ForgetOriginal(h)
      PROVE  HooksInTheirPhase'
  BY <1>7 DEF Unhook, ForgetOriginal
<1>8. ASSUME NEW c \in Calls, Detour(c)
      PROVE  HooksInTheirPhase'
  BY <1>8, DetourChanges
<1> QED
  BY <1>1, <1>2, <1>3, <1>4, <1>5, <1>6, <1>7, <1>8 DEF Next, Control

LEMMA TrampolineStep ==
  ASSUME Typed, HooksInTheirPhase, TrampolinesKnown, Next
  PROVE  TrampolinesKnown'
<1> USE DEF TrampolinesKnown, control, found, library, hooking, FailOr
<1>1. ASSUME NEW c \in Configs, Initialize(c)
      PROVE  TrampolinesKnown'
  BY <1>1 DEF Initialize, Unhooked
<1>2. CASE FreeRuntime \/ NullRuntime \/ LoadFails \/ ServerMissing
  BY <1>2 DEF FreeRuntime, NullRuntime, LoadFails, ServerMissing
<1>3. ASSUME NEW ok \in BOOLEAN, LoadRuntime(ok)
      PROVE  TrampolinesKnown'
  BY <1>3 DEF LoadRuntime
<1>4. ASSUME NEW m \in {"live", "mapped"}, NEW found_at \in [Hooks -> Matches], NEW others \in BOOLEAN,
             Resolve(m, found_at, others)
      PROVE  TrampolinesKnown'
  <2>1. pc = "resolve" /\ todo = {} /\ \A h \in Hooks : trampoline[h] = Null
    BY <1>4 DEF Resolve, HooksInTheirPhase, Typed, TypeOK
  <2>2. CASE Unhooked /\ todo' = Hooks
    BY <2>1, <2>2 DEF Unhooked
  <2>3. CASE UNCHANGED hooking
    BY <2>1, <2>3
  <2>4. QED
    BY <1>4, <2>2, <2>3 DEF Resolve
<1>5. CASE Finish \/ EndInstall \/ Shutdown \/ EndUnhook \/ EndForget \/ Clear
  BY <1>5 DEF Finish, EndInstall, Shutdown, EndUnhook, EndForget, Clear
<1>6. ASSUME NEW h \in Hooks, CreateHook(h)
      PROVE  TrampolinesKnown'
  BY <1>6 DEF CreateHook, Typed, TypeOK
<1>7. ASSUME NEW h \in Hooks, EnableHook(h)
      PROVE  TrampolinesKnown'
  BY <1>7 DEF EnableHook, Typed, TypeOK
<1>8. ASSUME NEW h \in Hooks, CreateFails(h) \/ EnableFails(h)
      PROVE  TrampolinesKnown'
  BY <1>8 DEF CreateFails, EnableFails, Skip, Typed, TypeOK
<1>9. ASSUME NEW h \in Hooks, Unhook(h)
      PROVE  TrampolinesKnown'
  BY <1>9 DEF Unhook, Typed, TypeOK
<1>10. ASSUME NEW h \in Hooks, ForgetOriginal(h)
       PROVE  TrampolinesKnown'
  BY <1>10 DEF ForgetOriginal, HooksInTheirPhase, Typed, TypeOK
<1>11. ASSUME NEW c \in Calls, Detour(c)
       PROVE  TrampolinesKnown'
  BY <1>11, DetourChanges
<1> QED
  BY <1>1, <1>2, <1>3, <1>4, <1>5, <1>6, <1>7, <1>8, <1>9, <1>10, <1>11 DEF Next, Control

LEMMA RuntimeStep ==
  ASSUME Typed, RuntimeKnown, Next
  PROVE  RuntimeKnown'
<1> USE DEF RuntimeKnown, control, found, library, hooking, FailOr
<1>1. ASSUME NEW c \in Configs, Initialize(c)
      PROVE  RuntimeKnown'
  BY <1>1 DEF Initialize
<1>2. CASE FreeRuntime \/ NullRuntime \/ LoadFails \/ ServerMissing
  BY <1>2 DEF FreeRuntime, NullRuntime, LoadFails, ServerMissing
<1>3. ASSUME NEW ok \in BOOLEAN, LoadRuntime(ok)
      PROVE  RuntimeKnown'
  BY <1>3 DEF LoadRuntime
<1>4. ASSUME NEW m \in {"live", "mapped"}, NEW found_at \in [Hooks -> Matches], NEW others \in BOOLEAN,
             Resolve(m, found_at, others)
      PROVE  RuntimeKnown'
  BY <1>4 DEF Resolve
<1>5. CASE Finish \/ EndInstall \/ Shutdown \/ EndUnhook \/ EndForget \/ Clear
  BY <1>5 DEF Finish, EndInstall, Shutdown, EndUnhook, EndForget, Clear
<1>6. ASSUME NEW h \in Hooks,
             \/ CreateHook(h) \/ EnableHook(h) \/ CreateFails(h) \/ EnableFails(h)
             \/ Unhook(h) \/ ForgetOriginal(h)
      PROVE  RuntimeKnown'
  BY <1>6 DEF CreateHook, EnableHook, CreateFails, EnableFails, Skip, Unhook, ForgetOriginal
<1>7. ASSUME NEW c \in Calls, Detour(c)
      PROVE  RuntimeKnown'
  BY <1>7, DetourChanges
<1> QED
  BY <1>1, <1>2, <1>3, <1>4, <1>5, <1>6, <1>7 DEF Next, Control

\* The live trampoline of an enabled hook is what its original points to.
LEMMA EnabledHook ==
  ASSUME Typed, TrampolinesKnown, NEW h \in enabled
  PROVE  h \in Hooks /\ original[h] = trampoline[h] /\ original[h] # Null
BY DEF Typed, TypeOK, TrampolinesKnown

LEMMA OriginalStep ==
  ASSUME Typed, HooksInTheirPhase, TrampolinesKnown, OriginalsKnown, Next
  PROVE  OriginalsKnown'
<1> USE HostAssumption DEF OriginalsKnown, control, found, library, hooking, FailOr
<1>a. original \in [Hooks -> Sessions \union {Null}] /\ trampoline \in [Hooks -> Sessions \union {Null}]
  BY DEF Typed, TypeOK
<1>1. ASSUME NEW c \in Configs, Initialize(c)
      PROVE  OriginalsKnown'
  BY <1>1 DEF Initialize, Unhooked
<1>2. CASE FreeRuntime \/ NullRuntime \/ LoadFails \/ ServerMissing
  BY <1>2 DEF FreeRuntime, NullRuntime, LoadFails, ServerMissing
<1>3. ASSUME NEW ok \in BOOLEAN, LoadRuntime(ok)
      PROVE  OriginalsKnown'
  BY <1>3 DEF LoadRuntime
<1>4. ASSUME NEW m \in {"live", "mapped"}, NEW found_at \in [Hooks -> Matches], NEW others \in BOOLEAN,
             Resolve(m, found_at, others)
      PROVE  OriginalsKnown'
  <2>1. pc = "resolve"
    BY <1>4 DEF Resolve
  <2>2. CASE Unhooked
    BY <2>2 DEF Unhooked
  <2>3. CASE UNCHANGED hooking
    BY <2>1, <2>3
  <2>4. QED
    BY <1>4, <2>2, <2>3 DEF Resolve
<1>5. CASE Finish \/ EndInstall \/ Shutdown \/ EndUnhook \/ Clear
  BY <1>5 DEF Finish, EndInstall, Shutdown, EndUnhook, Clear
<1>6. CASE EndForget
  <2>1. \A h \in Hooks : original[h] = Null /\ trampoline[h] = Null
    BY <1>6 DEF EndForget, HooksInTheirPhase, TrampolinesKnown
  <2>2. QED
    BY <1>6, <2>1 DEF EndForget
<1>7. ASSUME NEW h \in Hooks, CreateHook(h)
      PROVE  OriginalsKnown'
  BY <1>7, <1>a DEF CreateHook
<1>8. ASSUME NEW h \in Hooks, EnableHook(h)
      PROVE  OriginalsKnown'
  BY <1>8 DEF EnableHook
<1>9. ASSUME NEW h \in Hooks, CreateFails(h)
      PROVE  OriginalsKnown'
  BY <1>9 DEF CreateFails, Skip
<1>10. ASSUME NEW h \in Hooks, EnableFails(h)
       PROVE  OriginalsKnown'
  BY <1>10, <1>a DEF EnableFails, Skip
<1>11. ASSUME NEW h \in Hooks, Unhook(h)
       PROVE  OriginalsKnown'
  <2>1. pc' = "unhook" /\ original' = original
    BY <1>11 DEF Unhook
  <2>2. ASSUME enabled' \intersect Borrowing # {}
        PROVE  h # Lender /\ enabled \intersect Borrowing # {}
    BY <1>11, <2>2 DEF Unhook, InTurn
  <2>3. h # Lender => trampoline'[Lender] = trampoline[Lender]
    BY <1>11, <1>a DEF Unhook
  <2>4. QED
    BY <2>1, <2>2, <2>3
<1>12. ASSUME NEW h \in Hooks, ForgetOriginal(h)
       PROVE  OriginalsKnown'
  BY <1>12 DEF ForgetOriginal, HooksInTheirPhase
<1>13. ASSUME NEW c \in Calls, Detour(c)
       PROVE  OriginalsKnown'
  BY <1>13, DetourChanges
<1> QED
  BY <1>1, <1>2, <1>3, <1>4, <1>5, <1>6, <1>7, <1>8, <1>9, <1>10, <1>11, <1>12, <1>13 DEF Next, Control

\* A control step that keeps the hooks and the originals of those enabled, and
\* frees a runtime only where none is, keeps what calls know of their own.
LEMMA OwnsKept ==
  ASSUME OwnsKnown, calls' = calls, enabled \subseteq enabled',
         \A h \in enabled : original'[h] = original[h],
         enabled # {} => objects \subseteq objects'
  PROVE  OwnsKnown'
BY DEF OwnsKnown, OwnKnown

LEMMA OwnStep ==
  ASSUME HookInv, Next
  PROVE  OwnsKnown'
<1> USE DEF HookInv, control, found, library, hooking
<1>1. ASSUME NEW c \in Configs, Initialize(c)
      PROVE  OwnsKnown'
  <2>1. enabled = {}
    BY <1>1 DEF Initialize, HooksInTheirPhase
  <2>2. QED
    BY <1>1, <2>1, OwnsKept DEF Initialize
<1>2. CASE FreeRuntime
  BY <1>2, OwnsKept DEF FreeRuntime, HooksInTheirPhase
<1>3. CASE NullRuntime \/ LoadFails \/ ServerMissing
  BY <1>3, OwnsKept DEF NullRuntime, LoadFails, ServerMissing
<1>4. ASSUME NEW ok \in BOOLEAN, LoadRuntime(ok)
      PROVE  OwnsKnown'
  BY <1>4, OwnsKept DEF LoadRuntime
<1>5. ASSUME NEW m \in {"live", "mapped"}, NEW found_at \in [Hooks -> Matches], NEW others \in BOOLEAN,
             Resolve(m, found_at, others)
      PROVE  OwnsKnown'
  <2>1. enabled = {}
    BY <1>5 DEF Resolve, HooksInTheirPhase
  <2>2. QED
    BY <1>5, <2>1, OwnsKept DEF Resolve
<1>6. CASE Finish \/ EndInstall \/ Shutdown \/ EndUnhook \/ EndForget \/ Clear
  BY <1>6, OwnsKept DEF Finish, EndInstall, Shutdown, EndUnhook, EndForget, Clear
<1>7. ASSUME NEW h \in Hooks, CreateHook(h) \/ EnableHook(h) \/ CreateFails(h)
      PROVE  OwnsKnown'
  <2>1. h \notin enabled
    BY <1>7 DEF CreateHook, EnableHook, CreateFails, TrampolinesKnown
  <2>2. \A g \in enabled : original'[g] = original[g]
    BY <1>7, <2>1 DEF CreateHook, EnableHook, CreateFails, Typed, TypeOK
  <2>3. QED
    BY <1>7, <2>2, OwnsKept DEF CreateHook, EnableHook, CreateFails, Skip
<1>8. ASSUME NEW h \in Hooks, Unhook(h) \/ EnableFails(h)
      PROVE  OwnsKnown'
  <2>1. Overtake(h) /\ objects' = objects /\ enabled \ {h} \subseteq enabled'
        /\ \A g \in enabled : g # h => original'[g] = original[g]
    BY <1>8 DEF Unhook, EnableFails, Skip, Typed, TypeOK
  <2> SUFFICES ASSUME NEW c \in Calls, calls'[c].phase # "out", calls'[c].hook \notin calls'[c].overtaken
               PROVE  OwnKnown(calls[c]) /\ calls[c].hook \notin calls[c].overtaken /\ calls[c].hook # h
                      /\ calls'[c].phase = calls[c].phase /\ calls'[c].hook = calls[c].hook
                      /\ calls'[c].pointer = calls[c].pointer /\ calls'[c].ran = calls[c].ran
    BY <2>1 DEF OwnsKnown, OwnKnown
  <2>2. /\ calls'[c].phase = calls[c].phase /\ calls'[c].hook = calls[c].hook
        /\ calls'[c].pointer = calls[c].pointer /\ calls'[c].ran = calls[c].ran
        /\ calls[c].overtaken \subseteq calls'[c].overtaken
        /\ calls[c].phase # "out" /\ h \in Uses(calls[c].hook) => h \in calls'[c].overtaken
    BY <2>1, OvertakeTypes DEF Typed
  <2>3. calls[c].hook \in Uses(calls[c].hook)
    BY DEF Uses
  <2>4. QED
    BY <2>2, <2>3 DEF OwnsKnown
<1>9. ASSUME NEW h \in Hooks, ForgetOriginal(h)
      PROVE  OwnsKnown'
  BY <1>9, OwnsKept DEF ForgetOriginal, HooksInTheirPhase
<1>10. ASSUME NEW c \in Calls, Detour(c)
       PROVE  OwnsKnown'
  <2>1. ASSUME NEW call, Step(c, call), OwnKnown(call)
        PROVE  OwnsKnown'
    BY <2>1 DEF Step, OwnsKnown, OwnKnown, Typed, TypeOK
  <2>2. calls[c] \in CallType /\ OwnKnown(calls[c])
    BY DEF Typed, TypeOK, OwnsKnown
  <2> USE DEF OwnKnown
  <2>3. ASSUME NEW h \in Hooks, EnterDetour(c, h)
        PROVE  OwnsKnown'
    <3>1. OwnKnown([Out(h) EXCEPT !.phase = "entered"])
      BY <2>3 DEF EnterDetour, Out
    <3>2. QED
      BY <2>1, <2>3, <3>1 DEF EnterDetour
  <2>4. CASE ReadRuntime(c)
    <3>1. enabled # {} => runtime \in objects
      BY <2>4 DEF ReadRuntime, RuntimeKnown, HooksInTheirPhase
    <3>2. OwnKnown([calls[c] EXCEPT !.phase = "recording", !.pointer = runtime])
      BY <2>2, <2>4, <3>1 DEF ReadRuntime, CallType
    <3>3. QED
      BY <2>1, <2>4, <3>2 DEF ReadRuntime
  <2>5. CASE SkipRecord(c)
    <3>1. OwnKnown([calls[c] EXCEPT !.phase = "recorded"])
      BY <2>2, <2>5 DEF SkipRecord, CallType
    <3>2. QED
      BY <2>1, <2>5, <3>1 DEF SkipRecord
  <2>6. CASE UseRuntime(c)
    <3>1. OwnKnown([calls[c] EXCEPT !.phase = IF calls[c].pointer \in objects
                                                 THEN "recorded" ELSE "freed_runtime"])
      BY <2>2, <2>6 DEF UseRuntime, CallType
    <3>2. QED
      BY <2>1, <2>6, <3>1 DEF UseRuntime
  <2>7. CASE ReadBorrowed(c)
    <3>1. OwnKnown([calls[c] EXCEPT !.phase = "borrowing", !.pointer = original[Lender]])
      BY <2>2, <2>7 DEF ReadBorrowed, CallType
    <3>2. QED
      BY <2>1, <2>7, <3>1 DEF ReadBorrowed
  <2>8. CASE SkipBorrowed(c)
    <3>1. OwnKnown([calls[c] EXCEPT !.phase = "ready"])
      BY <2>2, <2>8 DEF SkipBorrowed, CallType
    <3>2. QED
      BY <2>1, <2>8, <3>1 DEF SkipBorrowed
  <2>9. CASE CallBorrowed(c)
    <3>1. OwnKnown([calls[c] EXCEPT !.phase = IF trampoline[Lender] = calls[c].pointer
                                                 THEN "ready" ELSE "freed_borrowed"])
      BY <2>2, <2>9 DEF CallBorrowed, CallType
    <3>2. QED
      BY <2>1, <2>9, <3>1 DEF CallBorrowed
  <2>10. CASE ReadOriginal(c)
    <3> DEFINE o == original[calls[c].hook]
               f == [calls[c] EXCEPT !.phase = IF o = Null THEN "returning" ELSE "calling", !.pointer = o]
    <3>1. calls[c].hook \notin calls[c].overtaken => o # Null
      BY <2>2, <2>10, EnabledHook DEF ReadOriginal
    <3>2. OwnKnown(f)
      BY <2>2, <2>10, <3>1 DEF ReadOriginal, CallType
    <3>3. QED
      BY <2>1, <2>10, <3>2 DEF ReadOriginal
  <2>11. CASE CallOriginal(c)
    <3> DEFINE f == IF trampoline[calls[c].hook] = calls[c].pointer
                    THEN [calls[c] EXCEPT !.phase = "returning", !.ran = TRUE]
                    ELSE [calls[c] EXCEPT !.phase = "freed_original"]
    <3>1. calls[c].hook \notin calls[c].overtaken => trampoline[calls[c].hook] = calls[c].pointer
      BY <2>2, <2>11, EnabledHook DEF CallOriginal
    <3>2. OwnKnown(f)
      BY <2>2, <2>11, <3>1 DEF CallOriginal, CallType
    <3>3. QED
      BY <2>1, <2>11, <3>2 DEF CallOriginal
  <2>12. CASE LeaveDetour(c)
    <3>1. OwnKnown(Out(calls[c].hook))
      BY DEF Out
    <3>2. QED
      BY <2>1, <2>12, <3>1 DEF LeaveDetour
  <2>13. QED
    BY <1>10, <2>3, <2>4, <2>5, <2>6, <2>7, <2>8, <2>9, <2>10, <2>11, <2>12 DEF Detour
<1> QED
  BY <1>1, <1>2, <1>3, <1>4, <1>5, <1>6, <1>7, <1>8, <1>9, <1>10 DEF Next, Control

\* A control step that keeps the trampoline of Lender, or makes one where none
\* was, and its original with it, keeps what calls know of what they borrowed.
LEMMA LoansKept ==
  ASSUME LoansKnown, calls' = calls,
         original[Lender] = trampoline[Lender] => original'[Lender] = trampoline'[Lender],
         trampoline[Lender] \in {Null, trampoline'[Lender]}
  PROVE  LoansKnown'
BY DEF LoansKnown, BorrowedKnown

LEMMA LoanStep ==
  ASSUME HookInv, Next
  PROVE  LoansKnown'
<1> USE HostAssumption DEF HookInv, control, found, library, hooking
<1>a. original \in [Hooks -> Sessions \union {Null}] /\ trampoline \in [Hooks -> Sessions \union {Null}]
  BY DEF Typed, TypeOK
<1>b. Lender \in Hooks /\ Lender \notin Borrowing
  OBVIOUS
<1>c. enabled = {} /\ pc # "enable" => trampoline[Lender] = Null
  BY <1>b DEF TrampolinesKnown
<1>1. ASSUME NEW c \in Configs, Initialize(c)
      PROVE  LoansKnown'
  <2>1. trampoline[Lender] = Null
    BY <1>1, <1>c DEF Initialize, HooksInTheirPhase
  <2>2. original'[Lender] = trampoline'[Lender] /\ calls' = calls
    BY <1>1, <1>b DEF Initialize, Unhooked
  <2>3. QED
    BY <2>1, <2>2, LoansKept
<1>2. CASE FreeRuntime \/ NullRuntime \/ LoadFails \/ ServerMissing
  BY <1>2, LoansKept DEF FreeRuntime, NullRuntime, LoadFails, ServerMissing
<1>3. ASSUME NEW ok \in BOOLEAN, LoadRuntime(ok)
      PROVE  LoansKnown'
  BY <1>3, LoansKept DEF LoadRuntime
<1>4. ASSUME NEW m \in {"live", "mapped"}, NEW found_at \in [Hooks -> Matches], NEW others \in BOOLEAN,
             Resolve(m, found_at, others)
      PROVE  LoansKnown'
  <2>1. trampoline[Lender] = Null /\ calls' = calls
    BY <1>4, <1>c DEF Resolve, HooksInTheirPhase
  <2>2. CASE Unhooked
    BY <1>b, <2>1, <2>2, LoansKept DEF Unhooked
  <2>3. CASE UNCHANGED hooking
    BY <2>1, <2>3, LoansKept
  <2>4. QED
    BY <1>4, <2>2, <2>3 DEF Resolve
<1>5. CASE Finish \/ EndInstall \/ Shutdown \/ EndUnhook \/ EndForget \/ Clear
  BY <1>5, LoansKept DEF Finish, EndInstall, Shutdown, EndUnhook, EndForget, Clear
<1>6. ASSUME NEW h \in Hooks, CreateHook(h)
      PROVE  LoansKnown'
  <2>1. h = Lender => trampoline[Lender] = Null
    BY <1>6 DEF CreateHook, TrampolinesKnown
  <2>2. /\ h = Lender => original'[Lender] = trampoline'[Lender]
        /\ h # Lender => original'[Lender] = original[Lender] /\ trampoline'[Lender] = trampoline[Lender]
        /\ calls' = calls
    BY <1>6, <1>a, <1>b DEF CreateHook
  <2>3. QED
    BY <2>1, <2>2, LoansKept
<1>7. ASSUME NEW h \in Hooks, EnableHook(h) \/ CreateFails(h)
      PROVE  LoansKnown'
  BY <1>7, LoansKept DEF EnableHook, CreateFails
<1>8. ASSUME NEW h \in Hooks, Unhook(h) \/ EnableFails(h)
      PROVE  LoansKnown'
  <2>1. Overtake(h)
        /\ (h # Lender => original'[Lender] = original[Lender] /\ trampoline'[Lender] = trampoline[Lender])
    BY <1>8, <1>a DEF Unhook, EnableFails
  <2> SUFFICES ASSUME NEW c \in Calls
               PROVE  BorrowedKnown(calls[c])'
    BY DEF LoansKnown
  <2>2. /\ calls'[c].phase = calls[c].phase /\ calls'[c].hook = calls[c].hook
        /\ calls'[c].pointer = calls[c].pointer
        /\ calls[c].overtaken \subseteq calls'[c].overtaken
        /\ calls[c].phase # "out" /\ h \in Uses(calls[c].hook) => h \in calls'[c].overtaken
    BY <2>1, OvertakeTypes DEF Typed
  <2>3. calls[c].hook \in Borrowing => Lender \in Uses(calls[c].hook)
    BY DEF Uses
  <2>4. BorrowedKnown(calls[c])
    BY DEF LoansKnown
  <2>5. QED
    BY <2>1, <2>2, <2>3, <2>4 DEF BorrowedKnown
<1>9. ASSUME NEW h \in Hooks, ForgetOriginal(h)
      PROVE  LoansKnown'
  <2>1. trampoline[Lender] = Null
    BY <1>9, <1>c DEF ForgetOriginal, HooksInTheirPhase
  <2>2. original[Lender] = Null => original'[Lender] = Null
    BY <1>9, <1>a, <1>b DEF ForgetOriginal
  <2>3. QED
    BY <1>9, <2>1, <2>2, LoansKept DEF ForgetOriginal
<1>10. ASSUME NEW c \in Calls, Detour(c)
       PROVE  LoansKnown'
  <2>1. ASSUME NEW call, Step(c, call), BorrowedKnown(call)
        PROVE  LoansKnown'
    BY <2>1 DEF Step, LoansKnown, BorrowedKnown, Typed, TypeOK
  <2>2. calls[c] \in CallType /\ BorrowedKnown(calls[c])
    BY DEF Typed, TypeOK, LoansKnown
  \* A call on its way that does not go on to borrow.
  <2>3. ASSUME NEW call \in CallType, call.phase \notin {"borrowing", "freed_borrowed"}, Step(c, call),
               calls[c].phase # "out", call.hook = calls[c].hook, call.overtaken = calls[c].overtaken
        PROVE  LoansKnown'
    BY <2>1, <2>2, <2>3 DEF BorrowedKnown
  <2>4. ASSUME NEW h \in Hooks, EnterDetour(c, h)
        PROVE  LoansKnown'
    <3>1. h \in Borrowing => original[Lender] = trampoline[Lender]
      BY <2>4 DEF EnterDetour, OriginalsKnown
    <3>2. BorrowedKnown([Out(h) EXCEPT !.phase = "entered"])
      BY <3>1 DEF Out, BorrowedKnown
    <3>3. QED
      BY <2>1, <2>4, <3>2 DEF EnterDetour
  <2>5. CASE ReadRuntime(c)
    <3> DEFINE f == [calls[c] EXCEPT !.phase = "recording", !.pointer = runtime]
    <3>1. f \in CallType /\ f.phase = "recording" /\ f.hook = calls[c].hook /\ f.overtaken = calls[c].overtaken
      BY <2>2 DEF CallType, Phases, Typed, TypeOK
    <3>2. QED
      BY <2>3, <2>5, <3>1 DEF ReadRuntime
  <2>6. CASE SkipRecord(c)
    BY <2>2, <2>3, <2>6 DEF SkipRecord, CallType, Phases
  <2>7. CASE UseRuntime(c)
    BY <2>2, <2>3, <2>7 DEF UseRuntime, CallType, Phases
  <2>8. CASE ReadBorrowed(c)
    <3> DEFINE f == [calls[c] EXCEPT !.phase = "borrowing", !.pointer = original[Lender]]
    <3>1. f.phase = "borrowing" /\ f.hook = calls[c].hook /\ f.overtaken = calls[c].overtaken
          /\ f.pointer = original[Lender]
      BY <2>2 DEF CallType
    <3>2. calls[c].phase # "out" /\ calls[c].hook \in Borrowing
      BY <2>8 DEF ReadBorrowed
    <3>3. BorrowedKnown(f)
      BY <2>2, <3>1, <3>2 DEF BorrowedKnown
    <3>4. QED
      BY <2>1, <2>8, <3>3 DEF ReadBorrowed
  <2>9. CASE SkipBorrowed(c)
    BY <2>2, <2>3, <2>9 DEF SkipBorrowed, CallType, Phases
  <2>10. CASE CallBorrowed(c)
    <3> DEFINE f == [calls[c] EXCEPT !.phase = IF trampoline[Lender] = calls[c].pointer
                                               THEN "ready" ELSE "freed_borrowed"]
    <3>1. f.hook = calls[c].hook /\ f.overtaken = calls[c].overtaken
          /\ f.phase = IF trampoline[Lender] = calls[c].pointer THEN "ready" ELSE "freed_borrowed"
      BY <2>2 DEF CallType
    <3>2. calls[c].phase = "borrowing" /\ calls[c].pointer # Null
      BY <2>10 DEF CallBorrowed
    <3>3. BorrowedKnown(f)
      BY <2>2, <3>1, <3>2 DEF BorrowedKnown
    <3>4. QED
      BY <2>1, <2>10, <3>3 DEF CallBorrowed
  <2>11. CASE ReadOriginal(c)
    <3> DEFINE o == original[calls[c].hook]
               f == [calls[c] EXCEPT !.phase = IF o = Null THEN "returning" ELSE "calling", !.pointer = o]
    <3>1. f \in CallType /\ f.phase \in {"returning", "calling"} /\ f.hook = calls[c].hook
          /\ f.overtaken = calls[c].overtaken
      BY <1>a, <2>2 DEF CallType, Phases
    <3>2. calls[c].phase # "out"
      BY <2>11 DEF ReadOriginal
    <3>3. QED
      BY <2>3, <2>11, <3>1, <3>2 DEF ReadOriginal
  <2>12. CASE CallOriginal(c)
    <3>1. ASSUME NEW f, f \in {[calls[c] EXCEPT !.phase = "returning", !.ran = TRUE],
                               [calls[c] EXCEPT !.phase = "freed_original"]}
          PROVE  f \in CallType /\ f.phase \in {"returning", "freed_original"} /\ f.hook = calls[c].hook
                 /\ f.overtaken = calls[c].overtaken
      BY <2>2, <3>1 DEF CallType, Phases
    <3>2. QED
      BY <2>3, <2>12, <3>1 DEF CallOriginal
  <2>13. CASE LeaveDetour(c)
    <3>1. BorrowedKnown(Out(calls[c].hook))
      BY DEF Out, BorrowedKnown
    <3>2. QED
      BY <2>1, <2>13, <3>1 DEF LeaveDetour
  <2>14. QED
    BY <1>10, <2>4, <2>5, <2>6, <2>7, <2>8, <2>9, <2>10, <2>11, <2>12, <2>13 DEF Detour
<1> QED
  BY <1>1, <1>2, <1>3, <1>4, <1>5, <1>6, <1>7, <1>8, <1>9, <1>10 DEF Next, Control

LEMMA HookInit == Init => HookInv
<1> SUFFICES ASSUME Init PROVE HookInv
  OBVIOUS
<1>1. \A c \in Calls : calls[c].phase = "out"
  BY DEF Init, Out
<1> QED
  BY <1>1, InitTyped DEF Init, HookInv, HooksInTheirPhase, TrampolinesKnown, OriginalsKnown, RuntimeKnown,
                         OwnsKnown, OwnKnown, LoansKnown, BorrowedKnown

LEMMA HookStep == HookInv /\ [Next]_vars => HookInv'
<1>1. HookInv /\ UNCHANGED vars => HookInv'
  BY TypeStep DEF HookInv, HooksInTheirPhase, TrampolinesKnown, OriginalsKnown, RuntimeKnown,
                  OwnsKnown, OwnKnown, LoansKnown, BorrowedKnown, vars, control, found, library, hooking
<1>2. HookInv /\ Next => HookInv'
  BY TypeStep, PhaseStep, TrampolineStep, OriginalStep, RuntimeStep, OwnStep, LoanStep DEF HookInv
<1> QED
  BY <1>1, <1>2

-----------------------------------------------------------------------------
(* What initialize requires.                                               *)

LEMMA InstallStep ==
  ASSUME HookInv, InstallInv, Next
  PROVE  InstallInv'
<1> USE DEF InstallInv, control, found, library, hooking, FailOr
<1> DEFINE Bare == enabled = {} /\ todo = {} /\ \A h \in Hooks : trampoline[h] = Null
<1>a. pc \notin {"idle", "install", "enable", "finish", "unhook"} => Bare
  BY DEF HookInv, HooksInTheirPhase, TrampolinesKnown
<1>1. ASSUME NEW c \in Configs, Initialize(c)
      PROVE  InstallInv'
  BY <1>1 DEF Initialize, Unhooked
<1>2. CASE FreeRuntime \/ NullRuntime \/ LoadFails
  BY <1>2 DEF FreeRuntime, NullRuntime, LoadFails
<1>3. ASSUME NEW ok \in BOOLEAN, LoadRuntime(ok)
      PROVE  InstallInv'
  BY <1>3 DEF LoadRuntime
<1>4. CASE ServerMissing \/ EndForget
  BY <1>4, <1>a DEF ServerMissing, EndForget
<1>5. ASSUME NEW m \in {"live", "mapped"}, NEW found_at \in [Hooks -> Matches], NEW others \in BOOLEAN,
             Resolve(m, found_at, others)
      PROVE  InstallInv'
  <2>1. Bare
    BY <1>5, <1>a DEF Resolve
  <2>2. enabled' = {} /\ \A h \in Hooks : trampoline'[h] = Null
    BY <1>5, <2>1 DEF Resolve, Unhooked
  <2>3. pc' \in {"install", "enable"} => pc' = "install" /\ todo' = Hooks /\ server' = "live" /\ config'.install
    BY <1>5 DEF Resolve, Refused
  <2>4. failures' \subseteq Hooks
    BY <1>5 DEF Resolve, Unhooked, HookInv, Typed, TypeOK
  <2>5. QED
    BY <2>2, <2>3, <2>4
<1>6. CASE Finish \/ Shutdown \/ EndUnhook
  BY <1>6 DEF Finish, Shutdown, EndUnhook
<1>7. CASE EndInstall
  BY <1>7 DEF EndInstall, HookInv, Typed, TypeOK
<1>8. ASSUME NEW h \in Hooks, CreateHook(h) \/ EnableHook(h) \/ CreateFails(h) \/ EnableFails(h)
      PROVE  InstallInv'
  BY <1>8 DEF CreateHook, EnableHook, CreateFails, EnableFails, Skip, HookInv, Typed, TypeOK
<1>9. ASSUME NEW h \in Hooks, Unhook(h) \/ ForgetOriginal(h)
      PROVE  InstallInv'
  BY <1>9 DEF Unhook, ForgetOriginal, HookInv, Typed, TypeOK
<1>10. CASE Clear
  BY <1>10, <1>a DEF Clear
<1>11. ASSUME NEW c \in Calls, Detour(c)
       PROVE  InstallInv'
  BY <1>11, DetourChanges
<1> QED
  BY <1>1, <1>2, <1>3, <1>4, <1>5, <1>6, <1>7, <1>8, <1>9, <1>10, <1>11 DEF Next, Control

AsRequired == RequiredInv /\ InitializedAsRequired

LEMMA RequiredStep ==
  ASSUME HookInv, InstallInv, AsRequired, Next
  PROVE  AsRequired'
<1> USE DEF AsRequired, RequiredInv, InitializedAsRequired, RuntimeAsRequired, SignaturesAsRequired,
            control, found, library, hooking, FailOr
<1>a. purpose \in {"initialize", "rollback", "shutdown"}
  BY DEF HookInv, Typed, TypeOK
<1>b. pc \notin {"idle", "install", "enable", "finish", "unhook"} => enabled = {}
  BY DEF HookInv, HooksInTheirPhase
<1>1. ASSUME NEW c \in Configs, Initialize(c)
      PROVE  AsRequired'
  BY <1>1 DEF Initialize, Unhooked
<1>2. CASE FreeRuntime \/ NullRuntime \/ LoadFails \/ ServerMissing
  BY <1>2, <1>a, <1>b DEF FreeRuntime, NullRuntime, LoadFails, ServerMissing
<1>3. ASSUME NEW ok \in BOOLEAN, LoadRuntime(ok)
      PROVE  AsRequired'
  BY <1>3, <1>a, <1>b DEF LoadRuntime
<1>4. ASSUME NEW m \in {"live", "mapped"}, NEW found_at \in [Hooks -> Matches], NEW others \in BOOLEAN,
             Resolve(m, found_at, others)
      PROVE  AsRequired'
  <2>1. ~initialized /\ purpose = "initialize" /\ enabled' = {} /\ RuntimeAsRequired
    BY <1>4, <1>a, <1>b DEF Resolve, Unhooked
  <2>2. CASE Refused(m, failing')
    BY <1>4, <2>1, <2>2 DEF Resolve, Refused
  <2>3. CASE ~Refused(m, failing')
    BY <1>4, <2>1, <2>3 DEF Resolve, Refused
  <2>4. QED
    BY <2>2, <2>3
<1>5. CASE Finish
  BY <1>5, <1>a DEF Finish, InstallInv
<1>6. CASE EndInstall
  BY <1>6, <1>a DEF EndInstall, InstallInv
<1>7. CASE Shutdown \/ EndUnhook
  BY <1>7, <1>a DEF Shutdown, EndUnhook
<1>8. ASSUME NEW h \in Hooks, CreateHook(h) \/ EnableHook(h) \/ CreateFails(h) \/ EnableFails(h)
      PROVE  AsRequired'
  BY <1>8, <1>a DEF CreateHook, EnableHook, CreateFails, EnableFails, Skip
<1>9. ASSUME NEW h \in Hooks, Unhook(h) \/ ForgetOriginal(h)
      PROVE  AsRequired'
  BY <1>9, <1>a DEF Unhook, ForgetOriginal
<1>10. CASE EndForget
  BY <1>10, <1>a, <1>b DEF EndForget
<1>11. CASE Clear
  BY <1>11, <1>b DEF Clear
<1>12. ASSUME NEW c \in Calls, Detour(c)
       PROVE  AsRequired'
  BY <1>12, DetourChanges
<1> QED
  BY <1>1, <1>2, <1>3, <1>4, <1>5, <1>6, <1>7, <1>8, <1>9, <1>10, <1>11, <1>12 DEF Next, Control

-----------------------------------------------------------------------------
LEMMA InvInit == Init => IInv
<1> SUFFICES ASSUME Init PROVE IInv
  OBVIOUS
<1>1. \A h \in Hooks : trampoline[h] = Null
  BY DEF Init
<1> QED
  BY <1>1, HookInit DEF Init, IInv, InstallInv, RequiredInv, InitializedAsRequired

LEMMA InvStep == IInv /\ [Next]_vars => IInv'
<1>1. IInv /\ UNCHANGED vars => IInv'
  BY HookStep DEF IInv, InstallInv, RequiredInv, InitializedAsRequired, RuntimeAsRequired,
                  SignaturesAsRequired, vars, control, found, library, hooking
<1>2. IInv /\ Next => IInv'
  BY HookStep, InstallStep, RequiredStep DEF IInv, AsRequired
<1> QED
  BY <1>1, <1>2

\* Every state of the specification is typed and satisfies the invariant.
LEMMA Inductive == Spec => []IInv
BY InvInit, InvStep, PTL DEF Spec

\* Every variable keeps its type, and what a detour is about to use it has
\* found not to be null (the tests in the detours and probe_record_*).
THEOREM TypeCorrect == Spec => []TypeOK
<1>1. IInv => TypeOK
  BY DEF IInv, HookInv, Typed
<1> QED
  BY <1>1, Inductive, PTL

\* A game call whose own hook is not taken away meanwhile runs the original, and
\* the trampoline that a call of the filter borrows from the classifier is there
\* unless the hook of that one was taken away or could not be enabled, whatever
\* the installs, rollbacks and shutdowns around it (install_inline, shutdown).
THEOREM CallsComplete == Spec => []UndisturbedCallsComplete
<1>1. IInv => UndisturbedCallsComplete
  <2> SUFFICES ASSUME IInv, NEW c \in Calls
               PROVE  /\ calls[c].hook \notin calls[c].overtaken =>
                           /\ calls[c].phase \notin {"freed_runtime", "freed_original"}
                           /\ calls[c].phase = "returning" => calls[c].ran
                      /\ Lender \notin calls[c].overtaken => calls[c].phase # "freed_borrowed"
    BY DEF UndisturbedCallsComplete
  <2>1. OwnKnown(calls[c]) /\ BorrowedKnown(calls[c])
    BY DEF IInv, HookInv, OwnsKnown, LoansKnown
  <2> QED
    BY <2>1 DEF OwnKnown, BorrowedKnown
<1> QED
  BY <1>1, Inductive, PTL

\* Between control calls the server has all the hooks or none, in its live
\* module, at functions that were found (install_probe_hooks).
THEOREM AllOrNone == Spec => []AllHooksOrNone
<1>1. IInv => AllHooksOrNone
  BY DEF IInv, HookInv, HooksInTheirPhase, TrampolinesKnown, InstallInv, RequiredInv, AllHooksOrNone
<1> QED
  BY <1>1, Inductive, PTL

\* An initialized host has what its configuration requires (the early
\* returns of dwrt_host_initialize).
THEOREM AsConfigured == Spec => []InitializedAsRequired
<1>1. IInv => InitializedAsRequired
  BY DEF IInv
<1> QED
  BY <1>1, Inductive, PTL

\* The shim points to every runtime that was not freed (load, create_runtime,
\* destroy_runtime).
THEOREM NoneLost == Spec => []NoRuntimeLost
<1>1. IInv => NoRuntimeLost
  BY DEF IInv, HookInv, RuntimeKnown, NoRuntimeLost
<1> QED
  BY <1>1, Inductive, PTL
=============================================================================
