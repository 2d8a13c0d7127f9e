--------------------------- MODULE SignatureCheck ---------------------------
(***************************************************************************)
(* The programs that rely on the scanner: dwrt_host_smoke, which checks the*)
(* manifest against the file and, on request, against the file mapped as a *)
(* module, and dwrt_host_initialize, which resolves it in the server and   *)
(* then hooks.  One descriptor a step.                                     *)
(***************************************************************************)
EXTENDS SignatureScan, FiniteSets

CONSTANTS
  Cases,       \* [image, manifest, options]: builds of server.dll, sequences of descriptors
               \* (default_probe_signatures), and [program, mapped, drift, require, install, fallback, live]
  Hooked       \* the descriptors install_probe_hooks hooks, by their index

Descriptors == [pattern : Seq(Byte \union {Wild, Bad}), expected : Nat, required : BOOLEAN]
Options == [program : {"smoke", "host"}, mapped : BOOLEAN, drift : BOOLEAN,
            require : BOOLEAN, install : BOOLEAN, fallback : BOOLEAN, live : BOOLEAN]

ASSUME ManifestAssumption ==
  \A case \in Cases :
    /\ case = [image |-> case.image, manifest |-> case.manifest, options |-> case.options]
    /\ Loadable(case.image) /\ case.manifest \in Seq(Descriptors) /\ case.options \in Options
    /\ case.options.program = "host" => Hooked \subseteq DOMAIN case.manifest

VARIABLES
  image, manifest, options,
  stage,     \* where the program is
  file,      \* resolutions in the file, in the order of the manifest
  mapped,    \* resolutions in the module
  failures,  \* required_failures: [file, mapped]
  todo,      \* hooks still to install
  hooks,     \* hooked addresses, by index
  exit       \* what the program returns; "running" before

vars == <<image, manifest, options, stage, file, mapped, failures, todo, hooks, exit>>
inputs == <<image, manifest, options>>

Init ==
  /\ \E case \in Cases : image = case.image /\ manifest = case.manifest /\ options = case.options
  /\ stage = IF options.program = "smoke" THEN "open" ELSE "map"
  /\ file = <<>> /\ mapped = <<>> /\ failures = [file |-> 0, mapped |-> 0]
  /\ todo = {} /\ hooks = <<>> /\ exit = "running"

Goes(to) == stage' = to /\ UNCHANGED exit
End(result) == stage' = "ended" /\ exit' = result
Counted(where, descriptor, found) ==
  [failures EXCEPT ![where] = @ + IF Fails(descriptor, found, options.drift) THEN 1 ELSE 0]

-----------------------------------------------------------------------------
(* dwrt_host_smoke.                                                        *)

\* PeImageFile::load.
Open ==
  /\ stage = "open"
  /\ Goes("file") \/ End("no image")
  /\ UNCHANGED <<inputs, file, mapped, failures, todo, hooks>>

CheckFile ==
  LET i == Len(file) + 1
      found == ResolveSignature(image, manifest[i])
  IN /\ stage = "file" /\ i <= Len(manifest)
     /\ file' = Append(file, found)
     /\ failures' = Counted("file", manifest[i], found)
     /\ UNCHANGED <<inputs, stage, mapped, todo, hooks, exit>>

FileChecked ==
  /\ stage = "file" /\ Len(file) = Len(manifest)
  /\ Goes(IF options.mapped THEN "map" ELSE "report")
  /\ UNCHANGED <<inputs, file, mapped, failures, todo, hooks>>

\* Seeded fault: every one fails, required or not, on top of the failures before.
MapFailsAll ==
  /\ stage = "map" /\ options.program = "smoke" /\ Goes("report")
  /\ failures' = [failures EXCEPT !.mapped = Len(manifest) + failures.file]
  /\ UNCHANGED <<inputs, file, mapped, todo, hooks>>

\* The module cannot be mapped or is none: every required one fails.
MapFails ==
  /\ stage = "map" /\ options.program = "smoke" /\ Goes("report")
  /\ failures' = [failures EXCEPT !.mapped = Cardinality({i \in DOMAIN manifest : manifest[i].required})]
  /\ UNCHANGED <<inputs, file, mapped, todo, hooks>>

\* Seeded fault: after a check of the module the file no longer counts.
ReportMapped ==
  /\ stage = "report"
  /\ \/ End("no summary")
     \/ End(IF failures.file # 0 /\ ~options.mapped THEN "file" ELSE IF failures.mapped # 0 THEN "mapped" ELSE "OK")
  /\ UNCHANGED <<inputs, file, mapped, failures, todo, hooks>>

\* The summary cannot be written, or is and the failures decide.
Report ==
  /\ stage = "report"
  /\ \/ End("no summary")
     \/ End(IF failures.file # 0 THEN "file" ELSE IF failures.mapped # 0 THEN "mapped" ELSE "OK")
  /\ UNCHANGED <<inputs, file, mapped, failures, todo, hooks>>

-----------------------------------------------------------------------------
(* dwrt_host_initialize: resolve_server_signatures, install_probe_hooks.   *)

\* There is no server, its file cannot be mapped, or it is no module.
ServerMissing ==
  /\ stage = "map" /\ options.program = "host"
  /\ End(IF options.require THEN "not found" ELSE "OK")
  /\ UNCHANGED <<inputs, file, mapped, failures, todo, hooks>>

\* The host has its own module when the server is live, else the file if that is allowed.
Map ==
  /\ stage = "map"
  /\ options.program = "smoke" \/ options.live \/ options.fallback
  /\ Goes("mapped")
  /\ UNCHANGED <<inputs, file, mapped, failures, todo, hooks>>

CheckMapped ==
  LET i == Len(mapped) + 1
      found == ResolveMappedSignature(image, manifest[i])
  IN /\ stage = "mapped" /\ i <= Len(manifest)
     /\ mapped' = Append(mapped, found)
     /\ failures' = Counted("mapped", manifest[i], found)
     /\ UNCHANGED <<inputs, stage, file, todo, hooks, exit>>

MappedChecked ==
  /\ stage = "mapped" /\ Len(mapped) = Len(manifest) /\ options.program = "smoke"
  /\ Goes("report")
  /\ UNCHANGED <<inputs, file, mapped, failures, todo, hooks>>

\* Seeded fault: only a server without any match is refused.
GateOnNone ==
  /\ stage = "mapped" /\ Len(mapped) = Len(manifest) /\ options.program = "host"
  /\ IF options.require /\ failures.mapped = Len(manifest) THEN End("refused") /\ UNCHANGED todo
     ELSE IF options.install /\ options.live THEN Goes("install") /\ todo' = Hooked
     ELSE End(IF options.install /\ options.require THEN "install failed" ELSE "OK") /\ UNCHANGED todo
  /\ UNCHANGED <<inputs, file, mapped, failures, hooks>>

\* A server that was mapped for its signatures is never hooked.
Gate ==
  /\ stage = "mapped" /\ Len(mapped) = Len(manifest) /\ options.program = "host"
  /\ IF options.require /\ failures.mapped # 0 THEN End("refused") /\ UNCHANGED todo
     ELSE IF options.install /\ options.live THEN Goes("install") /\ todo' = Hooked
     ELSE End(IF options.install /\ options.require THEN "install failed" ELSE "OK") /\ UNCHANGED todo
  /\ UNCHANGED <<inputs, file, mapped, failures, hooks>>

\* The next hook; without a place it fails, and with one it may.
Install ==
  LET i == Min(todo)
      more == [j \in DOMAIN hooks \union {i} |-> IF j = i THEN mapped[i].rva ELSE hooks[j]]
  IN /\ stage = "install" /\ todo # {} /\ todo' = todo \ {i}
     /\ \/ mapped[i].rva # None /\ hooks' = more
        \/ UNCHANGED hooks
     /\ UNCHANGED <<inputs, stage, file, mapped, failures, exit>>

\* All of them or none.
Installed ==
  /\ stage = "install" /\ todo = {}
  /\ IF DOMAIN hooks = Hooked THEN End("OK") /\ UNCHANGED hooks
     ELSE End(IF options.require THEN "install failed" ELSE "OK") /\ hooks' = <<>>
  /\ UNCHANGED <<inputs, file, mapped, failures, todo>>

Next ==
  \/ Open \/ CheckFile \/ FileChecked \/ MapFails \/ Report
  \/ ServerMissing \/ Map \/ CheckMapped \/ MappedChecked \/ Gate
  \/ Install \/ Installed

Spec == Init /\ [][Next]_vars
-----------------------------------------------------------------------------
Given == [image |-> image, manifest |-> manifest, options |-> options] \in Cases
TypeOK ==
  /\ Given
  /\ stage \in {"open", "file", "map", "mapped", "report", "install", "ended"}
  /\ \A r \in Range(file) \union Range(mapped) : r.rva = None \/ r.rva \in Nat
  /\ failures \in [file : 0 .. Len(manifest), mapped : 0 .. Len(manifest)] /\ todo \subseteq Hooked
  /\ DOMAIN hooks \subseteq Hooked
  /\ exit \in {"running", "OK", "no image", "no summary", "file", "mapped", "not found", "refused", "install failed"}

\* Where all the bytes of a match of that length are from the file.
FromFile(length) ==
  {a \in 0 .. image.size - 1 :
     \E s \in Range(image.sections) : a >= s.va /\ a + length <= s.va + Min({s.rsize, Extent(s)})}

(* A signature resolves in the module exactly when it matches in one place *)
(* of the code, however the sections lie, are cut off by the image or      *)
(* filled up with zeros, and then to that place (find_pattern_rvas).       *)
MappedIsUnique ==
  \A i \in DOMAIN mapped :
    LET matches == CodeMatches(image, manifest[i].pattern)
    IN IF CompilePattern(manifest[i].pattern) # None /\ Cardinality(matches) = 1
       THEN mapped[i].unique /\ matches = {mapped[i].rva}
       ELSE mapped[i] = Unresolved

(* What is unique in the file and in the module is at one address: the two *)
(* scans and the conversion of file offsets to addresses agree, unless the *)
(* match in the module runs into the zeros behind the bytes of the file.   *)
FileAgrees ==
  \A i \in DOMAIN file \cap DOMAIN mapped :
    file[i].unique /\ mapped[i].unique /\ mapped[i].rva \in FromFile(Len(manifest[i].pattern))
      => file[i].rva = mapped[i].rva

(* dwrt_host_smoke fails closed: it returns success only when every        *)
(* required signature is in one place of the file, where it is expected    *)
(* unless drift is allowed, and in one place of the code if the module was *)
(* to be checked.                                                          *)
SmokeFailsClosed ==
  options.program = "smoke" /\ exit = "OK" =>
    \A i \in DOMAIN manifest : manifest[i].required =>
      /\ CompilePattern(manifest[i].pattern) # None
      /\ \E o \in FileMatches(image, manifest[i].pattern) :
           /\ FileMatches(image, manifest[i].pattern) = {o}
           /\ options.drift \/ manifest[i].expected \in {0, RvaFromFileOffset(image, o)}
      /\ options.mapped => \E a \in CodeMatches(image, manifest[i].pattern) :
           /\ CodeMatches(image, manifest[i].pattern) = {a}
           /\ options.drift \/ manifest[i].expected \in {0, a}

(* Hooks are left only where a signature matches and nothing else does, all*)
(* or none, never in a mapped file; where signatures are required also only*)
(* if each required one is found, and at the expected place unless drift is*)
(* allowed.                                                                *)
HooksAtSignatures ==
  stage = "ended" /\ hooks # <<>> =>
    /\ DOMAIN hooks = Hooked /\ options.live
    /\ \A i \in Hooked : CodeMatches(image, manifest[i].pattern) = {hooks[i]}
    /\ options.require => \A i \in DOMAIN manifest : manifest[i].required =>
         \E a \in CodeMatches(image, manifest[i].pattern) :
           options.drift \/ manifest[i].expected \in {0, a}
=============================================================================
