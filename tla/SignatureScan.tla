---------------------------- MODULE SignatureScan ----------------------------
(***************************************************************************)
(* The signature scanner of dwrt-host (dwrt_signature_scanner.cpp): where a*)
(* pattern of bytes and wildcards is found in a PE file and in the module  *)
(* the loader makes of it.  An image is [raw, headers, sections, size]: the*)
(* bytes of the file, how many of them are headers, the section table, and *)
(* the size in memory.  Offsets and addresses count from 0.                *)
(***************************************************************************)
EXTENDS Naturals, SequencesExt

CONSTANTS
  Wild,   \* a wildcard
  Bad,    \* a token that is neither a wildcard nor a hexadecimal byte
  None    \* std::nullopt

Limit == 3  \* max_matches of every resolver

\* compile_pattern: the whole text is refused for one bad token.
CompilePattern(text) == IF text = <<>> \/ Contains(text, Bad) THEN None ELSE text

MatchesAt(hay, pattern, offset) ==
  \A i \in DOMAIN pattern : pattern[i] \in {Wild, hay[offset + i - 1]}

\* One more offset, unless there are max already.
LookAt(found, hay, pattern, offset, max) ==
  IF Len(found) < max /\ MatchesAt(hay, pattern, offset) THEN Append(found, offset) ELSE found

\* The first max offsets, of length bytes of hay, where the pattern is.
FindPattern(hay, length, pattern, max) ==
  LET found[n \in Nat] == IF n = 0 THEN <<>> ELSE LookAt(found[n - 1], hay, pattern, n - 1, max)
  IN IF length < Len(pattern) THEN <<>> ELSE found[length - Len(pattern) + 1]

-----------------------------------------------------------------------------
(* A section is [va, vsize, raw, rsize, code].                             *)

Extent(s) == IF s.vsize = 0 THEN s.rsize ELSE s.vsize

\* The loader: what is not in the file is zero.
Memory(image) ==
  [address \in 0 .. image.size - 1 |->
     LET within == {s \in Range(image.sections) :
                      /\ s.va <= address
                      /\ address - s.va < Min({s.rsize, Extent(s)})}
     IN IF address < image.headers THEN image.raw[address + 1]
        ELSE IF within = {} THEN 0
        ELSE LET s == CHOOSE x \in within : TRUE IN image.raw[s.raw + address - s.va + 1]]

\* What the loader takes: headers and sections that share neither addresses nor bytes of the file.
Byte == 0 .. 255
Addresses(s) == s.va .. s.va + Extent(s) - 1
Offsets(s) == s.raw .. s.raw + s.rsize - 1
Loadable(image) ==
  LET sections == image.sections
  IN /\ image.raw \in Seq(Byte) /\ image.headers \in 0 .. Len(image.raw) /\ image.size \in Nat
     /\ sections \in Seq([va : Nat, vsize : Nat, raw : Nat, rsize : Nat, code : BOOLEAN])
     /\ \A i \in DOMAIN sections :
          /\ image.headers <= sections[i].va /\ sections[i].raw + sections[i].rsize <= Len(image.raw)
          /\ \A j \in DOMAIN sections \ {i} :
               /\ Addresses(sections[i]) \cap Addresses(sections[j]) = {}
               /\ Offsets(sections[i]) \cap Offsets(sections[j]) = {}

\* What of a section is looked at; nothing past the end of the image.
ScanSize(image, s) ==
  IF s.va >= image.size THEN 0 ELSE Min({Extent(s), image.size - s.va})

\* The bytes of a section, and one more section, unless there are Limit matches already.
SectionBytes(image, memory, s) == [a \in 0 .. ScanSize(image, s) - 1 |-> memory[s.va + a]]
LookIn(found, image, memory, pattern, s) ==
  LET more == FindPattern(SectionBytes(image, memory, s), ScanSize(image, s), pattern, Limit - Len(found))
  IN IF ~s.code \/ Len(found) = Limit THEN found ELSE found \o [i \in DOMAIN more |-> s.va + more[i]]

\* find_pattern_rvas.
FindPatternRvas(image, pattern) ==
  LET memory == Memory(image)
      found[n \in 0 .. Len(image.sections)] ==
        IF n = 0 THEN <<>> ELSE LookIn(found[n - 1], image, memory, pattern, image.sections[n])
  IN found[Len(image.sections)]

\* Seeded fault: a section is taken to end one byte behind its last.
RvaFromFileOffsetLate(image, offset) ==
  LET within == {i \in DOMAIN image.sections :
                   LET s == image.sections[i] IN offset >= s.raw /\ offset <= s.raw + s.rsize}
  IN IF within # {} THEN LET s == image.sections[Min(within)] IN s.va + offset - s.raw
     ELSE IF image.sections # <<>> /\ offset < image.sections[1].raw THEN offset ELSE None

\* PeImageFile::rva_from_file_offset.
RvaFromFileOffset(image, offset) ==
  LET within == {i \in DOMAIN image.sections :
                   LET s == image.sections[i] IN offset >= s.raw /\ offset < s.raw + s.rsize}
  IN IF within # {} THEN LET s == image.sections[Min(within)] IN s.va + offset - s.raw
     ELSE IF image.sections # <<>> /\ offset < image.sections[1].raw THEN offset ELSE None

-----------------------------------------------------------------------------
(* A descriptor is [pattern, expected, required], a resolution             *)
(* [unique, rva, expected_ok].                                             *)
Unresolved == [unique |-> FALSE, rva |-> None, expected_ok |-> FALSE]
Resolved(descriptor, rva) ==
  [unique |-> TRUE, rva |-> rva, expected_ok |-> descriptor.expected \in {0, rva}]

\* resolve_signature, in the file.
ResolveSignature(image, descriptor) ==
  LET pattern == CompilePattern(descriptor.pattern)
      found == FindPattern([o \in 0 .. Len(image.raw) - 1 |-> image.raw[o + 1]], Len(image.raw), pattern, Limit)
  IN IF pattern = None \/ Len(found) # 1 THEN Unresolved
     ELSE Resolved(descriptor, RvaFromFileOffset(image, found[1]))

\* Seeded fault: the first of several matches is taken for the only one.
ResolveFirstMatch(image, descriptor) ==
  LET pattern == CompilePattern(descriptor.pattern)
      found == FindPatternRvas(image, pattern)
  IN IF pattern = None \/ found = <<>> THEN Unresolved ELSE Resolved(descriptor, found[1])

\* resolve_mapped_signature, in the module.
ResolveMappedSignature(image, descriptor) ==
  LET pattern == CompilePattern(descriptor.pattern)
      found == FindPatternRvas(image, pattern)
  IN IF pattern = None \/ Len(found) # 1 THEN Unresolved ELSE Resolved(descriptor, found[1])

\* A failure of a required descriptor.
Fails(descriptor, resolution, drift) ==
  descriptor.required /\ ~(resolution.unique /\ resolution.rva # None /\ (resolution.expected_ok \/ drift))

-----------------------------------------------------------------------------
(* Where a pattern really is, whatever the scanner does: in the code of    *)
(* the module, and in the file.                                            *)
CodeMatches(image, pattern) ==
  {a \in 0 .. image.size - 1 :
     \E s \in Range(image.sections) :
       /\ s.code /\ a >= s.va
       /\ a + Len(pattern) <= Min({image.size, s.va + Extent(s)})
       /\ MatchesAt(Memory(image), pattern, a)}
FileMatches(image, pattern) ==
  {o \in 0 .. Len(image.raw) - Len(pattern) : \A i \in DOMAIN pattern : pattern[i] \in {Wild, image.raw[o + i]}}
=============================================================================
