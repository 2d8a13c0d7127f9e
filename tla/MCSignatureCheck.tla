-------------------------- MODULE MCSignatureCheck --------------------------
(***************************************************************************)
(* The signature checks for TLC: files of six bytes in four layouts, and   *)
(* patterns of up to three bytes.                                          *)
(***************************************************************************)
EXTENDS SignatureCheck

Section(va, vsize, raw, rsize, code) == [va |-> va, vsize |-> vsize, raw |-> raw, rsize |-> rsize, code |-> code]

Layouts ==
  {\* code that is filled up with zeros, then data
   [headers |-> 1, size |-> 8, sections |-> <<Section(2, 3, 1, 2, TRUE), Section(5, 3, 3, 3, FALSE)>>],
   \* code that is shorter than its bytes in the file, then more code
   [headers |-> 1, size |-> 6, sections |-> <<Section(2, 2, 1, 3, TRUE), Section(4, 2, 4, 2, TRUE)>>],
   \* no virtual size, and code that the image cuts off
   [headers |-> 1, size |-> 7, sections |-> <<Section(1, 0, 1, 3, TRUE), Section(4, 5, 4, 2, TRUE)>>],
   \* code behind the image
   [headers |-> 1, size |-> 6, sections |-> <<Section(2, 3, 1, 3, TRUE), Section(9, 2, 4, 2, TRUE)>>]}

ImageOf(raw, layout) ==
  [raw |-> raw, headers |-> layout.headers, size |-> layout.size, sections |-> layout.sections]
AllImages == {ImageOf(<<0>> \o raw, layout) : raw \in [1 .. 5 -> 0 .. 2], layout \in Layouts}
FewImages == {ImageOf(raw, layout) : raw \in {<<0, 1, 2, 1, 1, 0>>, <<0, 2, 1, 0, 2, 2>>}, layout \in Layouts}

Descriptor(pattern, expected, required) == [pattern |-> pattern, expected |-> expected, required |-> required]
Tokens == {Wild, 1, 2}
Patterns == UNION {[1 .. n -> Tokens] : n \in 1 .. 3} \union {<<1, Bad>>, <<>>, <<1, 0>>, <<Wild, 1, 0>>}
OneDescriptor == {<<Descriptor(p, e, TRUE)>> : p \in Patterns, e \in {0, 3}}
FewDescriptors ==
  {Descriptor(p, e, required) : p \in {<<1, 2>>, <<2, Wild>>, <<1>>, <<Bad>>}, e \in {0, 2}, required \in BOOLEAN}
ThreeDescriptors ==
  {<<d, e, f>> : d \in FewDescriptors, e \in FewDescriptors, f \in {Descriptor(<<2, 1>>, 0, TRUE)}}

Smoke(checkMapped, drift) ==
  [program |-> "smoke", mapped |-> checkMapped, drift |-> drift, require |-> FALSE, install |-> FALSE,
   fallback |-> FALSE, live |-> FALSE]
AllOptions ==
  {Smoke(checkMapped, drift) : checkMapped \in BOOLEAN, drift \in BOOLEAN} \union
  [program : {"host"}, mapped : {FALSE}, drift : BOOLEAN, require : BOOLEAN, install : BOOLEAN,
   fallback : BOOLEAN, live : BOOLEAN]

Combine(images, manifests, choices) == [image : images, manifest : manifests, options : choices]
\* Every file in every layout with every pattern, checked by the smoke program; both programs with
\* all their options on a few files.
AllCases ==
  Combine(AllImages, OneDescriptor, {Smoke(TRUE, FALSE)}) \union
  Combine(FewImages, ThreeDescriptors, AllOptions)
=============================================================================
