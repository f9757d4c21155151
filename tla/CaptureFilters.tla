--------------------------- MODULE CaptureFilters ---------------------------
(***************************************************************************)
(* The coefficients of a capture parameter and the filters they are for:   *)
(* what the object takes (captureparam.py), how it is written to the       *)
(* registers of a capture unit (capturectrl.py) and read there by the      *)
(* emulator (capture.py), and the filters (dspmodule.py).                  *)
(*                                                                         *)
(* A complex number is a pair <<re, im>>, and so is a sample, <<i, q>>.    *)
(* Sums, integration and numbers of samples are in CaptureParams.tla; the  *)
(* conversion to floating point and the decision functions are left out.   *)
(***************************************************************************)
EXTENDS Integers, RunningSums

CONSTANTS
  CoefLists,       \* for each kind, the lists that its setter is called with
  NumCoefs,        \* for each kind, how many coefficients the unit has
  FIR_LIMIT,       \* a coefficient of a FIR filter is less (2 ^ 15)
  REG_LIMIT,       \* a coefficient of the window is less (2 ^ 31); registers
                   \* have a bit more
  Inputs,          \* samples that a unit may get
  FilterUnits,     \* sets of filters that may be enabled
  FilterSections,  \* lists of sections: <<words, words of blank after them>>
  IntegSections    \* numbers of integration sections

Complex == {"complex_fir", "complex_window"}
CoefKind == Complex \cup {"real_fir_i", "real_fir_q"}
CoefIn(kind) == IF kind \in Complex THEN Int \X Int ELSE Int

ASSUME FilterConstants ==
  /\ NumCoefs \in [CoefKind -> Nat \ {0}]
  /\ NumCoefs.real_fir_i = NumCoefs.real_fir_q
  /\ FIR_LIMIT \in Nat \ {0} /\ REG_LIMIT \in Nat /\ FIR_LIMIT <= REG_LIMIT
  /\ \A kind \in CoefKind : CoefLists[kind] \subseteq Seq(CoefIn(kind))
  /\ Inputs \subseteq Seq(Int \X Int)
  /\ FilterSections \subseteq Seq((Nat \ {0}) \X (Nat \ {0})) \ {<<>>}
  /\ IntegSections \subseteq Nat \ {0}

VARIABLES
  coefs,      \* the lists of the CaptureParam object, by kind
  shape,      \* its filters, sections and integration sections
  coefRegs,   \* the registers of the unit
  written,    \* coefs and shape when they were written, or NotWritten
  input,      \* the samples the unit got, or <<>>
  filtered    \* what it made of them, section by section

filterVars == <<coefs, shape, coefRegs, written, input, filtered>>

NotWritten == [none |-> TRUE]
SAMPLES_IN_WORD == 4
ZeroPair == <<0, 0>>

(***************************************************************************)
(* Coefficients.                                                           *)
(***************************************************************************)
ZeroOf(kind) == IF kind \in Complex THEN ZeroPair ELSE 0

Parts(kind, c) == IF kind \in Complex THEN {c[1], c[2]} ELSE {c}

InCoefRange(kind, n) ==
  LET limit == IF kind = "complex_window" THEN REG_LIMIT ELSE FIR_LIMIT
  IN  n \in -limit .. limit - 1

\* What the setters accept; the rest of the list is filled with zeros.
CoefsOk(kind, list) ==
  /\ Len(list) \in 1 .. NumCoefs[kind]
  /\ \A i \in DOMAIN list : \A n \in Parts(kind, list[i]) : InCoefRange(kind, n)

Padded(kind, list) ==
  [i \in 1 .. NumCoefs[kind] |-> IF i <= Len(list) THEN list[i] ELSE ZeroOf(kind)]

\* val & 0xffffffff, and (val ^ 0x80000000) - 0x80000000
ToRegister(n) == n % (2 * REG_LIMIT)
ToSigned(n) == ((n + REG_LIMIT) % (2 * REG_LIMIT)) - REG_LIMIT

Each(kind, Op(_), list) ==
  [i \in DOMAIN list |->
     IF kind \in Complex THEN <<Op(list[i][1]), Op(list[i][2])>> ELSE Op(list[i])]

\* __set_comp_fir_coefs, __set_real_fir_coefs, __set_comp_window_coefs
WrittenCoefs(c) == [k \in CoefKind |-> Each(k, ToRegister, c[k])]

\* __gen_capture_param
ReadCoefs(regs) == [k \in CoefKind |-> Each(k, ToSigned, regs[k])]

(***************************************************************************)
(* Filters.                                                                *)
(***************************************************************************)
\* complex_add_int, over a list; complex_mult_int.
Added(pairs) ==
  <<SumAll([j \in DOMAIN pairs |-> pairs[j][1]]), SumAll([j \in DOMAIN pairs |-> pairs[j][2]])>>

Mult(a, b) == <<a[1] * b[1] - a[2] * b[2], a[1] * b[2] + a[2] * b[1]>>

\* complex_fir: as many zeros before the samples as the filter looks back.
ComplexFir(samples, taps) ==
  LET n == Len(taps)
      all == [i \in 1 .. n - 1 |-> ZeroPair] \o samples
  IN  [i \in DOMAIN samples |->
         Added([j \in 1 .. n |-> Mult(taps[n - j + 1], all[i + j - 1])])]

\* real_fir: the first samples are those before the section.
RealFir(samples, taps) ==
  LET n == Len(taps)
  IN  [i \in 1 .. Len(samples) - (n - 1) |->
         SumAll([j \in 1 .. n |-> samples[i + j - 1] * taps[n - j + 1]])]

NumTaps == NumCoefs.real_fir_i

\* Where section k begins, of all those of all integration sections.
SectionAt(s, k) ==
  LET n == Len(s.sections)
      words == [j \in 1 .. n |-> s.sections[j][1] + s.sections[j][2]]
  IN  (((k - 1) \div n) * SumAll(words) + Sums(words)[(k - 1) % n]) * SAMPLES_IN_WORD

SectionWords(s, k) == s.sections[((k - 1) % Len(s.sections)) + 1][1]
NumSections(s) == s.integ * Len(s.sections)

\* Mutant: the samples before a section are the last ones, not every fourth.
PrecedingAll(samples, from) ==
  [j \in 1 .. NumTaps - 1 |->
     LET at == from - (NumTaps - j) IN IF at < 0 THEN ZeroPair ELSE samples[at + 1]]

\* Every fourth of the samples before a section.
Preceding(samples, from) ==
  [j \in 1 .. NumTaps - 1 |->
     LET at == from - (NumTaps - j) * 4 IN IF at < 0 THEN ZeroPair ELSE samples[at + 1]]

\* decimation: every fourth sample of a section, in whole words.
Decimation(samples, s) ==
  [k \in 1 .. NumSections(s) |->
     LET from == SectionAt(s, k)
         n == (SectionWords(s, k) \div 4) * SAMPLES_IN_WORD
     IN  Preceding(samples, from) \o [i \in 1 .. n |-> samples[from + 4 * (i - 1) + 1]]]

\* remove_samples_in_post_blank
RemoveBlanks(samples, s) ==
  [k \in 1 .. NumSections(s) |->
     SubSeq(samples, SectionAt(s, k) + 1, SectionAt(s, k) + SectionWords(s, k) * SAMPLES_IN_WORD)]

PartOf(list, part) == [i \in DOMAIN list |-> list[i][part]]

\* One part of the samples through the real filter, or without the zeros or the
\* samples that were put before them for it.
RealPart(s, c, list, part) ==
  LET kind == IF part = 1 THEN "real_fir_i" ELSE "real_fir_q"
      samples == PartOf(list, part)
  IN  IF "REAL_FIR" \in s.filters THEN RealFir(samples, c[kind])
      ELSE SubSeq(samples, NumTaps, Len(samples))

Pairs(i, q) == [n \in DOMAIN i |-> <<i[n], q[n]>>]

\* complex_window
Window(list, taps) ==
  [n \in DOMAIN list |-> Mult(list[n], taps[((n - 1) % Len(taps)) + 1])]

\* dsp, as far as the filters.
Filtered(s, c, samples) ==
  LET first == IF "COMPLEX_FIR" \in s.filters THEN ComplexFir(samples, c.complex_fir) ELSE samples
      reals(list) == Pairs(RealPart(s, c, list, 1), RealPart(s, c, list, 2))
      cut == IF "DECIMATION" \in s.filters
             THEN [k \in 1 .. NumSections(s) |-> reals(Decimation(first, s)[k])]
             ELSE RemoveBlanks(reals([j \in 1 .. NumTaps - 1 |-> ZeroPair] \o first), s)
  IN  IF "COMPLEX_WINDOW" \in s.filters
      THEN [k \in DOMAIN cut |-> Window(cut[k], c.complex_window)] ELSE cut

(***************************************************************************)
(* Operations.                                                             *)
(***************************************************************************)
NoCoefs == [k \in CoefKind |-> Padded(k, <<>>)]

FilterInit ==
  /\ coefs = NoCoefs
  /\ shape \in [filters : FilterUnits, sections : FilterSections, integ : IntegSections]
  /\ coefRegs = NoCoefs /\ written = NotWritten /\ input = <<>> /\ filtered = <<>>

SetCoefs(kind, list) ==
  /\ written = NotWritten
  /\ CoefsOk(kind, list)
  /\ coefs' = [coefs EXCEPT ![kind] = Padded(kind, list)]
  /\ UNCHANGED <<shape, coefRegs, written, input, filtered>>

WriteCoefs ==
  /\ written = NotWritten
  /\ coefRegs' = WrittenCoefs(coefs)
  /\ written' = [coefs |-> coefs, shape |-> shape]
  /\ UNCHANGED <<coefs, shape, input, filtered>>

\* The number of samples that a parameter wants: a wave that ends before gives
\* zeros.
NumToProcess(s) == SectionAt(s, NumSections(s) + 1)
Filled(s, samples) ==
  [i \in 1 .. NumToProcess(s) |-> IF i <= Len(samples) THEN samples[i] ELSE ZeroPair]

CaptureSamples(samples) ==
  /\ written # NotWritten /\ input = <<>>
  /\ input' = Filled(shape, samples)
  /\ filtered' = Filtered(shape, ReadCoefs(coefRegs), input')
  /\ UNCHANGED <<coefs, shape, coefRegs, written>>

FilterNext ==
  \/ \E k \in CoefKind : \E list \in CoefLists[k] : SetCoefs(k, list)
  \/ WriteCoefs
  \/ \E samples \in Inputs : CaptureSamples(samples)

FilterSpec == FilterInit /\ [][FilterNext]_filterVars

(***************************************************************************)
(* Properties.                                                             *)
(***************************************************************************)
\* The signal at a position, and the two filters at it; before the first sample
\* there is nothing.
Signal(at) == IF at < 0 THEN ZeroPair ELSE input[at + 1]

AfterFir(c, s, at) ==
  IF "COMPLEX_FIR" \notin s.filters \/ at < 0 THEN Signal(at)
  ELSE Added([m \in DOMAIN c.complex_fir |-> Mult(c.complex_fir[m], Signal(at - m + 1))])

AfterReal(c, s, at, step) ==
  IF "REAL_FIR" \notin s.filters THEN AfterFir(c, s, at)
  ELSE LET before(m) == AfterFir(c, s, at - step * (m - 1))
       IN  <<SumAll([m \in 1 .. NumTaps |-> c.real_fir_i[m] * before(m)[1]]),
             SumAll([m \in 1 .. NumTaps |-> c.real_fir_q[m] * before(m)[2]])>>

\* A sample that is stored is the convolution of the signal with the
\* coefficients that the client gave, negative ones included: filters look back
\* over the ends of sections, blanks and integration sections, decimation takes
\* one sample of four for the real filter too, and the window begins anew in
\* every section (dspmodule.py:8, capturectrl.py:772, capture.py:123).
FiltersAreConvolutions ==
  input # <<>> =>
    LET c == written.coefs
        s == written.shape
        step == IF "DECIMATION" \in s.filters THEN 4 ELSE 1
    IN  \A k \in 1 .. NumSections(s) :
          /\ Len(filtered[k]) = (SectionWords(s, k) \div step) * SAMPLES_IN_WORD
          /\ \A n \in DOMAIN filtered[k] :
               LET y == AfterReal(c, s, SectionAt(s, k) + (n - 1) * step, step)
                   w == c.complex_window[((n - 1) % NumCoefs.complex_window) + 1]
               IN  filtered[k][n] = IF "COMPLEX_WINDOW" \in s.filters THEN Mult(y, w) ELSE y
=============================================================================
