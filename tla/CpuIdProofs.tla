---------------------------- MODULE CpuIdProofs -----------------------------
(***************************************************************************)
(* Proofs about CpuId, for any processors, builds and questions: the types *)
(* and, where an Intel processor says of itself what Intel documents, the  *)
(* answers.                                                                *)
(***************************************************************************)
EXTENDS CpuId, SequenceTheorems, WellFoundedInduction, TLAPS

\* Half a register is a natural number.
LEMMA HalfFacts ==
  ASSUME NEW n \in Half
  PROVE  n \in Nat
<1>1. HalfMax \in Nat
  BY DEF HalfMax
<1> QED
  BY <1>1 DEF Half

\* What is known of a processor.
LEMMA ProcessorFacts ==
  ASSUME NEW p \in Processor
  PROVE  /\ p.vendor \in {"intel", "amd", "other"} /\ p.has \in SUBSET Features
         /\ p.maxExt \in 0..8 /\ p.cache \in [1..4 -> Register]
         /\ p.l1i \in Byte /\ p.l1d \in Byte /\ p.line \in Byte /\ p.l2 \in Nat
<1>1. p.l2 \in Half
  BY DEF Processor
<1> QED
  BY <1>1, HalfFacts DEF Processor

-----------------------------------------------------------------------------
(* The decoding of cache descriptors.                                       *)

\* A set of numbers that is not empty has a least one.
LEMMA MinFacts ==
  ASSUME NEW I \in SUBSET Nat, I # {}
  PROVE  Min(I) \in I /\ \A j \in I : Min(I) <= j
<1> DEFINE R == OpToRel(<, Nat)
<1>1. \A x \in Nat, y \in Nat : <<y, x>> \in R <=> y < x
  BY DEF OpToRel
<1>2. IsWellFoundedOn(R, Nat)
  BY NatLessThanWellFounded
<1> HIDE DEF R
<1>3. PICK x \in I : \A y \in I : ~ (<<y, x>> \in R)
  BY <1>2, WFMin
<1>4. \A y \in I : ~ (y < x) /\ y \in Nat /\ x \in Nat
  BY <1>1, <1>3
<1>5. \A y \in I : x <= y
  BY <1>4
<1> QED
  BY <1>5 DEF Min

\* What the tables hold: no descriptor is zero.
LEMMA TableFacts ==
  ASSUME NEW level \in Levels
  PROVE  \A e \in Table[level] : e[1] # 0 /\ e[2] \in Nat /\ e[3] \in Byte
<1>1. \A e \in Table["l1i"] : e[1] # 0 /\ e[2] \in Nat /\ e[3] \in Byte
  BY DEF Table, Byte
<1>2. \A e \in Table["l1d"] : e[1] # 0 /\ e[2] \in Nat /\ e[3] \in Byte
  BY DEF Table, Byte
<1>3. \A e \in Table["l2"] : e[1] # 0 /\ e[2] \in Nat /\ e[3] \in Byte
  BY DEF Table, Byte
<1>4. \A e \in Table["l3"] : e[1] # 0 /\ e[2] \in Nat /\ e[3] \in Byte
  BY DEF Table, Byte
<1> QED
  BY <1>1, <1>2, <1>3, <1>4 DEF Levels

\* The bytes the code looks at are those of the valid registers, and zero.
LEMMA DescriptorsFacts ==
  ASSUME NEW regs \in [1..4 -> Register]
  PROVE  /\ Descriptors(regs) \in Seq(Byte)
         /\ \A v : v # 0 =>
              (v \in Range(Descriptors(regs)) <=> \E r \in 1..4 : regs[r][1] < 128 /\ v \in Range(regs[r]))
<1> DEFINE zero == <<0, 0, 0, 0>>
           bytes(r) == IF regs[r][1] < 128 THEN regs[r] ELSE zero
<1>1. \A r \in 1..4 : bytes(r) \in Seq(Byte)
  <2>1. \A r \in 1..4 : regs[r] \in Seq(Byte)
    <3>1. ASSUME NEW q \in Register PROVE q \in Seq(Byte)
      <4>1. q = [i \in 1..4 |-> q[i]] /\ \A i \in 1..4 : q[i] \in Byte
        BY DEF Register
      <4> QED
        BY <4>1
    <3> QED
      BY <3>1
  <2>2. zero \in Seq(Byte)
    BY DEF Byte
  <2> QED
    BY <2>1, <2>2
<1>2. \A r \in 1..4 : \A v : v # 0 => (v \in Range(bytes(r)) <=> regs[r][1] < 128 /\ v \in Range(regs[r]))
  <2>1. \A v : v # 0 => v \notin Range(zero)
    BY DEF Range
  <2> QED
    BY <2>1
<1>3. Descriptors(regs) = bytes(1) \o bytes(2) \o bytes(3) \o bytes(4)
  BY DEF Descriptors
<1> HIDE DEF bytes
<1>4. /\ bytes(1) \in Seq(Byte) /\ bytes(2) \in Seq(Byte)
      /\ bytes(3) \in Seq(Byte) /\ bytes(4) \in Seq(Byte)
  BY <1>1
<1> DEFINE two   == bytes(1) \o bytes(2)
           three == two \o bytes(3)
           four  == three \o bytes(4)
<1>5. two \in Seq(Byte) /\ Range(two) = Range(bytes(1)) \cup Range(bytes(2))
  BY <1>4, ConcatProperties, RangeConcatenation
<1>6. three \in Seq(Byte) /\ Range(three) = Range(two) \cup Range(bytes(3))
  <2> HIDE DEF two
  <2> QED
    BY <1>4, <1>5, ConcatProperties, RangeConcatenation
<1>7. four \in Seq(Byte) /\ Range(four) = Range(three) \cup Range(bytes(4))
  <2> HIDE DEF three
  <2> QED
    BY <1>4, <1>6, ConcatProperties, RangeConcatenation
<1>8. Descriptors(regs) = four
  BY <1>3
<1> HIDE DEF two, three, four
<1>9. \A v : v \in Range(four) <=> \E r \in 1..4 : v \in Range(bytes(r))
  BY <1>5, <1>6, <1>7
<1> QED
  BY <1>2, <1>7, <1>8, <1>9

\* What the code takes out of the tables is the entry of a descriptor that the
\* processor lists, unless it lists none, or counts no registers.
LEMMA CacheSizeFacts ==
  ASSUME hw \in Processor, NEW level \in Levels, NEW default
  PROVE  LET size == CacheSize(level, hw.cache, default)
         IN  \/ size = default /\ (hw.cache[1][4] # 0 => Listed(level) = {})
             \/ \E e \in Listed(level) : size = <<e[2], e[3]>>
<1>0. hw.cache \in [1..4 -> Register]
  BY ProcessorFacts
<1> DEFINE regs == hw.cache
           s == Descriptors(regs)
           known(d) == \E e \in Table[level] : e[1] = d
           i == SelectInSeq(s, known)
<1>1. regs \in [1..4 -> Register]
  BY <1>0
<1>2. /\ s \in Seq(Byte)
      /\ \A v : v # 0 => (v \in Range(s) <=> \E r \in 1..4 : regs[r][1] < 128 /\ v \in Range(regs[r]))
  BY <1>1, DescriptorsFacts
<1>3. CacheSize(level, regs, default) =
        IF regs[1][4] = 0 \/ i = 0 THEN default
        ELSE LET e == CHOOSE x \in Table[level] : x[1] = s[i] IN <<e[2], e[3]>>
  BY DEF CacheSize
<1>4. Listed(level) = {e \in Table[level] : e[1] \in Range(s)}
  <2>1. ASSUME NEW e \in Table[level]
        PROVE  e[1] \in UNION {Range(regs[r]) : r \in {q \in 1..4 : regs[q][1] < 128}} <=> e[1] \in Range(s)
    BY <1>2, TableFacts
  <2> QED
    BY <2>1 DEF Listed
<1> DEFINE I == {j \in 1..Len(s) : known(s[j])}
<1>5. i = IF I # {} THEN Min(I) ELSE 0
  BY DEF SelectInSeq
<1> HIDE DEF s, i, regs
<1>6. DOMAIN s = 1..Len(s) /\ Len(s) \in Nat
  BY <1>2
<1>7. CASE I = {}
  <2>1. i = 0
    BY <1>5, <1>7
  <2>2. Listed(level) = {}
    BY <1>4, <1>6, <1>7 DEF Range
  <2> QED
    BY <1>3, <2>1, <2>2 DEF regs
<1>8. CASE I # {}
  <2>1. I \in SUBSET Nat
    BY <1>6
  <2>2. i \in I
    <3> HIDE DEF I
    <3> QED
      BY <1>5, <1>8, <2>1, MinFacts
  <2>3. i # 0 /\ \E x \in Table[level] : x[1] = s[i]
    BY <1>6, <2>2
  <2> DEFINE e == CHOOSE x \in Table[level] : x[1] = s[i]
  <2>4. e \in Table[level] /\ e[1] = s[i]
    BY <2>3
  <2>5. e \in Listed(level)
    BY <1>4, <1>6, <2>2, <2>4 DEF Range
  <2>6. CASE regs[1][4] = 0
    BY <1>3, <2>6 DEF regs
  <2>7. CASE regs[1][4] # 0
    BY <1>3, <2>3, <2>5, <2>7 DEF regs
  <2> QED
    BY <2>6, <2>7
<1> QED
  BY <1>7, <1>8

-----------------------------------------------------------------------------
(* The inductive invariant.                                                 *)

CpuInfo == [vendor : {"unknown", "intel", "amd"}, maxExt : 0..8, flags : SUBSET Features,
            line : Byte, size : [Levels -> Nat]]

\* What Intel documents of its processors: the low byte of the first register
\* counts how often to ask for descriptors, there is no 3DNow, and the
\* instructions AMD calls MMX2 came with SSE.
Documented(p) ==
  p.vendor = "intel" =>
    /\ p.cache[1][4] # 0
    /\ p.has \cap {"3dnow", "3dnowext"} = {}
    /\ "mmx2" \in p.has <=> "sse" \in p.has

\* The three parts of AnswersRight, said of struct cpu_info before the answer.
FlagsDecoded ==
  /\ cpu.flags \subseteq hw.has
  /\ hw.vendor = "intel" => hw.has \subseteq cpu.flags

SizesDecoded ==
  /\ hw.vendor = "intel" => \A l \in Levels :
       IF Listed(l) = {} THEN cpu.size[l] = 0 ELSE \E e \in Listed(l) : cpu.size[l] = e[2]
  /\ hw.vendor = "amd" => \A l \in {"l1i", "l1d"} :
       cpu.size[l] = IF hw.maxExt >= 5 THEN hw[l] ELSE 0

\* The line n is the one of the outermost cache.
LineOf(n) ==
  \/ n = 0 /\ \A l \in Levels : Listed(l) = {}
  \/ \E l \in Levels :
       /\ \E e \in Listed(l) : n = e[3]
       /\ l # "l3" => Listed("l3") = {}
       /\ l \in {"l1i", "l1d"} => Listed("l2") = {}

Decoded == FlagsDecoded /\ SizesDecoded /\ (hw.vendor = "intel" => LineOf(cpu.line))

\* The structure is blank until the vendor is known, and then tells what the
\* processor tells; whoever came past the check was compiled to ask.
CpuIdInv ==
  /\ TypeOK
  /\ cpu \in CpuInfo
  /\ pc \notin {"support", "exited"} => Supported
  /\ pc \in {"support", "limits", "vendor"} =>
       cpu.flags = {} /\ cpu.line = 0 /\ cpu.size = [l \in Levels |-> 0]
  /\ pc \in {"vendor", "common", "answer"} =>
       /\ cpu.vendor = IF hw.vendor = "other" THEN "unknown" ELSE hw.vendor
       /\ cpu.maxExt = hw.maxExt
  /\ pc = "common" \/ pc = "answer" => (Documented(hw) => Decoded)
  /\ Documented(hw) => AnswersRight

\* The processor, the build and the question do not change.
LEMMA InputFacts ==
  ASSUME UNCHANGED input
  PROVE  /\ Supported' = Supported /\ Executes' = Executes
         /\ Documented(hw)' = Documented(hw)
         /\ \A l : Listed(l)' = Listed(l)
         /\ Std' = Std /\ Ext' = Ext
         /\ \A n : LineOf(n)' = LineOf(n)
         /\ \A n : Shifted(n)' = Shifted(n)
BY DEF input, Supported, Executes, Documented, Listed, Std, Ext, LineOf, Shifted

LEMMA HardwareFacts ==
  ASSUME TypeOK
  PROVE  /\ hw \in Processor /\ hw.vendor \in {"intel", "amd", "other"}
         /\ hw.maxExt \in 0..8 /\ hw.has \in SUBSET Features
         /\ hw.l1i \in Byte /\ hw.l1d \in Byte /\ hw.line \in Byte /\ hw.l2 \in Nat
<1>1. hw \in Processor
  BY CpuIdAssumption DEF TypeOK
<1> QED
  BY <1>1, ProcessorFacts

\* No answer, no claim but the one about registers.
LEMMA NoAnswer ==
  ASSUME pc' # "exited", pc' # "support" => Supported'
  PROVE  AnswersRight'
BY DEF AnswersRight, RegistersWritten, FeaturesRight, SizesRight, LineRight, Asked, Supported, Executes

LEMMA InitInv == Init => CpuIdInv
<1> SUFFICES ASSUME Init PROVE CpuIdInv
  OBVIOUS
<1>1. /\ cpu = [vendor |-> "unknown", maxExt |-> 0, flags |-> {}, line |-> 0,
                size |-> [l \in Levels |-> 0]]
      /\ pc = "support" /\ out = Nothing /\ exit = Nothing
      /\ hw \in Hardware /\ build \in Builds /\ query \in Queries
  BY DEF Init
<1>2. cpu \in CpuInfo
  BY <1>1 DEF CpuInfo, Byte
<1>3. TypeOK
  BY <1>1, <1>2 DEF TypeOK, CpuInfo
<1>4. AnswersRight
  BY <1>1 DEF AnswersRight, RegistersWritten, FeaturesRight, SizesRight, LineRight, Asked
<1> QED
  BY <1>1, <1>2, <1>3, <1>4 DEF CpuIdInv

-----------------------------------------------------------------------------
(* The steps.                                                               *)

\* An exit that answers no question.
LEMMA StepCheckSupport == CpuIdInv /\ CheckSupport => CpuIdInv'
<1> SUFFICES ASSUME CpuIdInv, CheckSupport PROVE CpuIdInv'
  OBVIOUS
<1>1. pc = "support" /\ UNCHANGED <<input, cpu>> /\ TypeOK
  BY DEF CheckSupport, Say, CpuIdInv
<1>2. /\ Supported' = Supported /\ Documented(hw)' = Documented(hw)
  BY <1>1, InputFacts
<1>3. CASE query # "" /\ Supported /\ pc' = "limits" /\ UNCHANGED <<out, exit>>
  <2>1. TypeOK'
    BY <1>1, <1>3 DEF TypeOK, input
  <2>2. AnswersRight'
    BY <1>1, <1>2, <1>3, NoAnswer
  <2> QED
    BY <1>1, <1>2, <1>3, <2>1, <2>2 DEF CpuIdInv
<1>4. CASE pc' = "exited" /\ out' \in {0, Nothing} /\ exit' \in {0, 1} /\ (query = "" \/ ~Supported)
  <2>1. TypeOK'
    <3>1. /\ hw' \in Hardware /\ build' \in Builds /\ query' \in Queries
      BY <1>1 DEF TypeOK, input
    <3>2. /\ cpu'.vendor \in {"unknown", "intel", "amd"} /\ cpu'.maxExt \in 0..8
          /\ cpu'.flags \subseteq Features /\ cpu'.line \in Byte /\ cpu'.size \in [Levels -> Nat]
      BY <1>1 DEF TypeOK
    <3>3. out' \in Nat \cup {Nothing} /\ exit' \in {0, 1, Nothing}
      <4>1. 0 \in Nat
        OBVIOUS
      <4> QED
        BY <1>4, <4>1, Zenon
    <3> QED
      BY <1>4, <3>1, <3>2, <3>3 DEF TypeOK
  <2>2. /\ ~Asked(Features)' /\ ~Asked(Levels)' /\ ~Asked({"cacheline"})'
    BY <1>1, <1>2, <1>4 DEF Asked, input, Features, Levels
  <2>3. AnswersRight'
    BY <1>4, <2>2 DEF AnswersRight, RegistersWritten, FeaturesRight, SizesRight, LineRight
  <2> QED
    BY <1>1, <1>2, <1>4, <2>1, <2>3 DEF CpuIdInv
<1> QED
  BY <1>1, <1>3, <1>4 DEF CheckSupport, Say

LEMMA StepDetectVendor == CpuIdInv /\ DetectVendor => CpuIdInv'
<1> SUFFICES ASSUME CpuIdInv, DetectVendor PROVE CpuIdInv'
  OBVIOUS
<1>1. /\ pc = "limits" /\ pc' = "vendor" /\ UNCHANGED <<input, out, exit>>
      /\ TypeOK /\ cpu \in CpuInfo /\ Supported
      /\ cpu.flags = {} /\ cpu.line = 0 /\ cpu.size = [l \in Levels |-> 0]
      /\ cpu' = [cpu EXCEPT !.maxExt = hw.maxExt,
                            !.vendor = IF hw.vendor = "other" THEN "unknown" ELSE hw.vendor]
  BY DEF DetectVendor, CpuIdInv
<1>2. Supported' = Supported /\ UNCHANGED <<hw, build, query>>
  BY <1>1, InputFacts DEF input
<1>3. /\ cpu' \in CpuInfo
      /\ cpu'.flags = cpu.flags /\ cpu'.line = cpu.line /\ cpu'.size = cpu.size
      /\ cpu'.maxExt = hw.maxExt
      /\ cpu'.vendor = IF hw.vendor = "other" THEN "unknown" ELSE hw.vendor
  BY <1>1, HardwareFacts DEF CpuInfo
<1>4. TypeOK'
  BY <1>1, <1>2, <1>3 DEF TypeOK, CpuInfo
<1>5. AnswersRight'
  BY <1>1, <1>2, NoAnswer
<1> QED
  BY <1>1, <1>2, <1>3, <1>4, <1>5 DEF CpuIdInv

\* The caches of an Intel processor: the size of each level, and the line of
\* the last one that is found.
LEMMA IntelFacts ==
  ASSUME TypeOK, Documented(hw), hw.vendor = "intel", NEW d \in Byte, NEW level \in Levels
  PROVE  LET c == CacheSize(level, hw.cache, <<0, d>>)
         IN  /\ IF Listed(level) = {} THEN c[1] = 0 ELSE \E e \in Listed(level) : c[1] = e[2]
             /\ IF Listed(level) = {} THEN c[2] = d ELSE \E e \in Listed(level) : c[2] = e[3]
<1> DEFINE c == CacheSize(level, hw.cache, <<0, d>>)
<1>1. \/ c = <<0, d>> /\ Listed(level) = {}
      \/ \E e \in Listed(level) : c = <<e[2], e[3]>>
  BY CacheSizeFacts, HardwareFacts DEF Documented
<1> HIDE DEF c
<1>2. CASE c = <<0, d>> /\ Listed(level) = {}
  BY <1>2 DEF c
<1>3. CASE \E e \in Listed(level) : c = <<e[2], e[3]>>
  BY <1>3 DEF c
<1> QED
  BY <1>1, <1>2, <1>3

\* ... of the right types, whatever the processor says.
LEMMA CacheSizeType ==
  ASSUME TypeOK, NEW d \in Byte, NEW level \in Levels
  PROVE  LET c == CacheSize(level, hw.cache, <<0, d>>) IN c[1] \in Nat /\ c[2] \in Byte
<1> DEFINE c == CacheSize(level, hw.cache, <<0, d>>)
<1>1. c = <<0, d>> \/ \E e \in Listed(level) : c = <<e[2], e[3]>>
  BY CacheSizeFacts, HardwareFacts
<1>2. \A e \in Listed(level) : e[2] \in Nat /\ e[3] \in Byte
  BY TableFacts DEF Listed
<1> HIDE DEF c
<1>3. c[1] \in Nat /\ c[2] \in Byte
  BY <1>1, <1>2
<1> QED
  BY <1>3 DEF c

LEMMA StepVendorIntel == CpuIdInv /\ VendorIntel => CpuIdInv'
<1> SUFFICES ASSUME CpuIdInv, VendorIntel PROVE CpuIdInv'
  OBVIOUS
<1> DEFINE l1i == CacheSize("l1i", hw.cache, <<0, cpu.line>>)
           l1d == CacheSize("l1d", hw.cache, <<0, l1i[2]>>)
           l2  == CacheSize("l2", hw.cache, <<0, l1d[2]>>)
           l3  == CacheSize("l3", hw.cache, <<0, l2[2]>>)
<1>1. /\ pc = "vendor" /\ pc' = "common" /\ UNCHANGED <<input, out, exit>>
      /\ TypeOK /\ cpu \in CpuInfo /\ Supported
      /\ cpu.flags = {} /\ cpu.line = 0 /\ cpu.maxExt = hw.maxExt
      /\ cpu.vendor = "intel"
      /\ cpu.vendor = IF hw.vendor = "other" THEN "unknown" ELSE hw.vendor
  BY DEF VendorIntel, CpuIdInv
<1>2. cpu' = [cpu EXCEPT
        !.flags = @ \cup Std \cup (IF "sse" \in Std THEN {"mmx2"} ELSE {}),
        !.line = l3[2],
        !.size = [l1i |-> l1i[1], l1d |-> l1d[1], l2 |-> l2[1], l3 |-> l3[1]]]
  BY DEF VendorIntel
<1>3. hw.vendor = "intel"
  BY <1>1, HardwareFacts
<1>4. /\ Supported' = Supported /\ Documented(hw)' = Documented(hw) /\ UNCHANGED <<hw, build, query>>
      /\ \A l : Listed(l)' = Listed(l) /\ \A n : LineOf(n)' = LineOf(n)
  BY <1>1, InputFacts DEF input
<1>5. "l1i" \in Levels /\ "l1d" \in Levels /\ "l2" \in Levels /\ "l3" \in Levels
  BY DEF Levels
<1> HIDE DEF l1i, l1d, l2, l3
<1>6. l1i[1] \in Nat /\ l1i[2] \in Byte
  BY <1>1, <1>5, CacheSizeType DEF l1i, CpuInfo
<1>7. l1d[1] \in Nat /\ l1d[2] \in Byte
  BY <1>1, <1>5, <1>6, CacheSizeType DEF l1d
<1>8. l2[1] \in Nat /\ l2[2] \in Byte
  BY <1>1, <1>5, <1>7, CacheSizeType DEF l2
<1>9. l3[1] \in Nat /\ l3[2] \in Byte
  BY <1>1, <1>5, <1>8, CacheSizeType DEF l3
<1> DEFINE flags == Std \cup (IF "sse" \in Std THEN {"mmx2"} ELSE {})
           size  == [l1i |-> l1i[1], l1d |-> l1d[1], l2 |-> l2[1], l3 |-> l3[1]]
<1>10. flags \in SUBSET Features
  BY <1>1, HardwareFacts DEF Std, Features
<1>11. /\ size \in [Levels -> Nat]
       /\ size["l1i"] = l1i[1] /\ size["l1d"] = l1d[1] /\ size["l2"] = l2[1] /\ size["l3"] = l3[1]
  BY <1>6, <1>7, <1>8, <1>9 DEF Levels
<1> HIDE DEF size
<1>12. /\ cpu' \in CpuInfo
       /\ cpu'.flags = flags /\ cpu'.line = l3[2] /\ cpu'.size = size
       /\ cpu'.vendor = cpu.vendor /\ cpu'.maxExt = cpu.maxExt
  <2> HIDE DEF flags
  <2>1. cpu' = [cpu EXCEPT !.flags = flags, !.line = l3[2], !.size = size]
    BY <1>1, <1>2 DEF flags, size
  <2> QED
    BY <1>1, <1>9, <1>10, <1>11, <2>1 DEF CpuInfo
<1>13. TypeOK'
  BY <1>1, <1>4, <1>12 DEF TypeOK, CpuInfo
<1>14. ASSUME Documented(hw) PROVE Decoded'
  <2>1. FlagsDecoded'
    <3>1. flags = hw.has
      BY <1>1, <1>3, <1>14, HardwareFacts DEF Documented, Std, Features
    <3> QED
      BY <1>4, <1>12, <3>1 DEF FlagsDecoded
  <2>2. /\ IF Listed("l1i") = {} THEN l1i[1] = 0 ELSE \E e \in Listed("l1i") : l1i[1] = e[2]
        /\ IF Listed("l1i") = {} THEN l1i[2] = cpu.line ELSE \E e \in Listed("l1i") : l1i[2] = e[3]
    BY <1>1, <1>3, <1>5, <1>14, IntelFacts DEF l1i, CpuInfo
  <2>3. /\ IF Listed("l1d") = {} THEN l1d[1] = 0 ELSE \E e \in Listed("l1d") : l1d[1] = e[2]
        /\ IF Listed("l1d") = {} THEN l1d[2] = l1i[2] ELSE \E e \in Listed("l1d") : l1d[2] = e[3]
    BY <1>1, <1>3, <1>5, <1>6, <1>14, IntelFacts DEF l1d
  <2>4. /\ IF Listed("l2") = {} THEN l2[1] = 0 ELSE \E e \in Listed("l2") : l2[1] = e[2]
        /\ IF Listed("l2") = {} THEN l2[2] = l1d[2] ELSE \E e \in Listed("l2") : l2[2] = e[3]
    BY <1>1, <1>3, <1>5, <1>7, <1>14, IntelFacts DEF l2
  <2>5. /\ IF Listed("l3") = {} THEN l3[1] = 0 ELSE \E e \in Listed("l3") : l3[1] = e[2]
        /\ IF Listed("l3") = {} THEN l3[2] = l2[2] ELSE \E e \in Listed("l3") : l3[2] = e[3]
    BY <1>1, <1>3, <1>5, <1>8, <1>14, IntelFacts DEF l3
  <2>6. \A l \in Levels :
          IF Listed(l) = {} THEN size[l] = 0 ELSE \E e \in Listed(l) : size[l] = e[2]
    BY <1>11, <2>2, <2>3, <2>4, <2>5 DEF Levels
  <2>7. SizesDecoded'
    BY <1>3, <1>4, <1>12, <2>6 DEF SizesDecoded
  <2>8. LineOf(l3[2])
    BY <1>1, <1>5, <2>2, <2>3, <2>4, <2>5 DEF LineOf, Levels
  <2>9. LineOf(cpu.line)'
    BY <1>4, <1>12, <2>8 DEF LineOf
  <2> QED
    BY <2>1, <2>7, <2>9 DEF Decoded
<1>15. AnswersRight'
  BY <1>1, <1>4, NoAnswer
<1> QED
  BY <1>1, <1>4, <1>12, <1>13, <1>14, <1>15 DEF CpuIdInv

\* One size of the structure is set.
LEMMA SizeFacts ==
  ASSUME NEW c \in CpuInfo, NEW l \in Levels, NEW n \in Nat
  PROVE  LET r == [c EXCEPT !.size[l] = n]
         IN  /\ r \in CpuInfo
             /\ r.flags = c.flags /\ r.line = c.line /\ r.vendor = c.vendor /\ r.maxExt = c.maxExt
             /\ r.size[l] = n
             /\ \A k \in Levels \ {l} : r.size[k] = c.size[k]
<1> DEFINE size == [c.size EXCEPT ![l] = n]
<1>1. size \in [Levels -> Nat] /\ size[l] = n /\ \A k \in Levels \ {l} : size[k] = c.size[k]
  BY DEF CpuInfo
<1>2. [c EXCEPT !.size[l] = n] = [c EXCEPT !.size = size]
  BY DEF CpuInfo
<1> HIDE DEF size
<1> QED
  BY <1>1, <1>2 DEF CpuInfo

LEMMA StepVendorAmd == CpuIdInv /\ VendorAmd => CpuIdInv'
<1> SUFFICES ASSUME CpuIdInv, VendorAmd PROVE CpuIdInv'
  OBVIOUS
<1>1. /\ pc = "vendor" /\ pc' = "common" /\ UNCHANGED <<input, out, exit>>
      /\ TypeOK /\ cpu \in CpuInfo /\ Supported
      /\ cpu.flags = {} /\ cpu.line = 0 /\ cpu.size = [l \in Levels |-> 0]
      /\ cpu.maxExt = hw.maxExt /\ cpu.vendor = "amd"
      /\ cpu.vendor = IF hw.vendor = "other" THEN "unknown" ELSE hw.vendor
  BY DEF VendorAmd, CpuIdInv
<1>2. hw.vendor = "amd"
  BY <1>1, HardwareFacts
<1>3. /\ Supported' = Supported /\ Documented(hw)' = Documented(hw) /\ UNCHANGED <<hw, build, query>>
  BY <1>1, InputFacts DEF input
<1>4. /\ hw.l2 \div 256 \in Nat /\ hw.l1i \in Nat /\ hw.l1d \in Nat /\ hw.line \in Byte
      /\ "l1i" \in Levels /\ "l1d" \in Levels /\ "l2" \in Levels
  BY <1>1, HardwareFacts DEF CpuInfo, Byte, Levels
<1> DEFINE l1 == cpu.maxExt >= 5
           l2 == cpu.maxExt >= 6
           c1 == [cpu EXCEPT !.line = IF l1 THEN hw.line ELSE cpu.line]
           c2 == [c1 EXCEPT !.size.l1i = IF l1 THEN hw.l1i ELSE cpu.size.l1i]
           c3 == [c2 EXCEPT !.size.l1d = IF l1 THEN hw.l1d ELSE cpu.size.l1d]
           c4 == [c3 EXCEPT !.size.l2 = IF l2 THEN hw.l2 \div 256 ELSE cpu.size.l2]
<1>5. cpu' = c4
  BY DEF VendorAmd
<1>6. /\ c1 \in CpuInfo /\ c1.flags = cpu.flags /\ c1.vendor = cpu.vendor /\ c1.maxExt = cpu.maxExt
      /\ c1.size["l1i"] = 0 /\ c1.size["l1d"] = 0
  BY <1>1, <1>4 DEF CpuInfo
<1> HIDE DEF c1
<1>7. /\ cpu' \in CpuInfo
      /\ cpu'.flags = cpu.flags /\ cpu'.vendor = cpu.vendor /\ cpu'.maxExt = cpu.maxExt
      /\ cpu'.size["l1i"] = (IF l1 THEN hw.l1i ELSE 0)
      /\ cpu'.size["l1d"] = (IF l1 THEN hw.l1d ELSE 0)
  <2>1. /\ cpu.size.l1i = 0 /\ cpu.size.l1d = 0 /\ cpu.size.l2 = 0
        /\ (IF l1 THEN hw.l1i ELSE cpu.size.l1i) \in Nat
        /\ (IF l1 THEN hw.l1d ELSE cpu.size.l1d) \in Nat
        /\ (IF l2 THEN hw.l2 \div 256 ELSE cpu.size.l2) \in Nat
        /\ "l1i" # "l1d" /\ "l1i" # "l2" /\ "l1d" # "l2"
    BY <1>1, <1>4
  <2>2. /\ c2 \in CpuInfo /\ c2.flags = cpu.flags /\ c2.vendor = cpu.vendor /\ c2.maxExt = cpu.maxExt
        /\ c2.size["l1i"] = (IF l1 THEN hw.l1i ELSE 0) /\ c2.size["l1d"] = 0
    BY <1>4, <1>6, <2>1, SizeFacts
  <2> HIDE DEF c2
  <2>3. /\ c3 \in CpuInfo /\ c3.flags = cpu.flags /\ c3.vendor = cpu.vendor /\ c3.maxExt = cpu.maxExt
        /\ c3.size["l1i"] = (IF l1 THEN hw.l1i ELSE 0)
        /\ c3.size["l1d"] = (IF l1 THEN hw.l1d ELSE 0)
    BY <1>4, <2>1, <2>2, SizeFacts
  <2> HIDE DEF c3
  <2>4. /\ c4 \in CpuInfo /\ c4.flags = cpu.flags /\ c4.vendor = cpu.vendor /\ c4.maxExt = cpu.maxExt
        /\ c4.size["l1i"] = (IF l1 THEN hw.l1i ELSE 0)
        /\ c4.size["l1d"] = (IF l1 THEN hw.l1d ELSE 0)
    BY <1>4, <2>1, <2>3, SizeFacts, SMTT(20)
  <2> QED
    BY <1>5, <2>4
<1>8. TypeOK'
  BY <1>1, <1>3, <1>7 DEF TypeOK, CpuInfo
<1>9. Decoded'
  BY <1>1, <1>2, <1>3, <1>7 DEF Decoded, FlagsDecoded, SizesDecoded
<1>10. AnswersRight'
  BY <1>1, <1>3, NoAnswer
<1> QED
  BY <1>1, <1>3, <1>7, <1>8, <1>9, <1>10 DEF CpuIdInv

LEMMA StepVendorOther == CpuIdInv /\ VendorOther => CpuIdInv'
<1> SUFFICES ASSUME CpuIdInv, VendorOther PROVE CpuIdInv'
  OBVIOUS
<1>1. /\ pc = "vendor" /\ pc' = "common" /\ UNCHANGED <<input, cpu, out, exit>>
      /\ TypeOK /\ cpu \in CpuInfo /\ Supported /\ cpu.flags = {}
      /\ cpu.vendor = IF hw.vendor = "other" THEN "unknown" ELSE hw.vendor
      /\ cpu.vendor \notin {"intel", "amd"}
  BY DEF VendorOther, CpuIdInv
<1>2. hw.vendor = "other"
  BY <1>1, HardwareFacts
<1>3. /\ Supported' = Supported /\ Documented(hw)' = Documented(hw) /\ UNCHANGED <<hw, build, query>>
  BY <1>1, InputFacts DEF input
<1>4. TypeOK'
  BY <1>1, <1>3 DEF TypeOK
<1>5. Decoded'
  BY <1>1, <1>2, <1>3 DEF Decoded, FlagsDecoded, SizesDecoded
<1>6. AnswersRight'
  BY <1>1, <1>3, NoAnswer
<1> QED
  BY <1>1, <1>3, <1>4, <1>5, <1>6 DEF CpuIdInv

\* The parameter 0x80000001 adds nothing that the processor has not.
LEMMA StepCommon == CpuIdInv /\ Common => CpuIdInv'
<1> SUFFICES ASSUME CpuIdInv, Common PROVE CpuIdInv'
  OBVIOUS
<1>1. /\ pc = "common" /\ pc' = "answer" /\ UNCHANGED <<input, out, exit>>
      /\ TypeOK /\ cpu \in CpuInfo /\ Supported
      /\ cpu.maxExt = hw.maxExt
      /\ cpu.vendor = IF hw.vendor = "other" THEN "unknown" ELSE hw.vendor
      /\ Documented(hw) => Decoded
  BY DEF Common, CpuIdInv
<1>2. /\ Supported' = Supported /\ Documented(hw)' = Documented(hw) /\ UNCHANGED <<hw, build, query>>
      /\ \A l : Listed(l)' = Listed(l) /\ \A n : LineOf(n)' = LineOf(n)
  BY <1>1, InputFacts DEF input
<1> DEFINE flags == IF hw.maxExt >= 1
                    THEN cpu.flags \cup (Ext \cap {"mmx", "mmx2", "3dnow", "3dnowext"})
                    ELSE cpu.flags
<1>3. cpu' = [cpu EXCEPT !.flags = flags]
  BY <1>1 DEF Common, CpuInfo
<1>4. flags \in SUBSET Features /\ cpu.flags \subseteq flags
  BY <1>1 DEF CpuInfo, Features
<1>5. hw.maxExt >= 1 => Ext \subseteq hw.has
  BY <1>1, HardwareFacts DEF Ext
<1>6. cpu.flags \subseteq hw.has => flags \subseteq hw.has
  BY <1>5
<1> HIDE DEF flags
<1>7. /\ cpu' \in CpuInfo
      /\ cpu'.flags = flags /\ cpu'.size = cpu.size /\ cpu'.line = cpu.line
      /\ cpu'.vendor = cpu.vendor /\ cpu'.maxExt = cpu.maxExt
  BY <1>1, <1>3, <1>4 DEF CpuInfo
<1>8. TypeOK'
  BY <1>1, <1>2, <1>7 DEF TypeOK, CpuInfo
<1>9. ASSUME Documented(hw) PROVE Decoded'
  <2>1. Decoded
    BY <1>1, <1>9
  <2>2. FlagsDecoded'
    BY <1>2, <1>4, <1>6, <1>7, <2>1 DEF Decoded, FlagsDecoded
  <2>3. SizesDecoded'
    BY <1>2, <1>7, <2>1 DEF Decoded, SizesDecoded
  <2>4. hw.vendor = "intel" => LineOf(cpu.line)'
    BY <1>2, <1>7, <2>1 DEF Decoded, LineOf
  <2> QED
    BY <1>2, <2>2, <2>3, <2>4 DEF Decoded
<1>10. AnswersRight'
  BY <1>1, <1>2, NoAnswer
<1> QED
  BY <1>1, <1>2, <1>7, <1>8, <1>9, <1>10 DEF CpuIdInv

\* As far as a long holds it, a size is a number, and zero is zero.
LEMMA ShiftedFacts ==
  /\ \A n \in Nat : Shifted(n) \in Nat
  /\ Shifted(0) = 0
BY DEF Shifted

\* A cache of an AMD processor fits into any long.
LEMMA ShiftedByte == \A n \in Byte : Shifted(n) = n
BY DEF Shifted, Byte

LEMMA StepAnswer == CpuIdInv /\ Answer => CpuIdInv'
<1> SUFFICES ASSUME CpuIdInv, Answer PROVE CpuIdInv'
  OBVIOUS
<1>1. /\ pc = "answer" /\ pc' = "exited" /\ UNCHANGED <<input, cpu>>
      /\ TypeOK /\ cpu \in CpuInfo /\ Supported
      /\ Documented(hw) => Decoded
  BY DEF Answer, Say, CpuIdInv
<1>2. /\ Supported' = Supported /\ Documented(hw)' = Documented(hw) /\ UNCHANGED <<hw, build, query>>
      /\ \A l : Listed(l)' = Listed(l) /\ \A n : LineOf(n)' = LineOf(n)
      /\ \A n : Shifted(n)' = Shifted(n)
  BY <1>1, InputFacts DEF input
<1>3. /\ query \in Features => out' = (IF query \in cpu.flags THEN 1 ELSE 0)
      /\ query \in Levels => out' = Shifted(cpu.size[query])
      /\ query = "cacheline" => out' = cpu.line
      /\ query \notin Features \cup Levels \cup {"cacheline"} => out' = 0
      /\ exit' \in {0, 1}
  BY DEF Answer, Say, Features, Levels
<1>4. TypeOK'
  <2>1. out' \in Nat
    BY <1>1, <1>3, ShiftedFacts DEF CpuInfo, Byte
  <2> QED
    BY <1>1, <1>2, <1>3, <2>1 DEF TypeOK
<1>5. ASSUME Documented(hw) PROVE AnswersRight'
  <2>1. Decoded
    BY <1>1, <1>5
  <2>2. RegistersWritten'
    BY <1>1 DEF RegistersWritten
  <2>3. FeaturesRight'
    BY <1>1, <1>2, <1>3, <2>1 DEF FeaturesRight, Asked, Decoded, FlagsDecoded
  <2>4. SizesRight'
    <3> SUFFICES ASSUME query \in Levels PROVE SizesRight'
      BY <1>2 DEF SizesRight, Asked
    <3>1. hw.vendor = "intel" =>
            IF Listed(query) = {} THEN out' = 0 ELSE \E e \in Listed(query) : out' = Shifted(e[2])
      BY <1>3, <2>1, ShiftedFacts DEF Decoded, SizesDecoded
    <3>2. hw.vendor = "amd" /\ query \in {"l1i", "l1d"} =>
            out' = IF hw.maxExt >= 5 THEN hw[query] ELSE 0
      <4>1. query \in {"l1i", "l1d"} => hw[query] \in Byte
        BY <1>1, HardwareFacts
      <4> QED
        BY <1>3, <2>1, <4>1, ShiftedFacts, ShiftedByte DEF Decoded, SizesDecoded
    <3> QED
      BY <1>2, <3>1, <3>2 DEF SizesRight
  <2>5. LineRight'
    <3> SUFFICES ASSUME query = "cacheline", hw.vendor = "intel" PROVE LineRight'
      BY <1>2 DEF LineRight, Asked
    <3>1. LineOf(out')
      BY <1>3, <2>1 DEF Decoded
    <3> QED
      BY <1>2, <3>1 DEF LineRight, LineOf
  <2> QED
    BY <2>2, <2>3, <2>4, <2>5 DEF AnswersRight
<1> QED
  BY <1>1, <1>2, <1>4, <1>5 DEF CpuIdInv

-----------------------------------------------------------------------------
(* The theorems.                                                            *)

LEMMA StepInv == CpuIdInv /\ [Next]_vars => CpuIdInv'
<1> SUFFICES ASSUME CpuIdInv, [Next]_vars PROVE CpuIdInv'
  OBVIOUS
<1>1. CASE UNCHANGED vars
  <2>1. UNCHANGED input /\ UNCHANGED <<hw, build, query, pc, cpu, out, exit>>
    BY <1>1 DEF vars, input
  <2>3. TypeOK' /\ (cpu \in CpuInfo)'
    BY <2>1 DEF CpuIdInv, TypeOK
  <2>4. Decoded' = Decoded
    BY <2>1 DEF Decoded, FlagsDecoded, SizesDecoded, LineOf, Listed
  <2>5. FeaturesRight' = FeaturesRight /\ RegistersWritten' = RegistersWritten
    BY <2>1 DEF RegistersWritten, FeaturesRight, Asked, Supported, Executes
  <2>6. SizesRight' = SizesRight
    BY <2>1 DEF SizesRight, Asked, Supported, Listed, Shifted
  <2>7. LineRight' = LineRight
    BY <2>1 DEF LineRight, Asked, Supported, Listed
  <2>2. TypeOK' /\ (cpu \in CpuInfo)' /\ (Decoded => Decoded') /\ (AnswersRight => AnswersRight')
    BY <2>3, <2>4, <2>5, <2>6, <2>7 DEF AnswersRight
  <2> QED
    BY <2>1, <2>2, InputFacts DEF CpuIdInv
<1> QED
  BY <1>1, StepCheckSupport, StepDetectVendor, StepVendorIntel, StepVendorAmd, StepVendorOther,
     StepCommon, StepAnswer
  DEF Next, Finished

\* In every state the structure holds what the steps made so far have decoded.
THEOREM Invariance == Spec => []CpuIdInv
BY InitInv, StepInv, PTL DEF Spec

\* struct cpu_info and what is printed stay in their ranges, whatever bytes
\* the CPUID instruction returns.
THEOREM TypeCorrect == Spec => []TypeOK
<1>1. CpuIdInv => TypeOK
  BY DEF CpuIdInv
<1> QED
  BY <1>1, Invariance, PTL

\* sd-cpuidx86 answers what the processor says of itself: it reports features
\* the processor has, all those of an Intel processor, cache sizes of
\* descriptors the processor lists, and the line of the outermost cache.
THEOREM Answers == Spec => [](Documented(hw) => AnswersRight)
<1>1. CpuIdInv => (Documented(hw) => AnswersRight)
  BY DEF CpuIdInv
<1> QED
  BY <1>1, Invariance, PTL
=============================================================================
