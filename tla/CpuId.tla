------------------------------- MODULE CpuId -------------------------------
(***************************************************************************)
(* sd-cpuidx86.c: the probe SYSDEPS runs once for every question it has    *)
(* about an x86 processor.  It asks the processor with the CPUID           *)
(* instruction, decodes the registers into struct cpu_info, and prints one *)
(* number: 1 or 0 for a feature, a size in bytes for a cache.              *)
(*                                                                         *)
(* A register is what the code takes out of it: a set of feature bits, or  *)
(* four bytes, the most significant first.                                 *)
(***************************************************************************)
EXTENDS Integers, Sequences, SequencesExt

CONSTANTS
  Hardware,   \* the processors: see Processor
  Builds,     \* [arch, cc, long]: what sd-arch and sd-cctype printed, and the width of a long
  Queries     \* argv[1]

Features == {"mmx", "mmx2", "3dnow", "3dnowext", "sse", "sse2", "sse3", "sse4.1", "sse4.2"}
Levels   == {"l1i", "l1d", "l2", "l3"}
Byte     == 0 .. 255
HalfMax  == 65535
Half     == 0 .. HalfMax   \* of a register
Nothing  == -1
Register == [1..4 -> Byte]

\* What matters of a processor (external): does EFLAGS have an ID bit, the
\* vendor, the features, the highest extended parameter less 0x80000000, the
\* four registers of parameter 2, and the caches that parameters 0x80000005
\* and 0x80000006 describe, in KB.
Processor == [idBit : BOOLEAN, vendor : {"intel", "amd", "other"}, has : SUBSET Features,
              maxExt : 0..8, cache : [1..4 -> Register],
              l1i : Byte, l1d : Byte, line : Byte, l2 : Half]

ASSUME CpuIdAssumption ==
  /\ Hardware \subseteq Processor
  /\ \A b \in Builds : b.long \in {32, 64}

VARIABLES
  hw,      \* the processor the probe runs on
  build,   \* what it was compiled for
  query,   \* what it is asked
  pc,
  cpu,     \* struct cpu_info
  out,     \* what it has printed: a number (of KB for a cache size), or Nothing
  exit     \* its exit status, or Nothing

input == <<hw, build, query>>
vars  == <<input, pc, cpu, out, exit>>

Init ==
  /\ hw \in Hardware
  /\ build \in Builds
  /\ query \in Queries
  /\ pc = "support"
  /\ cpu = [vendor |-> "unknown", maxExt |-> 0, flags |-> {}, line |-> 0,
            size |-> [l \in Levels |-> 0]]
  /\ out = Nothing
  /\ exit = Nothing

-----------------------------------------------------------------------------
(* The tables of cache descriptors: <<descriptor, size in KB, line>>.        *)

Table == [
  l1i |-> {
    <<\h06, 8, 32>>, <<\h08, 16, 32>>, <<\h09, 32, 64>>, <<\h15, 16, 32>>, <<\h30, 32, 64>>,
    <<\h77, 16, 64>>},
  l1d |-> {
    <<\h0A, 8, 32>>, <<\h0C, 16, 32>>, <<\h0D, 16, 64>>, <<\h10, 16, 32>>, <<\h2C, 32, 64>>,
    <<\h60, 16, 64>>, <<\h66, 8, 64>>, <<\h67, 16, 64>>, <<\h68, 32, 64>>},
  l2 |-> {
    <<\h21, 256, 64>>, <<\h39, 128, 64>>, <<\h3A, 192, 64>>, <<\h3B, 128, 64>>, <<\h3C, 256, 64>>,
    <<\h3D, 384, 64>>, <<\h3E, 512, 64>>, <<\h41, 128, 32>>, <<\h42, 256, 32>>, <<\h43, 512, 32>>,
    <<\h44, 1024, 32>>, <<\h45, 2048, 32>>, <<\h48, 3072, 64>>, <<\h49, 4096, 64>>, <<\h4E, 6144, 64>>,
    <<\h78, 1024, 64>>, <<\h79, 128, 64>>, <<\h7A, 256, 64>>, <<\h7B, 512, 64>>, <<\h7C, 1024, 64>>,
    <<\h7D, 2048, 64>>, <<\h7F, 512, 64>>, <<\h82, 256, 32>>, <<\h83, 512, 32>>, <<\h84, 1024, 32>>,
    <<\h85, 2048, 32>>, <<\h86, 512, 64>>, <<\h87, 1024, 64>>},
  l3 |-> {
    <<\h22, 512, 64>>, <<\h23, 1024, 64>>, <<\h25, 2048, 64>>, <<\h29, 4096, 64>>,
    <<\hD0, 524288, 64>>, <<\hD1, 1048576, 64>>, <<\hD2, 2097152, 64>>, <<\hD6, 1048576, 64>>,
    <<\hD7, 2097152, 64>>, <<\hD8, 8388608, 64>>, <<\hDC, 1572864, 64>>, <<\hDD, 3145728, 64>>,
    <<\hDE, 6291456, 64>>, <<\hE2, 2097152, 64>>, <<\hE3, 4194304, 64>>, <<\hE4, 8388608, 64>>,
    <<\hEA, 12582912, 64>>, <<\hEB, 18874368, 64>>, <<\hEC, 25165824, 64>>}]

\* The size and the line that the first byte the table knows stands for, the
\* registers taken in their order and each from its top byte on; a register
\* whose top bit is set counts as zero.  The code takes the registers as often
\* as the low byte of the first one says, which finds nothing new: not at all
\* if that is 0.
Descriptors(regs) ==
  LET bytes(r) == IF regs[r][1] < 128 THEN regs[r] ELSE <<0, 0, 0, 0>>
  IN  bytes(1) \o bytes(2) \o bytes(3) \o bytes(4)

\* Mutation: the lowest byte of each register is left out.
CacheSize_ThreeBytes(level, regs, default) ==
  LET known(d) == \E e \in Table[level] : e[1] = d
      s == Descriptors(regs)
      found == {i \in DOMAIN s : i % 4 # 0 /\ known(s[i])}
  IN  IF regs[1][4] = 0 \/ found = {} THEN default
      ELSE LET e == CHOOSE x \in Table[level] : x[1] = s[Min(found)] IN <<e[2], e[3]>>

CacheSize(level, regs, default) ==
  LET known(d) == \E e \in Table[level] : e[1] = d
      s == Descriptors(regs)
      i == SelectInSeq(s, known)
  IN  IF regs[1][4] = 0 \/ i = 0 THEN default
      ELSE LET e == CHOOSE x \in Table[level] : x[1] = s[i] IN <<e[2], e[3]>>

-----------------------------------------------------------------------------
(* What the build has compiled in.                                          *)

Gcc == {"GCC", "MINGW32"}

\* cpuid_check_support: a compiler it does not know cannot ask.
Supported ==
  \/ build.arch = "X86_64" /\ build.cc \in Gcc
  \/ build.arch = "X86" /\ build.cc \in Gcc \cup {"SUN_C"} /\ hw.idBit

\* cpuid_exec: the registers are written, else they keep what they hold.
Executes ==
  \/ build.arch = "X86_64" /\ build.cc \in Gcc
  \/ build.arch = "X86" /\ build.cc \in Gcc \cup {"SUN_C"}

\* CPUID (external): the feature bits of parameter 1, and those of parameter
\* 0x80000001, which AMD fills in, and which are anything if it is not there.
Std == hw.has \ {"mmx2", "3dnow", "3dnowext"}
Ext == IF hw.maxExt < 1 THEN Features
       ELSE IF hw.vendor = "amd" THEN hw.has \cap {"mmx", "mmx2", "3dnow", "3dnowext"} ELSE {}

-----------------------------------------------------------------------------
(* main.                                                                    *)

Say(n, status) == out' = n /\ exit' = status /\ pc' = "exited" /\ UNCHANGED cpu

CheckSupport ==
  /\ pc = "support"
  /\ IF query = "" THEN Say(Nothing, 1)
     ELSE IF Supported THEN pc' = "limits" /\ UNCHANGED <<cpu, out, exit>> ELSE Say(0, 0)
  /\ UNCHANGED input

\* Mutation: a vendor the table does not know is not "unknown".
DetectVendor_Raw ==
  /\ pc = "limits"
  /\ cpu' = [cpu EXCEPT !.maxExt = hw.maxExt, !.vendor = hw.vendor]
  /\ pc' = "vendor"
  /\ UNCHANGED <<input, out, exit>>

\* The highest parameters, of which only the extended one is used, and the
\* vendor, from four letters of its name.
DetectVendor ==
  /\ pc = "limits"
  /\ cpu' = [cpu EXCEPT !.maxExt = hw.maxExt,
                        !.vendor = IF hw.vendor = "other" THEN "unknown" ELSE hw.vendor]
  /\ pc' = "vendor"
  /\ UNCHANGED <<input, out, exit>>

\* cpu_vendor_intel: the features, the SSE bit standing for MMX2 as well, and
\* the caches from L1 to L3, the last that is found giving the line.
VendorIntel ==
  LET l1i == CacheSize("l1i", hw.cache, <<0, cpu.line>>)
      l1d == CacheSize("l1d", hw.cache, <<0, l1i[2]>>)
      l2  == CacheSize("l2", hw.cache, <<0, l1d[2]>>)
      l3  == CacheSize("l3", hw.cache, <<0, l2[2]>>)
  IN
  /\ pc = "vendor"
  /\ cpu.vendor = "intel"
  /\ cpu' = [cpu EXCEPT
       !.flags = @ \cup Std \cup (IF "sse" \in Std THEN {"mmx2"} ELSE {}),
       !.line = l3[2],
       !.size = [l1i |-> l1i[1], l1d |-> l1d[1], l2 |-> l2[1], l3 |-> l3[1]]]
  /\ pc' = "common"
  /\ UNCHANGED <<input, out, exit>>

\* cpu_vendor_amd: no features, and the caches if the processor tells them.
\* cache_L2 is the top byte of a register whose upper half is the size.
VendorAmd ==
  LET l1 == cpu.maxExt >= 5
      l2 == cpu.maxExt >= 6
  IN
  /\ pc = "vendor"
  /\ cpu.vendor = "amd"
  /\ cpu' = [cpu EXCEPT !.line = IF l1 THEN hw.line ELSE @,
                        !.size.l1i = IF l1 THEN hw.l1i ELSE @,
                        !.size.l1d = IF l1 THEN hw.l1d ELSE @,
                        !.size.l2 = IF l2 THEN hw.l2 \div 256 ELSE @]
  /\ pc' = "common"
  /\ UNCHANGED <<input, out, exit>>

VendorOther ==
  /\ pc = "vendor"
  /\ cpu.vendor \notin {"intel", "amd"}
  /\ pc' = "common"
  /\ UNCHANGED <<input, cpu, out, exit>>

Common ==
  /\ pc = "common"
  /\ cpu' = IF hw.maxExt >= 1
            THEN [cpu EXCEPT !.flags = @ \cup (Ext \cap {"mmx", "mmx2", "3dnow", "3dnowext"})]
            ELSE cpu
  /\ pc' = "answer"
  /\ UNCHANGED <<input, out, exit>>

\* n << 10 in an unsigned long, in KB again.
Shifted(n) == IF build.long = 32 THEN n % 2^22 ELSE n

\* The exit status of a size is !!printf (...), which is 1.
Answer ==
  /\ pc = "answer"
  /\ \/ query \in Features /\ Say(IF query \in cpu.flags THEN 1 ELSE 0, 0)
     \/ query \in Levels /\ Say(Shifted(cpu.size[query]), 1)
     \/ query = "cacheline" /\ Say(cpu.line, 1)
     \/ query \notin Features \cup Levels \cup {"cacheline"} /\ Say(0, 0)
  /\ UNCHANGED input

Finished == pc = "exited" /\ UNCHANGED vars

Next == CheckSupport \/ DetectVendor \/ VendorIntel \/ VendorAmd \/ VendorOther
        \/ Common \/ Answer \/ Finished

Spec == Init /\ [][Next]_vars

-----------------------------------------------------------------------------
(* Properties.                                                              *)

Asked(questions) == pc = "exited" /\ Supported /\ query \in questions

TypeOK ==
  /\ hw \in Hardware /\ build \in Builds /\ query \in Queries
  /\ pc \in {"support", "limits", "vendor", "common", "answer", "exited"}
  /\ cpu.vendor \in {"unknown", "intel", "amd"}
  /\ cpu.maxExt \in 0..8
  /\ cpu.flags \subseteq Features
  /\ cpu.line \in Byte
  /\ cpu.size \in [Levels -> Nat]
  /\ out \in Nat \cup {Nothing}
  /\ exit \in {0, 1, Nothing}

\* The processor is asked only by a build that has the instruction compiled
\* in: no answer is made of registers that nobody has written.
RegistersWritten == pc \notin {"support", "exited"} => Executes

\* A feature is reported only if the processor has it, whatever parameters it
\* lacks; and of an Intel processor none is missed.  (Of an AMD processor all
\* of SSE is: cpu_vendor_amd does not look at the registers that have it.)
FeaturesRight ==
  Asked(Features) =>
    /\ out = 1 => query \in hw.has
    /\ (hw.vendor = "intel" /\ query \in hw.has) => out = 1

\* The descriptors of a level that an Intel processor lists, wherever they
\* stand, in terms of sets.
Listed(level) ==
  LET bytes == UNION {Range(hw.cache[r]) : r \in {q \in 1..4 : hw.cache[q][1] < 128}}
  IN  {e \in Table[level] : e[1] \in bytes}

\* A cache is given the size of a descriptor that the processor lists, or of
\* the register that describes it, as far as a long can hold it, and is
\* reported as absent only if there is none.  (The L2 of an AMD processor is
\* not: the code takes eight of the sixteen bits of its size.)
SizesRight ==
  Asked(Levels) =>
    /\ hw.vendor = "intel" =>
         (IF Listed(query) = {} THEN out = 0 ELSE \E e \in Listed(query) : out = Shifted(e[2]))
    /\ (hw.vendor = "amd" /\ query \in {"l1i", "l1d"}) =>
         out = IF hw.maxExt >= 5 THEN hw[query] ELSE 0

\* The line of an Intel processor is the one of its outermost cache.
LineRight ==
  (Asked({"cacheline"}) /\ hw.vendor = "intel") =>
    \/ out = 0 /\ \A l \in Levels : Listed(l) = {}
    \/ \E l \in Levels :
         /\ \E e \in Listed(l) : out = e[3]
         /\ l # "l3" => Listed("l3") = {}
         /\ l \in {"l1i", "l1d"} => Listed("l2") = {}

\* Every question gets the answer that follows from what the processor says of
\* itself, whichever of its registers and parameters are valid and whatever
\* the program was compiled with.
AnswersRight == RegistersWritten /\ FeaturesRight /\ SizesRight /\ LineRight
=============================================================================
