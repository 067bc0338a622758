------------------------------ MODULE MCCpuId -------------------------------
(* Instances of CpuId for TLC: Intel processors that list their caches in    *)
(* different bytes of different registers, next to registers that are not    *)
(* valid; AMD processors with every number of extended parameters that the   *)
(* code tells apart; and others.                                             *)
EXTENDS CpuId

Blank == << <<0, 0, 0, 1>>, <<0, 0, 0, 0>>, <<0, 0, 0, 0>>, <<0, 0, 0, 0>> >>

\* SSE processors have the MMX2 instructions.
Sets == {{}, {"mmx"}, {"mmx", "mmx2", "sse", "sse2"}, Features \ {"3dnow", "3dnowext"}}
AmdSets == Sets \cup {{"mmx", "mmx2", "3dnow", "3dnowext"}}

\* One byte may stand anywhere; the first register ends in the count 1.  A byte
\* from 128 on makes its register invalid where it stands first.
Caches ==
  { [Blank EXCEPT ![r][b] = d] : d \in {\h08, \h2C, \h7D, \h22, \hD8, \h01}, r \in 2..4, b \in 1..4 }
  \cup { << <<\h66, \h30, \h78, 1>>, <<v, \h08, \h22, 0>>, <<0, \h7D, 0, d>>, <<w, d, \h2C, \h41>> >> :
         v \in {0, 128}, w \in {0, 200}, d \in {0, \hD8, \h25, \h2C} }

Cpu(vendor, has, max, cache) ==
  [idBit |-> TRUE, vendor |-> vendor, has |-> has, maxExt |-> max, cache |-> cache,
   l1i |-> 64, l1d |-> 32, line |-> 48, l2 |-> 512]

MCHardware ==
  {Cpu("intel", h, m, Blank) : h \in Sets, m \in {0, 8}}
  \cup {Cpu("intel", {}, 8, c) : c \in Caches}
  \cup {Cpu("amd", h, m, Blank) : h \in AmdSets, m \in {0, 1, 4, 5, 6, 8}}
  \cup {Cpu("other", {"mmx"}, m, Blank) : m \in {0, 8}}
  \cup {[Cpu("intel", {}, 0, Blank) EXCEPT !.idBit = FALSE]}

Compiled(arch, cc, long) == [arch |-> arch, cc |-> cc, long |-> long]
MCBuilds == {Compiled("X86_64", "GCC", 64), Compiled("X86", "MINGW32", 32),
             Compiled("X86", "SUN_C", 32), Compiled("X86_64", "LLVM", 64),
             Compiled("ARM", "GCC", 32)}
MCQueries == Features \cup Levels \cup {"cacheline", "", "l4cachesize"}
=============================================================================
