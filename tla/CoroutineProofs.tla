-------------------------- MODULE CoroutineProofs ---------------------------
(***************************************************************************)
(* Proofs about Coroutine, for any values, heights and numbers of          *)
(* arguments: what Resume puts around lua_resume is invisible as long as   *)
(* no coroutine has yielded, and the arguments arrive in any case where    *)
(* the host has something below them.                                      *)
(***************************************************************************)
EXTENDS Coroutine, LuaStackProofs, SequenceTheorems

Val == Datum \cup {Nil, Function, Traceback, Message}

\* Only a coroutine that has yielded is suspended.
CoroutineInv == TypeOK /\ (thread = "suspended" => yielded)

-----------------------------------------------------------------------------
(* The stack around lua_resume.                                             *)

\* The stack lua_resume gets: one value more than the host's, and, when there
\* was something below the n arguments, _traceback right under what was the
\* highest of it.
LEMMA TracedFacts ==
  ASSUME TypeOK, NEW n \in Nat, n <= Len(stack)
  PROVE  /\ Ndx(n) \in 0..Len(stack)
         /\ Traced(n) \in Seq(Val) /\ Len(Traced(n)) = Len(stack) + 1
         /\ Ndx(n) > 0 => \A k \in 1 .. Len(stack) + 1 :
              Traced(n)[k] = IF k < Ndx(n) THEN stack[k]
                             ELSE IF k = Ndx(n) THEN Traceback
                             ELSE stack[k - 1]
<1> DEFINE s == Push(stack, Traceback)
<1>1. stack \in Seq(Val) /\ Traceback \in Val /\ Len(stack) \in Nat
  BY DEF TypeOK, Val
<1>2. /\ s \in Seq(Val) /\ Len(s) = Len(stack) + 1 /\ s[Len(stack) + 1] = Traceback
      /\ \A i \in 1..Len(stack) : s[i] = stack[i]
  BY <1>1 DEF Push
<1>3. Ndx(n) \in 0..Len(stack) /\ Ndx(n) \in 0..Len(s)
  BY <1>1, <1>2 DEF Ndx
<1>4. s # << >>
  BY <1>1, <1>2
<1> HIDE DEF s
<1>5. /\ Insert(s, Ndx(n)) \in Seq(Val) /\ Len(Insert(s, Ndx(n))) = Len(s)
      /\ Ndx(n) > 0 => \A k \in 1..Len(s) : Insert(s, Ndx(n))[k] = IF k < Ndx(n) THEN s[k]
                                                                  ELSE IF k = Ndx(n) THEN s[Len(s)]
                                                                  ELSE s[k - 1]
  BY <1>2, <1>3, <1>4, InsertFacts
<1>6. Traced(n) = Insert(s, Ndx(n))
  BY DEF Traced, s
<1>7. ASSUME Ndx(n) > 0, NEW k \in 1 .. Len(stack) + 1
      PROVE  Traced(n)[k] = IF k < Ndx(n) THEN stack[k]
                            ELSE IF k = Ndx(n) THEN Traceback
                            ELSE stack[k - 1]
  <2>1. Traced(n)[k] = IF k < Ndx(n) THEN s[k] ELSE IF k = Ndx(n) THEN s[Len(s)] ELSE s[k - 1]
    BY <1>2, <1>5, <1>6, <1>7
  <2>2. k < Ndx(n) => s[k] = stack[k]
    BY <1>1, <1>2, <1>3
  <2>3. k > Ndx(n) => s[k - 1] = stack[k - 1]
    BY <1>1, <1>2, <1>3, <1>7
  <2> QED
    BY <1>1, <1>2, <1>3, <2>1, <2>2, <2>3
<1> QED
  BY <1>2, <1>3, <1>5, <1>6, <1>7

\* The topmost n values of a stack.
LEMMA ArgumentsFacts ==
  ASSUME NEW s \in Seq(Val), NEW n \in Nat, n <= Len(s)
  PROVE  /\ Arguments(s, n) \in Seq(Val) /\ Len(Arguments(s, n)) = n
         /\ \A i \in 1..n : Arguments(s, n)[i] = s[Len(s) - n + i]
<1>1. /\ Len(s) \in Nat /\ Len(s) - n + 1 \in Int /\ Len(s) \in Int
      /\ \A i \in Len(s) - n + 1 .. Len(s) : s[i] \in Val
  OBVIOUS
<1>2. /\ SubSeq(s, Len(s) - n + 1, Len(s)) \in Seq(Val)
      /\ Len(SubSeq(s, Len(s) - n + 1, Len(s))) =
           IF Len(s) - n + 1 <= Len(s) THEN Len(s) - (Len(s) - n + 1) + 1 ELSE 0
      /\ \A i \in 1 .. Len(s) - (Len(s) - n + 1) + 1 :
           SubSeq(s, Len(s) - n + 1, Len(s))[i] = s[Len(s) - n + 1 + i - 1]
  BY <1>1, SubSeqProperties
<1> QED
  BY <1>1, <1>2 DEF Arguments

\* The lowest k values of a stack.
LEMMA LowestFacts ==
  ASSUME NEW s \in Seq(Val), NEW k \in Int, k <= Len(s)
  PROVE  /\ SubSeq(s, 1, k) \in Seq(Val)
         /\ Len(SubSeq(s, 1, k)) = IF k > 0 THEN k ELSE 0
         /\ \A i \in 1..k : SubSeq(s, 1, k)[i] = s[i]
<1>1. Len(s) \in Nat /\ 1 \in Int /\ \A i \in 1..k : s[i] \in Val
  OBVIOUS
<1>2. /\ SubSeq(s, 1, k) \in Seq(Val)
      /\ Len(SubSeq(s, 1, k)) = IF 1 <= k THEN k - 1 + 1 ELSE 0
      /\ \A i \in 1 .. k - 1 + 1 : SubSeq(s, 1, k)[i] = s[1 + i - 1]
  BY <1>1, SubSeqProperties
<1> QED
  BY <1>1, <1>2

\* Where something lies below the arguments, _traceback goes under it and the
\* arguments stay on the top.
LEMMA ArgumentsArrive ==
  ASSUME TypeOK, NEW n \in Nat, n < Len(stack)
  PROVE  Arguments(Traced(n), n) = Arguments(stack, n)
<1>1. stack \in Seq(Val) /\ Len(stack) \in Nat /\ Ndx(n) = Len(stack) - n /\ Ndx(n) > 0
  BY DEF TypeOK, Val, Ndx
<1>2. /\ Traced(n) \in Seq(Val) /\ Len(Traced(n)) = Len(stack) + 1
      /\ \A k \in 1 .. Len(stack) + 1 :
           Traced(n)[k] = IF k < Ndx(n) THEN stack[k]
                          ELSE IF k = Ndx(n) THEN Traceback
                          ELSE stack[k - 1]
  <2>1. n <= Len(stack) /\ Ndx(n) > 0
    BY <1>1
  <2> QED
    BY <2>1, TracedFacts, SMTT(20)
<1>3. /\ Arguments(stack, n) \in Seq(Val) /\ Len(Arguments(stack, n)) = n
      /\ \A i \in 1..n : Arguments(stack, n)[i] = stack[Len(stack) - n + i]
  BY <1>1, ArgumentsFacts
<1>4. n <= Len(Traced(n))
  BY <1>1, <1>2
<1>5. /\ Arguments(Traced(n), n) \in Seq(Val) /\ Len(Arguments(Traced(n), n)) = n
      /\ \A i \in 1..n : Arguments(Traced(n), n)[i] = Traced(n)[Len(Traced(n)) - n + i]
  BY <1>2, <1>4, ArgumentsFacts
<1>6. ASSUME NEW i \in 1..n PROVE Arguments(Traced(n), n)[i] = Arguments(stack, n)[i]
  <2>1. Traced(n)[Len(Traced(n)) - n + i] = stack[Len(stack) - n + i]
    BY <1>1, <1>2
  <2> QED
    BY <1>3, <1>5, <2>1
<1> QED
  BY <1>3, <1>5, <1>6, SeqEqual

\* The removal takes _traceback out of the base frame of a call that returned,
\* and leaves what was below the function and the results.
LEMMA ReturnRestores ==
  ASSUME TypeOK, NEW n \in Nat, n < Len(stack), thread = "ready", NEW g \in Seq(Val)
  PROVE  Untraced(Under(Traced(n), n) \o g, Ndx(n)) = Under(stack, n) \o g
<1>1. stack \in Seq(Val) /\ Len(stack) \in Nat /\ Ndx(n) = Len(stack) - n /\ Ndx(n) > 0
  BY DEF TypeOK, Val, Ndx
<1>2. /\ Traced(n) \in Seq(Val) /\ Len(Traced(n)) = Len(stack) + 1
      /\ \A k \in 1 .. Len(stack) + 1 :
           Traced(n)[k] = IF k < Ndx(n) THEN stack[k]
                          ELSE IF k = Ndx(n) THEN Traceback
                          ELSE stack[k - 1]
  <2>1. n <= Len(stack)
    BY <1>1
  <2> QED
    BY <1>1, <2>1, TracedFacts
<1> DEFINE u == Under(Traced(n), n)
           w == Under(stack, n)
<1>3. u = SubSeq(Traced(n), 1, Ndx(n)) /\ w = SubSeq(stack, 1, Ndx(n) - 1)
  <2>1. Len(Traced(n)) - n - 1 = Ndx(n) /\ Len(stack) - n - 1 = Ndx(n) - 1
    BY <1>1, <1>2
  <2> QED
    BY <2>1 DEF Under
<1> HIDE DEF u, w
<1>4. u \in Seq(Val) /\ Len(u) = Ndx(n) /\ \A i \in 1..Ndx(n) : u[i] = Traced(n)[i]
  <2>1. Ndx(n) \in Int /\ Ndx(n) <= Len(Traced(n))
    BY <1>1, <1>2
  <2> QED
    BY <1>1, <1>2, <1>3, <2>1, LowestFacts
<1>5. w \in Seq(Val) /\ Len(w) = Ndx(n) - 1 /\ \A i \in 1 .. Ndx(n) - 1 : w[i] = stack[i]
  <2>1. Ndx(n) - 1 \in Int /\ Ndx(n) - 1 <= Len(stack)
    BY <1>1
  <2> QED
    BY <1>1, <1>3, <2>1, LowestFacts
<1> DEFINE f == u \o g
<1>6. /\ f \in Seq(Val) /\ Len(f) = Ndx(n) + Len(g) /\ Len(g) \in Nat
      /\ \A i \in 1 .. Ndx(n) + Len(g) : f[i] = IF i <= Ndx(n) THEN u[i] ELSE g[i - Ndx(n)]
  <2>1. /\ f \in Seq(Val) /\ Len(f) = Len(u) + Len(g)
        /\ \A i \in 1 .. Len(u) + Len(g) : f[i] = IF i <= Len(u) THEN u[i] ELSE g[i - Len(u)]
    BY <1>4, ConcatProperties
  <2> QED
    BY <1>4, <2>1
<1>7. /\ w \o g \in Seq(Val) /\ Len(w \o g) = Ndx(n) - 1 + Len(g)
      /\ \A i \in 1 .. Ndx(n) - 1 + Len(g) :
           (w \o g)[i] = IF i <= Ndx(n) - 1 THEN w[i] ELSE g[i - (Ndx(n) - 1)]
  <2>1. /\ w \o g \in Seq(Val) /\ Len(w \o g) = Len(w) + Len(g)
        /\ \A i \in 1 .. Len(w) + Len(g) : (w \o g)[i] = IF i <= Len(w) THEN w[i] ELSE g[i - Len(w)]
    BY <1>5, ConcatProperties
  <2> QED
    BY <1>5, <2>1
<1> HIDE DEF f
<1>8. f # << >> /\ Ndx(n) \in 0..Len(f)
  BY <1>1, <1>6
<1>9. /\ Remove(f, Ndx(n)) \in Seq(Val) /\ Len(Remove(f, Ndx(n))) = Len(f) - 1
      /\ \A k \in 1 .. Len(f) - 1 : Remove(f, Ndx(n))[k] = IF k < Ndx(n) THEN f[k] ELSE f[k + 1]
  BY <1>1, <1>6, <1>8, RemoveFacts
<1>10. ASSUME NEW k \in 1 .. Len(f) - 1 PROVE Remove(f, Ndx(n))[k] = (w \o g)[k]
  <2>1. CASE k < Ndx(n)
    <3>1. /\ k \in 1 .. Ndx(n) - 1 /\ k \in 1..Ndx(n) /\ k \in 1 .. Ndx(n) + Len(g)
          /\ k \in 1 .. Ndx(n) - 1 + Len(g) /\ k \in 1 .. Len(stack) + 1
          /\ k <= Ndx(n) /\ k <= Ndx(n) - 1
      BY <1>1, <1>6, <2>1
    <3>2. Remove(f, Ndx(n))[k] = f[k] /\ f[k] = u[k] /\ u[k] = Traced(n)[k]
      BY <1>4, <1>6, <1>9, <2>1, <3>1
    <3>3. (w \o g)[k] = w[k] /\ w[k] = stack[k]
      BY <1>5, <1>7, <3>1
    <3> QED
      BY <1>2, <2>1, <3>1, <3>2, <3>3
  <2>2. CASE k >= Ndx(n)
    <3>1. /\ k + 1 \in 1 .. Ndx(n) + Len(g) /\ ~ (k + 1 <= Ndx(n))
          /\ k \in 1 .. Ndx(n) - 1 + Len(g) /\ ~ (k <= Ndx(n) - 1) /\ ~ (k < Ndx(n))
          /\ k + 1 - Ndx(n) = k - (Ndx(n) - 1)
      BY <1>1, <1>6, <2>2
    <3>2. Remove(f, Ndx(n))[k] = f[k + 1]
      BY <1>9, <3>1
    <3>3. f[k + 1] = g[k + 1 - Ndx(n)]
      <4>1. f[k + 1] = g[(k + 1) - Ndx(n)]
        BY <1>6, <3>1
      <4>2. (k + 1) - Ndx(n) = k + 1 - Ndx(n)
        BY <1>1, <1>6
      <4> QED
        BY <4>1, <4>2
    <3>4. (w \o g)[k] = g[k - (Ndx(n) - 1)]
      BY <1>7, <3>1
    <3> QED
      BY <3>1, <3>2, <3>3, <3>4
  <2>3. k < Ndx(n) \/ k >= Ndx(n)
    BY <1>1, <1>6
  <2> QED
    BY <2>1, <2>2, <2>3
<1>11. Len(Remove(f, Ndx(n))) = Len(w \o g)
  BY <1>1, <1>6, <1>7, <1>9
<1>12. Remove(f, Ndx(n)) = w \o g
  BY <1>7, <1>9, <1>10, <1>11, SeqEqual
<1> QED
  BY <1>12 DEF Untraced, f, u, w

-----------------------------------------------------------------------------
(* The invariant.                                                           *)

LEMMA FewFacts == Few \subseteq Seq(Val)
<1>1. ASSUME NEW g \in Few PROVE g \in Seq(Val)
  <2>1. PICK n \in 0..MaxValues : g \in [1..n -> Datum]
    BY DEF Few
  <2>2. n \in Nat /\ g = [i \in 1..n |-> g[i]] /\ \A i \in 1..n : g[i] \in Val
    BY <2>1, ValueAssumption DEF Val
  <2> QED
    BY <2>2
<1> QED
  BY <1>1

\* The frames lua_resume may leave hold values.
LEMMA EndingFacts ==
  ASSUME TypeOK, NEW n \in Nat, n <= Len(stack), NEW r \in Endings(Traced(n), n)
  PROVE  /\ r.frame \in Seq(Val) /\ r.given \in Seq(Val)
         /\ r.thread \in {"ready", "suspended", "failed"}
         /\ r.ended \in {"return", "yield", "runtime", "memory"}
         /\ r.thread = "suspended" => r.ended = "yield"
         /\ r.thread = "ready" => r.ended = "return" /\ thread # "failed"
                                  /\ r.frame = Under(Traced(n), n) \o r.given
<1>1. Under(Traced(n), n) \in Seq(Val)
  <2>1. Traced(n) \in Seq(Val) /\ Len(Traced(n)) = Len(stack) + 1 /\ Len(stack) \in Nat
    BY TracedFacts DEF TypeOK
  <2>2. Len(Traced(n)) - n - 1 \in Int /\ Len(Traced(n)) - n - 1 <= Len(Traced(n))
    BY <2>1
  <2>3. SubSeq(Traced(n), 1, Len(Traced(n)) - n - 1) \in Seq(Val)
    BY <2>1, <2>2, LowestFacts
  <2> QED
    BY <2>3 DEF Under, TypeOK, Val
<1>2. CASE thread = "failed"
  <2>1. r = [ended |-> "runtime", given |-> << >>, frame |-> <<Message>>, thread |-> "failed"]
    BY <1>2 DEF Endings
  <2> QED
    BY <2>1 DEF Val
<1>3. CASE thread # "failed"
  <2>1. ASSUME NEW g \in Few,
               r = [ended |-> "return", given |-> g, frame |-> Under(Traced(n), n) \o g, thread |-> "ready"]
        PROVE  r.frame \in Seq(Val) /\ r.given \in Seq(Val)
    BY <1>1, <2>1, FewFacts, ConcatProperties
  <2>2. ASSUME NEW g \in Few, r = [ended |-> "yield", given |-> g, frame |-> g, thread |-> "suspended"]
        PROVE  r.frame \in Seq(Val) /\ r.given \in Seq(Val)
    BY <2>2, FewFacts
  <2>3. ASSUME NEW e \in {"runtime", "memory"}, NEW f \in FailedFrame,
               r = [ended |-> e, given |-> << >>, frame |-> Append(f, Message), thread |-> "failed"]
        PROVE  r.frame \in Seq(Val) /\ r.given \in Seq(Val)
    <3>1. PICK k \in 0..MaxValues : f = [i \in 1..k |-> Nil]
      BY DEF FailedFrame
    <3>2. k \in Nat /\ Nil \in Val
      BY ValueAssumption DEF Val
    <3>3. f \in Seq(Val)
      BY <3>1, <3>2
    <3> QED
      BY <2>3, <3>3 DEF Val
  <2>4. \/ \E g \in Few : r = [ended |-> "return", given |-> g, frame |-> Under(Traced(n), n) \o g, thread |-> "ready"]
        \/ \E g \in Few : r = [ended |-> "yield", given |-> g, frame |-> g, thread |-> "suspended"]
        \/ \E e \in {"runtime", "memory"}, f \in FailedFrame :
             r = [ended |-> e, given |-> << >>, frame |-> Append(f, Message), thread |-> "failed"]
    BY <1>3 DEF Endings
  <2>5. r.frame \in Seq(Val) /\ r.given \in Seq(Val)
    BY <2>1, <2>2, <2>3, <2>4
  <2> QED
    BY <1>3, <2>4, <2>5
<1> QED
  BY <1>2, <1>3

\* The codes of the four statuses.
LEMMA CodeFacts ==
  ASSUME NEW e \in {"return", "yield", "runtime", "memory"}
  PROVE  Error_Val(Status[e]) \in {"Lua_Error_None", "Lua_Error_Runtime", "Lua_Error_File", "Lua_Error_Memory"}
BY DEF Error_Val, Status, Error_t

LEMMA InitInv == Init => CoroutineInv
<1> SUFFICES ASSUME Init PROVE CoroutineInv
  OBVIOUS
<1>1. last.passed = << >> /\ stack = << >> /\ base = << >>
  BY DEF Init, NoResume
<1>2. last.passed \in Seq(Val) /\ stack \in Seq(Val) /\ base \in Seq(Val)
  BY <1>1
<1> QED
  BY <1>2 DEF Init, CoroutineInv, TypeOK, Val

\* Every step keeps the invariant.
LEMMA StepInv == CoroutineInv /\ [Next]_vars => CoroutineInv'
<1> SUFFICES ASSUME CoroutineInv, [Next]_vars PROVE CoroutineInv'
  OBVIOUS
<1> USE DEF CoroutineInv
<1>1. CASE HostPush
  <2>1. PICK v \in Val : stack' = Push(stack, v)
    BY <1>1 DEF HostPush, Val
  <2>2. stack' \in Seq(Val)
    BY <2>1, PushFacts DEF TypeOK, Val
  <2> QED
    BY <1>1, <2>2 DEF HostPush, TypeOK, NoResume, Val
<1>2. CASE HostPop
  <2>1. stack' \in Seq(Val)
    BY <1>2, PopTop DEF HostPop, TypeOK, Val
  <2> QED
    BY <1>2, <2>1 DEF HostPop, TypeOK, NoResume, Val
<1>3. ASSUME NEW n \in 0..MaxValues, Resume(n) PROVE CoroutineInv'
  <2>1. n \in Nat /\ n <= Len(stack)
    BY <1>3, ValueAssumption DEF Resume
  <2> DEFINE s == Traced(n)
             Defined(f) == RemoveDefined(f, Ndx(n))
  <2>2. PICK r \in Endings(s, n) :
          /\ thread' = IF Defined(r.frame) THEN r.thread ELSE "undefined"
          /\ stack' = IF Defined(r.frame) THEN Untraced(r.frame, Ndx(n)) ELSE << >>
          /\ base' = IF r.thread = "suspended" THEN Under(s, n) ELSE << >>
          /\ code' = Error_Val(Status[r.ended])
          /\ yielded' = (yielded \/ r.ended = "yield")
          /\ last' = [wanted |-> Arguments(stack, n), passed |-> Arguments(s, n),
                      under |-> Under(stack, n), ended |-> r.ended, given |-> r.given]
    BY <1>3 DEF Resume
  <2>3. s \in Seq(Val) /\ Len(s) = Len(stack) + 1 /\ Ndx(n) \in 0..Len(stack) /\ Len(stack) \in Nat
    BY <2>1, TracedFacts DEF TypeOK
  <2>4. /\ r.frame \in Seq(Val) /\ r.thread \in {"ready", "suspended", "failed"}
        /\ r.ended \in {"return", "yield", "runtime", "memory"}
        /\ r.thread = "suspended" => r.ended = "yield"
    BY <2>1, EndingFacts
  <2>5. stack' \in Seq(Val)
    <3>1. CASE Defined(r.frame)
      <4>1. r.frame # << >> /\ Ndx(n) \in 0..Len(r.frame)
        BY <2>3, <2>4, <3>1 DEF RemoveDefined
      <4>2. Remove(r.frame, Ndx(n)) \in Seq(Val)
        BY <2>4, <4>1, RemoveFacts
      <4> QED
        BY <2>2, <3>1, <4>2 DEF Untraced
    <3> QED
      BY <2>2, <3>1
  <2>6. base' \in Seq(Val)
    <3>1. Len(s) - n - 1 \in Int /\ Len(s) - n - 1 <= Len(s)
      BY <2>1, <2>3
    <3>2. SubSeq(s, 1, Len(s) - n - 1) \in Seq(Val)
      BY <2>3, <3>1, LowestFacts
    <3> QED
      BY <2>2, <3>2 DEF Under, TypeOK, Val
  <2>7. last'.passed \in Seq(Val)
    <3>1. n <= Len(s)
      BY <2>1, <2>3
    <3>2. Arguments(s, n) \in Seq(Val)
      BY <2>1, <2>3, <3>1, ArgumentsFacts
    <3> QED
      BY <2>2, <3>2
  <2>8. code' \in {"Lua_Error_None", "Lua_Error_Runtime", "Lua_Error_File", "Lua_Error_Memory"}
    BY <2>2, <2>4, CodeFacts
  <2>9. /\ thread' \in {"ready", "suspended", "failed", "undefined"}
        /\ yielded' \in BOOLEAN
        /\ thread' = "suspended" => yielded'
    BY <2>2, <2>4 DEF TypeOK
  <2> QED
    BY <2>5, <2>6, <2>7, <2>8, <2>9 DEF TypeOK, Val
<1>4. CASE UNCHANGED vars
  BY <1>4 DEF vars, TypeOK
<1> QED
  BY <1>1, <1>2, <1>3, <1>4 DEF Next

-----------------------------------------------------------------------------
(* The theorems.                                                            *)

\* The thread's stack holds Lua values, and Error_t'Val maps every status of
\* lua_resume into the enumeration.
THEOREM TypeCorrect == Spec => []TypeOK
<1>1. CoroutineInv => TypeOK
  BY DEF CoroutineInv
<1> QED
  BY <1>1, InitInv, StepInv, PTL DEF Spec

\* What one Resume of n arguments does to the host's stack and to the
\* arguments.
LEMMA ResumeFacts ==
  ASSUME CoroutineInv, NEW n \in 0..MaxValues, Resume(n)
  PROVE  /\ Len(last'.wanted) = n
         /\ Len(stack) > n => last'.passed = last'.wanted
         /\ ~ yielded' /\ thread' = "ready" =>
              /\ last'.passed = last'.wanted
              /\ stack' = last'.under \o last'.given
<1>1. n \in Nat /\ n <= Len(stack) /\ TypeOK
  BY ValueAssumption DEF Resume, CoroutineInv
<1> DEFINE s == Traced(n)
           Defined(f) == RemoveDefined(f, Ndx(n))
<1>2. PICK r \in Endings(s, n) :
        /\ thread' = IF Defined(r.frame) THEN r.thread ELSE "undefined"
        /\ stack' = IF Defined(r.frame) THEN Untraced(r.frame, Ndx(n)) ELSE << >>
        /\ yielded' = (yielded \/ r.ended = "yield")
        /\ last' = [wanted |-> Arguments(stack, n), passed |-> Arguments(s, n),
                    under |-> Under(stack, n), ended |-> r.ended, given |-> r.given]
  BY DEF Resume
<1>3. stack \in Seq(Val)
  BY <1>1 DEF TypeOK, Val
<1>4. Len(last'.wanted) = n
  BY <1>1, <1>2, <1>3, ArgumentsFacts
<1>5. Len(stack) > n => last'.passed = last'.wanted
  <2>1. ASSUME Len(stack) > n PROVE Arguments(s, n) = Arguments(stack, n)
    <3>1. n < Len(stack)
      BY <1>1, <1>3, <2>1
    <3> QED
      BY <1>1, <3>1, ArgumentsArrive
  <2> QED
    BY <1>2, <2>1
<1>6. ASSUME ~ yielded', thread' = "ready"
      PROVE  last'.passed = last'.wanted /\ stack' = last'.under \o last'.given
  <2>1. r.thread = "ready" /\ Defined(r.frame)
    BY <1>2, <1>6
  <2>2. /\ r.ended = "return" /\ thread # "failed" /\ r.frame = Under(s, n) \o r.given
        /\ r.given \in Seq(Val)
    BY <1>1, <2>1, EndingFacts
  <2>3. ~ yielded
    BY <1>2, <1>6, <1>1 DEF TypeOK
  <2>4. thread = "ready"
    BY <1>1, <2>2, <2>3 DEF CoroutineInv, TypeOK, Resume
  <2>5. n < Len(stack)
    BY <2>4 DEF Resume
  <2>6. Untraced(r.frame, Ndx(n)) = Under(stack, n) \o r.given
    BY <1>1, <2>2, <2>4, <2>5, ReturnRestores
  <2>7. Len(stack) > n
    BY <1>1, <1>3, <2>5
  <2> QED
    BY <1>2, <1>5, <2>1, <2>6, <2>7
<1> QED
  BY <1>4, <1>5, <1>6

\* As long as no coroutine of the thread has yielded, what lua.adb's Resume
\* puts on the stack around lua_resume is invisible: the arguments arrive, and
\* the results replace them and the function on what the host had below.
THEOREM Faithful == Spec => FaithfulUntilYield
<1> DEFINE A == Resumed /\ ~ yielded' /\ thread' = "ready" =>
                  /\ last'.passed = last'.wanted
                  /\ stack' = last'.under \o last'.given
<1>1. ASSUME CoroutineInv, [Next]_vars PROVE [A]_vars
  <2>1. CASE HostPush \/ HostPop
    BY <2>1 DEF HostPush, HostPop, Resumed
  <2>2. CASE \E n \in 0..MaxValues : Resume(n)
    BY <1>1, <2>2, ResumeFacts
  <2> QED
    BY <1>1, <2>1, <2>2 DEF Next
<1> QED
  BY <1>1, InitInv, StepInv, PTL DEF Spec, FaithfulUntilYield

\* A host that leaves values below the arguments passes the arguments it
\* meant, whatever has yielded before: the insertion is then below them.
THEOREM Arrive == Spec => ArgumentsOverRest
<1> DEFINE A == Resumed /\ Len(stack) > Len(last'.wanted) => last'.passed = last'.wanted
<1>1. ASSUME CoroutineInv, [Next]_vars PROVE [A]_vars
  <2>1. CASE HostPush \/ HostPop
    BY <2>1 DEF HostPush, HostPop, Resumed
  <2>2. CASE \E n \in 0..MaxValues : Resume(n)
    BY <1>1, <2>2, ResumeFacts
  <2> QED
    BY <1>1, <2>1, <2>2 DEF Next
<1> QED
  BY <1>1, InitInv, StepInv, PTL DEF Spec, ArgumentsOverRest
=============================================================================
