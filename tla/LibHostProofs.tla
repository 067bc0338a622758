---------------------------- MODULE LibHostProofs ----------------------------
(***************************************************************************)
(* What Open_Library and New_Metatable promise their callers, proved for   *)
(* any libraries, upvalues, tables, scripts and errors.  The relative      *)
(* indices of lua-lib.adb are right because of what is on the stack when   *)
(* they are used: HostInv says what, and it needs that nothing but the     *)
(* registry index leads to the registry.  That the num_up copies of a turn *)
(* of the loop are copies of the upvalues is an induction over num_up.     *)
(***************************************************************************)
EXTENDS LibHost, LuaStackProofs, WellFoundedInduction

\* How much of the caller's is on the stack, below what Open_Library works on.
Base == Len(frame.below)

\* The table Open_Library fills while it runs its loop.
Lib == stack[Base + 1]

\* The loop has stored so many functions.
Done == Len(frame.all) - Len(frame.fns)

\* What is created is in alloc, and nothing refers to the registry; a host of
\* Lua.Lib alone gives no userdata a metatable.
AllocInv ==
  /\ \A u \in Userdata : udMeta[u] \notin Table
  /\ Registry \in alloc /\ Globals \in known
  /\ known \subseteq alloc \ {Registry}
  /\ \A t \in Table, k \in Key :
       heap[t][k] \in Table => heap[t][k] \in alloc \ {Registry}
  /\ \A i \in 1..Len(stack) : stack[i] \in Table => stack[i] \in alloc \ {Registry}

\* Until a script changes the globals, the binding does not meet them as a value.
GlobalsInv ==
  Globals \notin tampered =>
    /\ \A k \in Key : heap[Globals][k] # Globals /\ heap[Registry][k] # Globals
    /\ \A i \in 1..Len(stack) : stack[i] # Globals

\* The parameters of the subprogram that runs.
FrameInv ==
  /\ frame.ret = "idle"
  /\ frame.ups \in Seq(UpValue) /\ Len(frame.ups) = frame.nup
  /\ pc \in {"get", "set", "metatable", "link"} => frame.name \in Name
  /\ pc \in {"get", "set"} => frame.fns = frame.all
  /\ Len(frame.fns) <= Len(frame.all)
  /\ \A i \in 1..Len(frame.fns) : frame.fns[i] = frame.all[Done + i]

\* The caller's values are below, the upvalues where their copies are taken
\* from, and between or above them what the subprogram has pushed.
StackInv ==
  /\ pc \in {"get", "set", "function"} => \A i \in 1..Base : stack[i] = frame.below[i]
  /\ pc \in {"get", "set"} => \A i \in 1..frame.nup : stack[Base + i] = frame.ups[i]
  /\ pc = "get" => Len(stack) = Base + frame.nup
  /\ pc = "set" =>
       LET t == stack[Base + frame.nup + 1]
       IN  /\ Len(stack) = Base + frame.nup + 3
           /\ t \in Table
           /\ stack[Base + frame.nup + 2] = frame.name
           /\ stack[Base + frame.nup + 3] = t
  /\ pc = "function" =>
       /\ Len(stack) = Base + 1 + frame.nup
       /\ \A i \in 1..frame.nup : stack[Base + 1 + i] = frame.ups[i]
       /\ frame.name # NoName /\ Globals \notin tampered =>
            frame.name \in Name /\ Lib = heap[Globals][frame.name]
  /\ pc = "link" =>
       stack # << >> /\ stack[Len(stack)] \in Table
                     /\ heap[Registry][frame.name] = stack[Len(stack)]

\* A metamethod runs only in a non-raw access, and only where a script put it.
MetaInv ==
  frame.meta =>
    /\ pc \in {"get", "set", "function"}
    /\ pc \in {"get", "set"} => Globals \in tampered
    /\ pc = "function" => frame.fns # << >> /\ Lib \notin Table \ tampered

\* No function stored later has the name of the i-th.
LastSoFar(i) == \A j \in 1..Done : frame.all[j].name = frame.all[i].name => j <= i

\* Of the functions stored so far the last of each name is there, with the
\* upvalues, unless a script wrote to the object or gave it a metatable.
SharedInv ==
  pc = "function" /\ Lib \in Table \ tampered =>
    \A i \in 1..Done : LastSoFar(i) =>
      heap[Lib][frame.all[i].name] = [fn |-> frame.all[i].func, up |-> frame.ups]

HostInv ==
  TypeOK /\ AllocInv /\ GlobalsInv /\ FrameInv /\ StackInv /\ MetaInv /\ SharedInv /\ BackLinkSound

-----------------------------------------------------------------------------
(* Induction over the naturals, in the form of their well-foundedness.      *)

LEMMA Least ==
  ASSUME NEW T \in SUBSET Nat, T # {}
  PROVE  \E m \in T : \A k \in T : m <= k
<1>1. PICK R : R = {ss \in Nat \X Nat : ss[1] < ss[2]} /\ IsWellFoundedOn(R, Nat)
  BY NatLessThanWellFounded DEF OpToRel
<1>2. PICK m \in T : \A k \in T : ~ (<<k, m>> \in R)
  BY <1>1, WFMin
<1>3. \A k \in T : ~ (k < m)
  BY <1>1, <1>2
<1> QED
  BY <1>2, <1>3

\* c is s with x on it and copies of the n values that were its topmost.
Copied(S, s, x, n, c) ==
  /\ c \in Seq(S) /\ Len(c) = Len(s) + 1 + n
  /\ \A i \in 1..(Len(s) + 1) : c[i] = Push(s, x)[i]
  /\ \A i \in 1..n : c[Len(s) + 1 + i] = s[Len(s) - n + i]

\* The n copies PushCopies makes of the elements under the value at the top,
\* each at the same distance from a top that moves up with them.
LEMMA CopiesUnder ==
  ASSUME NEW S, NEW s \in Seq(S), NEW x \in S, NEW n \in 0..Len(s)
  PROVE  Copied(S, s, x, n, PushCopies(Push(s, x), -(n + 1), n))
<1> DEFINE p == Push(s, x)
           L == Len(s)
           elem(k) == IF k <= L + 1 THEN p[k] ELSE s[k - (n + 1)]
           stage(j) == [k \in 1..(L + 1 + j) |-> elem(k)]
           rec(f) == [j \in 0..n |-> IF j = 0 THEN p ELSE Push_Value(f[j - 1], -(n + 1))]
           g == [j \in 0..n |-> stage(j)]
<1>1. /\ L \in Nat /\ p \in Seq(S) /\ Len(p) = L + 1 /\ p = [k \in 1..(L + 1) |-> p[k]]
      /\ \A k \in 1..L : p[k] = s[k]
  <2>1. L \in Nat /\ p \in Seq(S) /\ Len(p) = L + 1 /\ \A k \in 1..L : p[k] = s[k]
    BY DEF Push
  <2> QED
    BY <2>1
<1>2. \A k \in 1..(L + 1 + n) : elem(k) \in S
  <2> SUFFICES ASSUME NEW k \in 1..(L + 1 + n) PROVE elem(k) \in S
    OBVIOUS
  <2> HIDE DEF p, L
  <2>1. CASE k <= L + 1
    <3>1. k \in 1..Len(p)
      BY <1>1, <2>1
    <3> QED
      BY <1>1, <2>1, <3>1
  <2>2. CASE ~ (k <= L + 1)
    <3>1. k - (n + 1) \in 1..Len(s)
      BY <1>1, <2>2 DEF L
    <3> QED
      BY <2>2, <3>1
  <2> QED
    BY <2>1, <2>2
<1>0. L \in Nat /\ n \in Nat /\ n <= L
  BY <1>1
<1> HIDE DEF p, L, elem
<1>3. \A j \in 0..n : stage(j) \in Seq(S) /\ Len(stage(j)) = L + 1 + j
  <2> SUFFICES ASSUME NEW j \in 0..n PROVE stage(j) \in Seq(S) /\ Len(stage(j)) = L + 1 + j
    OBVIOUS
  <2>1. L + 1 + j \in Nat /\ \A k \in 1..(L + 1 + j) : k \in 1..(L + 1 + n)
    BY <1>1
  <2> QED
    BY <1>2, <2>1
<1>4. stage(0) = p
  BY <1>1 DEF elem
<1>5. \A j \in 0..n : j # 0 => Push_Value(stage(j - 1), -(n + 1)) = stage(j)
  <2> SUFFICES ASSUME NEW j \in 1..n
               PROVE  Push_Value(stage(j - 1), -(n + 1)) = stage(j)
    OBVIOUS
  <2> DEFINE r == stage(j - 1)
  <2>1. r \in Seq(S) /\ Len(r) = L + j /\ \A k \in 1..(L + j) : r[k] = elem(k)
    <3>1. j - 1 \in 0..n /\ L + 1 + (j - 1) = L + j
      BY <1>0
    <3> QED
      BY <1>3, <3>1
  <2> HIDE DEF r
  <2>2. n + 1 \in 1..Len(r) /\ Len(r) + 1 - (n + 1) = L + j - n /\ L + j - n \in 1..L
    BY <1>1, <2>1 DEF L
  <2>3. Push_Value(r, -(n + 1)) = Push(r, r[L + j - n])
    BY <2>1, <2>2, PushValueFacts
  <2>4. r[L + j - n] = s[L + j - n]
    <3>1. L + j - n \in 1..(L + j) /\ L + j - n <= L + 1
      BY <1>0, <2>2
    <3> QED
      BY <1>1, <2>1, <2>2, <3>1 DEF elem
  <2>5. elem(L + 1 + j) = s[L + j - n]
    <3>1. ~ (L + 1 + j <= L + 1) /\ L + 1 + j - (n + 1) = L + j - n
      BY <1>0
    <3> DEFINE i == L + 1 + j
    <3>2. ~ (i <= L + 1) /\ i - (n + 1) = L + j - n
      BY <1>0, <3>1
    <3> HIDE DEF i
    <3>3. elem(i) = s[i - (n + 1)]
      BY <3>2 DEF elem
    <3> QED
      BY <3>2, <3>3 DEF i
  <2>6. /\ Push(r, elem(L + 1 + j)) \in Seq(S)
        /\ Len(Push(r, elem(L + 1 + j))) = L + 1 + j
        /\ Push(r, elem(L + 1 + j))[L + 1 + j] = elem(L + 1 + j)
        /\ \A k \in 1..(L + j) : Push(r, elem(L + 1 + j))[k] = r[k]
    <3>1. L + 1 + j \in 1..(L + 1 + n) /\ L + j + 1 = L + 1 + j
      BY <1>0
    <3>2. elem(L + 1 + j) \in S
      BY <1>2, <3>1
    <3> DEFINE e == elem(L + 1 + j)
    <3> HIDE DEF e
    <3>3. e \in S => /\ Push(r, e) \in Seq(S)
                      /\ Len(Push(r, e)) = Len(r) + 1
                      /\ Push(r, e)[Len(r) + 1] = e
                      /\ \A k \in 1..Len(r) : Push(r, e)[k] = r[k]
      BY <2>1 DEF Push
    <3> QED
      BY <2>1, <3>1, <3>2, <3>3 DEF e
  <2>7. \A k \in 1..(L + 1 + j) : Push(r, elem(L + 1 + j))[k] = elem(k)
    <3>1. \A k \in 1..(L + 1 + j) : k \in 1..(L + j) \/ k = L + 1 + j
      BY <1>0
    <3> QED
      BY <2>1, <2>6, <3>1
  <2>8. Push(r, elem(L + 1 + j)) = stage(j)
    <3>1. Push(r, elem(L + 1 + j)) = [k \in 1..(L + 1 + j) |-> Push(r, elem(L + 1 + j))[k]]
      BY <2>6
    <3> QED
      BY <2>7, <3>1
  <2> QED
    BY <2>3, <2>4, <2>5, <2>8 DEF r
<1>6. g = rec(g)
  <2>1. \A j \in 0..n : j # 0 => j - 1 \in 0..n
    OBVIOUS
  <2> HIDE DEF stage
  <2>2. \A j \in 0..n : g[j] = IF j = 0 THEN p ELSE Push_Value(g[j - 1], -(n + 1))
    BY <1>4, <1>5, <2>1
  <2> QED
    BY <2>2
<1> DEFINE h == CHOOSE f : f = rec(f)
<1> HIDE DEF g
<1>7. h = rec(h)
  BY <1>6
<1> HIDE DEF h
<1>8. \A j \in 0..n : h[j] = stage(j)
  <2> DEFINE T == {j \in 0..n : h[j] # stage(j)}
  <2> SUFFICES ASSUME T # {} PROVE FALSE
    OBVIOUS
  <2>1. T \in SUBSET Nat
    OBVIOUS
  <2>2. PICK m \in T : \A k \in T : m <= k
    <3> HIDE DEF T
    <3> QED
      BY <2>1, Least
  <2>3. m \in 0..n /\ h[m] # stage(m)
    OBVIOUS
  <2>4. m # 0
    BY <1>4, <1>7, <2>3
  <2>5. m - 1 \in 0..n /\ m - 1 \notin T
    BY <2>2, <2>3, <2>4
  <2>6. h[m - 1] = stage(m - 1)
    BY <2>5
  <2>7. h[m] = Push_Value(h[m - 1], -(n + 1))
    BY <1>7, <2>3, <2>4
  <2> HIDE DEF stage
  <2> QED
    BY <1>5, <2>3, <2>4, <2>6, <2>7
<1>9. PushCopies(Push(s, x), -(n + 1), n) = stage(n)
  <2>1. PushCopies(Push(s, x), -(n + 1), n) = h[n]
    BY DEF PushCopies, h, p
  <2>2. n \in 0..n
    OBVIOUS
  <2> QED
    BY <1>8, <2>1, <2>2
<1>10. \A k \in 1..(L + 1 + n) : stage(n)[k] = elem(k)
  OBVIOUS
<1>11. stage(n) \in Seq(S) /\ Len(stage(n)) = L + 1 + n
  <2>1. n \in 0..n
    OBVIOUS
  <2> QED
    BY <1>3, <2>1
<1> HIDE DEF stage
<1>12. \A i \in 1..(L + 1) : stage(n)[i] = p[i]
  BY <1>1, <1>10 DEF elem
<1>13. \A i \in 1..n : stage(n)[L + 1 + i] = s[L - n + i]
  <2> TAKE i \in 1..n
  <2>1. L + 1 + i \in 1..(L + 1 + n) /\ ~ (L + 1 + i <= L + 1) /\ L + 1 + i - (n + 1) = L - n + i
    BY <1>0
  <2> DEFINE k == L + 1 + i
  <2>2. k \in 1..(L + 1 + n) /\ ~ (k <= L + 1) /\ k - (n + 1) = L - n + i
    BY <1>0, <2>1
  <2> HIDE DEF k
  <2>3. stage(n)[k] = s[k - (n + 1)]
    BY <1>10, <2>2 DEF elem
  <2> QED
    BY <2>2, <2>3 DEF k
<1> QED
  BY <1>9, <1>11, <1>12, <1>13 DEF p, L, Copied

-----------------------------------------------------------------------------
(* The stack operations of Open_Library, for any num_up.                    *)

\* Pop (n) keeps all but the n topmost.
LEMMA PopFacts ==
  ASSUME NEW S, NEW s \in Seq(S), NEW n \in 0..Len(s)
  PROVE  /\ Pop(s, n) \in Seq(S) /\ Len(Pop(s, n)) = Len(s) - n
         /\ \A i \in 1..(Len(s) - n) : Pop(s, n)[i] = s[i]
<1>1. Len(s) \in Nat /\ Len(s) + 1 + (-n - 1) = Len(s) - n /\ Len(s) - n \in 0..Len(s)
  OBVIOUS
<1>2. Pop(s, n) = [k \in 1..(Len(s) - n) |-> s[k]]
  <2>1. CASE n = 0
    BY <1>1, <2>1, PopNone
  <2>2. CASE n > 0
    <3>1. ~ (-n - 1 >= 0)
      BY <2>2
    <3>2. \A k \in 1..(Len(s) - n) : k <= Len(s)
      BY <1>1
    <3> QED
      BY <1>1, <3>1, <3>2 DEF Pop, Set_Top
  <2> QED
    BY <2>1, <2>2
<1>3. \A k \in 1..(Len(s) - n) : s[k] \in S
  BY <1>1
<1> QED
  BY <1>1, <1>2, <1>3

\* Pop (n) undoes what was put on a stack.
LEMMA PopTo ==
  ASSUME NEW S, NEW s \in Seq(S), NEW r \in Seq(S), NEW n \in Nat,
         Len(r) = Len(s) + n, \A i \in 1..Len(s) : r[i] = s[i]
  PROVE  Pop(r, n) = s
<1>1. n \in 0..Len(r) /\ Len(r) - n = Len(s)
  OBVIOUS
<1>2. Pop(r, n) \in Seq(S) /\ Len(Pop(r, n)) = Len(s) /\ \A i \in 1..Len(s) : Pop(r, n)[i] = r[i]
  BY <1>1, PopFacts
<1> QED
  BY <1>2

\* r is s with its top moved under the n values below it, and above b values.
MovedUnder(S, s, n, b, r) ==
  /\ r \in Seq(S) /\ Len(r) = b + 1 + n
  /\ \A k \in 1..b : r[k] = s[k]
  /\ r[b + 1] = s[b + 1 + n]
  /\ \A k \in 1..n : r[b + 1 + k] = s[b + k]

\* Insert (-(n + 1)) moves the top under the n values below it.
LEMMA InsertUnder ==
  ASSUME NEW S, NEW s \in Seq(S), NEW n \in Nat, NEW b \in Nat, Len(s) = b + 1 + n
  PROVE  MovedUnder(S, s, n, b, Insert(s, -(n + 1)))
<1> DEFINE p == b + 1
<1>1. p \in 1..Len(s) /\ s # << >> /\ p > 0 /\ ~ (-(n + 1) > 0) /\ p + n = Len(s) /\ Len(s) + 1 + (-(n + 1)) = p
  OBVIOUS
<1>2. Absolute(s, -(n + 1)) = p /\ Absolute(s, p) = p
  BY <1>1 DEF Absolute
<1>3. Insert(s, -(n + 1)) = Insert(s, p)
  BY <1>2 DEF Insert
<1> HIDE DEF p
<1>4. /\ Insert(s, p) \in Seq(S) /\ Len(Insert(s, p)) = Len(s)
      /\ \A k \in 1..Len(s) : Insert(s, p)[k] = IF k < p THEN s[k]
                                                ELSE IF k = p THEN s[Len(s)] ELSE s[k - 1]
  <2>1. p \in 0..Len(s)
    BY <1>1
  <2> QED
    BY <1>1, <2>1, InsertFacts
<1>5. \A k \in 1..b : Insert(s, p)[k] = s[k]
  <2>1. \A k \in 1..b : k \in 1..Len(s) /\ k < p
    BY DEF p
  <2> QED
    BY <1>4, <2>1
<1>6. Insert(s, p)[p] = s[Len(s)]
  BY <1>1, <1>4
<1>7. \A k \in 1..n : Insert(s, p)[p + k] = s[b + k]
  <2> TAKE k \in 1..n
  <2> DEFINE q == p + k
  <2>1. q \in 1..Len(s) /\ ~ (q < p) /\ q # p /\ q - 1 = b + k
    BY <1>1 DEF p
  <2> HIDE DEF q
  <2>2. Insert(s, p)[q] = s[q - 1]
    BY <1>4, <2>1
  <2> QED
    BY <2>1, <2>2 DEF q
<1> QED
  BY <1>3, <1>4, <1>5, <1>6, <1>7 DEF p, MovedUnder

\* UpValuesOnTop values on top are upvalues.
LEMMA UpValuesFacts ==
  ASSUME stack \in Seq(Value)
  PROVE  /\ UpValuesOnTop \in 0..Len(stack)
         /\ \A i \in (Len(stack) - UpValuesOnTop + 1)..Len(stack) : stack[i] \in UpValue
<1> DEFINE L == Len(stack)
           T == {n \in 0..L : n = L \/ stack[L - n] \notin UpValue}
<1>1. L \in Nat /\ T \in SUBSET Nat /\ L \in T
  OBVIOUS
<1>2. PICK m \in T : \A k \in T : m <= k
  <2> HIDE DEF T
  <2> QED
    BY <1>1, Least
<1>3. \A i \in (L - m + 1)..L : stack[i] \in UpValue
  <2> SUFFICES ASSUME NEW i \in (L - m + 1)..L, stack[i] \notin UpValue PROVE FALSE
    OBVIOUS
  <2>1. L - i \in 0..L /\ L - (L - i) = i /\ L - i < m
    BY <1>1, <1>2
  <2>2. L - i \in T
    BY <2>1
  <2> QED
    BY <1>1, <1>2, <2>1, <2>2
<1>4. \E n \in 0..L : /\ \A i \in (L - n + 1)..L : stack[i] \in UpValue
                      /\ n = L \/ stack[L - n] \notin UpValue
  BY <1>2, <1>3
<1> QED
  BY <1>4 DEF UpValuesOnTop

-----------------------------------------------------------------------------
(* Values and stores.                                                       *)

LEMMA Values ==
  /\ Nil \in Value /\ Plain \in Value
  /\ Name \subseteq Value /\ Table \subseteq Value /\ UpValue \subseteq Value
  /\ Closure \subseteq Value
  /\ Name \subseteq Key /\ Table \subseteq Key
  /\ Registry \in Table /\ Globals \in Table /\ Registry # Globals
  /\ Nil \notin Table /\ Plain \notin Table
  /\ Name \cap Table = {} /\ Nil \notin Name /\ UpValue \cap Table = {}
  /\ Library \subseteq Name /\ NoName \notin Name
BY TableAssumption, NameAssumption, ValueAssumption, LibraryAssumption, NoNameAssumption DEF Value, Key

LEMMA ClosureFacts ==
  ASSUME NEW f \in Func, NEW ups \in Seq(UpValue)
  PROVE  /\ [fn |-> f, up |-> ups] \in Closure
         /\ [fn |-> f, up |-> ups].up = ups
         /\ [fn |-> f, up |-> ups] \notin Table \cup {Nil}
<1>1. [fn |-> f, up |-> ups] \in Closure
  BY DEF Closure
<1> QED
  BY <1>1, ValueAssumption

\* A store changes one field of one table.
LEMMA StoreFacts ==
  ASSUME NEW h \in [Table -> [Key -> Value]],
         NEW t \in Table, NEW k \in Key, NEW v \in Value
  PROVE  /\ Stored(h, t, k, v) \in [Table -> [Key -> Value]]
         /\ Stored(h, t, k, v)[t][k] = v
         /\ \A t2 \in Table, k2 \in Key :
              t2 # t \/ k2 # k => Stored(h, t, k, v)[t2][k2] = h[t2][k2]
BY DEF Stored

\* What holds of the state's parts, in one place.
LEMMA Shapes ==
  ASSUME HostInv
  PROVE  /\ stack \in Seq(Value) /\ Len(stack) \in Nat
         /\ \A i \in 1..Len(stack) : stack[i] \in Value
         /\ heap \in [Table -> [Key -> Value]] /\ frame \in Frame
         /\ known \subseteq Table /\ alloc \subseteq Table
         /\ frame.fns \in Seq(Register_t) /\ frame.all \in Seq(Register_t)
         /\ Len(frame.fns) \in Nat /\ Len(frame.all) \in Nat
         /\ frame.nup \in Nat /\ frame.ups \in Seq(UpValue) /\ Len(frame.ups) = frame.nup
         /\ frame.below \in Seq(Value) /\ Base \in Nat
         /\ frame.name \in Name \cup {NoName} /\ frame.ret = "idle" /\ frame.meta \in BOOLEAN
BY DEF HostInv, TypeOK, HeapTypeOK, Frame, FrameInv, Base

-----------------------------------------------------------------------------
(* What the steps do, told without the stack operations.                    *)

\* What the look-up of the global yields is fit to be pushed; it is the field,
\* unless a script changed the globals or gave them a metatable.
LEMMA LibGetValue ==
  ASSUME HostInv, LibGet
  PROVE  \E v \in Value :
           /\ v \in Table => v \in alloc \ {Registry}
           /\ Globals \notin tampered => v = heap[Globals][frame.name] /\ v # Globals
           /\ IF v = Nil
              THEN \E t \in Table \ alloc :
                     /\ alloc' = alloc \cup {t}
                     /\ stack' = Push_Value(Push(Push(stack, t), frame.name), -2)
                     /\ pc' = "set"
              ELSE /\ stack' = Insert(Push(stack, v), -(frame.nup + 1))
                   /\ pc' = "function"
                   /\ UNCHANGED alloc
<1>1. PICK v \in IF frame.meta THEN ScriptValue ELSE {heap[Globals][frame.name]} :
        IF v = Nil
        THEN \E t \in Table \ alloc :
               /\ alloc' = alloc \cup {t}
               /\ stack' = Push_Value(Push(Push(stack, t), frame.name), -2)
               /\ pc' = "set"
        ELSE /\ stack' = Insert(Push(stack, v), -(frame.nup + 1))
             /\ pc' = "function"
             /\ UNCHANGED alloc
  BY DEF LibGet
<1>2. /\ v \in Value
      /\ v \in Table => v \in alloc \ {Registry}
      /\ Globals \notin tampered => v = heap[Globals][frame.name] /\ v # Globals
  <2>0. frame.name \in Key /\ pc = "get"
    BY Values DEF LibGet, HostInv, FrameInv
  <2>1. CASE frame.meta
    <3>1. v \in known \cup {Nil, Plain} /\ Globals \in tampered
      BY <1>1, <2>0, <2>1 DEF ScriptValue, HostInv, MetaInv
    <3> QED
      BY <3>1, Values, Shapes DEF HostInv, AllocInv
  <2>2. CASE ~ frame.meta
    <3>1. v = heap[Globals][frame.name]
      BY <1>1, <2>2
    <3> QED
      BY <2>0, <3>1, Values, Shapes DEF HostInv, AllocInv, GlobalsInv
  <2> QED
    BY <2>1, <2>2
<1> QED
  BY <1>1, <1>2

\* It was nil: a new table, with its name and itself over it.
LEMMA LibGetNewEffect ==
  ASSUME HostInv, pc = "get", NEW t \in Table
  PROVE  Push_Value(Push(Push(stack, t), frame.name), -2) = Push(Push(Push(stack, t), frame.name), t)
<1>1. stack \in Seq(Value) /\ frame.name \in Value /\ Table \subseteq Value
  BY Shapes, Values DEF HostInv, FrameInv
<1> DEFINE k == frame.name
<1>2. k \in Value /\ t \in Value
  BY <1>1
<1> HIDE DEF k
<1>3. Push_Value(Push(Push(stack, t), k), -2) = Push(Push(Push(stack, t), k), t)
  BY <1>1, <1>2, TopTwo
<1> QED
  BY <1>3 DEF k

\* It was there: it goes under the upvalues.
LEMMA LibGetFoundEffect ==
  ASSUME HostInv, pc = "get", NEW v \in Value
  PROVE  LET r == Insert(Push(stack, v), -(frame.nup + 1))
         IN  /\ r \in Seq(Value) /\ Len(r) = Base + 1 + frame.nup
             /\ \A i \in 1..Base : r[i] = frame.below[i]
             /\ r[Base + 1] = v
             /\ \A i \in 1..frame.nup : r[Base + 1 + i] = frame.ups[i]
<1> DEFINE n == frame.nup
           s == Push(stack, v)
<1>1. /\ stack \in Seq(Value) /\ Len(stack) = Base + n /\ Base \in Nat /\ n \in Nat
      /\ \A i \in 1..Base : stack[i] = frame.below[i]
      /\ \A i \in 1..n : stack[Base + i] = frame.ups[i]
  BY Shapes DEF HostInv, StackInv
<1> HIDE DEF n
<1>4. /\ s \in Seq(Value) /\ Len(s) = Base + n + 1
      /\ \A i \in 1..(Base + n) : s[i] = stack[i]
      /\ s[Base + n + 1] = v
  BY <1>1 DEF Push
<1> HIDE DEF s
<1> DEFINE r == Insert(s, -(n + 1))
<1>5. s \in Seq(Value) /\ n \in Nat /\ Base \in Nat /\ Len(s) = Base + 1 + n
  BY <1>1, <1>4
<1>10. MovedUnder(Value, s, n, Base, r)
  BY <1>5, InsertUnder
<1> HIDE DEF r
<1>6. /\ r \in Seq(Value) /\ Len(r) = Base + 1 + n
      /\ \A k \in 1..Base : r[k] = s[k]
      /\ r[Base + 1] = s[Base + 1 + n]
      /\ \A k \in 1..n : r[Base + 1 + k] = s[Base + k]
  BY <1>10 DEF MovedUnder
<1>7. \A i \in 1..Base : r[i] = frame.below[i]
  BY <1>1, <1>4, <1>6
<1>8. \A i \in 1..n : r[Base + 1 + i] = frame.ups[i]
  <2> TAKE i \in 1..n
  <2>1. Base + i \in 1..(Base + n)
    BY <1>1
  <2> QED
    BY <1>1, <1>4, <1>6, <2>1
<1>9. Base + n + 1 = Base + 1 + n /\ r[Base + 1] = v
  BY <1>1, <1>4, <1>6
<1> QED
  BY <1>6, <1>7, <1>8, <1>9 DEF r, s, n

\* Set_Table gives the new table its name, unless a metamethod has it; the table
\* goes under the upvalues.
LEMMA LibSetEffect ==
  ASSUME HostInv, LibSet
  PROVE  LET t == stack[Len(stack)]
         IN  /\ t \in Table /\ t = stack[Base + frame.nup + 1]
             /\ IF frame.meta THEN heap' = heap
                              ELSE heap' = Stored(heap, Globals, frame.name, t)
             /\ stack' \in Seq(Value) /\ Len(stack') = Base + 1 + frame.nup
             /\ \A i \in 1..Base : stack'[i] = frame.below[i]
             /\ stack'[Base + 1] = t
             /\ \A i \in 1..frame.nup : stack'[Base + 1 + i] = frame.ups[i]
             /\ pc' = "function"
<1> DEFINE n == frame.nup
           t == stack[Len(stack)]
           s == Pop(stack, 2)
<1>1. /\ stack \in Seq(Value) /\ Len(stack) = Base + n + 3 /\ Base \in Nat /\ n \in Nat
      /\ \A i \in 1..Base : stack[i] = frame.below[i]
      /\ \A i \in 1..n : stack[Base + i] = frame.ups[i]
      /\ t \in Table /\ t = stack[Base + n + 1]
      /\ stack[Base + n + 2] = frame.name /\ stack[Base + n + 3] = t
  BY Shapes DEF LibSet, HostInv, StackInv
<1>2. /\ IF frame.meta THEN heap' = heap
                       ELSE heap' = Stored(heap, Globals, At(stack, -2), At(stack, -1))
      /\ stack' = Insert(s, -(n + 1)) /\ pc' = "function"
  BY DEF LibSet, SetTable
<1> HIDE DEF n
<1>3. At(stack, -2) = frame.name /\ At(stack, -1) = t
  <2>1. 1 \in 1..Len(stack) /\ 2 \in 1..Len(stack)
    BY <1>1
  <2>2. At(stack, -1) = stack[Len(stack) + 1 - 1] /\ At(stack, -2) = stack[Len(stack) + 1 - 2]
    BY <1>1, <2>1, AtFacts
  <2>3. Len(stack) + 1 - 1 = Len(stack) /\ Len(stack) + 1 - 2 = Base + n + 2
    BY <1>1
  <2> QED
    BY <1>1, <2>2, <2>3
<1>4. /\ s \in Seq(Value) /\ Len(s) = Base + n + 1
      /\ \A i \in 1..(Base + n + 1) : s[i] = stack[i]
  <2>1. 2 \in 0..Len(stack) /\ Len(stack) - 2 = Base + n + 1 /\ stack \in Seq(Value)
    BY <1>1
  <2>2. /\ s \in Seq(Value) /\ Len(s) = Len(stack) - 2
        /\ \A i \in 1..(Len(stack) - 2) : s[i] = stack[i]
    BY <2>1, PopFacts, SMTT(20)
  <2> QED
    BY <2>1, <2>2
<1> HIDE DEF s, t
<1> DEFINE r == Insert(s, -(n + 1))
<1>5. s \in Seq(Value) /\ n \in Nat /\ Base \in Nat /\ Len(s) = Base + 1 + n
  BY <1>1, <1>4
<1>10. MovedUnder(Value, s, n, Base, r)
  BY <1>5, InsertUnder
<1> HIDE DEF r
<1>6. /\ r \in Seq(Value) /\ Len(r) = Base + 1 + n
      /\ \A k \in 1..Base : r[k] = s[k]
      /\ r[Base + 1] = s[Base + 1 + n]
      /\ \A k \in 1..n : r[Base + 1 + k] = s[Base + k]
  BY <1>10 DEF MovedUnder
<1>7. \A i \in 1..Base : r[i] = frame.below[i]
  <2> TAKE i \in 1..Base
  <2>1. i \in 1..(Base + n + 1)
    BY <1>1
  <2> QED
    BY <1>1, <1>4, <1>6, <2>1
<1>8. \A i \in 1..n : r[Base + 1 + i] = frame.ups[i]
  <2> TAKE i \in 1..n
  <2>1. Base + i \in 1..(Base + n + 1)
    BY <1>1
  <2> QED
    BY <1>1, <1>4, <1>6, <2>1
<1>9. Base + n + 1 = Base + 1 + n /\ r[Base + 1] = t
  BY <1>1, <1>4, <1>6
<1> QED
  BY <1>1, <1>2, <1>3, <1>6, <1>7, <1>8, <1>9 DEF r, t, n

\* A closure over the upvalues goes under the name of the next function into
\* the table below them, unless a metamethod has it.
LEMMA LibFunctionEffect ==
  ASSUME HostInv, LibFunction
  PROVE  LET f == Head(frame.fns)
         IN  /\ f \in Register_t
             /\ IF frame.meta
                THEN heap' = heap
                ELSE /\ Lib \in Table
                     /\ heap' = Stored(heap, Lib, f.name, [fn |-> f.func, up |-> frame.ups])
             /\ stack' = stack
<1> DEFINE f == Head(frame.fns)
           k == f.name
           n == frame.nup
           L == Len(stack)
           p == Push(stack, k)
           c == PushCopies(p, -(n + 1), n)
           v == [fn |-> f.func, up |-> frame.ups]
           s == Push(p, v)
<1>1. /\ stack \in Seq(Value) /\ L \in Nat /\ n \in Nat /\ Base \in Nat
      /\ frame.ups \in Seq(UpValue) /\ Len(frame.ups) = n
      /\ frame.fns \in Seq(Register_t) /\ frame.fns # << >>
  BY Shapes DEF LibFunction
<1>2. L = Base + 1 + n /\ \A i \in 1..n : stack[Base + 1 + i] = frame.ups[i]
  BY DEF LibFunction, HostInv, StackInv
<1>3. f \in Register_t
  BY <1>1
<1>4. k \in Name /\ f.func \in Func
  BY <1>3 DEF Register_t
<1>5. k \in Value /\ v \in Value
  <2>1. v \in Closure
    BY <1>1, <1>4, ClosureFacts
  <2> QED
    BY <1>4, <2>1, Values
<1>6. /\ p \in Seq(Value) /\ Len(p) = L + 1 /\ p[L + 1] = k
      /\ \A i \in 1..L : p[i] = stack[i]
  BY <1>1, <1>5 DEF Push
<1>7. Copied(Value, stack, k, n, c)
  <2>1. n \in 0..Len(stack)
    BY <1>1, <1>2
  <2> HIDE DEF f, k, n, v
  <2>2. Copied(Value, stack, k, n, PushCopies(Push(stack, k), -(n + 1), n))
    BY <1>1, <1>5, <2>1, CopiesUnder
  <2> QED
    BY <2>2
<1>20. /\ c \in Seq(Value) /\ Len(c) = L + 1 + n
       /\ \A i \in 1..(L + 1) : c[i] = p[i]
       /\ \A i \in 1..n : c[L + 1 + i] = stack[L - n + i]
  <2> HIDE DEF c, n, k
  <2> QED
    BY <1>7 DEF Copied
<1> HIDE DEF f, k, n, L, p, c, v
<1>8. Pop(c, n) = p
  <2>1. Len(c) = Len(p) + n /\ \A i \in 1..Len(p) : c[i] = p[i]
    BY <1>1, <1>6, <1>20
  <2> QED
    BY <1>1, <1>6, <1>20, <2>1, PopTo
<1>9. Top(c, n) = frame.ups
  <2>1. /\ Len(c) - n + 1 = L + 2 /\ Len(c) = L + 1 + n /\ L + 2 >= 1
        /\ Len(c) + 1 - (L + 2) = n
    BY <1>1, <1>20
  <2>2. SubSeq(c, L + 2, Len(c)) = [i \in 1..n |-> c[L + 1 + i]]
    <3> DEFINE m == L + 2
    <3>1. m \in Int /\ Len(c) \in Nat /\ c \in Seq(Value)
      BY <1>1, <1>20
    <3> HIDE DEF m
    <3>2. SubSeq(c, m, Len(c)) = [i \in 1..(1 + Len(c) - m) |-> c[i + m - 1]]
      BY <3>1
    <3>3. 1 + Len(c) - m = n /\ \A i \in 1..n : i + m - 1 = L + 1 + i
      BY <1>1, <2>1 DEF m
    <3> QED
      BY <3>2, <3>3 DEF m
  <2>3. \A i \in 1..n : c[L + 1 + i] = frame.ups[i]
    <3> TAKE i \in 1..n
    <3>1. L - n + i = Base + 1 + i
      BY <1>1, <1>2 DEF L
    <3> QED
      BY <1>2, <1>20, <3>1
  <2>4. frame.ups = [i \in 1..n |-> frame.ups[i]]
    BY <1>1
  <2> QED
    BY <2>1, <2>2, <2>3, <2>4 DEF Top
<1>10. /\ s \in Seq(Value) /\ Len(s) = L + 2 /\ s[L + 2] = v /\ s[L + 1] = k
       /\ \A i \in 1..L : s[i] = stack[i]
  BY <1>1, <1>5, <1>6 DEF Push
<1> HIDE DEF s
<1>11. At(s, -(n + 3)) = Lib /\ At(s, -2) = k /\ At(s, -1) = v
  <2>1. n + 3 \in 1..Len(s) /\ 2 \in 1..Len(s) /\ 1 \in 1..Len(s)
    BY <1>1, <1>2, <1>10 DEF L
  <2>2. /\ At(s, -(n + 3)) = s[Len(s) + 1 - (n + 3)]
        /\ At(s, -2) = s[Len(s) + 1 - 2] /\ At(s, -1) = s[Len(s) + 1 - 1]
    BY <1>10, <2>1, AtFacts
  <2>3. /\ Len(s) + 1 - (n + 3) = Base + 1 /\ Base + 1 \in 1..L
        /\ Len(s) + 1 - 2 = L + 1 /\ Len(s) + 1 - 1 = L + 2
    BY <1>1, <1>2, <1>10 DEF L
  <2> QED
    BY <1>10, <2>2, <2>3 DEF Lib
<1>12. Pop(s, 2) = stack
  <2>1. Len(s) = Len(stack) + 2 /\ \A i \in 1..Len(stack) : s[i] = stack[i]
    BY <1>10 DEF L
  <2> QED
    BY <1>1, <1>10, <2>1, PopTo
<1>13. /\ IF frame.meta
          THEN heap' = heap
          ELSE /\ At(s, -(n + 3)) \in Table
               /\ heap' = Stored(heap, At(s, -(n + 3)), At(s, -2), At(s, -1))
       /\ stack' = Pop(s, 2)
  BY <1>8, <1>9 DEF LibFunction, SetTable, s, c, p, n, k, f, v
<1> QED
  BY <1>3, <1>11, <1>12, <1>13 DEF f, k, v

\* The upvalues are popped; what is left is the caller's and the library.
LEMMA LibReturnEffect ==
  ASSUME HostInv, LibReturn
  PROVE  /\ stack' \in Seq(Value) /\ Len(stack') = Base + 1
         /\ \A i \in 1..(Base + 1) : stack'[i] = stack[i]
<1>1. /\ stack \in Seq(Value) /\ frame.nup \in Nat /\ Base \in Nat
      /\ Len(stack) = Base + 1 + frame.nup /\ stack' = Pop(stack, frame.nup)
  BY Shapes DEF LibReturn, HostInv, StackInv
<1> DEFINE n == frame.nup
<1>2. n \in 0..Len(stack) /\ Len(stack) - n = Base + 1
  BY <1>1
<1> HIDE DEF n
<1>3. /\ Pop(stack, n) \in Seq(Value) /\ Len(Pop(stack, n)) = Len(stack) - n
      /\ \A i \in 1..(Len(stack) - n) : Pop(stack, n)[i] = stack[i]
  BY <1>1, <1>2, PopFacts
<1> QED
  BY <1>1, <1>2, <1>3 DEF n

LEMMA NmtCreateEffect ==
  ASSUME HostInv, NmtCreate
  PROVE  \E t \in Table \ alloc :
           /\ alloc' = alloc \cup {t}
           /\ heap' = Stored(heap, Registry, frame.name, t)
           /\ stack' = Push(stack, t)
<1> DEFINE k == frame.name
<1>1. stack \in Seq(Value) /\ k \in Value /\ Table \subseteq Value
  BY Shapes, Values DEF NmtCreate, HostInv, FrameInv
<1>2. PICK t \in Table \ alloc :
        LET s == Push_Value(Push(Push(stack, t), k), -2)
        IN  /\ alloc' = alloc \cup {t}
            /\ heap' = Stored(heap, Registry, At(s, -2), At(s, -1))
            /\ stack' = Pop(s, 2)
  BY DEF NmtCreate
<1> HIDE DEF k
<1> DEFINE s1 == Push(stack, t)
<1>3. s1 \in Seq(Value) /\ t \in Value
  BY <1>1, PushFacts
<1>4. Push_Value(Push(s1, k), -2) = Push(Push(s1, k), t)
  BY <1>1, <1>3, TopTwo
<1> HIDE DEF s1
<1>5. LET s == Push(Push(s1, k), t)
      IN  At(s, -1) = t /\ At(s, -2) = k /\ Pop(s, 2) = s1
  BY <1>1, <1>3, TopTwo
<1> QED
  BY <1>2, <1>4, <1>5 DEF s1, k

LEMMA NmtLinkEffect ==
  ASSUME HostInv, NmtLink
  PROVE  /\ heap' = Stored(heap, Registry, stack[Len(stack)], frame.name)
         /\ stack' = stack
<1> DEFINE k == frame.name
           m == stack[Len(stack)]
<1>1. stack \in Seq(Value) /\ stack # << >> /\ k \in Value
  BY Shapes, Values DEF NmtLink, HostInv, FrameInv, StackInv
<1>2. Push_Value(stack, -1) = Push(stack, m) /\ m \in Value
  BY <1>1, PushTop
<1> HIDE DEF m, k
<1>3. LET s == Push(Push(stack, m), k)
      IN  At(s, -1) = k /\ At(s, -2) = m /\ Pop(s, 2) = stack
  BY <1>1, <1>2, TopTwo
<1> QED
  BY <1>2, <1>3 DEF NmtLink, m, k

-----------------------------------------------------------------------------
(* The invariant, in two halves: what is in the tables and on the stack,    *)
(* and where the subprogram that runs is.                                   *)

HeapPart == HeapTypeOK /\ AllocInv /\ GlobalsInv
RunPart ==
  /\ pc \in {"idle", "get", "set", "function", "metatable", "link"}
  /\ frame \in Frame /\ FrameInv /\ StackInv /\ MetaInv /\ SharedInv

\* A value that may be stored or pushed when the tables in a have been created.
Fit(v, a) ==
  v \in Table => v \in a \ {Registry} /\ (Globals \notin tampered => v # Globals)

LEMMA Halves ==
  HostInv <=> HeapPart /\ RunPart /\ BackLinkSound /\ calls \in 0..MaxCalls
BY DEF HostInv, HeapPart, RunPart, TypeOK

\* What the binding finds on the stack and in the globals and the registry.
LEMMA FitFound ==
  ASSUME HostInv
  PROVE  /\ \A i \in 1..Len(stack) : Fit(stack[i], alloc)
         /\ \A k \in Key : Fit(heap[Globals][k], alloc) /\ Fit(heap[Registry][k], alloc)
BY Values DEF HostInv, AllocInv, GlobalsInv, Fit

\* Fit values, and a new table, leave the tables and the stack sound.
LEMMA HeapStep ==
  ASSUME HostInv, UNCHANGED <<udMeta, known, tampered, writes>>,
         alloc \subseteq alloc', alloc' \subseteq Table, stack' \in Seq(Value),
         heap' \in [Table -> [Key -> Value]],
         \A i \in 1..Len(stack') : Fit(stack'[i], alloc'),
         \A t \in Table, k \in Key : heap'[t][k] = heap[t][k] \/ Fit(heap'[t][k], alloc')
  PROVE  HeapPart'
<1>1. HeapTypeOK'
  BY DEF HostInv, TypeOK, HeapTypeOK
<1>2. AllocInv'
  BY DEF HostInv, AllocInv, Fit
<1>3. GlobalsInv'
  BY Values DEF HostInv, GlobalsInv, Fit
<1> QED
  BY <1>1, <1>2, <1>3 DEF HeapPart

\* The same when the heap is left alone.
LEMMA StackStep ==
  ASSUME HostInv, UNCHANGED <<heap, udMeta, known, tampered, writes>>,
         alloc \subseteq alloc', alloc' \subseteq Table, stack' \in Seq(Value),
         \A i \in 1..Len(stack') : Fit(stack'[i], alloc')
  PROVE  HeapPart' /\ BackLinkSound'
<1>1. heap' \in [Table -> [Key -> Value]]
  BY Shapes
<1> QED
  BY <1>1, HeapStep DEF HostInv, BackLinkSound

\* No subprogram runs.
LEMMA IdleRun ==
  ASSUME pc' = "idle", frame' = NoFrame
  PROVE  RunPart'
<1>1. /\ frame'.name = NoName /\ frame'.fns = << >> /\ frame'.all = << >> /\ frame'.nup = 0
      /\ frame'.ret = "idle" /\ frame'.below = << >> /\ frame'.ups = << >> /\ ~ frame'.meta
  BY DEF NoFrame
<1>2. << >> \in Seq(Register_t) /\ << >> \in Seq(Value) /\ << >> \in Seq(UpValue)
  OBVIOUS
<1>3. frame' \in Frame
  BY <1>2 DEF NoFrame, Frame
<1>4. FrameInv'
  BY <1>1, <1>2 DEF FrameInv
<1> QED
  BY <1>1, <1>3, <1>4 DEF RunPart, StackInv, MetaInv, SharedInv

\* A fit value on top leaves the stack fit.
LEMMA PushFit ==
  ASSUME HostInv, NEW v \in Value, alloc \subseteq alloc', stack' = Push(stack, v), Fit(v, alloc')
  PROVE  stack' \in Seq(Value) /\ \A i \in 1..Len(stack') : Fit(stack'[i], alloc')
<1>1. /\ stack' \in Seq(Value) /\ Len(stack') = Len(stack) + 1 /\ Len(stack) \in Nat
      /\ stack'[Len(stack) + 1] = v /\ \A i \in 1..Len(stack) : stack'[i] = stack[i]
  BY Shapes DEF Push
<1>2. \A i \in 1..Len(stack') : i = Len(stack) + 1 \/ i \in 1..Len(stack)
  BY <1>1
<1>3. \A i \in 1..Len(stack) : Fit(stack[i], alloc')
  BY FitFound DEF Fit
<1> QED
  BY <1>1, <1>2, <1>3

-----------------------------------------------------------------------------
(* The steps.                                                               *)

LEMMA InitInv ==
  ASSUME Init
  PROVE  HostInv
<1>1. /\ stack = << >> /\ heap = [t \in Table |-> [k \in Key |-> Nil]] /\ alloc = {Registry, Globals}
      /\ udMeta = [u \in Userdata |-> Nil] /\ known = {Globals} /\ tampered = {} /\ writes = 0
      /\ pc = "idle" /\ frame = NoFrame /\ calls = 0
  BY DEF Init, LibInit, HeapInit, EmptyTable
<1>2. << >> \in Seq(Value) /\ << >> \in Seq(Register_t) /\ << >> \in Seq(UpValue) /\ Len(<< >>) = 0
  OBVIOUS
<1>3. HeapTypeOK
  BY <1>1, <1>2, Values DEF HeapTypeOK
<1>4. AllocInv /\ GlobalsInv /\ BackLinkSound
  BY <1>1, <1>2, Values DEF AllocInv, GlobalsInv, BackLinkSound, Key
<1>5. frame \in Frame /\ FrameInv
  BY <1>1, <1>2 DEF NoFrame, Frame, FrameInv
<1>6. StackInv /\ MetaInv /\ SharedInv
  BY <1>1 DEF NoFrame, StackInv, MetaInv, SharedInv
<1>7. calls \in 0..MaxCalls
  BY <1>1, LibraryAssumption
<1> QED
  BY <1>1, <1>3, <1>4, <1>5, <1>6, <1>7 DEF HostInv, TypeOK

LEMMA HostPushInv ==
  ASSUME HostInv, HostPush
  PROVE  HostInv'
<1>1. pc = "idle" /\ UNCHANGED <<pc, frame, calls, heap, udMeta, known, tampered, writes>>
  BY DEF HostPush, HostUnchanged
<1>2. \E v \in Value : /\ alloc \subseteq alloc' /\ alloc' \subseteq Table
                       /\ stack' = Push(stack, v) /\ Fit(v, alloc')
  <2>1. CASE \E v \in UpValue : stack' = Push(stack, v) /\ UNCHANGED alloc
    BY <2>1, Values, Shapes DEF Fit
  <2>2. CASE \E t \in Table \ alloc : stack' = Push(stack, t) /\ alloc' = alloc \cup {t}
    BY <2>2, Values, Shapes DEF Fit, HostInv, AllocInv
  <2> QED
    BY <2>1, <2>2 DEF HostPush
<1>3. HeapPart' /\ BackLinkSound'
  <2>1. PICK v \in Value : /\ alloc \subseteq alloc' /\ alloc' \subseteq Table
                           /\ stack' = Push(stack, v) /\ Fit(v, alloc')
    BY <1>2
  <2>2. stack' \in Seq(Value) /\ \A i \in 1..Len(stack') : Fit(stack'[i], alloc')
    BY <2>1, PushFit
  <2> QED
    BY <1>1, <2>1, <2>2, StackStep
<1>4. RunPart'
  BY <1>1 DEF HostInv, TypeOK, RunPart, FrameInv, StackInv, MetaInv, SharedInv, Done
<1> QED
  BY <1>1, <1>3, <1>4 DEF HostInv, TypeOK, HeapPart, RunPart

\* The error or the return that ends the C function takes its stack with it.
LEMMA EmptyInv ==
  ASSUME HostInv, LuaError \/ FunctionReturn, UNCHANGED calls
  PROVE  HostInv'
<1>1. /\ stack' = << >> /\ pc' = "idle"
      /\ UNCHANGED <<heap, alloc, udMeta, known, tampered, writes>>
  BY DEF LuaError, FunctionReturn
<1>2. /\ stack' \in Seq(Value) /\ \A i \in 1..Len(stack') : Fit(stack'[i], alloc')
      /\ alloc' \subseteq Table
  BY <1>1, Shapes
<1>3. HeapPart' /\ BackLinkSound'
  BY <1>1, <1>2, StackStep
<1>4. RunPart'
  <2>1. CASE LuaError
    BY <1>1, <2>1, IdleRun DEF LuaError
  <2>2. CASE FunctionReturn
    <3>1. frame' = frame /\ pc = "idle"
      BY <2>2 DEF FunctionReturn
    <3> QED
      BY <1>1, <2>2, <3>1 DEF HostInv, TypeOK, RunPart, FrameInv, StackInv, MetaInv, SharedInv, Done
  <2> QED
    BY <2>1, <2>2
<1> QED
  BY <1>3, <1>4 DEF HostInv, TypeOK, HeapPart, RunPart

\* u is the n topmost values of s, and b what is below the m topmost.
Parted(S, T, s, n, m, b, u) ==
  /\ b \in Seq(S) /\ Len(b) = Len(s) - m
  /\ \A i \in 1..(Len(s) - m) : b[i] = s[i]
  /\ u \in Seq(T) /\ Len(u) = n
  /\ \A i \in 1..n : u[i] = s[Len(s) - n + i]

LEMMA FrameParts ==
  ASSUME NEW S, NEW T, NEW s \in Seq(S), NEW n \in 0..Len(s), NEW m \in 0..Len(s),
         \A i \in (Len(s) - n + 1)..Len(s) : s[i] \in T
  PROVE  Parted(S, T, s, n, m, Below(s, m), Top(s, n))
<1> DEFINE L == Len(s)
           p == L - n + 1
<1>1. L \in Nat /\ n \in 0..L /\ m \in 0..L /\ p \in 1..(L + 1) /\ 1 + L - p = n
  OBVIOUS
<1>2. /\ Below(s, m) \in Seq(S) /\ Len(Below(s, m)) = L - m
      /\ \A i \in 1..(L - m) : Below(s, m)[i] = s[i]
  <2>1. Below(s, m) = [i \in 1..(L - m) |-> s[i]]
    BY <1>1 DEF Below
  <2>2. \A i \in 1..(L - m) : i \in 1..L
    BY <1>1
  <2> QED
    BY <1>1, <2>1, <2>2
<1>3. Top(s, n) = [i \in 1..n |-> s[L - n + i]]
  <2> HIDE DEF p
  <2>1. SubSeq(s, p, L) = [i \in 1..(1 + L - p) |-> s[i + p - 1]]
    BY <1>1
  <2>2. \A i \in 1..n : i + p - 1 = L - n + i
    BY <1>1 DEF p
  <2> QED
    BY <1>1, <2>1, <2>2 DEF Top, p
<1>4. \A i \in 1..n : s[L - n + i] \in T
  BY <1>1
<1>5. Top(s, n) \in Seq(T) /\ Len(Top(s, n)) = n /\ \A i \in 1..n : Top(s, n)[i] = s[L - n + i]
  <2> HIDE DEF L, p
  <2> QED
    BY <1>1, <1>3, <1>4
<1> QED
  BY <1>2, <1>5 DEF Parted

\* Open_Library has been entered: nothing of its own is on the stack yet.
LEMMA EnterInv ==
  ASSUME HostInv, NEW l \in Library, NEW name \in {l, NoName}, NEW n \in 0..UpValuesOnTop,
         name = NoName => Len(stack) > n,
         OpenLibrary(name, Functions[l], n, "idle"),
         UNCHANGED <<stack, alloc, heap, udMeta, known, tampered, writes>>
  PROVE  HeapPart' /\ BackLinkSound' /\ RunPart'
<1> DEFINE m == IF name = NoName THEN n + 1 ELSE n
           L == Len(stack)
<1>1. stack \in Seq(Value) /\ L \in Nat
  BY Shapes
<1>2. /\ n \in 0..L /\ m \in 0..L
      /\ \A i \in (L - n + 1)..L : stack[i] \in UpValue
  <2>1. /\ UpValuesOnTop \in 0..L
        /\ \A i \in (L - UpValuesOnTop + 1)..L : stack[i] \in UpValue
    BY <1>1, UpValuesFacts
  <2>2. n \in 0..L
    BY <2>1
  <2>3. \A i \in (L - n + 1)..L : i \in (L - UpValuesOnTop + 1)..L
    BY <1>1, <2>1
  <2> QED
    BY <1>1, <2>1, <2>2, <2>3
<1>3. /\ Below(stack, m) \in Seq(Value) /\ Len(Below(stack, m)) = L - m
      /\ \A i \in 1..(L - m) : Below(stack, m)[i] = stack[i]
      /\ Top(stack, n) \in Seq(UpValue) /\ Len(Top(stack, n)) = n
      /\ \A i \in 1..n : Top(stack, n)[i] = stack[L - n + i]
  <2> HIDE DEF m
  <2>1. Parted(Value, UpValue, stack, n, m, Below(stack, m), Top(stack, n))
    BY <1>1, <1>2, FrameParts
  <2> QED
    BY <2>1 DEF Parted
<1>4. /\ frame' = [name |-> name, fns |-> Functions[l], all |-> Functions[l], nup |-> n, ret |-> "idle",
                   meta |-> FALSE, below |-> Below(stack, m), ups |-> Top(stack, n)]
      /\ pc' = IF name = NoName THEN "function" ELSE "get"
  BY DEF OpenLibrary, LibFrame
<1> DEFINE b == Below(stack, m)
           u == Top(stack, n)
           F == Functions[l]
<1>5. F \in Seq(Register_t) /\ name \in Name \cup {NoName} /\ n \in Nat /\ l \in Name /\ NoName \notin Name
  BY <1>2, Values, LibraryAssumption
<1>13. b \in Seq(Value) /\ u \in Seq(UpValue) /\ Len(u) = n /\ Len(b) = L - m
       /\ (\A i \in 1..(L - m) : b[i] = stack[i])
       /\ \A i \in 1..n : u[i] = stack[L - n + i]
  BY <1>3
<1>14. /\ frame' = [name |-> name, fns |-> F, all |-> F, nup |-> n, ret |-> "idle",
                    meta |-> FALSE, below |-> b, ups |-> u]
  BY <1>4
<1> HIDE DEF b, u, F, m, L
<1>6. /\ frame'.name = name /\ frame'.fns = F /\ frame'.all = F /\ frame'.nup = n
      /\ frame'.ret = "idle" /\ frame'.below = b /\ frame'.ups = u /\ ~ frame'.meta
  BY <1>14
<1>7. frame' \in Frame
  <2>1. /\ name \in Name \cup {NoName} /\ F \in Seq(Register_t) /\ n \in Nat
        /\ b \in Seq(Value) /\ u \in Seq(UpValue)
    BY <1>5, <1>13
  <2>2. u \in Seq(Value)
    BY <2>1, Values
  <2> QED
    BY <1>14, <2>1, <2>2 DEF Frame
<1>8. Len(F) \in Nat /\ Len(F) - Len(F) = 0 /\ \A i \in 1..Len(F) : F[i] = F[0 + i]
  BY <1>5
<1>9. FrameInv'
  <2>1. /\ frame'.ret = "idle" /\ frame'.ups \in Seq(UpValue) /\ Len(frame'.ups) = frame'.nup
        /\ frame'.fns = frame'.all /\ Len(frame'.fns) <= Len(frame'.all)
    BY <1>6, <1>8, <1>13
  <2>2. \A i \in 1..Len(frame'.fns) : frame'.fns[i] = frame'.all[Done' + i]
    <3>1. Done' = 0
      BY <1>6, <1>8 DEF Done
    <3> QED
      BY <1>6, <1>8, <3>1
  <2>3. pc' \in {"get", "set", "metatable", "link"} => frame'.name \in Name
    BY <1>4, <1>5, <1>6
  <2> QED
    BY <2>1, <2>2, <2>3 DEF FrameInv
<1>10. Base' = L - m /\ Base' \in Nat
  BY <1>1, <1>2, <1>6, <1>13 DEF Base
<1>11. StackInv'
  <2>1. \A i \in 1..Base' : stack'[i] = frame'.below[i]
    BY <1>6, <1>10, <1>13
  <2>2. CASE name = NoName
    <3>1. m = n + 1 /\ pc' = "function" /\ frame'.name = NoName
      BY <1>4, <1>6, <2>2 DEF m
    <3>2. Len(stack') = Base' + 1 + frame'.nup
      BY <1>1, <1>2, <1>6, <1>10, <3>1 DEF L
    <3>3. \A i \in 1..frame'.nup : stack'[Base' + 1 + i] = frame'.ups[i]
      <4> SUFFICES ASSUME NEW i \in 1..n PROVE stack'[Base' + 1 + i] = u[i]
        BY <1>6
      <4>1. Base' + 1 + i = L - n + i
        BY <1>1, <1>2, <1>10, <3>1
      <4> QED
        BY <1>13, <4>1
    <3> QED
      BY <2>1, <3>1, <3>2, <3>3 DEF StackInv
  <2>3. CASE name # NoName
    <3>1. m = n /\ pc' = "get"
      BY <1>4, <2>3 DEF m
    <3>2. Len(stack') = Base' + frame'.nup
      BY <1>1, <1>2, <1>6, <1>10, <3>1 DEF L
    <3>3. \A i \in 1..frame'.nup : stack'[Base' + i] = frame'.ups[i]
      BY <1>6, <1>10, <1>13, <3>1
    <3> QED
      BY <2>1, <3>1, <3>2, <3>3 DEF StackInv
  <2> QED
    BY <2>2, <2>3
<1>12. SharedInv' /\ MetaInv'
  <2>1. Done' = 0
    BY <1>6, <1>8 DEF Done
  <2> QED
    BY <1>6, <2>1 DEF SharedInv, MetaInv
<1>15. HeapPart' /\ BackLinkSound'
  <2>1. /\ stack' \in Seq(Value) /\ alloc' \subseteq Table
        /\ \A i \in 1..Len(stack') : Fit(stack'[i], alloc')
    BY Shapes, FitFound
  <2> QED
    BY <2>1, StackStep
<1>16. pc' \in {"idle", "get", "set", "function", "metatable", "link"}
  BY <1>4
<1> QED
  BY <1>7, <1>9, <1>11, <1>12, <1>15, <1>16 DEF RunPart

LEMMA CalledInv ==
  ASSUME HostInv, Called
  PROVE  (calls \in 0..MaxCalls)'
BY LibraryAssumption DEF HostInv, TypeOK, Called

LEMMA HostOpenInv ==
  ASSUME HostInv, HostOpen
  PROVE  HostInv'
<1>1. PICK l \in Library, n \in 0..UpValuesOnTop : OpenLibrary(l, Functions[l], n, "idle")
  BY DEF HostOpen
<1>2. l # NoName /\ UNCHANGED <<stack, alloc, heap, udMeta, known, tampered, writes>>
  BY Values DEF HostOpen, HostUnchanged
<1>3. HeapPart' /\ BackLinkSound' /\ RunPart'
  BY <1>1, <1>2, EnterInv
<1>4. (calls \in 0..MaxCalls)'
  BY CalledInv DEF HostOpen
<1> QED
  BY <1>3, <1>4 DEF HostInv, HeapPart, RunPart, TypeOK

LEMMA HostFillInv ==
  ASSUME HostInv, HostFill
  PROVE  HostInv'
<1>1. PICK l \in Library : OpenLibrary(NoName, Functions[l], UpValuesOnTop, "idle")
  BY DEF HostFill
<1>2. /\ Len(stack) > UpValuesOnTop
      /\ UNCHANGED <<stack, alloc, heap, udMeta, known, tampered, writes>>
  BY DEF HostFill, HostUnchanged
<1>3. UpValuesOnTop \in 0..UpValuesOnTop
  <2>1. UpValuesOnTop \in 0..Len(stack)
    BY Shapes, UpValuesFacts
  <2> QED
    BY <2>1
<1>4. HeapPart' /\ BackLinkSound' /\ RunPart'
  BY <1>1, <1>2, <1>3, EnterInv
<1>5. (calls \in 0..MaxCalls)'
  BY CalledInv DEF HostFill
<1> QED
  BY <1>4, <1>5 DEF HostInv, HeapPart, RunPart, TypeOK

LEMMA HostNewMetatableInv ==
  ASSUME HostInv, HostNewMetatable
  PROVE  HostInv'
<1>1. PICK l \in Library : NewMetatable(l, "idle")
  BY DEF HostNewMetatable
<1>2. UNCHANGED <<stack, alloc, heap, udMeta, known, tampered, writes>>
  BY DEF HostNewMetatable, HostUnchanged
<1>3. /\ frame'.name = l /\ frame'.fns = << >> /\ frame'.all = << >> /\ frame'.nup = 0
      /\ frame'.ret = "idle" /\ frame'.below = stack /\ frame'.ups = << >> /\ ~ frame'.meta
      /\ frame' = [name |-> l, fns |-> << >>, all |-> << >>, nup |-> 0,
                   ret |-> "idle", meta |-> FALSE, below |-> stack, ups |-> << >>]
      /\ pc' = "metatable"
  BY <1>1 DEF NewMetatable, NoFrame
<1>4. << >> \in Seq(Register_t) /\ << >> \in Seq(UpValue) /\ l \in Name /\ stack \in Seq(Value)
  BY Values, Shapes
<1>5. frame' \in Frame
  BY <1>3, <1>4 DEF Frame
<1>6. FrameInv'
  BY <1>3, <1>4 DEF FrameInv
<1>7. StackInv' /\ MetaInv' /\ SharedInv'
  BY <1>3 DEF StackInv, MetaInv, SharedInv
<1>8. HeapPart' /\ BackLinkSound'
  <2>1. /\ stack' \in Seq(Value) /\ alloc' \subseteq Table
        /\ \A i \in 1..Len(stack') : Fit(stack'[i], alloc')
    BY <1>2, Shapes, FitFound
  <2> QED
    BY <1>2, <2>1, StackStep
<1>9. (calls \in 0..MaxCalls)'
  BY CalledInv DEF HostNewMetatable
<1> QED
  BY <1>3, <1>5, <1>6, <1>7, <1>8, <1>9 DEF HostInv, HeapPart, TypeOK

\* r is s with three values on it.
ThreeOn(S, s, x, y, z, r) ==
  /\ r \in Seq(S) /\ Len(r) = Len(s) + 3
  /\ \A i \in 1..Len(s) : r[i] = s[i]
  /\ r[Len(s) + 1] = x /\ r[Len(s) + 2] = y /\ r[Len(s) + 3] = z

LEMMA PushThree ==
  ASSUME NEW S, NEW s \in Seq(S), NEW x \in S, NEW y \in S, NEW z \in S
  PROVE  ThreeOn(S, s, x, y, z, Push(Push(Push(s, x), y), z))
<1> DEFINE s1 == Push(s, x)
           s2 == Push(s1, y)
<1>1. /\ s1 \in Seq(S) /\ Len(s1) = Len(s) + 1 /\ s1[Len(s) + 1] = x
      /\ Len(s) \in Nat /\ \A i \in 1..Len(s) : s1[i] = s[i]
  BY DEF Push
<1> HIDE DEF s1
<1>2. /\ s2 \in Seq(S) /\ Len(s2) = Len(s) + 2 /\ s2[Len(s) + 2] = y
      /\ \A i \in 1..(Len(s) + 1) : s2[i] = s1[i]
  BY <1>1 DEF Push
<1> HIDE DEF s2
<1>3. LET r == Push(s2, z)
      IN  /\ r \in Seq(S) /\ Len(r) = Len(s) + 3 /\ r[Len(s) + 3] = z
          /\ \A i \in 1..(Len(s) + 2) : r[i] = s2[i]
  BY <1>1, <1>2 DEF Push
<1>4. /\ Len(s) + 1 \in 1..(Len(s) + 1) /\ Len(s) + 1 \in 1..(Len(s) + 2)
      /\ Len(s) + 2 \in 1..(Len(s) + 2)
      /\ \A i \in 1..Len(s) : i \in 1..(Len(s) + 1) /\ i \in 1..(Len(s) + 2)
  BY <1>1
<1> DEFINE r == Push(s2, z)
<1> HIDE DEF r
<1>5. /\ r \in Seq(S) /\ Len(r) = Len(s) + 3 /\ r[Len(s) + 3] = z
      /\ r[Len(s) + 1] = x /\ r[Len(s) + 2] = y
      /\ \A i \in 1..Len(s) : r[i] = s[i]
  BY <1>1, <1>2, <1>3, <1>4 DEF r
<1> QED
  BY <1>5 DEF r, s2, s1, ThreeOn

\* A metamethod is called or has returned: nothing else of the frame changes.
LEMMA MetaFrame ==
  ASSUME NEW b \in BOOLEAN, frame \in Frame, frame' = [frame EXCEPT !.meta = b]
  PROVE  /\ frame' \in Frame /\ frame'.meta = b
         /\ frame'.name = frame.name /\ frame'.fns = frame.fns /\ frame'.all = frame.all
         /\ frame'.nup = frame.nup /\ frame'.ret = frame.ret /\ frame'.below = frame.below
         /\ frame'.ups = frame.ups
BY DEF Frame

\* From the look-up of the global on, when its metamethod is over.
LEMMA SameFrame ==
  ASSUME HostInv, frame' = [frame EXCEPT !.meta = FALSE], pc = "get" \/ pc = "set",
         pc' \in {"set", "function"}
  PROVE  /\ frame' \in Frame /\ FrameInv' /\ MetaInv' /\ Base' = Base /\ Done' = 0
         /\ frame'.name = frame.name /\ frame'.nup = frame.nup /\ frame'.below = frame.below
         /\ frame'.ups = frame.ups
<1>0. /\ frame' \in Frame /\ ~ frame'.meta
      /\ frame'.name = frame.name /\ frame'.fns = frame.fns /\ frame'.all = frame.all
      /\ frame'.nup = frame.nup /\ frame'.ret = frame.ret /\ frame'.below = frame.below
      /\ frame'.ups = frame.ups
  BY Shapes, MetaFrame
<1>1. /\ frame.fns = frame.all /\ frame.name \in Name /\ Len(frame.all) \in Nat
  BY Shapes DEF HostInv, FrameInv
<1>2. Base' = Base /\ Done' = Done /\ Done = 0
  BY <1>0, <1>1 DEF Base, Done
<1>3. FrameInv' /\ MetaInv'
  BY <1>0, <1>1, <1>2 DEF HostInv, FrameInv, MetaInv
<1> QED
  BY <1>0, <1>2, <1>3

\* A metamethod is called: a script gets the new table, but no other table of
\* the stack, and nothing is moved or stored.
LEMMA LibCallInv ==
  ASSUME HostInv, LibCall, UNCHANGED calls
  PROVE  HostInv'
<1>1. /\ ~ frame.meta /\ pc \in {"get", "set", "function"} /\ pc' = pc
      /\ UNCHANGED <<stack, heap, alloc, udMeta, tampered, writes>>
      /\ frame' = [frame EXCEPT !.meta = TRUE]
  BY DEF LibCall
<1>2. /\ frame' \in Frame
      /\ frame'.name = frame.name /\ frame'.fns = frame.fns /\ frame'.all = frame.all
      /\ frame'.nup = frame.nup /\ frame'.ret = frame.ret /\ frame'.below = frame.below
      /\ frame'.ups = frame.ups
  BY <1>1, Shapes, MetaFrame
<1>3. Base' = Base /\ Lib' = Lib /\ Done' = Done
  BY <1>1, <1>2 DEF Base, Lib, Done
<1>4. \/ known' = known
      \/ known' = known \cup {stack[Len(stack)]} /\ stack[Len(stack)] \in alloc \ {Registry}
  <2>1. CASE pc = "set"
    <3>1. /\ stack[Len(stack)] \in Table /\ 1 \in 1..Len(stack) /\ Len(stack) \in 1..Len(stack)
          /\ Len(stack) + 1 - 1 = Len(stack) /\ stack \in Seq(Value)
      <4>1. /\ Len(stack) = Base + frame.nup + 3 /\ stack[Base + frame.nup + 1] \in Table
            /\ stack[Base + frame.nup + 3] = stack[Base + frame.nup + 1]
        BY <2>1 DEF HostInv, StackInv
      <4> QED
        BY <4>1, Shapes
    <3>2. At(stack, -1) = stack[Len(stack)]
      BY <3>1, AtFacts
    <3> QED
      BY <2>1, <3>1, <3>2 DEF LibCall, HostInv, AllocInv
  <2>2. CASE pc # "set"
    BY <2>2 DEF LibCall
  <2> QED
    BY <2>1, <2>2
<1>5. HeapPart'
  <2>1. HeapTypeOK'
    BY <1>1, <1>4, Shapes DEF HostInv, TypeOK, HeapTypeOK
  <2>2. AllocInv' /\ GlobalsInv'
    BY <1>1, <1>4 DEF HostInv, AllocInv, GlobalsInv
  <2> QED
    BY <2>1, <2>2 DEF HeapPart
<1>6. FrameInv' /\ StackInv' /\ SharedInv'
  BY <1>1, <1>2, <1>3 DEF HostInv, FrameInv, StackInv, SharedInv, LastSoFar
<1>7. MetaInv'
  <2>1. CASE pc \in {"get", "set"}
    BY <1>1, <2>1 DEF LibCall, MayCall, MetaInv
  <2>2. CASE pc = "function"
    <3>1. LibTarget = Lib
      <4>1. /\ Len(stack) = Base + 1 + frame.nup /\ stack \in Seq(Value)
            /\ Base \in Nat /\ frame.nup \in Nat
        BY <2>2, Shapes DEF HostInv, StackInv
      <4> DEFINE n == frame.nup + 1
      <4>2. n \in 1..Len(stack) /\ Len(stack) + 1 - n = Base + 1
        BY <4>1
      <4> HIDE DEF n
      <4>3. At(stack, -n) = stack[Base + 1]
        BY <4>1, <4>2, AtFacts
      <4> QED
        BY <4>3 DEF n, LibTarget, Lib
    <3>2. frame.fns # << >> /\ Lib \in tampered
      BY <2>2, <3>1 DEF LibCall, MayCall
    <3> QED
      BY <1>1, <1>2, <1>3, <2>2, <3>2 DEF MetaInv
  <2> QED
    BY <1>1, <2>1, <2>2
<1>8. BackLinkSound'
  BY <1>1 DEF HostInv, BackLinkSound
<1> QED
  BY <1>1, <1>2, <1>5, <1>6, <1>7, <1>8 DEF HeapPart, HostInv, TypeOK

LEMMA LibGetInv ==
  ASSUME HostInv, LibGet, UNCHANGED calls
  PROVE  HostInv'
<1>1. /\ pc = "get" /\ frame.name \in Name /\ frame.name # NoName
      /\ UNCHANGED <<heap, udMeta, known, tampered, writes>>
      /\ frame' = [frame EXCEPT !.meta = FALSE]
  BY Values DEF LibGet, HostInv, FrameInv
<1>5. PICK v \in Value :
        /\ v \in Table => v \in alloc \ {Registry}
        /\ Globals \notin tampered => v = heap[Globals][frame.name] /\ v # Globals
        /\ IF v = Nil
           THEN \E t \in Table \ alloc :
                  /\ alloc' = alloc \cup {t}
                  /\ stack' = Push_Value(Push(Push(stack, t), frame.name), -2)
                  /\ pc' = "set"
           ELSE /\ stack' = Insert(Push(stack, v), -(frame.nup + 1))
                /\ pc' = "function"
                /\ UNCHANGED alloc
  BY LibGetValue
<1>2. /\ stack \in Seq(Value) /\ Len(stack) = Base + frame.nup /\ Base \in Nat /\ frame.nup \in Nat
      /\ \A i \in 1..Base : stack[i] = frame.below[i]
      /\ \A i \in 1..frame.nup : stack[Base + i] = frame.ups[i]
  BY <1>1, Shapes DEF HostInv, StackInv
<1>3. CASE v = Nil
  <2>1. PICK t \in Table \ alloc : /\ stack' = Push(Push(Push(stack, t), frame.name), t)
                                   /\ pc' = "set" /\ alloc' = alloc \cup {t}
    BY <1>1, <1>3, <1>5, LibGetNewEffect
  <2> DEFINE k == frame.name
  <2>2. t \in Value /\ k \in Value /\ k \notin Table /\ t # Registry /\ t # Globals
    BY <1>1, Values DEF HostInv, AllocInv
  <2>3. /\ frame' \in Frame /\ FrameInv' /\ MetaInv' /\ Base' = Base
        /\ frame'.name = frame.name /\ frame'.nup = frame.nup /\ frame'.below = frame.below
        /\ frame'.ups = frame.ups
    BY <1>1, <2>1, SameFrame
  <2> HIDE DEF k
  <2>4. ThreeOn(Value, stack, t, k, t, Push(Push(Push(stack, t), k), t))
    BY <1>2, <2>2, PushThree
  <2>5. /\ stack' \in Seq(Value) /\ Len(stack') = Len(stack) + 3
        /\ \A i \in 1..Len(stack) : stack'[i] = stack[i]
        /\ stack'[Len(stack) + 1] = t /\ stack'[Len(stack) + 2] = k /\ stack'[Len(stack) + 3] = t
    BY <2>1, <2>4 DEF k, ThreeOn
  <2>6. HeapPart' /\ BackLinkSound'
    <3>1. alloc \subseteq alloc' /\ alloc' \subseteq Table /\ Fit(t, alloc') /\ Fit(k, alloc')
      BY <2>1, <2>2, Shapes DEF Fit
    <3>2. \A i \in 1..Len(stack) : Fit(stack[i], alloc')
      BY <2>1, FitFound DEF Fit
    <3>3. \A i \in 1..Len(stack') : \/ i \in 1..Len(stack)
                                    \/ i = Len(stack) + 1 \/ i = Len(stack) + 2 \/ i = Len(stack) + 3
      <4> DEFINE n == Len(stack)
      <4>1. n \in Nat /\ Len(stack') = n + 3
        BY <1>2, <2>5
      <4> HIDE DEF n
      <4>2. \A i \in 1..(n + 3) : i \in 1..n \/ i = n + 1 \/ i = n + 2 \/ i = n + 3
        BY <4>1
      <4> QED
        BY <4>1, <4>2 DEF n
    <3>4. \A i \in 1..Len(stack') : Fit(stack'[i], alloc')
      BY <2>5, <3>1, <3>2, <3>3
    <3> QED
      BY <1>1, <2>5, <3>1, <3>4, StackStep
  <2>7. StackInv'
    <3>1. \A i \in 1..Base' : stack'[i] = frame'.below[i]
      <4>1. \A i \in 1..Base : i \in 1..Len(stack)
        BY <1>2
      <4> QED
        BY <1>1, <1>2, <2>3, <2>5, <4>1
    <3>2. \A i \in 1..frame'.nup : stack'[Base' + i] = frame'.ups[i]
      <4>1. \A i \in 1..frame.nup : Base + i \in 1..Len(stack)
        BY <1>2
      <4> QED
        BY <1>1, <1>2, <2>3, <2>5, <4>1
    <3>3. /\ Len(stack') = Base' + frame'.nup + 3 /\ stack'[Base' + frame'.nup + 1] = t
          /\ stack'[Base' + frame'.nup + 2] = frame'.name /\ stack'[Base' + frame'.nup + 3] = t
      BY <1>1, <1>2, <2>3, <2>5 DEF k
    <3> QED
      BY <2>1, <3>1, <3>2, <3>3 DEF StackInv
  <2>8. SharedInv'
    BY <2>1 DEF SharedInv
  <2> QED
    BY <2>1, <2>3, <2>6, <2>7, <2>8 DEF HeapPart, HostInv, TypeOK
<1>4. CASE v # Nil
  <2>1. /\ stack' \in Seq(Value) /\ Len(stack') = Base + 1 + frame.nup
        /\ \A i \in 1..Base : stack'[i] = frame.below[i]
        /\ stack'[Base + 1] = v
        /\ \A i \in 1..frame.nup : stack'[Base + 1 + i] = frame.ups[i]
        /\ pc' = "function" /\ alloc' = alloc
    BY <1>1, <1>4, <1>5, LibGetFoundEffect
  <2>2. /\ frame' \in Frame /\ FrameInv' /\ MetaInv' /\ Base' = Base /\ Done' = 0
        /\ frame'.name = frame.name /\ frame'.nup = frame.nup /\ frame'.below = frame.below
        /\ frame'.ups = frame.ups
    BY <1>1, <2>1, SameFrame
  <2>3. HeapPart' /\ BackLinkSound'
    <3>1. \A i \in 1..Len(stack) : Fit(stack[i], alloc')
      BY <2>1, FitFound
    <3>2. Fit(v, alloc')
      BY <1>1, <1>5, <2>1 DEF Fit
    <3>3. \A i \in 1..Len(stack') : Fit(stack'[i], alloc')
      <4> SUFFICES ASSUME NEW i \in 1..Len(stack') PROVE Fit(stack'[i], alloc')
        OBVIOUS
      <4>1. CASE i \in 1..Base
        <5>1. i \in 1..Len(stack)
          BY <1>2, <4>1
        <5> QED
          BY <1>2, <2>1, <3>1, <4>1, <5>1
      <4>2. CASE i = Base + 1
        BY <2>1, <3>2, <4>2
      <4>3. CASE i \notin 1..Base /\ i # Base + 1
        <5> DEFINE j == i - (Base + 1)
        <5>1. j \in 1..frame.nup /\ Base + 1 + j = i /\ Base + j \in 1..Len(stack)
          BY <1>2, <2>1, <4>3
        <5> HIDE DEF j
        <5> QED
          BY <1>2, <2>1, <3>1, <5>1
      <4> QED
        BY <4>1, <4>2, <4>3
    <3> QED
      BY <1>1, <2>1, <3>3, Shapes, StackStep
  <2>4. StackInv'
    BY <1>1, <1>5, <2>1, <2>2 DEF StackInv, Lib
  <2>5. SharedInv'
    BY <2>2 DEF SharedInv
  <2> QED
    BY <2>1, <2>2, <2>3, <2>4, <2>5 DEF HeapPart, HostInv, TypeOK
<1> QED
  BY <1>3, <1>4

LEMMA LibSetInv ==
  ASSUME HostInv, LibSet, UNCHANGED calls
  PROVE  HostInv'
<1> DEFINE t == stack[Len(stack)]
<1>1. /\ pc = "set" /\ frame.name \in Name /\ frame.name # NoName
      /\ UNCHANGED <<alloc, udMeta, known, tampered, writes>>
      /\ frame' = [frame EXCEPT !.meta = FALSE]
  BY Values DEF LibSet, HostInv, FrameInv
<1>2. /\ stack \in Seq(Value) /\ Len(stack) = Base + frame.nup + 3 /\ Base \in Nat /\ frame.nup \in Nat
      /\ \A i \in 1..Base : stack[i] = frame.below[i]
      /\ \A i \in 1..frame.nup : stack[Base + i] = frame.ups[i]
  BY <1>1, Shapes DEF HostInv, StackInv
<1>3. /\ t \in Table
      /\ IF frame.meta THEN heap' = heap
                       ELSE heap' = Stored(heap, Globals, frame.name, t)
      /\ stack' \in Seq(Value) /\ Len(stack') = Base + 1 + frame.nup
      /\ \A i \in 1..Base : stack'[i] = frame.below[i]
      /\ stack'[Base + 1] = t
      /\ \A i \in 1..frame.nup : stack'[Base + 1 + i] = frame.ups[i]
      /\ pc' = "function"
  BY LibSetEffect
<1>4. Fit(t, alloc)
  BY <1>2, FitFound
<1> HIDE DEF t
<1>5. /\ heap' \in [Table -> [Key -> Value]]
      /\ heap'[Globals][frame.name] \in {t, heap[Globals][frame.name]}
      /\ Globals \notin tampered => heap'[Globals][frame.name] = t
      /\ \A t2 \in Table, k2 \in Key :
           t2 # Globals \/ k2 # frame.name => heap'[t2][k2] = heap[t2][k2]
  <2>1. Globals \in Table /\ frame.name \in Key /\ t \in Value /\ heap \in [Table -> [Key -> Value]]
    BY <1>1, <1>3, Values, Shapes
  <2> DEFINE k == frame.name
  <2> HIDE DEF k
  <2>2. /\ Stored(heap, Globals, k, t) \in [Table -> [Key -> Value]]
        /\ Stored(heap, Globals, k, t)[Globals][k] = t
        /\ \A t2 \in Table, k2 \in Key :
             t2 # Globals \/ k2 # k => Stored(heap, Globals, k, t)[t2][k2] = heap[t2][k2]
    BY <2>1, StoreFacts DEF k
  <2>3. Globals \notin tampered => ~ frame.meta
    BY <1>1 DEF HostInv, MetaInv
  <2> QED
    BY <1>3, <2>1, <2>2, <2>3 DEF k
<1>6. /\ frame' \in Frame /\ FrameInv' /\ MetaInv' /\ Base' = Base /\ Done' = 0
      /\ frame'.name = frame.name /\ frame'.nup = frame.nup /\ frame'.below = frame.below
      /\ frame'.ups = frame.ups
  BY <1>1, <1>3, SameFrame
<1>7. HeapPart'
  <2>1. \A t2 \in Table, k2 \in Key : heap'[t2][k2] = heap[t2][k2] \/ Fit(heap'[t2][k2], alloc')
    BY <1>1, <1>4, <1>5
  <2>2. \A i \in 1..Len(stack) : Fit(stack[i], alloc')
    BY <1>1, FitFound
  <2>3. \A i \in 1..Len(stack') : Fit(stack'[i], alloc')
    <3> SUFFICES ASSUME NEW i \in 1..Len(stack') PROVE Fit(stack'[i], alloc')
      OBVIOUS
    <3>1. CASE i \in 1..Base
      <4>1. i \in 1..Len(stack)
        BY <1>2, <3>1
      <4> QED
        BY <1>2, <1>3, <2>2, <3>1, <4>1
    <3>2. CASE i = Base + 1
      BY <1>1, <1>3, <1>4, <3>2
    <3>3. CASE i \notin 1..Base /\ i # Base + 1
      <4> DEFINE j == i - (Base + 1)
      <4>1. j \in 1..frame.nup /\ Base + 1 + j = i /\ Base + j \in 1..Len(stack)
        BY <1>2, <1>3, <3>3
      <4> HIDE DEF j
      <4> QED
        BY <1>2, <1>3, <2>2, <4>1
    <3> QED
      BY <3>1, <3>2, <3>3
  <2> QED
    BY <1>1, <1>3, <1>5, <2>1, <2>3, Shapes, HeapStep
<1>8. BackLinkSound'
  BY <1>5, Values DEF HostInv, BackLinkSound
<1>9. StackInv'
  BY <1>1, <1>3, <1>5, <1>6 DEF StackInv, Lib
<1>10. SharedInv'
  BY <1>6 DEF SharedInv
<1> QED
  BY <1>3, <1>6, <1>7, <1>8, <1>9, <1>10 DEF HeapPart, HostInv, TypeOK

LEMMA LibFunctionInv ==
  ASSUME HostInv, LibFunction, UNCHANGED calls
  PROVE  HostInv'
<1> DEFINE f == Head(frame.fns)
           k == f.name
           v == [fn |-> f.func, up |-> frame.ups]
<1>1. /\ pc = "function" /\ pc' = "function" /\ frame.fns # << >>
      /\ UNCHANGED <<alloc, udMeta, known, tampered, writes>>
      /\ frame' = [frame EXCEPT !.fns = Tail(frame.fns), !.meta = FALSE]
  BY DEF LibFunction
<1>2. /\ f \in Register_t /\ stack' = stack
      /\ IF frame.meta THEN heap' = heap
                       ELSE Lib \in Table /\ heap' = Stored(heap, Lib, k, v)
  BY LibFunctionEffect
<1>3. /\ stack \in Seq(Value) /\ heap \in [Table -> [Key -> Value]] /\ frame \in Frame
      /\ frame.fns \in Seq(Register_t) /\ frame.all \in Seq(Register_t)
      /\ frame.ups \in Seq(UpValue) /\ Base \in Nat /\ frame.nup \in Nat
  BY Shapes
<1>4. f.name \in Name /\ f.func \in Func
  BY <1>2 DEF Register_t
<1>5. v \in Closure /\ v.up = frame.ups /\ v \notin Table \cup {Nil} /\ v \in Value
  <2>1. [fn |-> f.func, up |-> frame.ups] \in Closure
        /\ [fn |-> f.func, up |-> frame.ups].up = frame.ups
        /\ [fn |-> f.func, up |-> frame.ups] \notin Table \cup {Nil}
    BY <1>3, <1>4, ClosureFacts
  <2> QED
    BY <2>1, Values
<1>6. /\ Len(stack) = Base + 1 + frame.nup /\ Base + 1 \in 1..Len(stack)
      /\ Lib \in Table => Lib \in alloc \ {Registry} /\ (Globals \notin tampered => Lib # Globals)
  <2>1. Len(stack) = Base + 1 + frame.nup
    BY <1>1 DEF HostInv, StackInv
  <2>2. Base + 1 \in 1..Len(stack)
    BY <1>3, <2>1
  <2>3. Fit(Lib, alloc)
    BY <2>2, FitFound DEF Lib
  <2> QED
    BY <1>2, <2>1, <2>2, <2>3 DEF Fit
<1>7. /\ frame'.fns = Tail(frame.fns) /\ frame'.all = frame.all /\ frame'.name = frame.name
      /\ frame'.nup = frame.nup /\ frame'.ret = frame.ret /\ frame'.below = frame.below
      /\ frame'.ups = frame.ups /\ ~ frame'.meta
  BY <1>1, <1>3 DEF Frame
<1>8. /\ Tail(frame.fns) \in Seq(Register_t) /\ Len(frame.fns) \in Nat \ {0}
      /\ Len(Tail(frame.fns)) = Len(frame.fns) - 1
      /\ \A i \in 1..(Len(frame.fns) - 1) : Tail(frame.fns)[i] = frame.fns[i + 1]
      /\ f = frame.fns[1] /\ Len(frame.all) \in Nat
  BY <1>1, <1>3
<1>9. frame' \in Frame
  BY <1>1, <1>3, <1>8 DEF Frame
<1>10. Base' = Base /\ Lib' = Lib /\ Done' = Done + 1 /\ Done \in Nat /\ Len(frame.fns) <= Len(frame.all)
       /\ Done = Len(frame.all) - Len(frame.fns)
  <2>1. Len(frame.fns) <= Len(frame.all)
    BY DEF HostInv, FrameInv
  <2>2. Done' = Len(frame.all) - (Len(frame.fns) - 1) /\ Done = Len(frame.all) - Len(frame.fns)
    BY <1>7, <1>8 DEF Done
  <2> DEFINE a == Len(frame.all)
             b == Len(frame.fns)
  <2>3. a \in Nat /\ b \in Nat /\ b <= a
    BY <1>8, <2>1
  <2> HIDE DEF a, b
  <2>4. a - (b - 1) = (a - b) + 1 /\ a - b \in Nat
    BY <2>3
  <2> QED
    BY <1>2, <1>7, <2>1, <2>2, <2>4 DEF a, b, Base, Lib
<1> HIDE DEF f, v, k
<1>11. \A i \in 1..Len(frame.fns) : frame.fns[i] = frame.all[Done + i]
  BY DEF HostInv, FrameInv
<1>12. frame.all[Done + 1] = f
  <2>1. 1 \in 1..Len(frame.fns)
    BY <1>8
  <2> QED
    BY <1>8, <1>11, <2>1
<1>13. FrameInv'
  <2>1. Len(frame'.fns) <= Len(frame'.all)
    BY <1>7, <1>8, <1>10
  <2>2. \A i \in 1..Len(frame'.fns) : frame'.fns[i] = frame'.all[Done' + i]
    <3> SUFFICES ASSUME NEW i \in 1..(Len(frame.fns) - 1)
                 PROVE  Tail(frame.fns)[i] = frame.all[Done + 1 + i]
      BY <1>7, <1>8, <1>10
    <3> DEFINE a == Done
               b == Len(frame.fns)
    <3>2. a \in Nat /\ b \in Nat /\ i \in 1..(b - 1)
      BY <1>8, <1>10
    <3> HIDE DEF a, b
    <3>3. i + 1 \in 1..b /\ a + (i + 1) = a + 1 + i
      BY <3>2
    <3>1. i + 1 \in 1..Len(frame.fns) /\ Done + (i + 1) = Done + 1 + i
      BY <3>3 DEF a, b
    <3> QED
      BY <1>8, <1>11, <3>1
  <2>3. frame'.ret = "idle" /\ frame'.ups \in Seq(UpValue) /\ Len(frame'.ups) = frame'.nup
    BY <1>7 DEF HostInv, FrameInv
  <2> QED
    BY <1>1, <2>1, <2>2, <2>3 DEF FrameInv
<1>14. /\ heap' \in [Table -> [Key -> Value]]
       /\ frame.meta => heap' = heap
       /\ ~ frame.meta => Lib \in Table /\ heap'[Lib][k] = v
       /\ \A t2 \in Table, k2 \in Key : t2 # Lib \/ k2 # k => heap'[t2][k2] = heap[t2][k2]
  <2> SUFFICES ASSUME ~ frame.meta
               PROVE  /\ heap' \in [Table -> [Key -> Value]]
                      /\ Lib \in Table /\ heap'[Lib][k] = v
                      /\ \A t2 \in Table, k2 \in Key :
                           t2 # Lib \/ k2 # k => heap'[t2][k2] = heap[t2][k2]
    BY <1>2, <1>3
  <2>1. Lib \in Table /\ k \in Key /\ v \in Value
    BY <1>2, <1>4, <1>5, Values DEF k
  <2> DEFINE t == Lib
  <2>3. t \in Table /\ k \in Key /\ v \in Value /\ heap \in [Table -> [Key -> Value]]
    BY <1>3, <2>1
  <2> HIDE DEF t
  <2>2. /\ Stored(heap, t, k, v) \in [Table -> [Key -> Value]]
        /\ Stored(heap, t, k, v)[t][k] = v
        /\ \A t2 \in Table, k2 \in Key :
             t2 # t \/ k2 # k => Stored(heap, t, k, v)[t2][k2] = heap[t2][k2]
    BY <2>3, StoreFacts
  <2> QED
    BY <1>2, <2>2 DEF t
<1>15. HeapPart'
  <2>1. Fit(v, alloc')
    BY <1>5 DEF Fit
  <2>2. \A t2 \in Table, k2 \in Key : heap'[t2][k2] = heap[t2][k2] \/ Fit(heap'[t2][k2], alloc')
    BY <1>14, <2>1
  <2>3. /\ stack' \in Seq(Value) /\ alloc \subseteq alloc' /\ alloc' \subseteq Table
        /\ \A i \in 1..Len(stack') : Fit(stack'[i], alloc')
    BY <1>1, <1>2, Shapes, FitFound
  <2> QED
    BY <1>1, <1>14, <2>2, <2>3, HeapStep
<1>16. BackLinkSound'
  <2>1. \A k2 \in Key : heap'[Registry][k2] = heap[Registry][k2]
    BY <1>6, <1>14, Values
  <2> QED
    BY <2>1, Values DEF HostInv, BackLinkSound
<1>17. StackInv'
  <2>1. frame.name # NoName /\ Globals \notin tampered =>
          frame.name \in Name /\ Lib = heap[Globals][frame.name]
    BY <1>1 DEF HostInv, StackInv
  <2>2. frame'.name # NoName /\ Globals \notin tampered' =>
          frame'.name \in Name /\ Lib' = heap'[Globals][frame'.name]
    BY <1>1, <1>6, <1>7, <1>10, <1>14, <2>1, Values
  <2>3. /\ \A i \in 1..Base' : stack'[i] = frame'.below[i]
        /\ Len(stack') = Base' + 1 + frame'.nup
        /\ \A i \in 1..frame'.nup : stack'[Base' + 1 + i] = frame'.ups[i]
    BY <1>1, <1>2, <1>7, <1>10 DEF HostInv, StackInv
  <2> QED
    BY <1>1, <2>2, <2>3 DEF StackInv
<1>18. SharedInv'
  <2> SUFFICES ASSUME Lib \in Table \ tampered, NEW i \in 1..(Done + 1), LastSoFar(i)'
               PROVE  heap'[Lib][frame.all[i].name] = [fn |-> frame.all[i].func, up |-> frame.ups]
    BY <1>1, <1>7, <1>10 DEF SharedInv
  <2>0. ~ frame.meta
    BY <1>1 DEF HostInv, MetaInv
  <2>3. \A j \in 1..(Done + 1) : frame.all[j].name = frame.all[i].name => j <= i
    BY <1>7, <1>10 DEF LastSoFar
  <2>1. CASE i = Done + 1
    <3>1. frame.all[i].name = k /\ v = [fn |-> frame.all[i].func, up |-> frame.ups]
      BY <1>12, <2>1 DEF k, v, f
    <3> QED
      BY <1>14, <2>0, <3>1
  <2>2. CASE i # Done + 1
    <3>2. i \in 1..Done /\ i \in 1..Len(frame.all) /\ Done + 1 \in 1..(Done + 1) /\ ~ (Done + 1 <= i)
      BY <1>8, <1>10, <2>2
    <3>1. frame.all[i].name # k
      BY <1>12, <2>3, <3>2 DEF k
    <3>3. frame.all[i].name \in Key
      <4>1. frame.all[i] \in Register_t
        BY <1>3, <3>2
      <4> QED
        BY <4>1, Values DEF Register_t
    <3>5. LastSoFar(i)
      <4>1. \A j \in 1..Done : j \in 1..(Done + 1)
        BY <1>10
      <4> QED
        BY <2>3, <4>1 DEF LastSoFar
    <3>4. heap[Lib][frame.all[i].name] = [fn |-> frame.all[i].func, up |-> frame.ups]
      BY <1>1, <3>2, <3>5 DEF HostInv, SharedInv
    <3> QED
      BY <1>14, <3>1, <3>3, <3>4
  <2> QED
    BY <2>1, <2>2
<1>19. MetaInv'
  BY <1>7 DEF MetaInv
<1> QED
  BY <1>1, <1>9, <1>13, <1>15, <1>16, <1>17, <1>18, <1>19 DEF HeapPart, HostInv, TypeOK

LEMMA LibReturnInv ==
  ASSUME HostInv, LibReturn, UNCHANGED calls
  PROVE  HostInv'
<1>1. /\ pc = "function" /\ pc' = "idle" /\ frame' = NoFrame
      /\ UNCHANGED <<heap, alloc, udMeta, known, tampered, writes>>
  BY DEF LibReturn, HostInv, FrameInv
<1>2. /\ stack' \in Seq(Value) /\ Len(stack') = Base + 1
      /\ \A i \in 1..(Base + 1) : stack'[i] = stack[i]
  BY LibReturnEffect
<1>3. \A i \in 1..(Base + 1) : i \in 1..Len(stack)
  <2>1. Len(stack) = Base + 1 + frame.nup /\ Base \in Nat /\ frame.nup \in Nat
    BY <1>1, Shapes DEF HostInv, StackInv
  <2> QED
    BY <2>1
<1>4. \A i \in 1..Len(stack') : Fit(stack'[i], alloc')
  BY <1>1, <1>2, <1>3, FitFound
<1>5. HeapPart' /\ BackLinkSound'
  BY <1>1, <1>2, <1>4, Shapes, StackStep
<1> QED
  BY <1>1, <1>5, IdleRun DEF HeapPart, RunPart, HostInv, TypeOK

LEMMA NmtFoundInv ==
  ASSUME HostInv, NmtFound, UNCHANGED calls
  PROVE  HostInv'
<1> DEFINE v == heap[Registry][frame.name]
<1>1. /\ pc' = "idle" /\ frame' = NoFrame /\ stack' = Push(stack, v) /\ frame.name \in Name
      /\ UNCHANGED <<heap, alloc, udMeta, known, tampered, writes>>
  BY DEF NmtFound, HostInv, FrameInv
<1>2. v \in Value /\ Fit(v, alloc')
  BY <1>1, Values, Shapes, FitFound
<1> HIDE DEF v
<1>3. stack' \in Seq(Value) /\ \A i \in 1..Len(stack') : Fit(stack'[i], alloc')
  BY <1>1, <1>2, PushFit
<1>4. HeapPart' /\ BackLinkSound'
  BY <1>1, <1>3, Shapes, StackStep
<1> QED
  BY <1>1, <1>4, IdleRun DEF HeapPart, RunPart, HostInv, TypeOK

LEMMA NmtCreateInv ==
  ASSUME HostInv, NmtCreate, UNCHANGED calls
  PROVE  HostInv'
<1> DEFINE k == frame.name
<1>1. /\ pc = "metatable" /\ pc' = "link" /\ k \in Name /\ heap[Registry][k] = Nil
      /\ UNCHANGED <<udMeta, known, tampered, writes, frame>>
  BY DEF NmtCreate, HostInv, FrameInv
<1>2. PICK t \in Table \ alloc : /\ alloc' = alloc \cup {t} /\ heap' = Stored(heap, Registry, k, t)
                                 /\ stack' = Push(stack, t)
  BY NmtCreateEffect
<1>3. frame' \in Frame /\ FrameInv' /\ MetaInv'
  BY <1>1 DEF HostInv, TypeOK, FrameInv, MetaInv, Done
<1>4. t \in Value /\ Fit(t, alloc') /\ alloc \subseteq alloc' /\ alloc' \subseteq Table
  BY <1>2, Values, Shapes DEF HostInv, AllocInv, Fit
<1> HIDE DEF k
<1>5. /\ heap' \in [Table -> [Key -> Value]] /\ heap'[Registry][k] = t
      /\ \A t2 \in Table, k2 \in Key : t2 # Registry \/ k2 # k => heap'[t2][k2] = heap[t2][k2]
  <2>1. Registry \in Table /\ k \in Key /\ t \in Value /\ heap \in [Table -> [Key -> Value]]
    BY <1>1, <1>4, Values, Shapes
  <2>2. /\ Stored(heap, Registry, k, t) \in [Table -> [Key -> Value]]
        /\ Stored(heap, Registry, k, t)[Registry][k] = t
        /\ \A t2 \in Table, k2 \in Key :
             t2 # Registry \/ k2 # k => Stored(heap, Registry, k, t)[t2][k2] = heap[t2][k2]
    BY <2>1, StoreFacts
  <2> QED
    BY <1>2, <2>2
<1>6. stack' \in Seq(Value) /\ \A i \in 1..Len(stack') : Fit(stack'[i], alloc')
  BY <1>2, <1>4, PushFit
<1>7. HeapPart'
  <2>1. \A t2 \in Table, k2 \in Key : heap'[t2][k2] = heap[t2][k2] \/ Fit(heap'[t2][k2], alloc')
    BY <1>4, <1>5
  <2> QED
    BY <1>1, <1>4, <1>5, <1>6, <2>1, HeapStep
<1>8. BackLinkSound'
  <2> SUFFICES ASSUME NEW m \in Table, heap'[Registry][m] # Nil
               PROVE  heap'[Registry][m] \in Name /\ heap'[Registry][heap'[Registry][m]] = m
    BY DEF BackLinkSound
  <2>1. m # k /\ heap'[Registry][m] = heap[Registry][m]
    BY <1>1, <1>5, Values
  <2>2. heap[Registry][m] \in Name /\ heap[Registry][heap[Registry][m]] = m
    BY <2>1 DEF HostInv, BackLinkSound
  <2>3. heap[Registry][m] # k
    BY <1>1, <2>2, Values
  <2> QED
    BY <1>5, <2>1, <2>2, <2>3, Values
<1>9. StackInv'
  <2>1. stack' # << >> /\ stack'[Len(stack')] = t
    <3>1. stack \in Seq(Value) /\ Len(stack) \in Nat
      BY Shapes
    <3>2. Len(stack') = Len(stack) + 1 /\ stack'[Len(stack) + 1] = t
      BY <1>2, <1>4, <3>1 DEF Push
    <3> QED
      BY <1>2, <3>1, <3>2 DEF Push
  <2> QED
    BY <1>1, <1>5, <2>1 DEF StackInv, k
<1>10. SharedInv'
  BY <1>1 DEF SharedInv
<1> QED
  BY <1>1, <1>3, <1>7, <1>8, <1>9, <1>10 DEF HeapPart, HostInv, TypeOK

LEMMA NmtLinkInv ==
  ASSUME HostInv, NmtLink, UNCHANGED calls
  PROVE  HostInv'
<1> DEFINE k == frame.name
           m == stack[Len(stack)]
<1>1. /\ pc = "link" /\ pc' = "idle" /\ frame' = NoFrame /\ k \in Name
      /\ stack # << >> /\ m \in Table /\ heap[Registry][k] = m
      /\ UNCHANGED <<alloc, udMeta, known, tampered, writes>>
  BY DEF NmtLink, HostInv, FrameInv, StackInv
<1>2. heap' = Stored(heap, Registry, m, k) /\ stack' = stack
  BY NmtLinkEffect
<1> HIDE DEF k, m
<1>3. /\ heap' \in [Table -> [Key -> Value]] /\ heap'[Registry][m] = k
      /\ \A t2 \in Table, k2 \in Key : t2 # Registry \/ k2 # m => heap'[t2][k2] = heap[t2][k2]
  <2>1. Registry \in Table /\ m \in Key /\ k \in Value /\ heap \in [Table -> [Key -> Value]]
    BY <1>1, Values, Shapes
  <2>2. /\ Stored(heap, Registry, m, k) \in [Table -> [Key -> Value]]
        /\ Stored(heap, Registry, m, k)[Registry][m] = k
        /\ \A t2 \in Table, k2 \in Key :
             t2 # Registry \/ k2 # m => Stored(heap, Registry, m, k)[t2][k2] = heap[t2][k2]
    BY <2>1, StoreFacts
  <2> QED
    BY <1>2, <2>2
<1>4. HeapPart'
  <2>1. Fit(k, alloc')
    BY <1>1, Values DEF Fit
  <2>2. \A t2 \in Table, k2 \in Key : heap'[t2][k2] = heap[t2][k2] \/ Fit(heap'[t2][k2], alloc')
    BY <1>3, <2>1
  <2>3. /\ stack' \in Seq(Value) /\ alloc' \subseteq Table /\ alloc \subseteq alloc'
        /\ \A i \in 1..Len(stack') : Fit(stack'[i], alloc')
    BY <1>1, <1>2, Shapes, FitFound
  <2> QED
    BY <1>1, <1>3, <2>2, <2>3, HeapStep
<1>5. BackLinkSound'
  <2> SUFFICES ASSUME NEW t \in Table, heap'[Registry][t] # Nil
               PROVE  heap'[Registry][t] \in Name /\ heap'[Registry][heap'[Registry][t]] = t
    BY DEF BackLinkSound
  <2>1. CASE t = m
    BY <1>1, <1>3, <2>1, Values
  <2>2. CASE t # m
    <3>1. heap'[Registry][t] = heap[Registry][t]
      BY <1>3, <2>2, Values
    <3>2. heap[Registry][t] \in Name /\ heap[Registry][heap[Registry][t]] = t
      BY <3>1 DEF HostInv, BackLinkSound
    <3>3. heap[Registry][t] # m
      BY <1>1, <3>2, Values
    <3> QED
      BY <1>3, <3>1, <3>2, <3>3, Values
  <2> QED
    BY <2>1, <2>2
<1> QED
  BY <1>1, <1>4, <1>5, IdleRun DEF HeapPart, RunPart, HostInv, TypeOK

\* A script writes only to tables it marks, and never to the registry.
LEMMA ScriptEffect ==
  ASSUME HostInv, Script
  PROVE  /\ HeapPart' /\ stack' = stack /\ tampered \subseteq tampered'
         /\ \A k \in Key : heap'[Registry][k] = heap[Registry][k]
         /\ \A t \in Table \ tampered', k \in Key : heap'[t][k] = heap[t][k]
<1> DEFINE Goal == /\ HeapPart' /\ stack' = stack /\ tampered \subseteq tampered'
                   /\ \A k \in Key : heap'[Registry][k] = heap[Registry][k]
                   /\ \A t \in Table \ tampered', k \in Key : heap'[t][k] = heap[t][k]
<1>0. /\ HeapTypeOK /\ AllocInv /\ GlobalsInv /\ Registry \in Table /\ Globals \in Table
      /\ Name \subseteq Key /\ Registry # Globals
      /\ heap \in [Table -> [Key -> Value]] /\ known \subseteq Table
      /\ Nil \notin Table /\ Plain \notin Table
  BY Values, Shapes DEF HostInv, TypeOK
<1>1. CASE ScriptNewTable
  <2>1. PICK t \in Table \ alloc : /\ alloc' = alloc \cup {t} /\ known' = known \cup {t}
                                   /\ UNCHANGED <<stack, heap, udMeta, tampered, writes>>
    BY <1>1 DEF ScriptNewTable
  <2>2. HeapTypeOK' /\ GlobalsInv'
    BY <1>0, <2>1 DEF HeapTypeOK, GlobalsInv
  <2>3. AllocInv'
    BY <1>0, <2>1 DEF AllocInv
  <2> QED
    BY <2>1, <2>2, <2>3 DEF HeapPart
<1>2. \A v : (v \in Table => v \in alloc \ {Registry}) /\ Learn(v)
             /\ UNCHANGED <<stack, heap, alloc, udMeta, tampered, writes>> => Goal
  <2> SUFFICES ASSUME NEW v, v \in Table => v \in alloc \ {Registry}, Learn(v),
                      UNCHANGED <<stack, heap, alloc, udMeta, tampered, writes>>
               PROVE  Goal
    OBVIOUS
  <2>1. (known' = known \cup {v} /\ v \in Table) \/ known' = known
    BY DEF Learn
  <2>2. HeapTypeOK' /\ GlobalsInv' /\ AllocInv'
    BY <1>0, <2>1 DEF HeapTypeOK, GlobalsInv, AllocInv
  <2> QED
    BY <2>2 DEF HeapPart
<1>3. CASE ScriptRead
  <2>1. PICK t \in known, k \in Name :
          Learn(heap[t][k]) /\ UNCHANGED <<stack, heap, alloc, udMeta, tampered, writes>>
    BY <1>3 DEF ScriptRead
  <2>2. heap[t][k] \in Table => heap[t][k] \in alloc \ {Registry}
    BY <1>0, <2>1 DEF AllocInv
  <2> QED
    BY <1>2, <2>1, <2>2
<1>4. CASE ScriptGetMetatable
  <2>1. PICK u \in Userdata :
          /\ udMeta[u] \in Table
          /\ Learn(IF heap[udMeta[u]][Metatable] = Nil
                   THEN udMeta[u] ELSE heap[udMeta[u]][Metatable])
          /\ UNCHANGED <<stack, heap, alloc, udMeta, tampered, writes>>
    BY <1>4 DEF ScriptGetMetatable
  <2> QED
    BY <1>0, <2>1 DEF AllocInv
<1>5. CASE ScriptWrite
  <2>1. PICK t \in known, k \in ScriptKey, v \in ScriptValue :
          /\ writes' = writes + 1 /\ heap' = Stored(heap, t, k, v)
          /\ tampered' = tampered \cup {t}
          /\ UNCHANGED <<stack, alloc, udMeta, known>>
    BY <1>5 DEF ScriptWrite
  <2>2. /\ t \in Table /\ t # Registry /\ k \in Key /\ v \in Value
        /\ v \in Table => v \in alloc \ {Registry}
    BY <1>0, <2>1, Values, NameAssumption DEF AllocInv, ScriptValue
  <2>7. heap \in [Table -> [Key -> Value]] /\ t \in Table /\ k \in Key /\ v \in Value
    BY <1>0, <2>2
  <2>3. /\ heap' \in [Table -> [Key -> Value]] /\ heap'[t][k] = v
        /\ \A t2 \in Table, k2 \in Key : t2 # t \/ k2 # k => heap'[t2][k2] = heap[t2][k2]
    <3>1. /\ Stored(heap, t, k, v) \in [Table -> [Key -> Value]]
          /\ Stored(heap, t, k, v)[t][k] = v
          /\ \A t2 \in Table, k2 \in Key :
               t2 # t \/ k2 # k => Stored(heap, t, k, v)[t2][k2] = heap[t2][k2]
      BY <2>7, StoreFacts, SMTT(20)
    <3> QED
      BY <2>1, <3>1
  <2>4. HeapTypeOK'
    BY <1>0, <2>1, <2>2, <2>3 DEF HeapTypeOK
  <2>5. AllocInv'
    <3>1. \A t2 \in Table, k2 \in Key : heap'[t2][k2] \in Table => heap'[t2][k2] \in alloc \ {Registry}
      <4>1. \A t2 \in Table, k2 \in Key : heap'[t2][k2] = v \/ heap'[t2][k2] = heap[t2][k2]
        BY <2>3
      <4> QED
        BY <1>0, <2>2, <4>1 DEF AllocInv
    <3> QED
      BY <1>0, <2>1, <3>1 DEF AllocInv
  <2>6. GlobalsInv'
    BY <1>0, <2>1, <2>2, <2>3 DEF GlobalsInv
  <2> QED
    BY <1>0, <2>1, <2>2, <2>3, <2>4, <2>5, <2>6 DEF HeapPart
<1>6. CASE ScriptSetMetatable
  <2>1. PICK t \in known \cup {Plain} : /\ writes' = writes + 1 /\ tampered' = tampered \cup {t}
                                        /\ UNCHANGED <<stack, heap, alloc, udMeta, known>>
    BY <1>6 DEF ScriptSetMetatable
  <2>2. HeapTypeOK' /\ GlobalsInv' /\ AllocInv'
    BY <1>0, <2>1 DEF HeapTypeOK, GlobalsInv, AllocInv
  <2> QED
    BY <2>1, <2>2 DEF HeapPart
<1> QED
  BY <1>1, <1>3, <1>4, <1>5, <1>6 DEF Script

LEMMA ScriptTurnInv ==
  ASSUME HostInv, ScriptTurn, UNCHANGED calls
  PROVE  HostInv'
<1>1. /\ UNCHANGED <<pc, frame>> /\ pc \notin {"metatable", "link"}
      /\ HeapPart' /\ stack' = stack /\ tampered \subseteq tampered'
      /\ \A k \in Key : heap'[Registry][k] = heap[Registry][k]
      /\ \A t \in Table \ tampered', k \in Key : heap'[t][k] = heap[t][k]
  BY ScriptEffect DEF ScriptTurn, HostInv, MetaInv
<1>2. Base' = Base /\ Done' = Done /\ Lib' = Lib
  BY <1>1 DEF Base, Done, Lib
<1>3. FrameInv' /\ frame' \in Frame
  BY <1>1, <1>2 DEF HostInv, TypeOK, FrameInv
<1>4. StackInv'
  <2>1. ASSUME pc = "function", frame.name # NoName, Globals \notin tampered'
        PROVE  frame.name \in Name /\ Lib = heap'[Globals][frame.name]
    <3>1. frame.name \in Name /\ Lib = heap[Globals][frame.name]
      BY <1>1, <2>1 DEF HostInv, StackInv
    <3> QED
      BY <1>1, <2>1, <3>1, Values
  <2> QED
    BY <1>1, <1>2, <2>1 DEF HostInv, StackInv
<1>5. SharedInv'
  <2> SUFFICES ASSUME pc = "function", Lib \in Table \ tampered', NEW i \in 1..Done, LastSoFar(i)
               PROVE  heap'[Lib][frame.all[i].name] = [fn |-> frame.all[i].func, up |-> frame.ups]
    BY <1>1, <1>2 DEF SharedInv, LastSoFar
  <2>1. heap[Lib][frame.all[i].name] = [fn |-> frame.all[i].func, up |-> frame.ups]
    BY <1>1 DEF HostInv, SharedInv
  <2>2. frame.all[i].name \in Key
    <3>1. i \in 1..Len(frame.all)
      <4>1. Len(frame.all) \in Nat /\ Len(frame.fns) \in Nat
        BY Shapes
      <4> QED
        BY <4>1 DEF Done
    <3>2. frame.all[i] \in Register_t
      BY <3>1, Shapes
    <3> QED
      BY <3>2, Values DEF Register_t
  <2> QED
    BY <1>1, <2>1, <2>2
<1>6. BackLinkSound'
  BY <1>1, Values DEF HostInv, BackLinkSound
<1>7. MetaInv'
  BY <1>1, <1>2 DEF HostInv, MetaInv
<1> QED
  BY <1>1, <1>3, <1>4, <1>5, <1>6, <1>7 DEF HeapPart, HostInv, TypeOK

LEMMA StepInv ==
  ASSUME HostInv, [Next]_hostVars
  PROVE  HostInv'
<1>1. CASE HostPush
  BY <1>1, HostPushInv
<1>2. CASE HostOpen
  BY <1>2, HostOpenInv
<1>3. CASE HostFill
  BY <1>3, HostFillInv
<1>4. CASE HostNewMetatable
  BY <1>4, HostNewMetatableInv
<1>5. CASE LibStep /\ UNCHANGED calls
  BY <1>5, LibCallInv, LibGetInv, LibSetInv, LibFunctionInv, LibReturnInv DEF LibStep
<1>6. CASE NmtStep /\ UNCHANGED calls
  BY <1>6, NmtFoundInv, NmtCreateInv, NmtLinkInv DEF NmtStep
<1>7. CASE (LuaError \/ FunctionReturn) /\ UNCHANGED calls
  BY <1>7, EmptyInv
<1>8. CASE ScriptTurn /\ UNCHANGED calls
  BY <1>8, ScriptTurnInv
<1>9. CASE UNCHANGED hostVars
  <2>1. UNCHANGED <<stack, heap, alloc, udMeta, known, tampered, writes, pc, frame, calls>>
    BY <1>9 DEF hostVars, libVars
  <2>2. /\ stack' \in Seq(Value) /\ alloc' \subseteq Table
        /\ \A i \in 1..Len(stack') : Fit(stack'[i], alloc')
    BY <2>1, Shapes, FitFound
  <2>3. HeapPart' /\ BackLinkSound'
    BY <2>1, <2>2, StackStep
  <2>4. Base' = Base /\ Lib' = Lib /\ Done' = Done
    BY <2>1 DEF Base, Lib, Done
  <2>5. FrameInv'
    BY <2>1, <2>4 DEF HostInv, FrameInv
  <2>6. StackInv'
    BY <2>1, <2>4 DEF HostInv, StackInv
  <2>7. SharedInv'
    BY <2>1, <2>4 DEF HostInv, SharedInv, LastSoFar
  <2>8. MetaInv'
    BY <2>1, <2>4 DEF HostInv, MetaInv
  <2> QED
    BY <2>1, <2>3, <2>5, <2>6, <2>7, <2>8 DEF HeapPart, HostInv, TypeOK
<1> QED
  BY <1>1, <1>2, <1>3, <1>4, <1>5, <1>6, <1>7, <1>8, <1>9 DEF Next

-----------------------------------------------------------------------------
(* The theorems.                                                            *)

\* HostInv is inductive: no step of the host, the binding, a script or an
\* error leaves it.
THEOREM Invariance == Spec => []HostInv
BY InitInv, StepInv, PTL DEF Spec

\* The state of a host of Lua.Lib has its types.
THEOREM TypeCorrect == Spec => []TypeOK
<1>1. HostInv => TypeOK
  BY DEF HostInv
<1> QED
  BY Invariance, <1>1, PTL

\* Whatever interrupts New_Metatable, a table the registry names is registered
\* under that name.
THEOREM BackLinks == Spec => []BackLinkSound
<1>1. HostInv => BackLinkSound
  BY DEF HostInv
<1> QED
  BY Invariance, <1>1, PTL

\* Only the end of the loop ends Open_Library with a stack.
LEMMA OpenedEffect ==
  ASSUME HostInv, [Next]_hostVars, LibraryOpened
  PROVE  /\ stack' \in Seq(Value) /\ Len(stack') = Base + 1 /\ Base \in Nat
         /\ \A i \in 1..Base : stack'[i] = frame.below[i]
         /\ stack'[Len(stack')] = Lib
         /\ heap' = heap /\ pc = "function" /\ Done = Len(frame.all)
<1>1. pc = "function" /\ pc' = "idle" /\ stack' # << >>
  BY DEF LibraryOpened
<1>2. LibReturn
  BY <1>1 DEF Next, hostVars, libVars, HostPush, HostOpen, HostFill, HostNewMetatable, LibStep, NmtStep,
              LibCall, LibGet, LibSet, LibFunction, NmtFound, NmtCreate, NmtLink,
              LuaError, FunctionReturn, ScriptTurn
<1>3. /\ stack' \in Seq(Value) /\ Len(stack') = Base + 1
      /\ \A i \in 1..(Base + 1) : stack'[i] = stack[i]
  BY <1>2, LibReturnEffect
<1>4. Base \in Nat /\ \A i \in 1..Base : stack[i] = frame.below[i]
  BY <1>1, Shapes DEF HostInv, StackInv
<1>5. stack'[Len(stack')] = Lib
  BY <1>3, <1>4 DEF Lib
<1>6. heap' = heap /\ frame.fns = << >>
  BY <1>2 DEF LibReturn
<1>7. Done = Len(frame.all)
  <2>1. Len(frame.all) \in Nat /\ Len(frame.fns) = 0
    BY <1>6, Shapes
  <2> QED
    BY <2>1 DEF Done
<1> QED
  BY <1>1, <1>3, <1>4, <1>5, <1>6, <1>7

\* Open_Library leaves on the stack what the caller had under the upvalues,
\* and the library over it, for any num_up and any functions.
THEOREM Balanced == Spec => StackBalanced
<1> DEFINE A == LibraryOpened => /\ Len(stack') = Len(frame.below) + 1
                                 /\ SubSeq(stack', 1, Len(frame.below)) = frame.below
<1>1. ASSUME HostInv, [Next]_hostVars PROVE A
  <2> SUFFICES ASSUME LibraryOpened
               PROVE  /\ Len(stack') = Len(frame.below) + 1
                      /\ SubSeq(stack', 1, Len(frame.below)) = frame.below
    OBVIOUS
  <2>1. /\ stack' \in Seq(Value) /\ Len(stack') = Base + 1 /\ Base \in Nat
        /\ \A i \in 1..Base : stack'[i] = frame.below[i]
    BY <1>1, OpenedEffect
  <2>2. frame.below \in Seq(Value) /\ Len(frame.below) = Base
    BY <1>1, Shapes DEF Base
  <2> DEFINE s == stack'
             b == frame.below
             n == Base
  <2>3. /\ s \in Seq(Value) /\ Len(s) = n + 1 /\ n \in Nat /\ b \in Seq(Value) /\ Len(b) = n
        /\ \A i \in 1..n : s[i] = b[i]
    BY <2>1, <2>2
  <2> HIDE DEF s, b, n
  <2>4. SubSeq(s, 1, n) = [i \in 1..n |-> s[i]]
    BY <2>3
  <2>5. SubSeq(s, 1, n) = b
    BY <2>3, <2>4
  <2> QED
    BY <2>1, <2>2, <2>5 DEF s, b, n
<1> QED
  BY Invariance, <1>1, PTL DEF Spec, StackBalanced

\* Under each name the object holds the last function of the array for it, with
\* all the upvalues in their order: nothing but a script's write to the object,
\* or a metatable of a script, keeps a function out of it or replaces it.
THEOREM Shared == Spec => UpValuesShared
<1> DEFINE A == LibraryOpened =>
                  LET lib == stack'[Len(stack')]
                  IN  lib \in Table \ tampered =>
                        \A i \in LastOfName(frame.all) :
                          heap[lib][frame.all[i].name] = [fn |-> frame.all[i].func, up |-> frame.ups]
<1>1. ASSUME HostInv, [Next]_hostVars PROVE A
  <2> SUFFICES ASSUME LibraryOpened, stack'[Len(stack')] \in Table \ tampered,
                      NEW i \in LastOfName(frame.all)
               PROVE  heap[stack'[Len(stack')]][frame.all[i].name]
                        = [fn |-> frame.all[i].func, up |-> frame.ups]
    OBVIOUS
  <2>1. stack'[Len(stack')] = Lib /\ pc = "function" /\ Done = Len(frame.all)
    BY <1>1, OpenedEffect
  <2>2. DOMAIN frame.all = 1..Done
    BY <1>1, <2>1, Shapes
  <2>3. i \in 1..Done /\ LastSoFar(i)
    BY <2>2 DEF LastOfName, LastSoFar
  <2> QED
    BY <1>1, <2>1, <2>3 DEF HostInv, SharedInv
<1> QED
  BY Invariance, <1>1, PTL DEF Spec, UpValuesShared

\* The library is what the global of its name holds, as long as no script has
\* changed the globals or given them a metatable.
THEOREM GlobalLibrary == Spec => GlobalIsLibrary
<1> DEFINE A == LibraryOpened /\ frame.name # NoName /\ Globals \notin tampered =>
                  stack'[Len(stack')] = heap[Globals][frame.name]
<1>1. ASSUME HostInv, [Next]_hostVars PROVE A
  BY <1>1, OpenedEffect DEF HostInv, StackInv
<1> QED
  BY Invariance, <1>1, PTL DEF Spec, GlobalIsLibrary
=============================================================================
