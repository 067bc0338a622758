--------------------------- MODULE UserDataProofs ---------------------------
(***************************************************************************)
(* Invariance proofs for UserData, for any classes, tables, scripts and    *)
(* stacks.  The properties are not inductive: that no script holds the     *)
(* metatable of a class rests on what every table holds, on where the      *)
(* metatable is on the stack of an unfinished Register, and on no table    *)
(* being created twice.  UserDataInv says all of this.                     *)
(***************************************************************************)
EXTENDS UserData, LuaStackProofs

\* Where the metatable of the class being registered exists already.
Building ==
  \/ pc \in {"link", "created", "filled", "indexed"}
  \/ pc = "function" /\ frame.ret = "filled"

\* v is not the metatable of a class that is complete or being built.
Harmless(v) ==
  \A c \in Class \ failed : MetatableOf(c) # Nil => v # MetatableOf(c)

\* What is created is in alloc, and nothing refers to the registry.
AllocInv ==
  /\ Registry \in alloc
  /\ Globals \in known
  /\ known \subseteq alloc \ {Registry}
  /\ \A t \in Table, k \in Key :
       heap[t][k] \in Table => heap[t][k] \in alloc \ {Registry}
  /\ \A i \in 1..Len(stack) : stack[i] \in Table => stack[i] \in alloc \ {Registry}

\* Who has a metatable.
ClassInv ==
  /\ \A c \in Class : MetatableOf(c) \in Table \cup {Nil}
  /\ \A c, d \in Class : MetatableOf(c) = MetatableOf(d) /\ c # d => MetatableOf(c) = Nil
  /\ complete \cap failed = {}
  /\ \A c \in complete \cup failed : MetatableOf(c) # Nil
  /\ \A c \in Class : MetatableOf(c) # Nil => c \in complete \cup failed \/ (Building /\ c = class)

\* Neither a script nor a table other than the registry leads to a metatable.
HiddenInv ==
  \A c \in Class \ failed : MetatableOf(c) # Nil =>
    /\ MetatableOf(c) \notin known
    /\ \A t \in Table \ {Registry}, k \in Key : heap[t][k] # MetatableOf(c)

UserdataInv ==
  \A u \in Userdata : udMeta[u] # Nil =>
    udClass[u] \in Class /\ udMeta[u] = MetatableOf(udClass[u])

SealedInv ==
  \A c \in complete :
    /\ heap[MetatableOf(c)][Metatable] = heap[MetatableOf(c)][Index]
    /\ heap[MetatableOf(c)][Index] \notin {Nil, MetatableOf(c)}

\* The parameters of the subprogram that runs.
FrameInv ==
  /\ frame.nup = 0
  /\ pc # "idle" => class \in Class
  /\ pc \in {"get", "set", "metatable", "link"} => frame.name = class
  /\ pc \in {"get", "set"} => frame.ret = "opened"
  /\ pc \in {"metatable", "link"} => frame.ret = "created"
  /\ pc = "function" => frame.ret \in {"opened", "filled"}
  /\ pc = "function" /\ frame.ret = "filled" =>
       \A i \in DOMAIN frame.fns : frame.fns[i].name \notin {Index, Metatable}

\* What is on the stack while Register runs.
StackInv ==
  LET n == Len(stack)
  IN  /\ pc = "set" =>
           /\ n \in Nat /\ n >= 3
           /\ stack[n] \in Table /\ Harmless(stack[n])
           /\ stack[n - 1] = class /\ stack[n - 2] = stack[n]
      /\ pc \in {"opened", "metatable"} \/ (pc = "function" /\ frame.ret = "opened") =>
           n >= 1 /\ stack[n] # Nil /\ Harmless(stack[n])
      /\ Building =>
           /\ n >= 2
           /\ stack[n] = MetatableOf(class) /\ stack[n] # Nil
           /\ class \notin complete \cup failed
           /\ stack[n - 1] # Nil /\ Harmless(stack[n - 1])
      /\ pc = "indexed" => heap[MetatableOf(class)][Index] = stack[n - 1]

\* A metamethod runs inside Open_Library only where a script has put one, and
\* scripts put them only on what they know.
ScriptsInv ==
  /\ tampered \subseteq known \cup {Plain}
  /\ frame.meta =>
       /\ pc \in {"get", "set", "function"}
       /\ pc \in {"get", "set"} => Globals \in tampered
       /\ pc = "function" => stack[Len(stack)] \notin Table \ tampered

UserDataInv ==
  /\ TypeOK /\ AllocInv /\ ClassInv /\ HiddenInv /\ UserdataInv /\ SealedInv
  /\ FrameInv /\ StackInv /\ ScriptsInv

\* A step that neither replaces a metatable nor writes to a complete class's.
KeepsMetatables ==
  /\ \A c \in Class : MetatableOf(c) # Nil => MetatableOf(c)' = MetatableOf(c)
  /\ \A c \in complete : heap'[MetatableOf(c)] = heap[MetatableOf(c)]

-----------------------------------------------------------------------------
(* Values and stores.                                                       *)

LEMMA Values ==
  /\ Nil \in Value /\ Plain \in Value
  /\ Name \subseteq Value /\ Table \subseteq Value /\ Userdata \subseteq Value
  /\ Closure \subseteq Value
  /\ Name \subseteq Key /\ Table \subseteq Key
  /\ Index \in Name /\ Metatable \in Name /\ Index # Metatable
  /\ Class \subseteq Name /\ Index \notin Class /\ Metatable \notin Class
  /\ Registry \in Table /\ Globals \in Table /\ Registry # Globals
  /\ Nil \notin Table /\ Plain \notin Table
  /\ Name \cap Table = {} /\ Nil \notin Name
BY TableAssumption, NameAssumption, ClassAssumption, ValueAssumption DEF Value, Key

\* A C closure is neither a table nor nil.
LEMMA ClosureFacts ==
  ASSUME NEW f \in Func
  PROVE  /\ [fn |-> f, up |-> << >>] \in Closure
         /\ [fn |-> f, up |-> << >>] \notin Table \cup {Nil}
<1>1. [fn |-> f, up |-> << >>] \in Closure
  BY DEF Closure
<1> QED
  BY <1>1, ValueAssumption

\* A store changes one field of one table.
LEMMA StoreFacts ==
  ASSUME NEW h \in [Table -> [Key -> Value]],
         NEW t \in Table, NEW k \in Key, NEW v \in Value
  PROVE  /\ Stored(h, t, k, v) \in [Table -> [Key -> Value]]
         /\ Stored(h, t, k, v)[t][k] = v
         /\ \A t2 \in Table : t2 # t => Stored(h, t, k, v)[t2] = h[t2]
         /\ \A t2 \in Table, k2 \in Key :
              k2 # k => Stored(h, t, k, v)[t2][k2] = h[t2][k2]
BY DEF Stored

\* With no upvalue nothing is copied.
LEMMA NoCopies ==
  ASSUME NEW s, NEW i
  PROVE  PushCopies(s, i, 0) = s
<1> DEFINE rec(f) == [j \in 0..0 |-> IF j = 0 THEN s ELSE Push_Value(f[j - 1], i)]
           const  == [j \in 0..0 |-> s]
<1>1. const = rec(const)
  OBVIOUS
<1>2. (CHOOSE f : f = rec(f)) = rec(CHOOSE f : f = rec(f))
  BY <1>1
<1> QED
  BY <1>2 DEF PushCopies

-----------------------------------------------------------------------------
(* What the steps of Open_Library and New_Metatable do when there are no    *)
(* upvalues, told without the stack operations.                             *)

LEMMA LibGetEffect ==
  ASSUME UserDataInv, LibGet
  PROVE  \/ \E v \in Value :
              /\ v # Nil /\ Harmless(v) /\ (v \in Table => v \in alloc \ {Registry})
              /\ Globals \notin tampered => v = heap[Globals][class]
              /\ stack' = Push(stack, v)
              /\ pc' = "function"
              /\ alloc' = alloc
         \/ \E t \in Table \ alloc :
              /\ Globals \notin tampered => heap[Globals][class] = Nil
              /\ stack' = Push(Push(Push(stack, t), class), t)
              /\ pc' = "set"
              /\ alloc' = alloc \cup {t}
<1>1. /\ stack \in Seq(Value) /\ Len(stack) \in Nat /\ Table \subseteq Value
      /\ frame.nup = 0 /\ frame.name = class /\ class \in Value /\ class \in Key
      /\ -(frame.nup + 1) = -1 /\ pc = "get"
  BY Values DEF UserDataInv, TypeOK, HeapTypeOK, FrameInv, LibGet
<1>2. PICK v \in IF frame.meta THEN ScriptValue ELSE {heap[Globals][frame.name]} :
        IF v = Nil
        THEN \E t \in Table \ alloc :
               /\ alloc' = alloc \cup {t}
               /\ stack' = Push_Value(Push(Push(stack, t), frame.name), -2)
               /\ pc' = "set"
        ELSE /\ stack' = Insert(Push(stack, v), -(frame.nup + 1))
             /\ pc' = "function"
             /\ UNCHANGED alloc
  BY DEF LibGet
<1>3. /\ v \in Value /\ Harmless(v) /\ (v \in Table => v \in alloc \ {Registry})
      /\ Globals \notin tampered => v = heap[Globals][class]
  <2>1. CASE frame.meta
    <3>1. v \in known \cup {Nil, Plain} /\ known \subseteq Table /\ Globals \in tampered
      BY <1>1, <2>1 DEF ScriptValue, UserDataInv, TypeOK, HeapTypeOK, ScriptsInv
    <3>2. \A c \in Class : MetatableOf(c) # Nil => MetatableOf(c) \in Table
      BY DEF UserDataInv, ClassInv
    <3> QED
      BY <3>1, <3>2, Values DEF UserDataInv, AllocInv, HiddenInv, Harmless
  <2>2. CASE ~ frame.meta
    <3>1. v = heap[Globals][class] /\ v \in Value
      BY <1>1, <2>2, Values DEF UserDataInv, TypeOK, HeapTypeOK
    <3> QED
      BY <1>1, <3>1, Values DEF UserDataInv, AllocInv, HiddenInv, Harmless
  <2> QED
    BY <2>1, <2>2
<1>4. CASE v # Nil
  <2> DEFINE s == Push(stack, v)
  <2>1. s \in Seq(Value) /\ s # << >>
    BY <1>1, <1>3, PushFacts DEF Push
  <2>2. Insert(s, -1) = s
    BY <2>1, InsertTop
  <2> QED
    BY <1>1, <1>2, <1>3, <1>4, <2>2
<1>5. CASE v = Nil
  <2>1. PICK t \in Table \ alloc :
          /\ alloc' = alloc \cup {t}
          /\ stack' = Push_Value(Push(Push(stack, t), class), -2)
          /\ pc' = "set"
    BY <1>1, <1>2, <1>5
  <2>2. Push_Value(Push(Push(stack, t), class), -2) = Push(Push(Push(stack, t), class), t)
    BY <1>1, TopTwo
  <2> QED
    BY <1>3, <1>5, <2>1, <2>2
<1> QED
  BY <1>4, <1>5

\* What holds of the stack, the heap and the frame in every state, in one place.
LEMMA Shapes ==
  ASSUME UserDataInv
  PROVE  /\ stack \in Seq(Value) /\ Len(stack) \in Nat
         /\ heap \in [Table -> [Key -> Value]] /\ frame \in Frame
         /\ frame.nup = 0 /\ -(frame.nup + 1) = -1 /\ -(frame.nup + 3) = -3
         /\ \A i \in 1..Len(stack) : stack[i] \in Value
BY DEF UserDataInv, TypeOK, HeapTypeOK, FrameInv

LEMMA LibSetEffect ==
  ASSUME UserDataInv, LibSet
  PROVE  /\ IF frame.meta THEN heap' = heap
            ELSE heap' = Stored(heap, Globals, class, stack[Len(stack)])
         /\ \E s \in Seq(Value) :
              /\ Len(s) = Len(stack) - 2 /\ s # << >>
              /\ s[Len(s)] = stack[Len(stack)]
              /\ \A i \in 1..Len(s) : s[i] = stack[i]
              /\ stack' = s
         /\ pc' = "function"
<1>1. /\ stack \in Seq(Value) /\ Len(stack) \in Nat /\ Len(stack) >= 3
      /\ -(frame.nup + 1) = -1
      /\ stack[Len(stack) - 1] = class /\ stack[Len(stack) - 2] = stack[Len(stack)]
  BY Shapes DEF UserDataInv, StackInv, LibSet
<1>2. At(stack, -2) = class /\ At(stack, -1) = stack[Len(stack)]
  BY <1>1 DEF At, Absolute
<1> DEFINE s == Pop(stack, 2)
<1>3. s = [k \in 1..(Len(stack) - 2) |-> stack[k]]
  BY <1>1 DEF Pop, Set_Top
<1>4. /\ s \in Seq(Value) /\ Len(s) = Len(stack) - 2 /\ s # << >>
      /\ \A i \in 1..Len(s) : s[i] = stack[i]
  <2>1. Len(stack) - 2 \in Nat /\ Len(stack) - 2 # 0 /\ 1..(Len(stack) - 2) \subseteq 1..Len(stack)
    BY <1>1
  <2>2. \A i \in 1..(Len(stack) - 2) : stack[i] \in Value
    BY <1>1, <2>1
  <2> DEFINE n == Len(stack) - 2
  <2>3. n \in Nat /\ n # 0 /\ s = [k \in 1..n |-> stack[k]] /\ \A i \in 1..n : stack[i] \in Value
    BY <1>3, <2>1, <2>2
  <2> HIDE DEF s, n
  <2>4. s \in Seq(Value) /\ Len(s) = n /\ \A i \in 1..n : s[i] = stack[i]
    BY <2>3
  <2> QED
    BY <2>3, <2>4 DEF n
<1> HIDE DEF s
<1>5. Insert(s, -1) = s
  BY <1>4, InsertTop
<1>6. /\ IF frame.meta THEN heap' = heap
         ELSE heap' = Stored(heap, Globals, class, stack[Len(stack)])
      /\ stack' = s /\ pc' = "function"
  BY <1>1, <1>2, <1>5 DEF LibSet, SetTable, s
<1>7. s[Len(s)] = stack[Len(stack)]
  BY <1>1, <1>4
<1> QED
  BY <1>4, <1>6, <1>7

\* A closure goes under the name of a function into the table on the top, unless
\* a metamethod has got it.
LEMMA LibFunctionEffect ==
  ASSUME UserDataInv, LibFunction, stack # << >>
  PROVE  LET target == stack[Len(stack)]
             f      == Head(frame.fns)
         IN  /\ f \in Register_t
             /\ IF frame.meta THEN heap' = heap
                ELSE /\ target \in Table
                     /\ heap' = Stored(heap, target, f.name, [fn |-> f.func, up |-> << >>])
             /\ stack' = stack
<1> DEFINE f  == Head(frame.fns)
           k  == f.name
           v  == [fn |-> f.func, up |-> << >>]
           s1 == Push(stack, k)
           s2 == Push(s1, v)
<1>1. stack \in Seq(Value) /\ frame.nup = 0
  BY Shapes
<1>2. f \in Register_t /\ k \in Value /\ f.func \in Func
  <2>1. frame.fns \in Seq(Register_t) /\ frame.fns # << >>
    BY Shapes DEF LibFunction, Frame
  <2>2. f \in Register_t
    BY <2>1
  <2> QED
    BY <2>2, Values DEF Register_t
<1>3. v \in Value
  BY <1>2, ClosureFacts, Values
<1> HIDE DEF f, k, v
<1>4. s1 \in Seq(Value) /\ Len(s1) \in Nat
  BY <1>1, <1>2, PushFacts
<1>5. PushCopies(s1, -(0 + 1), 0) = s1 /\ Pop(s1, 0) = s1
  BY <1>4, NoCopies, PopNone
<1>6. Top(s1, 0) = << >>
  <2>1. Len(s1) - 0 + 1 = Len(s1) + 1
    BY <1>4
  <2>2. SubSeq(s1, Len(s1) + 1, Len(s1)) = << >>
    BY <1>4
  <2> QED
    BY <2>1, <2>2 DEF Top
<1>7. /\ At(s2, -1) = v /\ At(s2, -2) = k /\ At(s2, -(0 + 3)) = stack[Len(stack)]
      /\ Pop(s2, 2) = stack
  <2>1. -(0 + 3) = -3
    OBVIOUS
  <2> QED
    BY <1>1, <1>2, <1>3, <2>1, TopTwo
<1> HIDE DEF s1
<1>8. /\ IF frame.meta THEN heap' = heap
         ELSE /\ At(s2, -(0 + 3)) \in Table
              /\ heap' = Stored(heap, At(s2, -(0 + 3)), At(s2, -2), At(s2, -1))
      /\ stack' = Pop(s2, 2)
  BY <1>1, <1>5, <1>6 DEF LibFunction, SetTable, s1, f, k, v
<1> QED
  BY <1>2, <1>7, <1>8 DEF f, k, v

LEMMA LibReturnEffect ==
  ASSUME UserDataInv, LibReturn
  PROVE  stack' = stack
BY Shapes, PopNone DEF LibReturn

LEMMA NmtCreateEffect ==
  ASSUME UserDataInv, NmtCreate
  PROVE  \E t \in Table \ alloc :
           /\ alloc' = alloc \cup {t}
           /\ heap' = Stored(heap, Registry, class, t)
           /\ stack' = Push(stack, t)
<1>1. /\ stack \in Seq(Value) /\ Table \subseteq Value
      /\ frame.name = class /\ class \in Value
  BY Shapes, Values DEF UserDataInv, FrameInv, NmtCreate
<1>2. PICK t \in Table \ alloc :
        LET s == Push_Value(Push(Push(stack, t), class), -2)
        IN  /\ alloc' = alloc \cup {t}
            /\ heap' = Stored(heap, Registry, At(s, -2), At(s, -1))
            /\ stack' = Pop(s, 2)
  BY <1>1 DEF NmtCreate
<1> DEFINE s1 == Push(stack, t)
<1>3. s1 \in Seq(Value)
  BY <1>1, PushFacts
<1>4. Push_Value(Push(s1, class), -2) = Push(Push(s1, class), t)
  BY <1>1, TopTwo
<1> HIDE DEF s1
<1>5. LET s == Push(Push(s1, class), t)
      IN  At(s, -1) = t /\ At(s, -2) = class /\ Pop(s, 2) = s1
  BY <1>1, <1>3, TopTwo
<1> QED
  BY <1>2, <1>4, <1>5 DEF s1

LEMMA NmtLinkEffect ==
  ASSUME UserDataInv, NmtLink
  PROVE  /\ heap' = Stored(heap, Registry, stack[Len(stack)], class)
         /\ stack' = stack
<1>1. /\ stack \in Seq(Value) /\ stack # << >>
      /\ frame.name = class /\ class \in Value
  <2>1. Len(stack) >= 2
    BY DEF UserDataInv, StackInv, Building, NmtLink
  <2> QED
    BY <2>1, Shapes, Values DEF UserDataInv, FrameInv, NmtLink
<1>2. Push_Value(stack, -1) = Push(stack, stack[Len(stack)]) /\ stack[Len(stack)] \in Value
  BY <1>1, PushTop
<1> DEFINE m == stack[Len(stack)]
<1>3. m \in Value
  BY <1>2
<1> HIDE DEF m
<1>4. LET s == Push(Push(stack, m), class)
      IN  /\ At(s, -1) = class /\ At(s, -2) = m
          /\ Pop(s, 2) = stack
  BY <1>1, <1>3, TopTwo
<1> QED
  BY <1>1, <1>2, <1>4 DEF NmtLink, m

\* Register's two fields: key k of the table on the top gets what is below it.
LEMMA FieldEffect ==
  ASSUME UserDataInv, NEW k \in Name, Len(stack) >= 2
  PROVE  LET s == FieldPushed(k)
         IN  /\ At(s, -3) = stack[Len(stack)]
             /\ At(s, -2) = k
             /\ At(s, -1) = stack[Len(stack) - 1]
             /\ Pop(s, 2) = stack
<1>1. stack \in Seq(Value) /\ stack # << >> /\ k \in Value
  BY Shapes, Values
<1>2. /\ FieldPushed(k) = Push(Push(stack, k), stack[Len(stack) - 1])
      /\ stack[Len(stack) - 1] \in Value
  BY <1>1, PushThird DEF FieldPushed
<1> DEFINE w == stack[Len(stack) - 1]
<1>3. w \in Value
  BY <1>2
<1> HIDE DEF w
<1>4. LET s == Push(Push(stack, k), w)
      IN  /\ At(s, -3) = stack[Len(stack)] /\ At(s, -2) = k /\ At(s, -1) = w
          /\ Pop(s, 2) = stack
  BY <1>1, <1>3, TopTwo
<1> QED
  BY <1>2, <1>4 DEF w

-----------------------------------------------------------------------------
(* The invariant holds initially, and every step preserves it.              *)

LEMMA NoFrameType == NoFrame \in Frame
<1>1. << >> \in Seq(Register_t) /\ << >> \in Seq(Value)
  OBVIOUS
<1> QED
  BY <1>1 DEF NoFrame, Frame

\* The parameters of Open_Library without upvalues.
LEMMA LibFrameType ==
  ASSUME stack \in Seq(Value), NEW name \in Name \cup {NoName},
         NEW fns \in Seq(Register_t), NEW ret \in {"opened", "filled"},
         name = NoName => stack # << >>
  PROVE  LibFrame(name, fns, 0, ret) \in Frame
<1>1. Len(stack) \in Nat /\ (stack # << >> => Len(stack) >= 1)
  OBVIOUS
<1>2. \A n \in 0..Len(stack) : SubSeq(stack, 1, Len(stack) - n) \in Seq(Value)
  BY <1>1
<1>3. SubSeq(stack, Len(stack) - 0 + 1, Len(stack)) \in Seq(Value)
  BY <1>1
<1>4. Below(stack, IF name = NoName THEN 0 + 1 ELSE 0) \in Seq(Value)
  BY <1>1, <1>2 DEF Below
<1>5. Top(stack, 0) \in Seq(Value)
  BY <1>3 DEF Top
<1> QED
  BY <1>4, <1>5 DEF LibFrame, Frame

\* The call or the return of a metamethod leaves the parameters as they are.
LEMMA MetaFrame ==
  ASSUME UserDataInv, NEW b \in BOOLEAN, frame' = [frame EXCEPT !.meta = b]
  PROVE  /\ frame' \in Frame /\ frame'.meta = b
         /\ frame'.name = frame.name /\ frame'.fns = frame.fns /\ frame'.all = frame.all
         /\ frame'.nup = frame.nup /\ frame'.ret = frame.ret
BY Shapes DEF Frame

\* A step of Open_Library or New_Metatable keeps or forgets the caller's stack.
LEMMA CallerType ==
  ASSUME UserDataInv, RegisterStep
  PROVE  caller' \in Seq(Value)
<1>1. caller \in Seq(Value) /\ << >> \in Seq(Value)
  BY DEF UserDataInv, TypeOK
<1> QED
  BY <1>1 DEF RegisterStep

\* Where no metamethod runs there is little to show of scripts.
LEMMA NoMetamethod ==
  ASSUME UserDataInv, ~ frame'.meta, UNCHANGED <<known, tampered>>
  PROVE  ScriptsInv'
BY DEF UserDataInv, ScriptsInv

LEMMA InitInv ==
  ASSUME Init
  PROVE  UserDataInv
<1> USE DEF Init, LibInit, HeapInit, EmptyTable
<1>1. TypeOK
  <2>1. heap \in [Table -> [Key -> Value]]
    BY Values
  <2> QED
    BY <2>1, NoFrameType, Values DEF TypeOK, HeapTypeOK
<1>2. \A c \in Class : MetatableOf(c) = Nil
  BY Values DEF MetatableOf
<1>3. ~ Building /\ frame.nup = 0
  BY DEF Building, NoFrame
<1>4. AllocInv
  <2>1. \A t \in Table, k \in Key : heap[t][k] = Nil
    OBVIOUS
  <2>2. \A i \in 1..Len(stack) : FALSE
    OBVIOUS
  <2>3. alloc = {Registry, Globals} /\ known = {Globals}
    OBVIOUS
  <2> HIDE DEF Init
  <2> QED
    BY <2>1, <2>2, <2>3, Values DEF AllocInv
<1>7. ClassInv /\ HiddenInv
  BY <1>2, <1>3 DEF ClassInv, HiddenInv
<1>5. UserdataInv /\ SealedInv
  BY DEF UserdataInv, SealedInv
<1>6. FrameInv /\ StackInv /\ ScriptsInv
  BY <1>3 DEF FrameInv, StackInv, ScriptsInv, NoFrame
<1> QED
  BY <1>1, <1>4, <1>5, <1>6, <1>7 DEF UserDataInv

\* When tables, userdata and what scripts know stay as they are, so do the
\* facts about them.
LEMMA QuietStep ==
  ASSUME UserDataInv, UNCHANGED <<heap, udMeta, known, udClass, complete, failed>>
  PROVE  /\ HiddenInv' /\ UserdataInv' /\ SealedInv'
         /\ \A c \in Class : MetatableOf(c)' = MetatableOf(c)
         /\ \A v : Harmless(v)' <=> Harmless(v)
         /\ /\ alloc \subseteq alloc'
            /\ \A i \in 1..Len(stack') : stack'[i] \in Table => stack'[i] \in alloc' \ {Registry}
            => AllocInv'
         /\ (Building => Building' /\ class' = class) => ClassInv'
<1>1. \A c : MetatableOf(c)' = MetatableOf(c)
  BY DEF MetatableOf
<1>2. \A v : Harmless(v)' <=> Harmless(v)
  BY <1>1 DEF Harmless
<1>3. HiddenInv' /\ UserdataInv' /\ SealedInv'
  BY <1>1 DEF UserDataInv, HiddenInv, UserdataInv, SealedInv
<1>4. ASSUME alloc \subseteq alloc',
             \A i \in 1..Len(stack') : stack'[i] \in Table => stack'[i] \in alloc' \ {Registry}
      PROVE  AllocInv'
  BY <1>4 DEF UserDataInv, AllocInv
<1>5. ASSUME Building => Building' /\ class' = class
      PROVE  ClassInv'
  BY <1>1, <1>5 DEF UserDataInv, ClassInv
<1> QED
  BY <1>1, <1>2, <1>3, <1>4, <1>5

\* The same when a harmless value goes into a table that is neither the
\* registry nor the metatable of a complete class.
LEMMA HarmlessStore ==
  ASSUME UserDataInv, UNCHANGED <<alloc, udMeta, known, udClass, failed>>,
         NEW t \in Table \ {Registry}, NEW k \in Key, NEW v \in Value,
         heap' = Stored(heap, t, k, v),
         Harmless(v), v \in Table => v \in alloc \ {Registry},
         \A c \in complete : t # MetatableOf(c)
  PROVE  /\ heap' \in [Table -> [Key -> Value]]
         /\ HiddenInv' /\ UserdataInv'
         /\ \A c \in Class : MetatableOf(c)' = MetatableOf(c)
         /\ \A w : Harmless(w)' <=> Harmless(w)
         /\ \A c \in complete : heap'[MetatableOf(c)] = heap[MetatableOf(c)]
         /\ complete' = complete => SealedInv'
         /\ (\A i \in 1..Len(stack') : stack'[i] \in Table => stack'[i] \in alloc \ {Registry})
            => AllocInv'
         /\ (Building => Building' /\ class' = class) /\ complete' = complete => ClassInv'
<1>1. /\ heap' \in [Table -> [Key -> Value]]
      /\ heap'[t][k] = v
      /\ \A t2 \in Table : t2 # t => heap'[t2] = heap[t2]
      /\ \A t2 \in Table, k2 \in Key : k2 # k => heap'[t2][k2] = heap[t2][k2]
  BY StoreFacts, Shapes
<1>2. \A c \in Class : MetatableOf(c)' = MetatableOf(c)
  BY <1>1, Values DEF MetatableOf
<1>3. \A w : Harmless(w)' <=> Harmless(w)
  BY <1>2 DEF Harmless
<1>4. HiddenInv'
  <2> SUFFICES ASSUME NEW c \in Class \ failed, MetatableOf(c) # Nil,
                      NEW t2 \in Table \ {Registry}, NEW k2 \in Key
               PROVE  MetatableOf(c) \notin known /\ heap'[t2][k2] # MetatableOf(c)
    BY <1>2 DEF HiddenInv
  <2>1. MetatableOf(c) \notin known /\ heap[t2][k2] # MetatableOf(c)
    BY DEF UserDataInv, HiddenInv
  <2>2. v # MetatableOf(c)
    BY DEF Harmless
  <2> QED
    BY <1>1, <2>1, <2>2
<1>5. UserdataInv'
  BY <1>2 DEF UserDataInv, UserdataInv
<1>6. \A c \in complete : heap'[MetatableOf(c)] = heap[MetatableOf(c)]
  BY <1>1 DEF UserDataInv, TypeOK, ClassInv
<1>7. complete' = complete => SealedInv'
  BY <1>2, <1>6 DEF UserDataInv, TypeOK, SealedInv
<1>8. ASSUME \A i \in 1..Len(stack') : stack'[i] \in Table => stack'[i] \in alloc \ {Registry}
      PROVE  AllocInv'
  <2>1. \A t2 \in Table, k2 \in Key : heap'[t2][k2] = v \/ heap'[t2][k2] = heap[t2][k2]
    BY <1>1
  <2> QED
    BY <1>8, <2>1 DEF UserDataInv, AllocInv
<1>9. ASSUME Building => Building' /\ class' = class, complete' = complete
      PROVE  ClassInv'
  BY <1>2, <1>9 DEF UserDataInv, TypeOK, ClassInv
<1> QED
  BY <1>1, <1>2, <1>3, <1>4, <1>5, <1>6, <1>7, <1>8, <1>9

LEMMA SameHeap ==
  ASSUME UNCHANGED heap
  PROVE  KeepsMetatables
BY DEF KeepsMetatables, MetatableOf

LEMMA RegisterInv ==
  ASSUME UserDataInv, NEW c \in Class, Register(c)
  PROVE  UserDataInv'
<1>1. /\ pc = "idle" /\ pc' = "get" /\ class' = c /\ frame' = LibFrame(c, Method_Table[c], 0, "opened")
      /\ UNCHANGED <<stack, heap, alloc, udMeta, known, tampered, writes, udClass, complete, failed>>
      /\ caller' = stack /\ stack \in Seq(Value)
  BY Values, NoNameAssumption, Shapes DEF Register, OpenLibrary
<1>2. frame'.name = c /\ frame'.nup = 0 /\ frame'.ret = "opened" /\ ~ frame'.meta
  BY <1>1 DEF LibFrame
<1>3. frame' \in Frame
  <2>1. Method_Table[c] \in Seq(Register_t) /\ c \in Name /\ c # NoName
    BY Values, ClassAssumption, NoNameAssumption
  <2> QED
    BY <1>1, <2>1, Shapes, LibFrameType
<1>4. TypeOK'
  BY <1>1, <1>3 DEF UserDataInv, TypeOK, HeapTypeOK
<1>5. ~ Building /\ ~ Building'
  BY <1>1 DEF Building
<1>6. AllocInv' /\ ClassInv' /\ HiddenInv' /\ UserdataInv' /\ SealedInv'
  BY <1>1, <1>5, QuietStep DEF UserDataInv, AllocInv
<1>7. FrameInv' /\ StackInv' /\ ScriptsInv'
  BY <1>1, <1>2, <1>5, NoMetamethod DEF FrameInv, StackInv
<1> QED
  BY <1>4, <1>6, <1>7 DEF UserDataInv

LEMMA RegisterMetatableInv ==
  ASSUME UserDataInv, RegisterMetatable
  PROVE  UserDataInv'
<1>1. /\ pc = "opened" /\ pc' = "metatable"
      /\ frame' = [NoFrame EXCEPT !.name = class, !.ret = "created", !.below = stack]
      /\ UNCHANGED <<stack, heap, alloc, udMeta, known, tampered, writes, class, udClass, complete, failed, caller>>
      /\ class \in Class
  BY DEF RegisterMetatable, NewMetatable, UserDataInv, FrameInv
<1>2. frame'.name = class /\ frame'.nup = 0 /\ frame'.ret = "created" /\ ~ frame'.meta
  BY <1>1 DEF NoFrame
<1>3. frame' \in Frame
  BY <1>1, NoFrameType, Shapes, Values DEF Frame
<1>4. TypeOK'
  BY <1>1, <1>3 DEF UserDataInv, TypeOK, HeapTypeOK
<1>5. ~ Building /\ ~ Building'
  BY <1>1 DEF Building
<1>6. AllocInv' /\ ClassInv' /\ HiddenInv' /\ UserdataInv' /\ SealedInv'
  BY <1>1, <1>5, QuietStep DEF UserDataInv, AllocInv
<1>7. FrameInv' /\ StackInv' /\ ScriptsInv'
  BY <1>1, <1>2, <1>5, QuietStep, NoMetamethod DEF FrameInv, StackInv, UserDataInv
<1> QED
  BY <1>4, <1>6, <1>7 DEF UserDataInv

LEMMA RegisterMetaInv ==
  ASSUME UserDataInv, RegisterMeta
  PROVE  UserDataInv'
<1>1. /\ pc = "created" /\ pc' = "function"
      /\ frame' = LibFrame(NoName, Meta_Table[class], 0, "filled")
      /\ UNCHANGED <<stack, heap, alloc, udMeta, known, tampered, writes, class, udClass, complete, failed, caller>>
      /\ class \in Class
  BY DEF RegisterMeta, OpenLibrary, UserDataInv, FrameInv
<1>2. /\ frame'.nup = 0 /\ frame'.ret = "filled" /\ ~ frame'.meta /\ frame'.fns = Meta_Table[class]
  BY <1>1 DEF LibFrame
<1>3. Building /\ Building'
  BY <1>1, <1>2 DEF Building
<1>4. TypeOK'
  <2>1. frame' \in Frame
    <3>1. Len(stack) >= 2
      BY <1>3 DEF UserDataInv, StackInv
    <3>2. Meta_Table[class] \in Seq(Register_t)
      BY <1>1, ClassAssumption
    <3> DEFINE metas == Meta_Table[class]
    <3>3. metas \in Seq(Register_t) /\ frame' = LibFrame(NoName, metas, 0, "filled")
      BY <1>1, <3>2
    <3> HIDE DEF metas
    <3>4. stack # << >> /\ stack \in Seq(Value)
      BY <3>1, Shapes
    <3> QED
      BY <3>3, <3>4, LibFrameType
  <2> QED
    BY <1>1, <2>1 DEF UserDataInv, TypeOK, HeapTypeOK
<1>5. AllocInv' /\ ClassInv' /\ HiddenInv' /\ UserdataInv' /\ SealedInv'
  BY <1>1, <1>3, QuietStep DEF UserDataInv, AllocInv
<1>6. FrameInv'
  BY <1>1, <1>2, MetaNamesAssumption DEF FrameInv
<1>7. StackInv' /\ ScriptsInv'
  BY <1>1, <1>2, <1>3, QuietStep, NoMetamethod DEF StackInv, UserDataInv
<1> QED
  BY <1>4, <1>5, <1>6, <1>7 DEF UserDataInv

LEMMA LibReturnInv ==
  ASSUME UserDataInv, RegisterStep, LibReturn
  PROVE  UserDataInv'
<1>1. /\ pc = "function" /\ pc' = frame.ret /\ frame.ret \in {"opened", "filled"}
      /\ frame' = NoFrame /\ class' = class /\ class \in Class
      /\ UNCHANGED <<stack, heap, alloc, udMeta, known, tampered, writes, udClass, complete, failed>>
  <2>1. pc = "function" /\ pc' = frame.ret /\ frame.ret \in {"opened", "filled"} /\ class \in Class
    BY DEF LibReturn, UserDataInv, FrameInv
  <2>2. class' = class
    BY <2>1 DEF RegisterStep
  <2> QED
    BY <2>1, <2>2, LibReturnEffect DEF LibReturn, RegisterStep
<1>2. Building' <=> Building
  BY <1>1 DEF Building
<1>3. TypeOK'
  BY <1>1, NoFrameType, CallerType DEF UserDataInv, TypeOK, HeapTypeOK
<1>4. AllocInv' /\ ClassInv' /\ HiddenInv' /\ UserdataInv' /\ SealedInv'
  BY <1>1, <1>2, QuietStep DEF UserDataInv, AllocInv
<1>5. FrameInv'
  BY <1>1 DEF FrameInv, NoFrame
<1>6. StackInv' /\ ScriptsInv'
  BY <1>1, <1>2, QuietStep, NoMetamethod DEF StackInv, UserDataInv, NoFrame
<1> QED
  BY <1>3, <1>4, <1>5, <1>6 DEF UserDataInv

LEMMA NmtFoundInv ==
  ASSUME UserDataInv, RegisterStep, NmtFound
  PROVE  UserDataInv'
<1>1. /\ pc = "metatable" /\ pc' = "idle" /\ frame' = NoFrame /\ class' = NoClass
      /\ frame.name = class /\ class \in Class
      /\ stack' = Push(stack, heap[Registry][class])
      /\ UNCHANGED <<heap, alloc, udMeta, known, tampered, writes, udClass, complete, failed>>
  BY DEF NmtFound, RegisterStep, UserDataInv, FrameInv
<1> DEFINE m == heap[Registry][class]
<1>2. m \in Value /\ (m \in Table => m \in alloc \ {Registry})
  BY <1>1, Shapes, Values DEF UserDataInv, AllocInv
<1>3. /\ stack' \in Seq(Value) /\ Len(stack') = Len(stack) + 1 /\ stack'[Len(stack) + 1] = m
      /\ \A i \in 1..Len(stack) : stack'[i] = stack[i]
  <2>1. stack' = Push(stack, m)
    BY <1>1
  <2> HIDE DEF m
  <2> QED
    BY <1>2, <2>1, Shapes DEF Push
<1>4. ~ Building /\ ~ Building'
  BY <1>1 DEF Building
<1>5. TypeOK'
  BY <1>1, <1>3, NoFrameType, CallerType DEF UserDataInv, TypeOK, HeapTypeOK
<1>6. \A i \in 1..Len(stack') : stack'[i] \in Table => stack'[i] \in alloc \ {Registry}
  BY <1>2, <1>3, Shapes DEF UserDataInv, AllocInv
<1>7. AllocInv' /\ ClassInv' /\ HiddenInv' /\ UserdataInv' /\ SealedInv'
  BY <1>1, <1>4, <1>6, QuietStep
<1>8. FrameInv' /\ StackInv' /\ ScriptsInv'
  BY <1>1, <1>4, NoMetamethod DEF FrameInv, NoFrame, StackInv
<1> QED
  BY <1>5, <1>7, <1>8 DEF UserDataInv

LEMMA FunctionReturnInv ==
  ASSUME UserDataInv, FunctionReturn, UNCHANGED <<class, udClass, complete, failed, caller>>
  PROVE  UserDataInv'
<1>1. /\ pc = "idle" /\ stack' = << >>
      /\ UNCHANGED <<heap, alloc, udMeta, known, tampered, writes, pc, frame>>
  BY DEF FunctionReturn
<1>2. ~ Building /\ ~ Building'
  BY <1>1 DEF Building
<1>3. stack' \in Seq(Value) /\ \A i \in 1..Len(stack') : FALSE
  BY <1>1
<1>4. TypeOK'
  BY <1>1, <1>3 DEF UserDataInv, TypeOK, HeapTypeOK
<1>5. AllocInv' /\ ClassInv' /\ HiddenInv' /\ UserdataInv' /\ SealedInv'
  BY <1>1, <1>2, <1>3, QuietStep
<1>6. FrameInv' /\ StackInv' /\ ScriptsInv'
  BY <1>1, <1>2 DEF UserDataInv, FrameInv, StackInv, ScriptsInv
<1> QED
  BY <1>4, <1>5, <1>6 DEF UserDataInv

LEMMA LibGetInv ==
  ASSUME UserDataInv, RegisterStep, LibGet
  PROVE  UserDataInv'
<1>1. /\ pc = "get" /\ pc' # "idle" /\ class' = class /\ class \in Class
      /\ frame' = [frame EXCEPT !.meta = FALSE]
      /\ UNCHANGED <<heap, udMeta, known, tampered, writes, udClass, complete, failed>>
      /\ frame.ret = "opened" /\ class \in Key
  <2>1. pc' # "idle"
    BY DEF LibGet
  <2> QED
    BY <2>1, Values DEF LibGet, RegisterStep, UserDataInv, FrameInv
<1>2. pc' \in {"set", "function"} /\ ~ Building /\ ~ Building'
  BY <1>1 DEF LibGet, Building
<1>8. /\ frame' \in Frame /\ ~ frame'.meta
      /\ frame'.name = frame.name /\ frame'.nup = frame.nup /\ frame'.ret = frame.ret
  BY <1>1, MetaFrame
<1>3. FrameInv' /\ ScriptsInv'
  BY <1>1, <1>2, <1>8, NoMetamethod DEF UserDataInv, FrameInv
<1>4. /\ stack \in Seq(Value) /\ Len(stack) \in Nat
      /\ \A i \in 1..Len(stack) : stack[i] \in Table => stack[i] \in alloc \ {Registry}
  BY Shapes DEF UserDataInv, AllocInv
<1>5. ASSUME alloc \subseteq alloc', alloc' \subseteq Table, stack' \in Seq(Value),
             \A i \in 1..Len(stack') : stack'[i] \in Table => stack'[i] \in alloc' \ {Registry}
      PROVE  TypeOK' /\ AllocInv' /\ ClassInv' /\ HiddenInv' /\ UserdataInv' /\ SealedInv'
  <2>1. TypeOK'
    BY <1>1, <1>2, <1>5, <1>8, CallerType DEF UserDataInv, TypeOK, HeapTypeOK
  <2> QED
    BY <1>1, <1>2, <1>5, <2>1, QuietStep
<1>6. ASSUME NEW v \in Value, v # Nil, Harmless(v), v \in Table => v \in alloc \ {Registry},
             stack' = Push(stack, v), pc' = "function", alloc' = alloc
      PROVE  UserDataInv'
  <2>2. /\ stack' \in Seq(Value) /\ Len(stack') = Len(stack) + 1 /\ stack'[Len(stack) + 1] = v
        /\ \A i \in 1..Len(stack) : stack'[i] = stack[i]
    BY <1>4, <1>6 DEF Push
  <2>3. \A i \in 1..Len(stack') : stack'[i] \in Table => stack'[i] \in alloc' \ {Registry}
    BY <1>4, <1>6, <2>2
  <2>4. StackInv'
    BY <1>1, <1>2, <1>4, <1>6, <2>2, QuietStep DEF StackInv
  <2>5. alloc \subseteq alloc' /\ alloc' \subseteq Table
    BY <1>6 DEF UserDataInv, TypeOK, HeapTypeOK
  <2> QED
    BY <1>3, <1>5, <2>2, <2>3, <2>4, <2>5 DEF UserDataInv
<1>7. ASSUME NEW t \in Table \ alloc,
             stack' = Push(Push(Push(stack, t), class), t), pc' = "set", alloc' = alloc \cup {t}
      PROVE  UserDataInv'
  <2>1. t \in Value /\ class \in Value /\ class \notin Table /\ t # Registry
    BY <1>1, Values DEF UserDataInv, AllocInv
  <2>2. Harmless(t)
    BY <1>7, Values DEF Harmless, UserDataInv, AllocInv, MetatableOf
  <2>3. /\ stack' \in Seq(Value) /\ Len(stack') = Len(stack) + 3
        /\ stack'[Len(stack) + 1] = t /\ stack'[Len(stack) + 2] = class /\ stack'[Len(stack) + 3] = t
        /\ \A i \in 1..Len(stack) : stack'[i] = stack[i]
    BY <1>4, <1>7, <2>1 DEF Push
  <2>4. \A i \in 1..Len(stack') : stack'[i] \in Table => stack'[i] \in alloc' \ {Registry}
    <3> SUFFICES ASSUME NEW i \in 1..(Len(stack) + 3), stack'[i] \in Table
                 PROVE  stack'[i] \in alloc' \ {Registry}
      BY <2>3
    <3>1. CASE i \in 1..Len(stack)
      BY <1>4, <1>7, <2>3, <3>1
    <3>2. CASE i \in {Len(stack) + 1, Len(stack) + 2, Len(stack) + 3}
      BY <1>7, <2>1, <2>3, <3>2
    <3> QED
      BY <1>4, <3>1, <3>2
  <2>5. StackInv'
    BY <1>1, <1>2, <1>4, <1>7, <2>2, <2>3, QuietStep DEF StackInv
  <2>6. alloc \subseteq alloc' /\ alloc' \subseteq Table
    BY <1>7 DEF UserDataInv, TypeOK, HeapTypeOK
  <2> QED
    BY <1>3, <1>5, <2>3, <2>4, <2>5, <2>6 DEF UserDataInv
<1> QED
  BY <1>6, <1>7, LibGetEffect

LEMMA LibSetInv ==
  ASSUME UserDataInv, RegisterStep, LibSet
  PROVE  UserDataInv' /\ KeepsMetatables
<1>1. /\ pc = "set" /\ pc' = "function" /\ class' = class /\ class \in Class
      /\ frame' = [frame EXCEPT !.meta = FALSE]
      /\ UNCHANGED <<alloc, udMeta, known, tampered, writes, udClass, complete, failed>>
      /\ frame.ret = "opened" /\ class \in Key
  BY Values DEF LibSet, RegisterStep, UserDataInv, FrameInv
<1>2. PICK t \in Table :
        t = stack[Len(stack)] /\ Harmless(t) /\ t \in Value /\ Len(stack) >= 3
  BY <1>1, Values DEF UserDataInv, StackInv
<1>3. t \in alloc \ {Registry}
  BY <1>2, Shapes DEF UserDataInv, AllocInv
<1>4. \A c \in complete : Globals # MetatableOf(c)
  BY DEF UserDataInv, TypeOK, ClassInv, HiddenInv, AllocInv
<1>5. PICK s \in Seq(Value) :
        /\ Len(s) = Len(stack) - 2 /\ s # << >> /\ s[Len(s)] = t
        /\ \A i \in 1..Len(s) : s[i] = stack[i]
        /\ stack' = s
  BY <1>2, LibSetEffect
<1>6. heap' = heap \/ heap' = Stored(heap, Globals, class, t)
  BY <1>2, LibSetEffect
<1>7. \A i \in 1..Len(stack') : stack'[i] \in Table => stack'[i] \in alloc \ {Registry}
  <2>1. \A i \in 1..Len(stack) : stack[i] \in Table => stack[i] \in alloc \ {Registry}
    BY DEF UserDataInv, AllocInv
  <2>2. \A i \in 1..Len(s) : i \in 1..Len(stack)
    BY <1>5, Shapes
  <2> QED
    BY <1>5, <2>1, <2>2
<1>8. ~ Building /\ ~ Building'
  BY <1>1 DEF Building
<1>9. Globals \in Table \ {Registry}
  BY Values
<1>10. /\ heap' \in [Table -> [Key -> Value]]
       /\ AllocInv' /\ ClassInv' /\ HiddenInv' /\ UserdataInv' /\ SealedInv'
       /\ \A w : Harmless(w)' <=> Harmless(w)
       /\ \A c \in Class : MetatableOf(c)' = MetatableOf(c)
       /\ \A c \in complete : heap'[MetatableOf(c)] = heap[MetatableOf(c)]
  <2>1. CASE heap' = Stored(heap, Globals, class, t)
    BY <1>1, <1>2, <1>3, <1>4, <1>7, <1>8, <1>9, <2>1, HarmlessStore
  <2>2. CASE heap' = heap
    <3>1. /\ HiddenInv' /\ UserdataInv' /\ SealedInv' /\ AllocInv' /\ ClassInv'
          /\ \A c \in Class : MetatableOf(c)' = MetatableOf(c)
          /\ \A w : Harmless(w)' <=> Harmless(w)
      BY <1>1, <1>7, <1>8, <2>2, QuietStep
    <3> QED
      BY <2>2, <3>1, Shapes
  <2> QED
    BY <1>6, <2>1, <2>2
<1>14. /\ frame' \in Frame /\ ~ frame'.meta
       /\ frame'.name = frame.name /\ frame'.nup = frame.nup /\ frame'.ret = frame.ret
  BY <1>1, MetaFrame
<1>11. TypeOK'
  BY <1>1, <1>5, <1>10, <1>14, CallerType DEF UserDataInv, TypeOK, HeapTypeOK
<1>12. FrameInv' /\ ScriptsInv'
  BY <1>1, <1>14, NoMetamethod DEF UserDataInv, FrameInv
<1>13. StackInv'
  <2>1. Len(s) >= 1 /\ stack'[Len(stack')] = t /\ t # Nil
    BY <1>2, <1>5, Values
  <2> QED
    BY <1>1, <1>5, <1>2, <1>8, <1>10, <1>14, <2>1 DEF StackInv
<1> QED
  BY <1>10, <1>11, <1>12, <1>13 DEF UserDataInv, KeepsMetatables

LEMMA LibFunctionInv ==
  ASSUME UserDataInv, RegisterStep, LibFunction
  PROVE  UserDataInv' /\ KeepsMetatables
<1>1. /\ pc = "function" /\ pc' = "function" /\ class' = class /\ class \in Class
      /\ frame' = [frame EXCEPT !.fns = Tail(@), !.meta = FALSE] /\ frame.fns # << >>
      /\ frame.ret \in {"opened", "filled"}
      /\ UNCHANGED <<alloc, udMeta, known, tampered, writes, udClass, complete, failed>>
  BY DEF LibFunction, RegisterStep, UserDataInv, FrameInv
<1>2. stack # << >> /\ Len(stack) \in Nat /\ stack \in Seq(Value)
  <2>1. Len(stack) >= 1
    BY <1>1, Shapes DEF UserDataInv, StackInv, Building
  <2> QED
    BY <2>1, Shapes
<1>3. PICK target \in Value, f \in Register_t, v \in Closure :
        /\ target = stack[Len(stack)] /\ f = Head(frame.fns) /\ v \notin Table \cup {Nil}
        /\ heap' = heap \/ (target \in Table /\ heap' = Stored(heap, target, f.name, v))
        /\ stack' = stack
  <2> DEFINE target == stack[Len(stack)]
             f      == Head(frame.fns)
             v      == [fn |-> f.func, up |-> << >>]
  <2>1. /\ f \in Register_t /\ stack' = stack
        /\ heap' = heap \/ (target \in Table /\ heap' = Stored(heap, target, f.name, v))
    BY <1>2, LibFunctionEffect
  <2>2. v \in Closure /\ v \notin Table \cup {Nil}
    BY <2>1, ClosureFacts DEF Register_t
  <2>3. f = Head(frame.fns) /\ target \in Value
    BY <1>2
  <2> HIDE DEF target, f, v
  <2> QED
    BY <2>1, <2>2, <2>3 DEF target
<1>4. ASSUME target \in Table
      PROVE  /\ target \in Table \ {Registry} /\ v \in Value
             /\ \A c \in complete : target # MetatableOf(c)
  <2>1. target \in alloc \ {Registry}
    BY <1>2, <1>3, <1>4 DEF UserDataInv, AllocInv
  <2>2. CASE frame.ret = "opened"
    <3>1. Harmless(target)
      BY <1>1, <1>3, <2>2 DEF UserDataInv, StackInv
    <3>2. \A c \in complete : c \in Class \ failed /\ MetatableOf(c) # Nil
      BY DEF UserDataInv, TypeOK, ClassInv
    <3> QED
      BY <1>4, <2>1, <3>1, <3>2, Values DEF Harmless
  <2>3. CASE frame.ret = "filled"
    <3>1. target = MetatableOf(class) /\ target # Nil /\ class \notin complete
      BY <1>1, <1>3, <2>3 DEF UserDataInv, StackInv, Building
    <3> QED
      BY <1>1, <2>1, <3>1, Values DEF UserDataInv, TypeOK, ClassInv
  <2> QED
    BY <1>1, <1>4, <2>1, <2>2, <2>3, Values
<1> DEFINE k == f.name
<1>5. /\ k \in Key
      /\ heap' = heap \/ (target \in Table /\ heap' = Stored(heap, target, k, v))
  <2>1. k \in Key
    BY <1>3, Values DEF Register_t
  <2> QED
    BY <1>3, <2>1
<1> HIDE DEF k
<1>6. Building' <=> Building
  BY <1>1, Shapes DEF Building, Frame
<1>7. Harmless(v)
  BY <1>3, Values DEF Harmless, UserDataInv, ClassInv
<1>8. /\ heap' \in [Table -> [Key -> Value]]
      /\ AllocInv' /\ ClassInv' /\ HiddenInv' /\ UserdataInv' /\ SealedInv'
      /\ \A w : Harmless(w)' <=> Harmless(w)
      /\ \A c \in Class : MetatableOf(c)' = MetatableOf(c)
      /\ \A c \in complete : heap'[MetatableOf(c)] = heap[MetatableOf(c)]
  <2>1. \A i \in 1..Len(stack') : stack'[i] \in Table => stack'[i] \in alloc \ {Registry}
    BY <1>3 DEF UserDataInv, AllocInv
  <2>2. CASE target \in Table /\ heap' = Stored(heap, target, k, v)
    BY <1>1, <1>3, <1>4, <1>5, <1>6, <1>7, <2>1, <2>2, HarmlessStore
  <2>3. CASE heap' = heap
    <3>1. /\ HiddenInv' /\ UserdataInv' /\ SealedInv' /\ AllocInv' /\ ClassInv'
          /\ \A c \in Class : MetatableOf(c)' = MetatableOf(c)
          /\ \A w : Harmless(w)' <=> Harmless(w)
      BY <1>1, <1>6, <2>1, <2>3, QuietStep
    <3> QED
      BY <2>3, <3>1, Shapes
  <2> QED
    BY <1>5, <2>2, <2>3
<1>9. /\ frame' \in Frame /\ frame'.nup = 0 /\ frame'.ret = frame.ret /\ frame'.fns = Tail(frame.fns)
      /\ ~ frame'.meta
  <2>1. frame \in Frame /\ frame.fns \in Seq(Register_t)
    BY Shapes DEF Frame
  <2>2. Tail(frame.fns) \in Seq(Register_t)
    BY <1>1, <2>1
  <2> QED
    BY <1>1, <2>1, <2>2, Shapes DEF Frame
<1>10. TypeOK'
  BY <1>1, <1>3, <1>8, <1>9, CallerType DEF UserDataInv, TypeOK, HeapTypeOK
<1>11. FrameInv'
  <2>1. \A i \in DOMAIN Tail(frame.fns) :
          i + 1 \in DOMAIN frame.fns /\ Tail(frame.fns)[i] = frame.fns[i + 1]
    <3>1. frame.fns \in Seq(Register_t)
      BY Shapes DEF Frame
    <3> QED
      BY <1>1, <3>1
  <2> QED
    BY <1>1, <1>9, <2>1 DEF UserDataInv, FrameInv
<1>12. StackInv' /\ ScriptsInv'
  BY <1>1, <1>3, <1>6, <1>8, <1>9, NoMetamethod DEF UserDataInv, StackInv
<1> QED
  BY <1>8, <1>10, <1>11, <1>12 DEF UserDataInv, KeepsMetatables

LEMMA NmtLinkInv ==
  ASSUME UserDataInv, RegisterStep, NmtLink
  PROVE  UserDataInv' /\ KeepsMetatables
<1>1. /\ pc = "link" /\ pc' = "created" /\ frame' = NoFrame /\ class' = class /\ class \in Class
      /\ stack' = stack
      /\ heap' = Stored(heap, Registry, stack[Len(stack)], class)
      /\ UNCHANGED <<alloc, udMeta, known, tampered, writes, udClass, complete, failed>>
  BY NmtLinkEffect DEF NmtLink, RegisterStep, UserDataInv, FrameInv
<1>2. PICK m \in Table : m = stack[Len(stack)]
  BY <1>1 DEF UserDataInv, StackInv, Building, ClassInv
<1>3. /\ heap' \in [Table -> [Key -> Value]]
      /\ \A t \in Table : t # Registry => heap'[t] = heap[t]
      /\ \A t \in Table, k \in Key : k # m => heap'[t][k] = heap[t][k]
      /\ \A t \in Table, k \in Key : heap'[t][k] = heap[t][k] \/ heap'[t][k] = class
  <2>1. /\ m \in Key /\ class \in Value /\ Registry \in Table
        /\ heap' = Stored(heap, Registry, m, class) /\ heap \in [Table -> [Key -> Value]]
    BY <1>1, <1>2, Values, Shapes
  <2>2. /\ heap' \in [Table -> [Key -> Value]]
        /\ heap'[Registry][m] = class
        /\ \A t \in Table : t # Registry => heap'[t] = heap[t]
        /\ \A t \in Table, k \in Key : k # m => heap'[t][k] = heap[t][k]
    BY <2>1, StoreFacts
  <2> QED
    BY <2>1, <2>2
<1>4. \A c \in Class : MetatableOf(c)' = MetatableOf(c) /\ MetatableOf(c) # Registry
  BY <1>2, <1>3, Values DEF MetatableOf, UserDataInv, AllocInv
<1>5. \A w : Harmless(w)' <=> Harmless(w)
  BY <1>1, <1>4 DEF Harmless
<1>6. Building /\ Building'
  BY <1>1 DEF Building
<1>7. TypeOK'
  BY <1>1, <1>3, NoFrameType, CallerType DEF UserDataInv, TypeOK, HeapTypeOK
<1>8. AllocInv'
  BY <1>1, <1>3, Values DEF UserDataInv, AllocInv
<1>9. ClassInv'
  BY <1>1, <1>4, <1>6 DEF UserDataInv, TypeOK, ClassInv
<1>10. HiddenInv'
  BY <1>1, <1>3, <1>4 DEF UserDataInv, HiddenInv
<1>11. UserdataInv'
  BY <1>1, <1>4 DEF UserDataInv, UserdataInv
<1>12. SealedInv' /\ KeepsMetatables
  <2>1. \A c \in complete : heap'[MetatableOf(c)] = heap[MetatableOf(c)]
    BY <1>3, <1>4 DEF UserDataInv, TypeOK, ClassInv
  <2> QED
    BY <1>1, <1>4, <2>1 DEF UserDataInv, TypeOK, SealedInv, KeepsMetatables
<1>13. FrameInv'
  BY <1>1 DEF FrameInv, NoFrame
<1>14. StackInv' /\ ScriptsInv'
  BY <1>1, <1>4, <1>5, <1>6, NoMetamethod DEF NoFrame, UserDataInv, StackInv
<1> QED
  BY <1>7, <1>8, <1>9, <1>10, <1>11, <1>12, <1>13, <1>14 DEF UserDataInv

\* The new table is unknown to everyone, and becomes the class's metatable.
LEMMA NmtCreateInv ==
  ASSUME UserDataInv, RegisterStep, NmtCreate
  PROVE  UserDataInv' /\ KeepsMetatables
<1>1. /\ pc = "metatable" /\ pc' = "link" /\ frame' = frame /\ class' = class /\ class \in Class
      /\ frame.name = class /\ frame.ret = "created" /\ frame.nup = 0
      /\ heap[Registry][class] = Nil /\ ~ frame'.meta
      /\ UNCHANGED <<udMeta, known, tampered, writes, udClass, complete, failed>>
  BY DEF NmtCreate, RegisterStep, UserDataInv, FrameInv, ScriptsInv
<1>2. PICK t \in Table \ alloc :
        /\ alloc' = alloc \cup {t}
        /\ heap' = Stored(heap, Registry, class, t)
        /\ stack' = Push(stack, t)
  BY NmtCreateEffect
<1>3. /\ heap' \in [Table -> [Key -> Value]]
      /\ heap'[Registry][class] = t
      /\ \A t2 \in Table : t2 # Registry => heap'[t2] = heap[t2]
      /\ \A t2 \in Table, k \in Key : k # class => heap'[t2][k] = heap[t2][k]
  <2>1. /\ class \in Key /\ t \in Value /\ Registry \in Table
        /\ heap \in [Table -> [Key -> Value]]
    BY <1>1, Values, Shapes
  <2>2. /\ Stored(heap, Registry, class, t) \in [Table -> [Key -> Value]]
        /\ Stored(heap, Registry, class, t)[Registry][class] = t
        /\ \A t2 \in Table : t2 # Registry => Stored(heap, Registry, class, t)[t2] = heap[t2]
        /\ \A t2 \in Table, k \in Key :
             k # class => Stored(heap, Registry, class, t)[t2][k] = heap[t2][k]
    BY <2>1, StoreFacts
  <2> QED
    BY <1>2, <2>2
<1>4. /\ MetatableOf(class) = Nil /\ MetatableOf(class)' = t
      /\ \A c \in Class : c # class => MetatableOf(c)' = MetatableOf(c)
      /\ class \notin complete \cup failed /\ t # Nil /\ t # Registry
  BY <1>1, <1>3, Values DEF MetatableOf, UserDataInv, ClassInv, AllocInv
<1>5. \A c \in Class : MetatableOf(c) \in Table => MetatableOf(c) \in alloc \ {Registry}
  BY Values DEF MetatableOf, UserDataInv, AllocInv
<1>6. ~ Building /\ Building'
  BY <1>1 DEF Building
<1>7. /\ stack \in Seq(Value) /\ Len(stack) \in Nat /\ Len(stack) >= 1
      /\ stack[Len(stack)] # Nil /\ Harmless(stack[Len(stack)])
      /\ stack[Len(stack)] # t
  BY <1>1, Shapes DEF UserDataInv, StackInv, AllocInv
<1>8. /\ stack' \in Seq(Value) /\ Len(stack') = Len(stack) + 1 /\ stack'[Len(stack) + 1] = t
      /\ \A i \in 1..Len(stack) : stack'[i] = stack[i]
  <2>1. t \in Value
    BY Values
  <2> QED
    BY <1>2, <1>7, <2>1 DEF Push
<1>9. TypeOK'
  BY <1>1, <1>2, <1>3, <1>8, CallerType DEF UserDataInv, TypeOK, HeapTypeOK
<1>10. AllocInv'
  <2>1. \A t2 \in Table, k \in Key : heap'[t2][k] \in Table => heap'[t2][k] \in alloc' \ {Registry}
    <3> SUFFICES ASSUME NEW t2 \in Table, NEW k \in Key, heap'[t2][k] \in Table
                 PROVE  heap'[t2][k] \in alloc' \ {Registry}
      OBVIOUS
    <3>1. heap'[t2][k] = t \/ heap'[t2][k] = heap[t2][k]
      BY <1>3
    <3> QED
      BY <1>2, <1>4, <3>1 DEF UserDataInv, AllocInv
  <2>2. \A i \in 1..Len(stack') : stack'[i] \in Table => stack'[i] \in alloc' \ {Registry}
    BY <1>2, <1>4, <1>7, <1>8 DEF UserDataInv, AllocInv
  <2> QED
    BY <1>1, <1>2, <2>1, <2>2 DEF UserDataInv, AllocInv
<1>11. ClassInv'
  <2>1. \A c \in Class : MetatableOf(c)' \in Table \cup {Nil}
    <3> SUFFICES ASSUME NEW c \in Class PROVE MetatableOf(c)' \in Table \cup {Nil}
      OBVIOUS
    <3> QED
      BY <1>1, <1>4 DEF UserDataInv, ClassInv
  <2>2. \A c, d \in Class :
          MetatableOf(c)' = MetatableOf(d)' /\ c # d => MetatableOf(c)' = Nil
    <3> SUFFICES ASSUME NEW c \in Class, NEW d \in Class, c # d,
                        MetatableOf(c)' = MetatableOf(d)'
                 PROVE  MetatableOf(c)' = Nil
      OBVIOUS
    <3>1. CASE c = class \/ d = class
      BY <1>1, <1>4, <1>5, <3>1
    <3>2. CASE c # class /\ d # class
      BY <1>4, <3>2 DEF UserDataInv, ClassInv
    <3> QED
      BY <3>1, <3>2
  <2>3. \A c \in complete \cup failed : MetatableOf(c)' # Nil
    BY <1>4 DEF UserDataInv, TypeOK, ClassInv
  <2>4. \A c \in Class : MetatableOf(c)' # Nil => c \in complete \cup failed \/ c = class
    BY <1>4, <1>6 DEF UserDataInv, ClassInv
  <2> QED
    BY <1>1, <1>6, <2>1, <2>2, <2>3, <2>4 DEF UserDataInv, ClassInv
<1>12. HiddenInv'
  <2>1. t \notin known /\ \A t2 \in Table, k \in Key : heap[t2][k] # t
    BY DEF UserDataInv, AllocInv
  <2> QED
    BY <1>1, <1>3, <1>4, <2>1 DEF UserDataInv, HiddenInv
<1>13. UserdataInv'
  BY <1>1, <1>4 DEF UserDataInv, UserdataInv
<1>14. SealedInv' /\ KeepsMetatables
  <2>1. \A c \in complete : /\ MetatableOf(c)' = MetatableOf(c)
                            /\ heap'[MetatableOf(c)] = heap[MetatableOf(c)]
    BY <1>3, <1>4, <1>5 DEF UserDataInv, TypeOK, ClassInv
  <2> QED
    BY <1>1, <1>4, <2>1 DEF UserDataInv, SealedInv, KeepsMetatables
<1>15. FrameInv' /\ ScriptsInv'
  BY <1>1, NoMetamethod DEF FrameInv
<1>16. StackInv'
  <2>1. PICK w : w = stack[Len(stack)]
    OBVIOUS
  <2>2. w # Nil /\ w # t /\ Harmless(w)
    BY <1>7, <2>1
  <2>3. Harmless(w)'
    BY <1>1, <1>4, <2>2 DEF Harmless
  <2>4. /\ Len(stack') >= 2 /\ stack'[Len(stack')] = t /\ stack'[Len(stack') - 1] = w
    BY <1>7, <1>8, <2>1
  <2> QED
    BY <1>1, <1>4, <1>6, <2>2, <2>3, <2>4 DEF StackInv
<1> QED
  BY <1>9, <1>10, <1>11, <1>12, <1>13, <1>14, <1>15, <1>16 DEF UserDataInv

\* What the two Raw_Sets of Register start from.
LEMMA FieldTarget ==
  ASSUME UserDataInv, pc \in {"filled", "indexed"}
  PROVE  /\ class \in Class /\ Len(stack) >= 2
         /\ \E m \in Table \ {Registry}, v \in Value :
              /\ m = stack[Len(stack)] /\ m = MetatableOf(class)
              /\ v = stack[Len(stack) - 1] /\ v # Nil /\ v # m
              /\ Harmless(v) /\ (v \in Table => v \in alloc \ {Registry})
              /\ \A c \in complete : m # MetatableOf(c)
<1>1. /\ class \in Class /\ Len(stack) >= 2 /\ Len(stack) - 1 \in 1..Len(stack)
      /\ Len(stack) \in 1..Len(stack)
      /\ stack[Len(stack)] = MetatableOf(class) /\ stack[Len(stack)] # Nil
      /\ class \notin complete \cup failed
      /\ stack[Len(stack) - 1] # Nil /\ Harmless(stack[Len(stack) - 1])
  BY Shapes DEF UserDataInv, FrameInv, StackInv, Building
<1>2. PICK m, v : m = stack[Len(stack)] /\ v = stack[Len(stack) - 1]
  OBVIOUS
<1>3. /\ m \in Table \ {Registry} /\ v \in Value
      /\ (v \in Table => v \in alloc \ {Registry})
  BY <1>1, <1>2, Shapes DEF UserDataInv, ClassInv, AllocInv
<1>4. v # m
  BY <1>1, <1>2 DEF Harmless
<1>5. \A c \in complete : m # MetatableOf(c)
  BY <1>1, <1>2 DEF UserDataInv, TypeOK, ClassInv
<1> QED
  BY <1>1, <1>2, <1>3, <1>4, <1>5

LEMMA RegisterIndexInv ==
  ASSUME UserDataInv, RegisterIndex
  PROVE  UserDataInv' /\ KeepsMetatables
<1>1. /\ pc = "filled" /\ pc' = "indexed" /\ class' = class /\ class \in Class
      /\ Len(stack) >= 2
      /\ UNCHANGED <<alloc, udMeta, known, tampered, writes, frame, class, udClass, complete, failed, caller>>
  BY FieldTarget DEF RegisterIndex
<1>2. PICK m \in Table \ {Registry}, v \in Value :
        /\ m = stack[Len(stack)] /\ m = MetatableOf(class)
        /\ v = stack[Len(stack) - 1] /\ v # Nil /\ v # m
        /\ Harmless(v) /\ (v \in Table => v \in alloc \ {Registry})
        /\ \A c \in complete : m # MetatableOf(c)
  BY <1>1, FieldTarget
<1>3. /\ heap' = Stored(heap, m, Index, v) /\ stack' = stack
      /\ Index \in Key
  BY <1>1, <1>2, FieldEffect, Values DEF RegisterIndex
<1>4. Building /\ Building'
  BY <1>1 DEF Building
<1>5. \A i \in 1..Len(stack') : stack'[i] \in Table => stack'[i] \in alloc \ {Registry}
  BY <1>3 DEF UserDataInv, AllocInv
<1>6. /\ heap' \in [Table -> [Key -> Value]]
      /\ AllocInv' /\ ClassInv' /\ HiddenInv' /\ UserdataInv' /\ SealedInv'
      /\ \A w : Harmless(w)' <=> Harmless(w)
      /\ \A c \in Class : MetatableOf(c)' = MetatableOf(c)
      /\ \A c \in complete : heap'[MetatableOf(c)] = heap[MetatableOf(c)]
  BY <1>1, <1>2, <1>3, <1>4, <1>5, HarmlessStore
<1>7. heap'[m][Index] = v
  <2>1. heap \in [Table -> [Key -> Value]]
    BY Shapes
  <2> QED
    BY <1>3, <2>1, StoreFacts
<1>8. TypeOK'
  BY <1>1, <1>3, <1>6 DEF UserDataInv, TypeOK, HeapTypeOK
<1>9. FrameInv' /\ ScriptsInv'
  BY <1>1 DEF UserDataInv, FrameInv, ScriptsInv
<1>10. StackInv'
  BY <1>1, <1>2, <1>3, <1>4, <1>6, <1>7 DEF UserDataInv, StackInv
<1> QED
  BY <1>6, <1>8, <1>9, <1>10 DEF UserDataInv, KeepsMetatables

LEMMA RegisterSealInv ==
  ASSUME UserDataInv, RegisterSeal
  PROVE  UserDataInv' /\ KeepsMetatables /\ complete' \cap failed = {}
<1>1. /\ pc = "indexed" /\ pc' = "idle" /\ class' = NoClass /\ class \in Class
      /\ Len(stack) >= 2 /\ complete' = complete \cup {class}
      /\ caller' = << >>
      /\ UNCHANGED <<alloc, udMeta, known, tampered, writes, frame, udClass, failed>>
  BY FieldTarget DEF RegisterSeal
<1>2. PICK m \in Table \ {Registry}, v \in Value :
        /\ m = stack[Len(stack)] /\ m = MetatableOf(class)
        /\ v = stack[Len(stack) - 1] /\ v # Nil /\ v # m
        /\ Harmless(v) /\ (v \in Table => v \in alloc \ {Registry})
        /\ \A c \in complete : m # MetatableOf(c)
  BY <1>1, FieldTarget
<1>3. /\ heap' = Stored(heap, m, Metatable, v) /\ stack' = Pop(stack, 1)
      /\ Metatable \in Key /\ Index \in Key
  BY <1>1, <1>2, FieldEffect, Values DEF RegisterSeal
<1>4. /\ stack' \in Seq(Value) /\ Len(stack') = Len(stack) - 1
      /\ \A i \in 1..(Len(stack) - 1) : stack'[i] = stack[i]
  <2>1. stack \in Seq(Value) /\ stack # << >>
    BY <1>1, Shapes
  <2> QED
    BY <1>3, <2>1, PopTop
<1>5. \A i \in 1..Len(stack') : stack'[i] \in Table => stack'[i] \in alloc \ {Registry}
  BY <1>4, Shapes DEF UserDataInv, AllocInv
<1>6. /\ heap' \in [Table -> [Key -> Value]]
      /\ AllocInv' /\ HiddenInv' /\ UserdataInv'
      /\ \A c \in Class : MetatableOf(c)' = MetatableOf(c)
      /\ \A c \in complete : heap'[MetatableOf(c)] = heap[MetatableOf(c)]
  BY <1>1, <1>2, <1>3, <1>5, HarmlessStore
<1>7. /\ heap'[m][Metatable] = v /\ heap'[m][Index] = v
  <2>1. heap[m][Index] = v
    BY <1>1, <1>2 DEF UserDataInv, StackInv
  <2>2. heap \in [Table -> [Key -> Value]] /\ Index # Metatable
    BY Shapes, Values
  <2> QED
    BY <1>3, <2>1, <2>2, StoreFacts
<1>8. ~ Building' /\ class \notin complete \cup failed
  BY <1>1 DEF Building, UserDataInv, StackInv
<1>9. TypeOK'
  BY <1>1, <1>4, <1>6 DEF UserDataInv, TypeOK, HeapTypeOK
<1>10. ClassInv'
  <2>1. MetatableOf(class) # Nil
    BY <1>2, Values
  <2>2. complete' \cap failed' = {}
    BY <1>1, <1>8 DEF UserDataInv, ClassInv
  <2>3. \A c \in complete' \cup failed' : MetatableOf(c)' # Nil
    BY <1>1, <1>6, <2>1 DEF UserDataInv, TypeOK, ClassInv
  <2>4. \A c \in Class : MetatableOf(c)' # Nil => c \in complete' \cup failed'
    BY <1>1, <1>6 DEF UserDataInv, ClassInv
  <2> QED
    BY <1>6, <2>2, <2>3, <2>4 DEF UserDataInv, ClassInv
<1>11. SealedInv'
  <2> SUFFICES ASSUME NEW c \in complete'
               PROVE  /\ heap'[MetatableOf(c)'][Metatable] = heap'[MetatableOf(c)'][Index]
                      /\ heap'[MetatableOf(c)'][Index] \notin {Nil, MetatableOf(c)'}
    BY DEF SealedInv
  <2>1. CASE c \in complete
    BY <1>6, <2>1 DEF UserDataInv, TypeOK, SealedInv
  <2>2. CASE c = class
    <3>1. MetatableOf(c)' = m
      BY <1>1, <1>2, <1>6, <2>2
    <3> QED
      BY <1>2, <1>7, <3>1
  <2> QED
    BY <1>1, <2>1, <2>2
<1>12. FrameInv' /\ StackInv' /\ ScriptsInv'
  BY <1>1, <1>8 DEF UserDataInv, FrameInv, StackInv, ScriptsInv
<1> QED
  BY <1>1, <1>6, <1>9, <1>10, <1>11, <1>12 DEF UserDataInv, ClassInv, KeepsMetatables

LEMMA PushUserdataInv ==
  ASSUME UserDataInv, NEW c \in Class, PushUserdata(c)
  PROVE  UserDataInv'
<1>1. PICK u \in Userdata :
        LET s == Push(Push(stack, u), MetatableOf(c))
        IN  /\ udMeta' = [udMeta EXCEPT ![At(s, -2)] = At(s, -1)]
            /\ stack' = Pop(s, 1)
            /\ udClass' = [udClass EXCEPT ![u] = c]
  BY DEF PushUserdata
<1>2. /\ pc = "idle" /\ UNCHANGED <<heap, alloc, known, tampered, writes, pc, frame, class, complete, failed, caller>>
  BY DEF PushUserdata
<1>3. PICK m \in Table \cup {Nil} : m = MetatableOf(c) /\ m \in Value
  BY Values DEF UserDataInv, ClassInv
<1> DEFINE s1 == Push(stack, u)
<1>4. stack \in Seq(Value) /\ Len(stack) \in Nat /\ u \in Value /\ u \notin Table
  BY Shapes, Values, ValueAssumption
<1>5. /\ s1 \in Seq(Value) /\ Len(s1) = Len(stack) + 1 /\ s1[Len(stack) + 1] = u
      /\ \A i \in 1..Len(stack) : s1[i] = stack[i]
  BY <1>4 DEF Push
<1>6. /\ At(Push(s1, m), -2) = u /\ At(Push(s1, m), -1) = m
  BY <1>3, <1>4, TopTwo
<1> HIDE DEF s1
<1>7. Pop(Push(s1, m), 1) = s1
  BY <1>3, <1>5, PopPush
<1>8. /\ udMeta' = [udMeta EXCEPT ![u] = m] /\ stack' = s1
      /\ udClass' = [udClass EXCEPT ![u] = c]
  BY <1>1, <1>3, <1>6, <1>7 DEF s1
<1>9. ~ Building /\ ~ Building' /\ \A d : MetatableOf(d)' = MetatableOf(d)
  BY <1>2 DEF Building, MetatableOf
<1>10. TypeOK'
  BY <1>2, <1>5, <1>8 DEF UserDataInv, TypeOK, HeapTypeOK
<1>11. AllocInv'
  <2>1. \A i \in 1..Len(stack') : stack'[i] \in Table => stack'[i] \in alloc \ {Registry}
    BY <1>4, <1>5, <1>8 DEF UserDataInv, AllocInv
  <2> QED
    BY <1>2, <2>1 DEF UserDataInv, AllocInv
<1>12. ClassInv' /\ HiddenInv'
  BY <1>2, <1>9 DEF UserDataInv, ClassInv, HiddenInv
<1>13. SealedInv'
  BY <1>2, <1>9 DEF UserDataInv, SealedInv
<1>14. UserdataInv'
  <2> SUFFICES ASSUME NEW w \in Userdata, udMeta'[w] # Nil
               PROVE  udClass'[w] \in Class /\ udMeta'[w] = MetatableOf(udClass'[w])
    BY <1>2, <1>9 DEF UserdataInv, MetatableOf
  <2>1. udMeta \in [Userdata -> Table \cup {Nil}] /\ udClass \in [Userdata -> Class \cup {NoClass}]
    BY DEF UserDataInv, TypeOK, HeapTypeOK
  <2>2. CASE w = u
    BY <1>3, <1>8, <2>1, <2>2
  <2>3. CASE w # u
    BY <1>8, <2>1, <2>3 DEF UserDataInv, UserdataInv
  <2> QED
    BY <2>2, <2>3
<1>15. FrameInv' /\ StackInv' /\ ScriptsInv'
  BY <1>2, <1>9 DEF UserDataInv, FrameInv, StackInv, ScriptsInv
<1> QED
  BY <1>10, <1>11, <1>12, <1>13, <1>14, <1>15 DEF UserDataInv

\* An error gives the half-built class to failed, whose metatable is anyone's.
LEMMA RegisterErrorInv ==
  ASSUME UserDataInv, RegisterError
  PROVE  UserDataInv'
<1>1. /\ pc # "idle" /\ pc' = "idle" /\ frame' = NoFrame /\ stack' = << >>
      /\ class \in Class /\ class' = NoClass
      /\ failed' = IF MetatableOf(class) # Nil /\ class \notin complete
                   THEN failed \cup {class} ELSE failed
      /\ caller' = << >>
      /\ UNCHANGED <<heap, alloc, udMeta, known, tampered, writes, udClass, complete>>
  BY DEF RegisterError, LuaError, UserDataInv, FrameInv
<1>2. failed \subseteq failed' /\ failed' \subseteq failed \cup {class}
  BY <1>1
<1>3. ~ Building' /\ \A d : MetatableOf(d)' = MetatableOf(d)
  BY <1>1 DEF Building, MetatableOf
<1>4. stack' \in Seq(Value) /\ \A i \in 1..Len(stack') : FALSE
  BY <1>1
<1>5. TypeOK'
  BY <1>1, <1>2, <1>4, NoFrameType DEF UserDataInv, TypeOK, HeapTypeOK
<1>6. AllocInv'
  BY <1>1, <1>4 DEF UserDataInv, AllocInv
<1>7. ClassInv'
  <2>1. complete' \cap failed' = {}
    BY <1>1 DEF UserDataInv, ClassInv
  <2>2. \A c \in complete' \cup failed' : MetatableOf(c)' # Nil
    BY <1>1, <1>3 DEF UserDataInv, ClassInv
  <2>3. \A c \in Class : MetatableOf(c)' # Nil => c \in complete' \cup failed'
    BY <1>1, <1>3 DEF UserDataInv, ClassInv
  <2> QED
    BY <1>3, <2>1, <2>2, <2>3 DEF UserDataInv, ClassInv
<1>8. HiddenInv'
  BY <1>1, <1>2, <1>3 DEF UserDataInv, HiddenInv
<1>9. UserdataInv' /\ SealedInv'
  BY <1>1, <1>3 DEF UserDataInv, UserdataInv, SealedInv
<1>10. FrameInv' /\ StackInv' /\ ScriptsInv'
  BY <1>1, <1>3, NoMetamethod DEF FrameInv, NoFrame, StackInv
<1> QED
  BY <1>5, <1>6, <1>7, <1>8, <1>9, <1>10 DEF UserDataInv

\* No script runs while a metatable is being built: the table the functions go
\* into then is one no script has given metamethods.
LEMMA ScriptsRunOutside ==
  ASSUME UserDataInv, pc = "idle" \/ frame.meta
  PROVE  ~ Building
<1>1. CASE pc \in {"idle", "get", "set"}
  BY <1>1 DEF Building
<1>2. CASE frame.meta /\ pc = "function"
  <2>1. SUFFICES ASSUME frame.ret = "filled" PROVE FALSE
    BY <1>2 DEF Building
  <2>2. /\ stack[Len(stack)] = MetatableOf(class) /\ class \in Class \ failed
        /\ MetatableOf(class) # Nil
    BY <1>2, <2>1 DEF UserDataInv, StackInv, FrameInv, Building
  <2>3. MetatableOf(class) \in Table /\ MetatableOf(class) \notin known
    BY <2>2 DEF UserDataInv, ClassInv, HiddenInv
  <2> QED
    BY <1>2, <2>2, <2>3, Values DEF UserDataInv, ScriptsInv
<1> QED
  BY <1>1, <1>2 DEF UserDataInv, ScriptsInv

\* A script that learns of a harmless table.
LEMMA LearnInv ==
  ASSUME UserDataInv, ~ Building, NEW v, NEW b \in BOOLEAN,
         frame' = [frame EXCEPT !.meta = b],
         UNCHANGED <<stack, heap, udMeta, writes, pc, class, udClass, complete, failed, caller>>,
         alloc \subseteq alloc', alloc' \subseteq Table,
         known' = IF v \in Table THEN known \cup {v} ELSE known,
         v \in Table => v \in alloc' \ {Registry} /\ Harmless(v),
         tampered' \in SUBSET (Table \cup {Plain}), ScriptsInv'
  PROVE  UserDataInv'
<1>1. \A d : MetatableOf(d)' = MetatableOf(d)
  BY DEF MetatableOf
<1>2. /\ frame' \in Frame /\ frame'.name = frame.name /\ frame'.fns = frame.fns
      /\ frame'.nup = frame.nup /\ frame'.ret = frame.ret
  BY MetaFrame
<1>3. ~ Building'
  BY <1>2 DEF Building
<1>4. TypeOK'
  BY <1>2 DEF UserDataInv, TypeOK, HeapTypeOK
<1>5. AllocInv'
  BY DEF UserDataInv, AllocInv
<1>6. ClassInv'
  BY <1>1 DEF UserDataInv, ClassInv
<1>7. HiddenInv'
  <2> SUFFICES ASSUME NEW c \in Class \ failed, MetatableOf(c) # Nil
               PROVE  /\ MetatableOf(c) \notin known'
                      /\ \A t \in Table \ {Registry}, k \in Key : heap[t][k] # MetatableOf(c)
    BY <1>1 DEF HiddenInv
  <2>1. MetatableOf(c) # v \/ v \notin Table
    BY DEF Harmless
  <2> QED
    BY <2>1 DEF UserDataInv, HiddenInv
<1>8. UserdataInv' /\ SealedInv'
  BY <1>1 DEF UserDataInv, UserdataInv, SealedInv
<1>9. FrameInv' /\ StackInv'
  BY <1>1, <1>2, <1>3 DEF UserDataInv, FrameInv, StackInv, Harmless
<1> QED
  BY <1>4, <1>5, <1>6, <1>7, <1>8, <1>9 DEF UserDataInv

\* A script that runs keeps what is said of scripts.
LEMMA ScriptsKept ==
  ASSUME UserDataInv, UNCHANGED <<stack, pc, frame>>,
         known \subseteq known', tampered \subseteq tampered',
         tampered' \subseteq tampered \cup known' \cup {Plain}
  PROVE  ScriptsInv' /\ frame' = [frame EXCEPT !.meta = frame.meta] /\ frame.meta \in BOOLEAN
BY Shapes DEF UserDataInv, ScriptsInv, Frame

\* A metamethod starts where a script has put one, before Register has built
\* anything.
LEMMA LibCallWhere ==
  ASSUME UserDataInv, LibCall
  PROVE  /\ pc \in {"get", "set", "function"} /\ ~ Building
         /\ pc = "function" => stack[Len(stack)] \notin Table \ tampered
         /\ pc \in {"get", "set"} => Globals \in tampered
<1>1. pc \in {"get", "set", "function"}
  BY DEF LibCall
<1>2. /\ pc = "function" => stack[Len(stack)] \notin Table \ tampered
      /\ pc \in {"get", "set"} => Globals \in tampered
  <2>1. pc = "function" => stack # << >>
    BY Shapes DEF UserDataInv, StackInv, FrameInv, Building
  <2>2. pc = "function" => LibTarget = stack[Len(stack)]
    BY <2>1, Shapes DEF LibTarget, At, Absolute
  <2> QED
    BY <2>2 DEF LibCall, MayCall
<1>3. CASE pc = "function" /\ frame.ret = "filled"
  <2>1. /\ stack[Len(stack)] = MetatableOf(class) /\ class \in Class \ failed
        /\ MetatableOf(class) # Nil
    BY <1>3 DEF UserDataInv, StackInv, FrameInv, Building
  <2>2. MetatableOf(class) \in Table /\ MetatableOf(class) \notin known
    BY <2>1 DEF UserDataInv, ClassInv, HiddenInv
  <2> QED
    BY <1>2, <1>3, <2>1, <2>2, Values DEF UserDataInv, ScriptsInv
<1>4. CASE ~ (pc = "function" /\ frame.ret = "filled")
  BY <1>1, <1>2, <1>4 DEF Building
<1> QED
  BY <1>3, <1>4

\* The value a metamethod may be given is harmless.
LEMMA LibCallInv ==
  ASSUME UserDataInv, RegisterStep, LibCall
  PROVE  UserDataInv' /\ KeepsMetatables
<1>1. /\ pc \in {"get", "set", "function"} /\ pc' = pc /\ class' = class
      /\ frame' = [frame EXCEPT !.meta = TRUE]
      /\ UNCHANGED <<stack, heap, alloc, udMeta, tampered, writes, udClass, complete, failed, caller>>
  BY DEF LibCall, RegisterStep
<1>2. frame'.meta /\ known \subseteq known'
  BY <1>1, MetaFrame DEF LibCall
<1>3. ScriptsInv' /\ ~ Building
  BY <1>1, <1>2, LibCallWhere DEF UserDataInv, ScriptsInv
<1>4. alloc' \subseteq Table /\ tampered' \in SUBSET (Table \cup {Plain})
  BY <1>1 DEF UserDataInv, TypeOK, HeapTypeOK
<1>5. CASE pc = "set"
  <2>1. PICK t : t = stack[Len(stack)]
    OBVIOUS
  <2>2. t \in Table /\ Harmless(t) /\ Len(stack) >= 3
    BY <1>5, <2>1 DEF UserDataInv, StackInv
  <2>3. t \in alloc \ {Registry}
    BY <2>1, <2>2, Shapes DEF UserDataInv, AllocInv
  <2>4. known' = known \cup {t}
    <3>1. At(stack, -1) = stack[Len(stack)]
      BY <2>2, Shapes DEF At, Absolute
    <3> QED
      BY <1>5, <2>1, <3>1 DEF LibCall
  <2> QED
    BY <1>1, <1>3, <1>4, <2>2, <2>3, <2>4, LearnInv, SameHeap
<1>6. CASE pc # "set"
  <2>1. known' = known
    BY <1>6 DEF LibCall
  <2> QED
    BY <1>1, <1>3, <1>4, <2>1, LearnInv, SameHeap, Values
<1> QED
  BY <1>5, <1>6

LEMMA ScriptInv ==
  ASSUME UserDataInv, ScriptTurn, UNCHANGED <<class, udClass, complete, failed, caller>>
  PROVE  UserDataInv' /\ KeepsMetatables
<1>1. ~ Building /\ UNCHANGED <<pc, frame>> /\ Script
  BY ScriptsRunOutside DEF ScriptTurn
<1>2. alloc \subseteq Table /\ known \subseteq Table
  BY DEF UserDataInv, TypeOK, HeapTypeOK
<1>3. CASE ScriptNewTable
  <2>1. PICK t \in Table \ alloc :
          /\ alloc' = alloc \cup {t} /\ known' = known \cup {t}
          /\ UNCHANGED <<stack, heap, udMeta, tampered, writes>>
    BY <1>3 DEF ScriptNewTable
  <2>2. Harmless(t) /\ t # Registry
    BY Values DEF Harmless, MetatableOf, UserDataInv, AllocInv
  <2> QED
    BY <1>1, <1>2, <2>1, <2>2, LearnInv, ScriptsKept, SameHeap DEF UserDataInv, TypeOK, HeapTypeOK
<1>4. CASE ScriptRead
  <2>1. PICK t \in known, k \in Name :
          /\ Learn(heap[t][k])
          /\ UNCHANGED <<stack, heap, alloc, udMeta, tampered, writes>>
    BY <1>4 DEF ScriptRead
  <2>2. PICK v : v = heap[t][k]
    OBVIOUS
  <2>3. t \in Table \ {Registry} /\ k \in Key
    BY <1>2, Values DEF UserDataInv, AllocInv
  <2>4. v \in Table => v \in alloc \ {Registry} /\ Harmless(v)
    BY <2>2, <2>3 DEF UserDataInv, AllocInv, HiddenInv, Harmless
  <2> QED
    BY <1>1, <1>2, <2>1, <2>2, <2>4, LearnInv, ScriptsKept, SameHeap
       DEF Learn, UserDataInv, TypeOK, HeapTypeOK
<1>5. CASE ScriptGetMetatable
  <2>1. PICK u \in Userdata :
          /\ udMeta[u] \in Table
          /\ Learn(IF heap[udMeta[u]][Metatable] = Nil
                   THEN udMeta[u] ELSE heap[udMeta[u]][Metatable])
          /\ UNCHANGED <<stack, heap, alloc, udMeta, tampered, writes>>
    BY <1>5 DEF ScriptGetMetatable
  <2>2. PICK c \in Class, m \in Table :
          c = udClass[u] /\ m = udMeta[u] /\ m = MetatableOf(c) /\ m # Nil
    BY <2>1, Values DEF UserDataInv, UserdataInv
  <2>3. PICK v : v = IF heap[m][Metatable] = Nil THEN m ELSE heap[m][Metatable]
    OBVIOUS
  <2>4. c \in complete \cup failed
    BY <1>1, <2>2 DEF UserDataInv, ClassInv
  <2>5. m \in alloc \ {Registry}
    BY <2>2, Values DEF UserDataInv, AllocInv, MetatableOf
  <2>6. v \in Table => v \in alloc \ {Registry} /\ Harmless(v)
    <3>1. CASE heap[m][Metatable] = Nil
      <4>1. v = m /\ c \in failed
        BY <2>2, <2>3, <2>4, <3>1 DEF UserDataInv, SealedInv
      <4> QED
        BY <2>2, <2>5, <4>1 DEF UserDataInv, ClassInv, Harmless
    <3>2. CASE heap[m][Metatable] # Nil
      <4>1. v = heap[m][Metatable] /\ Metatable \in Key
        BY <2>3, <3>2, Values
      <4> QED
        BY <2>5, <4>1 DEF UserDataInv, AllocInv, HiddenInv, Harmless
    <3> QED
      BY <3>1, <3>2
  <2> QED
    BY <1>1, <1>2, <2>1, <2>2, <2>3, <2>6, LearnInv, ScriptsKept, SameHeap
       DEF Learn, UserDataInv, TypeOK, HeapTypeOK
<1>6. CASE ScriptWrite
  <2>1. PICK t \in known, k \in ScriptKey, v \in known \cup {Nil, Plain} :
          /\ writes' = writes + 1
          /\ heap' = Stored(heap, t, k, v)
          /\ tampered' = tampered \cup {t}
          /\ UNCHANGED <<stack, alloc, udMeta, known>>
    BY <1>6 DEF ScriptWrite, ScriptValue
  <2>2. t \in Table \ {Registry} /\ k \in Key /\ v \in Value
    BY <1>2, Values, NameAssumption DEF UserDataInv, AllocInv
  <2>3. \A c \in Class : MetatableOf(c) # Nil => MetatableOf(c) \in Table
    BY DEF UserDataInv, ClassInv
  <2>4. Harmless(v) /\ (v \in Table => v \in alloc \ {Registry})
    BY <1>2, <2>3, Values DEF UserDataInv, AllocInv, HiddenInv, Harmless
  <2>5. \A c \in complete : t # MetatableOf(c)
    BY DEF UserDataInv, TypeOK, ClassInv, HiddenInv
  <2>6. \A i \in 1..Len(stack') : stack'[i] \in Table => stack'[i] \in alloc \ {Registry}
    BY <2>1 DEF UserDataInv, AllocInv
  <2>7. /\ heap' \in [Table -> [Key -> Value]]
        /\ AllocInv' /\ ClassInv' /\ HiddenInv' /\ UserdataInv' /\ SealedInv'
        /\ \A w : Harmless(w)' <=> Harmless(w)
        /\ \A c \in Class : MetatableOf(c)' = MetatableOf(c)
        /\ \A c \in complete : heap'[MetatableOf(c)] = heap[MetatableOf(c)]
    BY <1>1, <2>1, <2>2, <2>4, <2>5, <2>6, HarmlessStore
  <2>8. TypeOK'
    BY <1>1, <1>2, <2>1, <2>7 DEF UserDataInv, TypeOK, HeapTypeOK
  <2>9. ~ Building' /\ pc # "indexed"
    BY <1>1 DEF Building
  <2>10. FrameInv' /\ StackInv' /\ ScriptsInv'
    BY <1>1, <2>1, <2>7, <2>9, ScriptsKept DEF UserDataInv, FrameInv, StackInv
  <2> QED
    BY <2>7, <2>8, <2>10 DEF UserDataInv, KeepsMetatables
<1>7. CASE ScriptSetMetatable
  <2>1. PICK t \in known \cup {Plain} :
          /\ writes' = writes + 1 /\ tampered' = tampered \cup {t}
          /\ UNCHANGED <<stack, heap, alloc, udMeta, known>>
    BY <1>7 DEF ScriptSetMetatable
  <2>2. TypeOK'
    BY <1>1, <1>2, <2>1 DEF UserDataInv, TypeOK, HeapTypeOK
  <2>3. HiddenInv' /\ UserdataInv' /\ SealedInv' /\ AllocInv' /\ ClassInv'
    BY <1>1, <2>1, QuietStep DEF UserDataInv, AllocInv
  <2>4. ~ Building' /\ pc # "indexed" /\ \A w : Harmless(w)' <=> Harmless(w)
    BY <1>1, <2>1, QuietStep DEF Building
  <2>5. FrameInv' /\ StackInv' /\ ScriptsInv'
    BY <1>1, <2>1, <2>4, ScriptsKept DEF UserDataInv, FrameInv, StackInv
  <2> QED
    BY <2>1, <2>2, <2>3, <2>5, SameHeap DEF UserDataInv
<1> QED
  BY <1>1, <1>3, <1>4, <1>5, <1>6, <1>7 DEF Script

-----------------------------------------------------------------------------
(* The theorems.                                                            *)

LEMMA StepInv ==
  ASSUME UserDataInv, Next
  PROVE  UserDataInv' /\ KeepsMetatables /\ complete' \cap failed = {}
<1>0. complete \cap failed = {}
  BY DEF UserDataInv, ClassInv
<1>1. ASSUME NEW c \in Class, Register(c) PROVE UserDataInv' /\ UNCHANGED <<heap, complete>>
  BY <1>1, RegisterInv DEF Register
<1>2. ASSUME NEW c \in Class, PushUserdata(c) PROVE UserDataInv' /\ UNCHANGED <<heap, complete>>
  BY <1>2, PushUserdataInv DEF PushUserdata
<1>3. CASE RegisterMetatable
  BY <1>0, <1>3, RegisterMetatableInv, SameHeap DEF RegisterMetatable
<1>4. CASE RegisterMeta
  BY <1>0, <1>4, RegisterMetaInv, SameHeap DEF RegisterMeta
<1>5. CASE RegisterIndex
  BY <1>0, <1>5, RegisterIndexInv DEF RegisterIndex
<1>6. CASE RegisterSeal
  BY <1>6, RegisterSealInv
<1>7. CASE RegisterStep
  <2>1. complete' = complete /\ (LibStep \/ NmtStep)
    BY <1>7 DEF RegisterStep
  <2>9. CASE LibCall
    BY <1>0, <1>7, <2>1, <2>9, LibCallInv
  <2>2. CASE LibGet
    BY <1>0, <1>7, <2>1, <2>2, LibGetInv, SameHeap DEF LibGet
  <2>3. CASE LibSet
    BY <1>0, <1>7, <2>1, <2>3, LibSetInv
  <2>4. CASE LibFunction
    BY <1>0, <1>7, <2>1, <2>4, LibFunctionInv
  <2>5. CASE LibReturn
    BY <1>0, <1>7, <2>1, <2>5, LibReturnInv, SameHeap DEF LibReturn
  <2>6. CASE NmtFound
    BY <1>0, <1>7, <2>1, <2>6, NmtFoundInv, SameHeap DEF NmtFound
  <2>7. CASE NmtCreate
    BY <1>0, <1>7, <2>1, <2>7, NmtCreateInv
  <2>8. CASE NmtLink
    BY <1>0, <1>7, <2>1, <2>8, NmtLinkInv
  <2> QED
    BY <2>1, <2>2, <2>3, <2>4, <2>5, <2>6, <2>7, <2>8, <2>9 DEF LibStep, NmtStep
<1>8. CASE RegisterError
  BY <1>0, <1>8, RegisterErrorInv, SameHeap DEF RegisterError, LuaError
<1>9. CASE Surroundings
  <2>1. CASE FunctionReturn
    BY <1>0, <1>9, <2>1, FunctionReturnInv, SameHeap DEF Surroundings, FunctionReturn
  <2>2. CASE ScriptTurn
    BY <1>0, <1>9, <2>2, ScriptInv DEF Surroundings
  <2> QED
    BY <1>9, <2>1, <2>2 DEF Surroundings
<1> QED
  BY <1>0, <1>1, <1>2, <1>3, <1>4, <1>5, <1>6, <1>7, <1>8, <1>9, SameHeap DEF Next

LEMMA StutterInv ==
  ASSUME UserDataInv, UNCHANGED vars
  PROVE  UserDataInv'
BY DEF UserDataInv, TypeOK, HeapTypeOK, AllocInv, ClassInv, HiddenInv, UserdataInv, SealedInv,
       FrameInv, StackInv, ScriptsInv, Building, Harmless, MetatableOf, vars, libVars

\* The inductive invariant of registration, under any scripts and errors.
THEOREM Invariance == Spec => []UserDataInv
<1>1. UserDataInv /\ [Next]_vars => UserDataInv'
  BY StepInv, StutterInv
<1> QED
  BY InitInv, <1>1, PTL DEF Spec

\* Every variable keeps its type: in particular, only tables become metatables
\* and every stack index Register computes stays inside the stack.
THEOREM TypeCorrect == Spec => []TypeOK
<1>1. UserDataInv => TypeOK
  BY DEF UserDataInv
<1> QED
  BY Invariance, <1>1, PTL

\* No script gets hold of the metatable of a completely registered class.
THEOREM Hidden == Spec => []MetatableHidden
<1>1. UserDataInv => MetatableHidden
  BY DEF UserDataInv, TypeOK, ClassInv, HiddenInv, MetatableHidden
<1> QED
  BY Invariance, <1>1, PTL

\* __index and __metatable of a complete class name one object, and not the
\* metatable.
THEOREM Sealed == Spec => []MetatableSealed
<1>1. UserDataInv => MetatableSealed
  <2> SUFFICES ASSUME UserDataInv, NEW c \in complete
               PROVE  /\ MetatableOf(c) \in alloc
                      /\ heap[MetatableOf(c)][Metatable] = heap[MetatableOf(c)][Index]
                      /\ heap[MetatableOf(c)][Index] \notin {Nil, MetatableOf(c)}
    BY DEF MetatableSealed
  <2>1. c \in Class /\ MetatableOf(c) \in Table
    BY DEF UserDataInv, TypeOK, ClassInv
  <2>2. MetatableOf(c) \in alloc
    BY <2>1, Values DEF UserDataInv, AllocInv, MetatableOf
  <2> QED
    BY <2>2 DEF UserDataInv, SealedInv
<1> QED
  BY Invariance, <1>1, PTL

\* A userdata's metatable tells the Ada type it was pushed as.
THEOREM Typed == Spec => []UserdataTyped
<1>1. UserDataInv => UserdataTyped
  BY DEF UserDataInv, ClassInv, UserdataInv, UserdataTyped
<1> QED
  BY Invariance, <1>1, PTL

\* Only an error leaves a class published and unfinished.
THEOREM HalfBuilt == Spec => []HalfBuiltOnlyByError
<1>1. UserDataInv => HalfBuiltOnlyByError
  BY DEF UserDataInv, ClassInv, HalfBuiltOnlyByError
<1> QED
  BY Invariance, <1>1, PTL

\* The metatable of a complete class never changes again.
THEOREM Frozen == Spec => MetatableFrozen
<1>1. UserDataInv /\ [Next]_vars =>
        [\A c \in complete : /\ MetatableOf(c)' = MetatableOf(c)
                             /\ heap'[MetatableOf(c)] = heap[MetatableOf(c)]]_vars
  BY StepInv DEF KeepsMetatables, UserDataInv, TypeOK, ClassInv
<1> QED
  BY Invariance, <1>1, PTL DEF Spec, MetatableFrozen

\* A class an error left half built is never completed.
THEOREM HalfBuiltStays == Spec => HalfBuiltForever
<1>1. UserDataInv /\ [Next]_vars =>
        [\A c \in failed : c \notin complete' /\ MetatableOf(c)' = MetatableOf(c)]_vars
  BY StepInv DEF KeepsMetatables, UserDataInv, TypeOK, ClassInv
<1> QED
  BY Invariance, <1>1, PTL DEF Spec, HalfBuiltForever

-----------------------------------------------------------------------------
(* What the tables Register fills contain, and what it leaves on the stack. *)
(* More facts have to be carried through its loops: which functions have    *)
(* been stored already, where on the stack the object is they go into, and  *)
(* that, while no script has touched the globals, no two classes have one   *)
(* object and only the binding takes a value out of it.                     *)

\* The loop of Open_Library has stored so many functions.
Done == Len(frame.all) - Len(frame.fns)

\* The object the methods of the class being registered go into.
Object == stack[Len(caller) + 1]

HasObject == pc \in {"function", "opened", "metatable", "link", "created", "filled", "indexed"}

\* The object a complete class looks methods up in.
Methods(c) == heap[MetatableOf(c)][Index]

\* The first n functions of fns are in t, or later ones of the same name.
Bound(h, t, fns, n) ==
  \A i \in 1..n : \E j \in DOMAIN fns :
    /\ fns[j].name = fns[i].name
    /\ h[t][fns[i].name] = [fn |-> fns[j].func, up |-> << >>]

\* The classes that may have stored methods in the object of c.
Owners(c) == IF Globals \in tampered THEN Class ELSE {c}

\* Under k is in t what such a class has under that name.
HasMethod(t, k, c) ==
  \E d \in Owners(c) : \E j \in DOMAIN Method_Table[d] :
    /\ Method_Table[d][j].name = k
    /\ heap[t][k] = [fn |-> Method_Table[d][j].func, up |-> << >>]

\* The first n methods of c are in t, if t is a table no script touched.
Present(t, c, n) ==
  t \in Table \ tampered => \A i \in 1..n : HasMethod(t, Method_Table[c][i].name, c)

\* t is the global of c's name, if no script touched the globals.
Own(c, t) == Globals \notin tampered => t = heap[Globals][c]

\* The loop works on the array it was given.
LoopInv ==
  /\ pc \in {"get", "set"} => frame.fns = frame.all
  /\ pc \in {"get", "set", "function"} =>
       /\ frame.all = IF frame.ret = "filled" THEN Meta_Table[class] ELSE Method_Table[class]
       /\ Len(frame.fns) <= Len(frame.all)
       /\ \A i \in 1..Len(frame.fns) : frame.fns[i] = frame.all[Done + i]

\* The caller's values are under those of Register.
CallerInv ==
  /\ pc # "idle" => \A i \in 1..Len(caller) : stack[i] = caller[i]
  /\ pc = "get" => Len(stack) = Len(caller)
  /\ pc = "set" => Len(stack) = Len(caller) + 3
  /\ HasObject => Len(stack) = Len(caller) + (IF Building THEN 2 ELSE 1)

\* Globals no script touched hold one object for each class.
GlobalsInv ==
  Globals \notin tampered =>
    /\ \A c \in Class : heap[Globals][c] # Globals
    /\ \A c, d \in Class :
         heap[Globals][c] = heap[Globals][d] /\ c # d => heap[Globals][c] = Nil
    /\ pc = "set" =>
         /\ heap[Globals][class] = Nil
         /\ stack[Len(stack)] # Globals
         /\ \A c \in Class : heap[Globals][c] # stack[Len(stack)]

\* A complete class has everything.
Whole(c) ==
  /\ Bound(heap, MetatableOf(c), Meta_Table[c], Len(Meta_Table[c]))
  /\ Own(c, Methods(c))
  /\ Present(Methods(c), c, Len(Method_Table[c]))

CompleteInv == \A c \in complete : Whole(c)

\* How many methods Register has stored.
Count == IF pc = "function" /\ frame.ret = "opened" THEN Done ELSE Len(Method_Table[class])

\* The class being registered has what has been stored so far.
RunInv ==
  /\ pc \in {"filled", "indexed"} =>
       Bound(heap, MetatableOf(class), Meta_Table[class], Len(Meta_Table[class]))
  /\ pc = "function" /\ frame.ret = "filled" =>
       Bound(heap, MetatableOf(class), Meta_Table[class], Done)
  /\ HasObject => Own(class, Object) /\ Present(Object, class, Count)

ContentsInv ==
  UserDataInv /\ LoopInv /\ CallerInv /\ GlobalsInv /\ CompleteInv /\ RunInv

\* What a state has to show beyond UserDataInv and the complete classes.
Run == LoopInv /\ CallerInv /\ GlobalsInv /\ RunInv

\* Where the methods of a class may be.
Home(c, t) == t # Registry /\ Harmless(t) /\ Own(c, t)

\* No step but a script's takes a method out of such a place, or replaces an
\* object among the globals.
Keeps ==
  /\ tampered \subseteq tampered'
  /\ Globals \notin tampered' =>
       \A c \in Class : heap[Globals][c] # Nil => heap'[Globals][c] = heap[Globals][c]
  /\ \A c \in Class, t \in Table \ tampered' : Home(c, t) =>
       \A k \in Name : heap'[t][k] = heap[t][k] \/ HasMethod(t, k, c)'

\* How far a loop is.
LEMMA Minus ==
  ASSUME NEW a \in Nat, NEW b \in 0..a
  PROVE  /\ a - b \in 0..a
         /\ b > 0 => a - b \in 0..(a - 1) /\ a - (b - 1) = (a - b) + 1
OBVIOUS

LEMMA SameKeeps ==
  ASSUME UNCHANGED heap, tampered \subseteq tampered'
  PROVE  Keeps
BY DEF Keeps

\* The arrays of a class.
LEMMA Arrays ==
  ASSUME NEW c \in Class
  PROVE  /\ Method_Table[c] \in Seq(Register_t) /\ Len(Method_Table[c]) \in 0..Len(Method_Table[c])
         /\ Meta_Table[c] \in Seq(Register_t) /\ Len(Meta_Table[c]) \in 0..Len(Meta_Table[c])
         /\ DOMAIN Meta_Table[c] = 1..Len(Meta_Table[c])
         /\ DOMAIN Method_Table[c] = 1..Len(Method_Table[c])
         /\ \A i \in DOMAIN Meta_Table[c] : Meta_Table[c][i].name \in Name \ {Index, Metatable}
         /\ \A i \in DOMAIN Method_Table[c] : Method_Table[c][i].name \in Name
<1>1. Method_Table[c] \in Seq(Register_t) /\ Meta_Table[c] \in Seq(Register_t)
  BY ClassAssumption
<1>2. /\ \A i \in DOMAIN Meta_Table[c] : Meta_Table[c][i] \in Register_t
      /\ \A i \in DOMAIN Method_Table[c] : Method_Table[c][i] \in Register_t
  BY <1>1
<1> QED
  BY <1>1, <1>2, MetaNamesAssumption DEF Register_t

\* The globals are no object of a class, unless scripts touched them.
LEMMA HomeNotGlobals ==
  ASSUME GlobalsInv, NEW c \in Class, NEW t \in Table \ tampered, Home(c, t)
  PROVE  t # Globals
BY DEF GlobalsInv, Home, Own

\* The stores of the binding outside of the objects: into the registry, and
\* into the metatable being built.
LEMMA StoreKeeps ==
  ASSUME UserDataInv, GlobalsInv, UNCHANGED tampered,
         NEW m \in Table, m = Registry \/ (Building /\ m = MetatableOf(class)),
         NEW k \in Key, NEW v \in Value, heap' = Stored(heap, m, k, v)
  PROVE  Keeps /\ heap'[Globals] = heap[Globals]
<1>1. \A t \in Table : t # m => heap'[t] = heap[t]
  <2>1. heap \in [Table -> [Key -> Value]]
    BY Shapes
  <2> QED
    BY <2>1, StoreFacts
<1>2. m = MetatableOf(class) /\ Building => class \in Class \ failed /\ m # Nil
  BY Values DEF UserDataInv, FrameInv, StackInv, Building
<1>3. Globals # m
  BY <1>2, Values DEF UserDataInv, AllocInv, HiddenInv
<1>4. \A c \in Class, t \in Table : Home(c, t) => t # m
  BY <1>2 DEF Home, Harmless
<1> QED
  BY <1>1, <1>3, <1>4, Values DEF Keeps

LEMMA PresentKept ==
  ASSUME Keeps, NEW c \in Class, NEW t, NEW n \in 0..Len(Method_Table[c]),
         t \in Table => Home(c, t), Present(t, c, n)
  PROVE  Present(t, c, n)'
<1> SUFFICES ASSUME t \in Table \ tampered', NEW i \in 1..n
             PROVE  HasMethod(t, Method_Table[c][i].name, c)'
  BY DEF Present
<1> DEFINE k == Method_Table[c][i].name
<1>1. k \in Name /\ t \in Table \ tampered
  BY Arrays DEF Keeps
<1>2. HasMethod(t, k, c)
  BY <1>1 DEF Present
<1> HIDE DEF k
<1>3. heap'[t][k] = heap[t][k] \/ HasMethod(t, k, c)'
  BY <1>1 DEF Keeps
<1>4. Owners(c) \subseteq Owners(c)'
  BY DEF Keeps, Owners
<1>5. heap'[t][k] = heap[t][k] => HasMethod(t, k, c)'
  BY <1>2, <1>4 DEF HasMethod
<1> QED
  BY <1>3, <1>5 DEF k

LEMMA OwnKept ==
  ASSUME Keeps, NEW c \in Class, NEW t, t # Nil, Own(c, t)
  PROVE  Own(c, t)'
BY DEF Keeps, Own

LEMMA GlobalsKept ==
  ASSUME GlobalsInv, tampered \subseteq tampered',
         Globals \notin tampered' => \A c \in Class : heap'[Globals][c] = heap[Globals][c],
         pc' = "set" => pc = "set" /\ stack' = stack /\ class' = class /\ class \in Class
  PROVE  GlobalsInv'
BY DEF GlobalsInv

\* A complete class keeps everything.
LEMMA CompleteKept ==
  ASSUME ContentsInv, KeepsMetatables, Keeps, NEW c \in complete
  PROVE  Whole(c)'
<1>1. c \in Class /\ MetatableOf(c) \in Table /\ MetatableOf(c) # Nil /\ c \notin failed
  BY DEF ContentsInv, UserDataInv, TypeOK, ClassInv
<1>2. MetatableOf(c)' = MetatableOf(c) /\ heap'[MetatableOf(c)] = heap[MetatableOf(c)]
  BY <1>1 DEF KeepsMetatables
<1>3. Whole(c)
  BY DEF ContentsInv, CompleteInv
<1>4. Bound(heap', MetatableOf(c), Meta_Table[c], Len(Meta_Table[c]))
  BY <1>2, <1>3 DEF Bound, Whole
<1>5. PICK t : t = Methods(c)
  OBVIOUS
<1>6. Methods(c)' = t
  BY <1>2, <1>5 DEF Methods
<1>7. t # Nil /\ (t \in Table => Home(c, t))
  <2>1. MetatableOf(c) \in alloc \ {Registry}
    BY <1>1, Values DEF ContentsInv, UserDataInv, AllocInv, MetatableOf
  <2>2. t # Nil /\ (t \in Table => t # Registry /\ Harmless(t))
    BY <1>1, <1>5, <2>1, Values
       DEF Methods, ContentsInv, UserDataInv, AllocInv, HiddenInv, SealedInv, Harmless
  <2> QED
    BY <1>3, <1>5, <2>2 DEF Home, Whole
<1>8. Own(c, t)' /\ Present(t, c, Len(Method_Table[c]))'
  <2>1. Own(c, t) /\ Present(t, c, Len(Method_Table[c]))
    BY <1>3, <1>5 DEF Whole
  <2>2. Len(Method_Table[c]) \in 0..Len(Method_Table[c])
    BY <1>1, Arrays
  <2> QED
    BY <1>1, <1>7, <2>1, <2>2, OwnKept, PresentKept
<1> QED
  BY <1>2, <1>4, <1>6, <1>8 DEF Whole, Own, Present, HasMethod, Owners

\* Where the object is, and that it is a home of the class.
LEMMA ObjectFacts ==
  ASSUME ContentsInv, HasObject
  PROVE  /\ class \in Class /\ Len(caller) \in Nat /\ Len(stack) \in Nat
         /\ Len(caller) + 1 \in 1..Len(stack)
         /\ Object = stack[IF Building THEN Len(stack) - 1 ELSE Len(stack)]
         /\ Object # Nil /\ Harmless(Object)
         /\ Object \in Table => Home(class, Object) /\ Object \in alloc
<1>1. /\ class \in Class /\ Len(caller) \in Nat /\ Len(stack) \in Nat
      /\ Len(stack) = Len(caller) + (IF Building THEN 2 ELSE 1)
      /\ Own(class, Object)
  BY Shapes DEF ContentsInv, UserDataInv, TypeOK, FrameInv, CallerInv, RunInv, HasObject
<1>2. Len(caller) + 1 \in 1..Len(stack)
  BY <1>1
<1>3. Object = stack[IF Building THEN Len(stack) - 1 ELSE Len(stack)]
  BY <1>1 DEF Object
<1>4. Object # Nil /\ Harmless(Object)
  <2>1. CASE Building
    BY <1>3, <2>1 DEF ContentsInv, UserDataInv, StackInv
  <2>2. CASE ~ Building
    <3>1. pc \in {"opened", "metatable"} \/ (pc = "function" /\ frame.ret = "opened")
      BY <2>2 DEF HasObject, Building, ContentsInv, UserDataInv, FrameInv
    <3> QED
      BY <1>3, <2>2, <3>1 DEF ContentsInv, UserDataInv, StackInv
  <2> QED
    BY <2>1, <2>2
<1>5. Object \in Table => Object \in alloc \ {Registry}
  BY <1>2 DEF Object, ContentsInv, UserDataInv, AllocInv
<1> QED
  BY <1>1, <1>2, <1>3, <1>4, <1>5 DEF Home

\* A step that leaves the object where it is.
LEMMA ObjectKept ==
  ASSUME ContentsInv, Keeps, HasObject, class' = class, caller' = caller,
         \A i \in 1..Len(stack) : stack'[i] = stack[i],
         NEW n \in 0..Len(Method_Table[class]), Present(Object, class, n)
  PROVE  Object' = Object /\ Own(class, Object)' /\ Present(Object, class, n)'
<1>1. PICK o : o = Object
  OBVIOUS
<1>2. Object' = o
  BY <1>1, ObjectFacts DEF Object
<1>3. PICK c \in Class : c = class
  BY ObjectFacts
<1>4. Own(c, o) /\ Present(o, c, n) /\ o # Nil /\ (o \in Table => Home(c, o))
  BY <1>1, <1>3, ObjectFacts DEF ContentsInv, RunInv
<1>5. Own(c, o)' /\ Present(o, c, n)'
  BY <1>3, <1>4, OwnKept, PresentKept
<1> QED
  BY <1>1, <1>2, <1>3, <1>5 DEF Own, Present, HasMethod, Owners

LEMMA CountRange ==
  ASSUME UserDataInv, LoopInv, HasObject
  PROVE  Count \in 0..Len(Method_Table[class])
<1>1. class \in Class
  BY DEF UserDataInv, FrameInv, HasObject
<1>2. CASE pc = "function" /\ frame.ret = "opened"
  <2> DEFINE a == Len(frame.all)
             b == Len(frame.fns)
  <2>1. a \in Nat /\ b \in 0..a /\ Count = a - b /\ frame.all = Method_Table[class]
    <3>1. Len(frame.all) \in Nat /\ Len(frame.fns) \in Nat
      BY Shapes DEF Frame
    <3>2. Len(frame.fns) <= Len(frame.all) /\ frame.all = Method_Table[class]
      BY <1>2 DEF LoopInv
    <3> QED
      BY <1>2, <3>1, <3>2 DEF Count, Done
  <2> HIDE DEF a, b
  <2>2. a - b \in 0..a
    BY <2>1, Minus
  <2> QED
    BY <2>1, <2>2 DEF a
<1>3. CASE ~ (pc = "function" /\ frame.ret = "opened")
  BY <1>1, <1>3, Arrays DEF Count
<1> QED
  BY <1>2, <1>3

\* A step of Register that stores no method keeps what is stored.
LEMMA RunKept ==
  ASSUME ContentsInv, Keeps, HasObject, class' = class, caller' = caller,
         \A i \in 1..Len(stack) : stack'[i] = stack[i], Count' = Count
  PROVE  Own(class, Object)' /\ Present(Object, class, Count)'
<1>1. PICK n \in 0..Len(Method_Table[class]) : n = Count
  BY CountRange DEF ContentsInv
<1>2. Present(Object, class, n)
  BY <1>1 DEF ContentsInv, RunInv
<1>3. Own(class, Object)' /\ Present(Object, class, n)'
  BY <1>2, ObjectKept
<1> QED
  BY <1>1, <1>3 DEF Present

LEMMA SameCaller ==
  ASSUME CallerInv, HasObject, HasObject', Building' <=> Building, UNCHANGED <<stack, caller>>
  PROVE  CallerInv'
BY DEF CallerInv, HasObject

\* Steps into a state where Register is not running.
LEMMA IdleRun ==
  ASSUME pc' = "idle"
  PROVE  LoopInv' /\ CallerInv' /\ RunInv'
BY DEF LoopInv, CallerInv, RunInv, HasObject, Building

\* The same where the step stores nothing.
LEMMA IdleContents ==
  ASSUME ContentsInv, pc' = "idle", UNCHANGED <<heap, tampered>>
  PROVE  Run' /\ Keeps
BY IdleRun, GlobalsKept, SameKeeps DEF Run, ContentsInv

LEMMA RegisterContents ==
  ASSUME ContentsInv, NEW c \in Class, Register(c)
  PROVE  Run' /\ Keeps
<1>1. /\ pc' = "get" /\ class' = c /\ frame' = LibFrame(c, Method_Table[c], 0, "opened")
      /\ caller' = stack /\ UNCHANGED <<stack, heap, tampered>>
  BY Values, NoNameAssumption DEF Register, OpenLibrary
<1>2. frame'.fns = Method_Table[c] /\ frame'.all = Method_Table[c] /\ frame'.ret = "opened"
  BY <1>1 DEF LibFrame
<1>3. Len(Method_Table[c]) \in Nat
  BY Arrays
<1>4. Done' = 0
  BY <1>2, <1>3 DEF Done
<1>5. LoopInv'
  BY <1>1, <1>2, <1>3, <1>4 DEF LoopInv
<1>6. CallerInv' /\ RunInv'
  BY <1>1 DEF CallerInv, RunInv, HasObject, Building
<1>7. GlobalsInv' /\ Keeps
  BY <1>1, GlobalsKept, SameKeeps DEF ContentsInv
<1> QED
  BY <1>5, <1>6, <1>7 DEF Run

LEMMA RegisterMetatableContents ==
  ASSUME ContentsInv, RegisterMetatable
  PROVE  Run' /\ Keeps
<1>1. /\ pc = "opened" /\ pc' = "metatable"
      /\ UNCHANGED <<stack, heap, tampered, class, caller>>
  BY DEF RegisterMetatable, NewMetatable
<1>2. HasObject /\ HasObject' /\ ~ Building /\ ~ Building' /\ Count' = Count
  BY <1>1 DEF HasObject, Building, Count
<1>3. GlobalsInv' /\ Keeps
  BY <1>1, GlobalsKept, SameKeeps DEF ContentsInv
<1>4. LoopInv' /\ CallerInv'
  BY <1>1, <1>2, SameCaller DEF ContentsInv, LoopInv
<1>5. RunInv'
  BY <1>1, <1>2, <1>3, RunKept DEF RunInv
<1> QED
  BY <1>3, <1>4, <1>5 DEF Run

LEMMA RegisterMetaContents ==
  ASSUME ContentsInv, RegisterMeta
  PROVE  Run' /\ Keeps
<1>1. /\ pc = "created" /\ pc' = "function" /\ class' = class /\ class \in Class
      /\ frame' = LibFrame(NoName, Meta_Table[class], 0, "filled")
      /\ UNCHANGED <<stack, heap, tampered, caller>>
  BY DEF RegisterMeta, OpenLibrary, ContentsInv, UserDataInv, FrameInv
<1>2. frame'.fns = Meta_Table[class] /\ frame'.all = Meta_Table[class] /\ frame'.ret = "filled"
  BY <1>1 DEF LibFrame
<1>3. HasObject /\ HasObject' /\ Building /\ Building' /\ Count' = Count
  BY <1>1, <1>2 DEF HasObject, Building, Count
<1>4. Len(Meta_Table[class]) \in Nat
  BY <1>1, Arrays
<1>5. Done' = 0
  BY <1>2, <1>4 DEF Done
<1>6. LoopInv' /\ CallerInv'
  BY <1>1, <1>2, <1>3, <1>4, <1>5, SameCaller DEF LoopInv, ContentsInv
<1>7. GlobalsInv' /\ Keeps
  BY <1>1, GlobalsKept, SameKeeps DEF ContentsInv
<1>8. RunInv'
  BY <1>1, <1>2, <1>3, <1>5, <1>7, RunKept DEF RunInv, Bound
<1> QED
  BY <1>6, <1>7, <1>8 DEF Run

\* A store under another name keeps what is bound.
LEMMA BoundKept ==
  ASSUME UserDataInv, NEW c \in Class, NEW n \in 0..Len(Meta_Table[c]),
         NEW t \in Table, Bound(heap, t, Meta_Table[c], n),
         heap' \in [Table -> [Key -> Value]],
         \A k \in Name \ {Index, Metatable} : heap'[t][k] = heap[t][k]
  PROVE  Bound(heap', t, Meta_Table[c], n)
<1>1. \A i \in 1..n : Meta_Table[c][i].name \in Name \ {Index, Metatable}
  BY Arrays
<1> DEFINE fns == Meta_Table[c]
<1>2. \A i \in 1..n : heap'[t][fns[i].name] = heap[t][fns[i].name]
  BY <1>1
<1>3. Bound(heap, t, fns, n)
  OBVIOUS
<1> HIDE DEF fns
<1>4. Bound(heap', t, fns, n)
  <2> SUFFICES ASSUME NEW i \in 1..n
               PROVE  \E j \in DOMAIN fns : /\ fns[j].name = fns[i].name
                                            /\ heap'[t][fns[i].name] = [fn |-> fns[j].func, up |-> << >>]
    BY DEF Bound
  <2>1. PICK j \in DOMAIN fns : /\ fns[j].name = fns[i].name
                                /\ heap[t][fns[i].name] = [fn |-> fns[j].func, up |-> << >>]
    BY <1>3 DEF Bound
  <2> QED
    BY <1>2, <2>1
<1> QED
  BY <1>4 DEF fns

LEMMA RegisterIndexContents ==
  ASSUME ContentsInv, RegisterIndex, KeepsMetatables
  PROVE  Run' /\ Keeps
<1>1. /\ pc = "filled" /\ pc' = "indexed" /\ class' = class /\ class \in Class
      /\ UserDataInv /\ Len(stack) >= 2 /\ tampered' = tampered /\ caller' = caller
  BY FieldTarget DEF RegisterIndex, ContentsInv
<1>2. PICK m \in Table \ {Registry}, v \in Value :
        m = stack[Len(stack)] /\ m = MetatableOf(class) /\ v = stack[Len(stack) - 1] /\ v # Nil
  BY <1>1, FieldTarget
<1>3. stack' = stack /\ heap' = Stored(heap, m, Index, v)
  BY <1>1, <1>2, FieldEffect, Values DEF RegisterIndex
<1>4. HasObject /\ HasObject' /\ Building /\ Building' /\ Count' = Count
  BY <1>1 DEF HasObject, Building, Count
<1>5. Keeps /\ heap'[Globals] = heap[Globals]
  BY <1>1, <1>2, <1>3, <1>4, StoreKeeps, Values DEF ContentsInv
<1>6. MetatableOf(class)' = m
  <2>1. MetatableOf(class) # Nil
    BY <1>2, Values
  <2> QED
    BY <1>1, <1>2, <2>1 DEF KeepsMetatables
<1>7. /\ heap' \in [Table -> [Key -> Value]]
      /\ \A k \in Name \ {Index, Metatable} : heap'[m][k] = heap[m][k]
  <2>1. heap \in [Table -> [Key -> Value]] /\ Index \in Key /\ Name \subseteq Key
    BY <1>1, Shapes, Values
  <2>2. /\ Stored(heap, m, Index, v) \in [Table -> [Key -> Value]]
        /\ \A k \in Key : k # Index => Stored(heap, m, Index, v)[m][k] = heap[m][k]
    BY <2>1, StoreFacts
  <2> QED
    BY <1>3, <2>1, <2>2
<1>8. Bound(heap', m, Meta_Table[class], Len(Meta_Table[class]))
  BY <1>1, <1>2, <1>7, Arrays, BoundKept DEF RunInv, ContentsInv
<1>9. LoopInv' /\ CallerInv' /\ GlobalsInv'
  BY <1>1, <1>3, <1>4, <1>5, SameCaller, GlobalsKept DEF ContentsInv, LoopInv
<1>10. RunInv'
  BY <1>1, <1>3, <1>4, <1>5, <1>6, <1>8, RunKept DEF RunInv
<1> QED
  BY <1>5, <1>9, <1>10 DEF Run

\* RegisterSeal completes the class: it has everything by then.
LEMMA RegisterSealContents ==
  ASSUME ContentsInv, RegisterSeal, KeepsMetatables
  PROVE  /\ Run' /\ Keeps
         /\ class \in Class /\ complete' = complete \cup {class}
         /\ \A c \in Class : c = class => Whole(c)'
<1>1. /\ pc = "indexed" /\ pc' = "idle" /\ class \in Class /\ complete' = complete \cup {class}
      /\ UserDataInv /\ Len(stack) >= 2 /\ tampered' = tampered
  BY FieldTarget DEF RegisterSeal, ContentsInv
<1>2. PICK m \in Table \ {Registry}, v \in Value :
        m = stack[Len(stack)] /\ m = MetatableOf(class) /\ v = stack[Len(stack) - 1] /\ v # Nil
  BY <1>1, FieldTarget
<1>3. heap' = Stored(heap, m, Metatable, v)
  BY <1>1, <1>2, FieldEffect, Values DEF RegisterSeal
<1>4. HasObject /\ Building /\ Count = Len(Method_Table[class])
  BY <1>1 DEF HasObject, Building, Count
<1>5. Keeps /\ heap'[Globals] = heap[Globals]
  BY <1>1, <1>2, <1>3, <1>4, StoreKeeps, Values DEF ContentsInv
<1>6. MetatableOf(class) # Nil
  BY <1>2, Values
<1>7. /\ heap' \in [Table -> [Key -> Value]]
      /\ \A k \in Name \ {Metatable} : heap'[m][k] = heap[m][k]
  <2>1. heap \in [Table -> [Key -> Value]] /\ Metatable \in Key /\ Name \subseteq Key
    BY <1>1, Shapes, Values
  <2>2. /\ Stored(heap, m, Metatable, v) \in [Table -> [Key -> Value]]
        /\ \A k \in Key : k # Metatable => Stored(heap, m, Metatable, v)[m][k] = heap[m][k]
    BY <2>1, StoreFacts
  <2> QED
    BY <1>3, <2>1, <2>2
<1>8. Bound(heap', m, Meta_Table[class], Len(Meta_Table[class]))
  BY <1>1, <1>2, <1>7, Arrays, BoundKept DEF ContentsInv, RunInv
<1>9. heap'[m][Index] = v
  BY <1>1, <1>2, <1>7, Values DEF UserDataInv, StackInv
<1>10. Object = v
  BY <1>2, <1>4, ObjectFacts
<1>11. ASSUME NEW c \in Class, c = class PROVE Whole(c)'
  <2>1. Own(c, v) /\ Present(v, c, Len(Method_Table[c])) /\ (v \in Table => Home(c, v))
    BY <1>4, <1>10, <1>11, ObjectFacts DEF ContentsInv, RunInv
  <2>2. Len(Method_Table[c]) \in 0..Len(Method_Table[c])
    BY Arrays
  <2>3. Own(c, v)' /\ Present(v, c, Len(Method_Table[c]))'
    BY <1>2, <1>5, <2>1, <2>2, OwnKept, PresentKept
  <2>4. MetatableOf(c)' = m
    BY <1>2, <1>6, <1>11 DEF KeepsMetatables
  <2>5. Methods(c)' = v
    BY <1>9, <2>4 DEF Methods
  <2> QED
    BY <1>8, <1>11, <2>3, <2>4, <2>5 DEF Whole, Own, Present, HasMethod, Owners
<1>12. Run'
  BY <1>1, <1>5, IdleRun, GlobalsKept DEF Run, ContentsInv
<1> QED
  BY <1>1, <1>5, <1>11, <1>12

\* A metamethod starts or goes on: the stack and the loop stay as they are.
LEMMA TurnContents ==
  ASSUME ContentsInv, Keeps, ~ Building, UNCHANGED <<stack, pc, class, caller>>,
         NEW b \in BOOLEAN, frame' = [frame EXCEPT !.meta = b],
         Globals \notin tampered' => \A c \in Class : heap'[Globals][c] = heap[Globals][c]
  PROVE  Run'
<1>1. frame'.fns = frame.fns /\ frame'.all = frame.all /\ frame'.ret = frame.ret
  BY MetaFrame DEF ContentsInv
<1>2. /\ ~ Building' /\ (HasObject' <=> HasObject) /\ Done' = Done /\ Count' = Count
  BY <1>1 DEF Building, HasObject, Done, Count
<1>3. LoopInv'
  BY <1>1, <1>2 DEF ContentsInv, LoopInv
<1>4. CallerInv'
  BY <1>2 DEF ContentsInv, CallerInv
<1>5. GlobalsInv'
  <2>1. pc' = "set" => pc = "set" /\ stack' = stack /\ class' = class /\ class \in Class
    BY DEF ContentsInv, UserDataInv, FrameInv
  <2> QED
    BY <2>1, GlobalsKept DEF ContentsInv, Keeps
<1>6. RunInv'
  <2>1. HasObject => Own(class, Object)' /\ Present(Object, class, Count)'
    BY <1>2, RunKept
  <2> QED
    BY <1>1, <1>2, <2>1 DEF RunInv, Building
<1> QED
  BY <1>3, <1>4, <1>5, <1>6 DEF Run

LEMMA LibCallContents ==
  ASSUME ContentsInv, RegisterStep, LibCall
  PROVE  Run' /\ Keeps
<1>1. /\ frame' = [frame EXCEPT !.meta = TRUE] /\ pc' = pc /\ class' = class /\ caller' = caller
      /\ UNCHANGED <<stack, heap, tampered>>
  BY DEF LibCall, RegisterStep
<1>2. ~ Building
  BY LibCallWhere DEF ContentsInv
<1> QED
  BY <1>1, <1>2, SameKeeps, TurnContents

\* The table whose contents a script changes is tampered with from then on.
LEMMA ScriptContents ==
  ASSUME ContentsInv, ScriptTurn, UNCHANGED <<class, udClass, complete, failed, caller>>
  PROVE  Run' /\ Keeps
<1>1. ~ Building /\ UNCHANGED <<pc, frame>> /\ Script /\ UserDataInv
  BY ScriptsRunOutside DEF ScriptTurn, ContentsInv
<1>2. frame' = [frame EXCEPT !.meta = frame.meta] /\ frame.meta \in BOOLEAN
  BY <1>1, Shapes DEF Frame
<1>3. /\ Keeps /\ stack' = stack
      /\ Globals \notin tampered' => \A c \in Class : heap'[Globals][c] = heap[Globals][c]
  <2>1. CASE ScriptWrite
    <3>1. PICK t \in known, k \in ScriptKey, v \in ScriptValue :
            /\ heap' = Stored(heap, t, k, v) /\ tampered' = tampered \cup {t} /\ stack' = stack
      BY <2>1 DEF ScriptWrite
    <3>2. heap \in [Table -> [Key -> Value]] /\ known \subseteq Table
      BY <1>1, Shapes DEF UserDataInv, TypeOK, HeapTypeOK
    <3>3. \A t2 \in Table : t2 # t => heap'[t2] = heap[t2]
      BY <3>1, <3>2 DEF Stored
    <3> QED
      BY <3>1, <3>3, Values DEF Keeps
  <2>2. CASE ScriptNewTable
    BY <2>2, SameKeeps DEF ScriptNewTable
  <2>3. CASE ScriptRead
    BY <2>3, SameKeeps DEF ScriptRead
  <2>4. CASE ScriptGetMetatable
    BY <2>4, SameKeeps DEF ScriptGetMetatable
  <2>5. CASE ScriptSetMetatable
    BY <2>5, SameKeeps DEF ScriptSetMetatable
  <2> QED
    BY <1>1, <2>1, <2>2, <2>3, <2>4, <2>5 DEF Script
<1> QED
  BY <1>1, <1>2, <1>3, TurnContents

\* The parameters after the look-up of the global, where the loop begins.
LEMMA LoopBegins ==
  ASSUME ContentsInv, pc \in {"get", "set"}, pc' \in {"set", "function"}, class' = class,
         frame' = [frame EXCEPT !.meta = FALSE]
  PROVE  LoopInv' /\ Done' = 0 /\ frame'.ret = "opened" /\ ~ Building'
<1>1. /\ frame'.fns = frame.fns /\ frame'.all = frame.all /\ frame'.ret = frame.ret
      /\ frame.ret = "opened" /\ frame.fns = frame.all
  BY MetaFrame DEF ContentsInv, UserDataInv, FrameInv, LoopInv
<1>2. Len(frame.all) \in Nat
  BY Shapes DEF Frame, ContentsInv
<1>3. Done = 0 /\ Done' = 0
  BY <1>1, <1>2 DEF Done
<1>4. LoopInv'
  BY <1>1, <1>2, <1>3 DEF LoopInv, ContentsInv
<1> QED
  BY <1>1, <1>3, <1>4 DEF Building

LEMMA LibGetContents ==
  ASSUME ContentsInv, RegisterStep, LibGet
  PROVE  Run' /\ Keeps
<1>1. /\ pc = "get" /\ pc' \in {"set", "function"} /\ frame' = [frame EXCEPT !.meta = FALSE]
      /\ UNCHANGED <<heap, tampered>>
  BY DEF LibGet
<1>2. class' = class /\ caller' = caller /\ class \in Class /\ UserDataInv
  BY <1>1 DEF RegisterStep, ContentsInv, UserDataInv, FrameInv
<1>3. LoopInv' /\ Done' = 0 /\ frame'.ret = "opened" /\ ~ Building'
  BY <1>1, <1>2, LoopBegins
<1>4. Keeps
  BY <1>1, SameKeeps
<1>5. /\ stack \in Seq(Value) /\ Len(stack) \in Nat /\ Len(stack) = Len(caller)
      /\ \A i \in 1..Len(caller) : stack[i] = caller[i]
  BY <1>1, <1>2, Shapes DEF ContentsInv, CallerInv
<1>6. ASSUME NEW v \in Value, Globals \notin tampered => v = heap[Globals][class],
             stack' = Push(stack, v), pc' = "function"
      PROVE  Run'
  <2>1. /\ Len(stack') = Len(caller) + 1 /\ stack'[Len(caller) + 1] = v
        /\ \A i \in 1..Len(caller) : stack'[i] = caller[i]
    BY <1>5, <1>6 DEF Push
  <2>2. CallerInv'
    BY <1>2, <1>3, <1>6, <2>1 DEF CallerInv, HasObject
  <2>3. GlobalsInv'
    BY <1>1, <1>6, GlobalsKept DEF ContentsInv
  <2>4. Object' = v /\ Count' = 0
    BY <1>2, <1>3, <1>6, <2>1 DEF Object, Count
  <2>5. RunInv'
    BY <1>1, <1>2, <1>3, <1>6, <2>4 DEF RunInv, Own, Present
  <2> QED
    BY <1>3, <2>2, <2>3, <2>5 DEF Run
<1>7. ASSUME NEW t \in Table \ alloc, Globals \notin tampered => heap[Globals][class] = Nil,
             stack' = Push(Push(Push(stack, t), class), t), pc' = "set"
      PROVE  Run'
  <2>1. /\ Len(stack') = Len(caller) + 3 /\ stack'[Len(stack')] = t
        /\ \A i \in 1..Len(caller) : stack'[i] = caller[i]
    <3>1. t \in Value /\ class \in Value
      BY <1>2, Values
    <3> QED
      BY <1>5, <1>7, <3>1 DEF Push
  <2>2. CallerInv'
    BY <1>2, <1>7, <2>1 DEF CallerInv, HasObject
  <2>3. t # Globals /\ \A c \in Class : heap[Globals][c] # t
    BY <1>2, Values DEF UserDataInv, AllocInv
  <2>4. GlobalsInv'
    BY <1>1, <1>2, <1>7, <2>1, <2>3 DEF GlobalsInv, ContentsInv
  <2>5. RunInv'
    BY <1>7 DEF RunInv, HasObject
  <2> QED
    BY <1>3, <2>2, <2>4, <2>5 DEF Run
<1> QED
  BY <1>2, <1>4, <1>6, <1>7, LibGetEffect

\* The new object goes among the globals, where the class had none.
LEMMA LibSetContents ==
  ASSUME ContentsInv, RegisterStep, LibSet
  PROVE  Run' /\ Keeps
<1>1. /\ pc = "set" /\ pc' = "function" /\ frame' = [frame EXCEPT !.meta = FALSE]
      /\ tampered' = tampered
  BY DEF LibSet
<1>2. class' = class /\ caller' = caller /\ class \in Class /\ class \in Key /\ UserDataInv
  BY <1>1, Values DEF RegisterStep, ContentsInv, UserDataInv, FrameInv
<1>3. LoopInv' /\ Done' = 0 /\ frame'.ret = "opened" /\ ~ Building'
  BY <1>1, <1>2, LoopBegins
<1>4. PICK t \in Table : t = stack[Len(stack)] /\ t \in Value
  BY <1>1, <1>2, Values DEF UserDataInv, StackInv
<1>5. PICK s \in Seq(Value) :
        /\ Len(s) = Len(stack) - 2 /\ s # << >> /\ s[Len(s)] = t
        /\ \A i \in 1..Len(s) : s[i] = stack[i]
        /\ stack' = s
  BY <1>2, <1>4, LibSetEffect
<1>6. IF frame.meta THEN heap' = heap ELSE heap' = Stored(heap, Globals, class, t)
  BY <1>2, <1>4, LibSetEffect
<1>7. /\ Len(stack') = Len(caller) + 1 /\ stack'[Len(caller) + 1] = t
      /\ \A i \in 1..Len(caller) : stack'[i] = caller[i]
  <2>1. /\ Len(stack) = Len(caller) + 3 /\ Len(caller) \in Nat
        /\ \A i \in 1..Len(caller) : stack[i] = caller[i]
    BY <1>1, <1>2 DEF ContentsInv, CallerInv, UserDataInv, TypeOK
  <2> QED
    BY <1>5, <2>1
<1>8. /\ Globals \notin tampered => heap' = Stored(heap, Globals, class, t)
      /\ \A t2 \in Table : t2 # Globals => heap'[t2] = heap[t2]
      /\ Globals \notin tampered =>
           /\ heap'[Globals][class] = t
           /\ \A c \in Class : c # class => heap'[Globals][c] = heap[Globals][c]
  <2>1. Globals \notin tampered => ~ frame.meta
    BY <1>1, <1>2 DEF UserDataInv, ScriptsInv
  <2>2. /\ heap \in [Table -> [Key -> Value]] /\ Globals \in Table
        /\ class \in Key /\ t \in Value /\ Class \subseteq Key
    BY <1>2, <1>4, Shapes, Values
  <2>3. /\ Stored(heap, Globals, class, t)[Globals][class] = t
        /\ \A t2 \in Table : t2 # Globals => Stored(heap, Globals, class, t)[t2] = heap[t2]
        /\ \A t2 \in Table, k2 \in Key :
             k2 # class => Stored(heap, Globals, class, t)[t2][k2] = heap[t2][k2]
    BY <2>2, StoreFacts
  <2> QED
    BY <1>6, <2>1, <2>2, <2>3
<1>9. Globals \notin tampered =>
        /\ heap[Globals][class] = Nil /\ t # Globals
        /\ \A c \in Class : heap[Globals][c] # t
  BY <1>1, <1>4 DEF ContentsInv, GlobalsInv
<1>10. Keeps
  <2>1. \A c \in Class, t2 \in Table \ tampered : Home(c, t2) => heap'[t2] = heap[t2]
    BY <1>8, HomeNotGlobals DEF ContentsInv
  <2> QED
    BY <1>1, <1>8, <1>9, <2>1 DEF Keeps
<1>11. GlobalsInv'
  <2> SUFFICES ASSUME Globals \notin tampered'
               PROVE  /\ \A c \in Class : heap'[Globals][c] # Globals
                      /\ \A c, d \in Class : heap'[Globals][c] = heap'[Globals][d] /\ c # d
                                               => heap'[Globals][c] = Nil
    BY <1>1 DEF GlobalsInv
  <2>1. /\ \A c \in Class : heap[Globals][c] # Globals
        /\ \A c, d \in Class : heap[Globals][c] = heap[Globals][d] /\ c # d
                                 => heap[Globals][c] = Nil
    BY <1>1 DEF ContentsInv, GlobalsInv
  <2>2. \A c \in Class : heap'[Globals][c] # Globals
    BY <1>1, <1>8, <1>9, <2>1
  <2>3. ASSUME NEW c \in Class, NEW d \in Class, c # d, heap'[Globals][c] = heap'[Globals][d]
        PROVE  heap'[Globals][c] = Nil
    BY <1>1, <1>8, <1>9, <2>1, <2>3
  <2> QED
    BY <2>2, <2>3
<1>12. CallerInv'
  BY <1>1, <1>2, <1>3, <1>7 DEF CallerInv, HasObject
<1>13. RunInv'
  <2>1. Object' = t /\ Count' = 0
    BY <1>1, <1>2, <1>3, <1>7 DEF Object, Count
  <2> QED
    BY <1>1, <1>2, <1>3, <1>8, <2>1 DEF RunInv, Own, Present
<1> QED
  BY <1>3, <1>10, <1>11, <1>12, <1>13 DEF Run

\* One turn of the loop takes the next function.
LEMMA LoopTurn ==
  ASSUME ContentsInv, RegisterStep, LibFunction
  PROVE  /\ pc = "function" /\ pc' = "function" /\ class \in Class
         /\ UNCHANGED <<stack, class, caller, tampered>>
         /\ frame.ret \in {"opened", "filled"} /\ frame'.ret = frame.ret
         /\ frame.all \in Seq(Register_t) /\ frame'.all = frame.all
         /\ Done \in Nat /\ Done + 1 \in 1..Len(frame.all) /\ Done' = Done + 1
         /\ Head(frame.fns) = frame.all[Done + 1]
         /\ LoopInv'
<1>1. /\ pc = "function" /\ pc' = "function" /\ class' = class /\ tampered' = tampered
      /\ caller' = caller
      /\ class \in Class /\ frame.ret \in {"opened", "filled"} /\ frame.fns # << >>
      /\ frame' = [frame EXCEPT !.fns = Tail(@), !.meta = FALSE]
      /\ UserDataInv /\ LoopInv
  BY DEF LibFunction, RegisterStep, ContentsInv, UserDataInv, FrameInv
<1>2. /\ frame.fns \in Seq(Register_t) /\ frame.all \in Seq(Register_t)
      /\ frame'.fns = Tail(frame.fns) /\ frame'.all = frame.all /\ frame'.ret = frame.ret
  BY <1>1, Shapes DEF Frame
<1>3. /\ Len(frame.all) \in Nat /\ Len(frame.fns) \in 1..Len(frame.all)
      /\ Len(frame'.fns) = Len(frame.fns) - 1
      /\ \A i \in 1..(Len(frame.fns) - 1) : frame'.fns[i] = frame.fns[i + 1]
      /\ Head(frame.fns) = frame.fns[1]
  BY <1>1, <1>2 DEF LoopInv
<1>4. Done \in 0..(Len(frame.all) - 1) /\ Done' = Done + 1 /\ Head(frame.fns) = frame.all[Done + 1]
  <2>1. Done \in 0..(Len(frame.all) - 1) /\ Done' = Done + 1
    <3>1. Done = Len(frame.all) - Len(frame.fns)
      BY DEF Done
    <3>2. Done' = Len(frame.all) - (Len(frame.fns) - 1)
      BY <1>2, <1>3 DEF Done
    <3> DEFINE a == Len(frame.all)
               b == Len(frame.fns)
    <3>3. a \in Nat /\ b \in 0..a /\ b > 0
      BY <1>3
    <3>4. Done = a - b /\ Done' = a - (b - 1)
      BY <3>1, <3>2
    <3> HIDE DEF Done, a, b
    <3>5. a - b \in 0..(a - 1) /\ a - (b - 1) = (a - b) + 1
      BY <3>3, Minus
    <3> QED
      BY <3>4, <3>5 DEF a
  <2>2. 1 \in 1..Len(frame.fns)
    BY <1>3
  <2>3. frame.fns[1] = frame.all[Done + 1]
    BY <1>1, <2>2 DEF LoopInv
  <2> QED
    BY <1>3, <2>1, <2>3
<1>5. LoopInv'
  <2>1. \A i \in 1..Len(frame'.fns) : frame'.fns[i] = frame.all[Done + 1 + i]
    <3> TAKE i \in 1..Len(frame'.fns)
    <3>1. i + 1 \in 1..Len(frame.fns) /\ Done + (i + 1) = Done + 1 + i
      BY <1>3, <1>4
    <3> QED
      BY <1>1, <1>3, <3>1 DEF LoopInv
  <2> QED
    BY <1>1, <1>2, <1>3, <1>4, <2>1 DEF LoopInv
<1>6. stack' = stack
  <2>1. Len(stack) >= 1
    BY <1>1, Shapes DEF UserDataInv, StackInv, Building
  <2>2. stack # << >>
    BY <2>1
  <2> QED
    BY <1>1, <2>2, LibFunctionEffect
<1> QED
  BY <1>1, <1>2, <1>3, <1>4, <1>5, <1>6

\* What is stored: the next function in the table on the top, if no metamethod
\* has got it.
LEMMA LoopStore ==
  ASSUME ContentsInv, RegisterStep, LibFunction, ~ frame.meta
  PROVE  \E t \in Table, k \in Name, v \in Closure :
           /\ t = stack[Len(stack)] /\ k = frame.all[Done + 1].name
           /\ v = [fn |-> frame.all[Done + 1].func, up |-> << >>]
           /\ heap' = Stored(heap, t, k, v)
           /\ heap'[t][k] = v
           /\ \A t2 \in Table : t2 # t => heap'[t2] = heap[t2]
           /\ \A k2 \in Key : k2 # k => heap'[t][k2] = heap[t][k2]
<1> DEFINE f == frame.all[Done + 1]
           t == stack[Len(stack)]
           v == [fn |-> f.func, up |-> << >>]
<1>1. stack # << >>
  <2>1. Len(stack) >= 1
    BY LoopTurn, Shapes DEF ContentsInv, UserDataInv, StackInv, Building
  <2> QED
    BY <2>1
<1>2. f \in Register_t /\ t \in Table /\ heap' = Stored(heap, t, f.name, v)
  BY <1>1, LoopTurn, LibFunctionEffect DEF ContentsInv
<1>3. f.name \in Name /\ f.name \in Key /\ v \in Closure /\ v \in Value
  <2>1. f.name \in Name /\ f.func \in Func
    BY <1>2 DEF Register_t
  <2> QED
    BY <2>1, ClosureFacts, Values
<1> DEFINE k == f.name
<1>4. /\ k \in Name /\ k \in Key /\ v \in Closure /\ v \in Value /\ t \in Table
      /\ heap' = Stored(heap, t, k, v) /\ heap \in [Table -> [Key -> Value]]
  BY <1>2, <1>3, Shapes DEF ContentsInv
<1>5. k = frame.all[Done + 1].name /\ v = [fn |-> frame.all[Done + 1].func, up |-> << >>]
  OBVIOUS
<1>6. t = stack[Len(stack)]
  OBVIOUS
<1> HIDE DEF t, k, v, f
<1>7. /\ Stored(heap, t, k, v)[t][k] = v
      /\ \A t2 \in Table : t2 # t => Stored(heap, t, k, v)[t2] = heap[t2]
      /\ \A t2 \in Table, k2 \in Key : k2 # k => Stored(heap, t, k, v)[t2][k2] = heap[t2][k2]
  BY <1>4, StoreFacts
<1> QED
  BY <1>4, <1>5, <1>6, <1>7

\* A turn of the loop for the methods.
LEMMA MethodStored ==
  ASSUME ContentsInv, RegisterStep, LibFunction, frame.ret = "opened"
  PROVE  Run' /\ Keeps
<1>1. /\ pc = "function" /\ pc' = "function" /\ class \in Class
      /\ UNCHANGED <<stack, class, caller, tampered>>
      /\ frame'.ret = "opened" /\ LoopInv'
      /\ Done \in Nat /\ Done + 1 \in 1..Len(frame.all) /\ Done' = Done + 1
      /\ frame.all = Method_Table[class]
  BY LoopTurn DEF ContentsInv, LoopInv
<1>2. /\ HasObject /\ HasObject' /\ ~ Building /\ ~ Building'
      /\ Count = Done /\ Count' = Done + 1
  BY <1>1 DEF HasObject, Building, Count
<1>3. Object = stack[Len(stack)] /\ (Object \in Table => Home(class, Object))
  BY <1>2, ObjectFacts
<1>4. CallerInv'
  BY <1>1, <1>2, SameCaller DEF ContentsInv
<1>5. CASE frame.meta
  <2>1. heap' = heap /\ Object \notin Table \ tampered
    <3>1. UserDataInv /\ stack # << >>
      BY <1>2, ObjectFacts DEF ContentsInv
    <3> QED
      BY <1>1, <1>3, <1>5, <3>1, LibFunctionEffect DEF UserDataInv, ScriptsInv
  <2>2. Keeps /\ GlobalsInv'
    BY <1>1, <2>1, SameKeeps, GlobalsKept DEF ContentsInv
  <2>3. Object' = Object /\ Own(class, Object)'
    <3>1. Present(Object, class, 0) /\ 0 \in 0..Len(Method_Table[class])
      BY <1>1, Arrays DEF Present
    <3> QED
      BY <1>1, <1>2, <2>2, <3>1, ObjectKept
  <2>4. RunInv'
    BY <1>1, <1>2, <2>1, <2>3 DEF RunInv, Present
  <2> QED
    BY <1>1, <1>4, <2>2, <2>4 DEF Run
<1>6. CASE ~ frame.meta
  <2>1. PICK t \in Table, k \in Name, v \in Closure :
          /\ t = stack[Len(stack)] /\ k = frame.all[Done + 1].name
          /\ v = [fn |-> frame.all[Done + 1].func, up |-> << >>]
          /\ heap'[t][k] = v
          /\ \A t2 \in Table : t2 # t => heap'[t2] = heap[t2]
          /\ \A k2 \in Key : k2 # k => heap'[t][k2] = heap[t][k2]
    BY <1>6, LoopStore
  <2>2. PICK c \in Class : c = class
    BY <1>1
  <2>3. t = Object /\ Home(c, t)
    BY <1>3, <2>1, <2>2
  <2>4. PICK j \in DOMAIN Method_Table[c] :
          j = Done + 1 /\ Method_Table[c][j].name = k
          /\ v = [fn |-> Method_Table[c][j].func, up |-> << >>]
    BY <1>1, <2>1, <2>2, Arrays
  <2>5. \A d \in Class : c \in Owners(d)' => HasMethod(t, k, d)'
    BY <2>1, <2>4 DEF HasMethod
  <2>6. \A d \in Class : Home(d, t) => c \in Owners(d)'
    BY <1>1, <2>3, Values DEF Home, Own, Owners, ContentsInv, GlobalsInv
  <2>7. Globals \notin tampered => t # Globals
    BY <2>3, HomeNotGlobals DEF ContentsInv
  <2>8. Keeps
    BY <1>1, <2>1, <2>5, <2>6, <2>7, Values DEF Keeps
  <2>9. GlobalsInv'
    BY <1>1, <2>1, <2>7, GlobalsKept, Values DEF ContentsInv
  <2>10. PICK n \in 0..Len(Method_Table[class]) : n = Done
    BY <1>1
  <2>11. Object' = Object /\ Own(class, Object)' /\ Present(Object, class, n)'
    <3>1. Present(Object, class, n)
      BY <1>2, <2>10 DEF ContentsInv, RunInv
    <3> QED
      BY <1>1, <1>2, <2>8, <3>1, ObjectKept
  <2>12. Present(t, c, n + 1)'
    <3> SUFFICES ASSUME t \in Table \ tampered', NEW i \in 1..(n + 1)
                 PROVE  HasMethod(t, Method_Table[c][i].name, c)'
      BY DEF Present
    <3>1. CASE i \in 1..n
      BY <1>1, <2>2, <2>3, <2>11, <3>1 DEF Present, HasMethod, Owners
    <3>2. CASE i = n + 1
      <4>1. Method_Table[c][i].name = k /\ c \in Owners(c)'
        BY <2>4, <2>10, <3>2 DEF Owners
      <4> QED
        BY <2>5, <4>1
    <3> QED
      BY <3>1, <3>2
  <2>14. Present(Object, class, Count)'
    <3>1. Object' = t /\ class' = c /\ Count' = n + 1
      BY <1>1, <1>2, <2>2, <2>3, <2>10, <2>11
    <3> QED
      BY <2>12, <3>1 DEF Present, HasMethod, Owners
  <2>15. RunInv'
    BY <1>1, <2>11, <2>14 DEF RunInv
  <2> QED
    BY <1>1, <1>4, <2>8, <2>9, <2>15 DEF Run
<1> QED
  BY <1>5, <1>6

\* A turn of the loop for the metamethods: no script runs by then.
LEMMA MetaStored ==
  ASSUME ContentsInv, RegisterStep, LibFunction, KeepsMetatables, frame.ret = "filled"
  PROVE  Run' /\ Keeps
<1>1. /\ pc = "function" /\ pc' = "function" /\ class \in Class
      /\ UNCHANGED <<stack, class, caller, tampered>>
      /\ frame'.ret = "filled" /\ LoopInv'
      /\ Done \in Nat /\ Done + 1 \in 1..Len(frame.all) /\ Done' = Done + 1
      /\ frame.all = Meta_Table[class]
  BY LoopTurn DEF ContentsInv, LoopInv
<1>2. HasObject /\ HasObject' /\ Building /\ Building' /\ Count' = Count
  BY <1>1 DEF HasObject, Building, Count
<1>3. ~ frame.meta
  BY <1>2, ScriptsRunOutside DEF ContentsInv
<1>4. PICK m \in Table, k \in Name, v \in Closure :
        /\ m = stack[Len(stack)] /\ k = frame.all[Done + 1].name
        /\ v = [fn |-> frame.all[Done + 1].func, up |-> << >>]
        /\ heap' = Stored(heap, m, k, v) /\ heap'[m][k] = v
        /\ \A k2 \in Key : k2 # k => heap'[m][k2] = heap[m][k2]
  BY <1>3, LoopStore
<1>5. m = MetatableOf(class) /\ MetatableOf(class)' = m
  BY <1>1, <1>2, <1>4 DEF ContentsInv, UserDataInv, StackInv, KeepsMetatables
<1>6. Keeps /\ heap'[Globals] = heap[Globals]
  BY <1>1, <1>2, <1>4, <1>5, StoreKeeps, Values DEF ContentsInv
<1>7. CallerInv' /\ GlobalsInv'
  BY <1>1, <1>2, <1>6, SameCaller, GlobalsKept DEF ContentsInv
<1>8. PICK fns, n : fns = Meta_Table[class] /\ n = Done
  OBVIOUS
<1>9. /\ fns \in Seq(Register_t) /\ DOMAIN fns = 1..Len(fns)
      /\ \A i \in DOMAIN fns : fns[i].name \in Name
      /\ n \in Nat /\ n + 1 \in DOMAIN fns
      /\ k = fns[n + 1].name /\ v = [fn |-> fns[n + 1].func, up |-> << >>]
  BY <1>1, <1>4, <1>8, Arrays
<1>10. Bound(heap, m, fns, n)
  BY <1>1, <1>5, <1>8 DEF ContentsInv, RunInv
<1>11. Bound(heap', m, fns, n + 1)
  <2> SUFFICES ASSUME NEW i \in 1..(n + 1)
               PROVE  \E j \in DOMAIN fns :
                        /\ fns[j].name = fns[i].name
                        /\ heap'[m][fns[i].name] = [fn |-> fns[j].func, up |-> << >>]
    BY DEF Bound
  <2>1. CASE fns[i].name = k
    BY <1>4, <1>9, <2>1
  <2>2. CASE fns[i].name # k
    <3>1. i \in 1..n /\ i \in DOMAIN fns
      BY <1>9, <2>2
    <3>2. PICK j \in DOMAIN fns :
            /\ fns[j].name = fns[i].name
            /\ heap[m][fns[i].name] = [fn |-> fns[j].func, up |-> << >>]
      BY <1>10, <3>1 DEF Bound
    <3>3. heap'[m][fns[i].name] = heap[m][fns[i].name]
      BY <1>4, <1>9, <2>2, <3>1, Values
    <3> QED
      BY <3>2, <3>3
  <2> QED
    BY <2>1, <2>2
<1>12. Own(class, Object)' /\ Present(Object, class, Count)'
  BY <1>1, <1>2, <1>6, RunKept
<1>13. RunInv'
  BY <1>1, <1>5, <1>8, <1>11, <1>12 DEF RunInv
<1> QED
  BY <1>1, <1>6, <1>7, <1>13 DEF Run

LEMMA LibReturnContents ==
  ASSUME ContentsInv, RegisterStep, LibReturn
  PROVE  Run' /\ Keeps
<1>1. /\ pc = "function" /\ pc' = frame.ret /\ frame.ret \in {"opened", "filled"}
      /\ frame.fns = << >> /\ class \in Class /\ UserDataInv
      /\ UNCHANGED <<heap, tampered, class, caller>>
  <2>1. pc = "function" /\ pc' = frame.ret /\ frame.ret \in {"opened", "filled"} /\ class \in Class
    BY DEF LibReturn, ContentsInv, UserDataInv, FrameInv
  <2> QED
    BY <2>1 DEF LibReturn, RegisterStep, ContentsInv
<1>2. stack' = stack
  BY <1>1, LibReturnEffect
<1>3. Done = Len(frame.all)
  <2>1. Len(frame.all) \in Nat /\ Len(frame.fns) = 0
    BY <1>1, Shapes DEF Frame
  <2> QED
    BY <2>1 DEF Done
<1>4. frame.all = IF frame.ret = "filled" THEN Meta_Table[class] ELSE Method_Table[class]
  BY <1>1 DEF ContentsInv, LoopInv
<1>5. HasObject /\ HasObject' /\ (Building' <=> Building) /\ Count' = Count
  BY <1>1, <1>3, <1>4 DEF HasObject, Building, Count
<1>6. Keeps /\ LoopInv' /\ CallerInv' /\ GlobalsInv'
  BY <1>1, <1>2, <1>5, SameKeeps, SameCaller, GlobalsKept DEF ContentsInv, LoopInv
<1>7. Own(class, Object)' /\ Present(Object, class, Count)'
  BY <1>1, <1>2, <1>5, <1>6, RunKept
<1>8. frame.ret = "filled" =>
        Bound(heap, MetatableOf(class), Meta_Table[class], Len(Meta_Table[class]))
  BY <1>1, <1>3, <1>4 DEF ContentsInv, RunInv
<1>9. MetatableOf(class)' = MetatableOf(class)
  BY <1>1 DEF MetatableOf
<1>10. RunInv'
  BY <1>1, <1>7, <1>8, <1>9 DEF RunInv
<1> QED
  BY <1>6, <1>10 DEF Run

\* The metatable goes over the object and into the registry.
LEMMA NmtCreateContents ==
  ASSUME ContentsInv, RegisterStep, NmtCreate
  PROVE  Run' /\ Keeps
<1>1. /\ pc = "metatable" /\ pc' = "link" /\ class \in Class /\ UserDataInv
      /\ UNCHANGED <<tampered, class, caller>>
  BY DEF NmtCreate, RegisterStep, ContentsInv, UserDataInv, FrameInv
<1>2. PICK t \in Table : heap' = Stored(heap, Registry, class, t) /\ stack' = Push(stack, t)
  BY <1>1, NmtCreateEffect
<1>3. HasObject /\ HasObject' /\ ~ Building /\ Building' /\ Count' = Count
  BY <1>1 DEF HasObject, Building, Count
<1>4. Keeps /\ heap'[Globals] = heap[Globals]
  BY <1>1, <1>2, StoreKeeps, Values DEF ContentsInv
<1>5. /\ Len(stack) = Len(caller) + 1 /\ Len(caller) \in Nat
      /\ \A i \in 1..Len(caller) : stack[i] = caller[i]
  BY <1>1, <1>3 DEF ContentsInv, CallerInv, UserDataInv, TypeOK
<1>6. Len(stack') = Len(stack) + 1 /\ \A i \in 1..Len(stack) : stack'[i] = stack[i]
  <2>1. stack \in Seq(Value) /\ t \in Value
    BY <1>1, Shapes, Values
  <2> QED
    BY <1>2, <2>1 DEF Push
<1>7. CallerInv'
  BY <1>1, <1>3, <1>5, <1>6 DEF CallerInv
<1>8. LoopInv' /\ GlobalsInv'
  BY <1>1, <1>4, GlobalsKept DEF ContentsInv, LoopInv
<1>9. RunInv'
  BY <1>1, <1>3, <1>4, <1>6, RunKept DEF RunInv
<1> QED
  BY <1>4, <1>7, <1>8, <1>9 DEF Run

LEMMA NmtLinkContents ==
  ASSUME ContentsInv, RegisterStep, NmtLink
  PROVE  Run' /\ Keeps
<1>1. /\ pc = "link" /\ pc' = "created" /\ class \in Class /\ UserDataInv
      /\ UNCHANGED <<tampered, class, caller>>
  BY DEF NmtLink, RegisterStep, ContentsInv, UserDataInv, FrameInv
<1>2. heap' = Stored(heap, Registry, stack[Len(stack)], class) /\ stack' = stack
  BY <1>1, NmtLinkEffect
<1>3. HasObject /\ HasObject' /\ Building /\ Building' /\ Count' = Count
  BY <1>1 DEF HasObject, Building, Count
<1>4. stack[Len(stack)] \in Table
  BY <1>1, <1>3 DEF UserDataInv, StackInv, ClassInv
<1>5. Keeps /\ heap'[Globals] = heap[Globals]
  BY <1>1, <1>2, <1>4, StoreKeeps, Values DEF ContentsInv
<1>6. LoopInv' /\ CallerInv' /\ GlobalsInv'
  BY <1>1, <1>2, <1>3, <1>5, SameCaller, GlobalsKept DEF ContentsInv, LoopInv
<1>7. RunInv'
  BY <1>1, <1>2, <1>3, <1>5, RunKept DEF RunInv
<1> QED
  BY <1>5, <1>6, <1>7 DEF Run

LEMMA InitContents ==
  ASSUME Init
  PROVE  ContentsInv
<1>1. UserDataInv
  BY InitInv
<1>2. pc = "idle" /\ complete = {} /\ heap = [t \in Table |-> EmptyTable]
  BY DEF Init, LibInit, HeapInit
<1>3. LoopInv /\ CallerInv /\ CompleteInv /\ RunInv
  BY <1>2 DEF LoopInv, CallerInv, CompleteInv, RunInv, HasObject, Building
<1>4. \A c \in Class : heap[Globals][c] = Nil
  BY <1>2, Values DEF EmptyTable
<1>5. GlobalsInv
  BY <1>2, <1>4, Values DEF GlobalsInv
<1> QED
  BY <1>1, <1>3, <1>5 DEF ContentsInv

\* Steps other than RegisterSeal.
LEMMA StepContents ==
  ASSUME ContentsInv, Next, KeepsMetatables, ~ RegisterSeal
  PROVE  Run' /\ Keeps /\ complete' = complete
<1>1. ASSUME NEW c \in Class, Register(c) PROVE Run' /\ Keeps /\ complete' = complete
  BY <1>1, RegisterContents DEF Register
<1>2. ASSUME NEW c \in Class, PushUserdata(c) PROVE Run' /\ Keeps /\ complete' = complete
  BY <1>2, IdleContents DEF PushUserdata
<1>3. CASE RegisterMetatable
  BY <1>3, RegisterMetatableContents DEF RegisterMetatable
<1>4. CASE RegisterMeta
  BY <1>4, RegisterMetaContents DEF RegisterMeta
<1>5. CASE RegisterIndex
  BY <1>5, RegisterIndexContents DEF RegisterIndex
<1>6. CASE RegisterStep
  <2>1. complete' = complete /\ (LibStep \/ NmtStep)
    BY <1>6 DEF RegisterStep
  <2>2. CASE LibCall
    BY <1>6, <2>1, <2>2, LibCallContents
  <2>3. CASE LibGet
    BY <1>6, <2>1, <2>3, LibGetContents
  <2>4. CASE LibSet
    BY <1>6, <2>1, <2>4, LibSetContents
  <2>5. CASE LibFunction
    <3>1. frame.ret \in {"opened", "filled"}
      BY <1>6, <2>5, LoopTurn
    <3> QED
      BY <1>6, <2>1, <2>5, <3>1, MethodStored, MetaStored
  <2>6. CASE LibReturn
    BY <1>6, <2>1, <2>6, LibReturnContents
  <2>7. CASE NmtFound
    BY <2>1, <2>7, IdleContents DEF NmtFound
  <2>8. CASE NmtCreate
    BY <1>6, <2>1, <2>8, NmtCreateContents
  <2>9. CASE NmtLink
    BY <1>6, <2>1, <2>9, NmtLinkContents
  <2> QED
    BY <2>1, <2>2, <2>3, <2>4, <2>5, <2>6, <2>7, <2>8, <2>9 DEF LibStep, NmtStep
<1>7. CASE RegisterError
  BY <1>7, IdleContents DEF RegisterError, LuaError
<1>8. CASE Surroundings
  <2>1. CASE FunctionReturn
    BY <1>8, <2>1, IdleContents DEF Surroundings, FunctionReturn
  <2>2. CASE ScriptTurn
    BY <1>8, <2>2, ScriptContents DEF Surroundings
  <2> QED
    BY <1>8, <2>1, <2>2 DEF Surroundings
<1> QED
  BY <1>1, <1>2, <1>3, <1>4, <1>5, <1>6, <1>7, <1>8 DEF Next

LEMMA ContentsStep ==
  ASSUME ContentsInv, [Next]_vars
  PROVE  ContentsInv'
<1>1. CASE UNCHANGED vars
  <2>1. UserDataInv'
    BY <1>1, StutterInv DEF ContentsInv
  <2>2. LoopInv' /\ CallerInv' /\ GlobalsInv'
    BY <1>1 DEF ContentsInv, LoopInv, CallerInv, GlobalsInv, Done, HasObject, Building, vars, libVars
  <2>3. /\ UNCHANGED <<heap, tampered, complete, class, caller, pc, frame, stack>>
        /\ CompleteInv /\ RunInv
    BY <1>1 DEF ContentsInv, vars, libVars
  <2>4. \A c \in Class : \A t, n :
        Own(c, t) /\ Present(t, c, n) => Own(c, t)' /\ Present(t, c, n)'
    BY <2>3 DEF Own, Present, HasMethod, Owners
  <2>5. \A c \in complete : c \in Class
    BY DEF ContentsInv, UserDataInv, TypeOK
  <2>6. ASSUME NEW c \in complete PROVE Whole(c)'
    <3>1. PICK t : t = Methods(c)
      OBVIOUS
    <3>2. Methods(c)' = t /\ MetatableOf(c)' = MetatableOf(c)
      BY <2>3, <3>1 DEF Methods, MetatableOf
    <3>3. Own(c, t)' /\ Present(t, c, Len(Method_Table[c]))'
      BY <2>3, <2>4, <2>5, <3>1 DEF CompleteInv, Whole
    <3>4. Bound(heap', MetatableOf(c), Meta_Table[c], Len(Meta_Table[c]))
      BY <2>3 DEF CompleteInv, Whole
    <3> QED
      BY <3>2, <3>3, <3>4 DEF Whole, Own, Present, HasMethod, Owners
  <2>7. CompleteInv'
    BY <2>3, <2>6 DEF CompleteInv
  <2>8. RunInv'
    <3>1. HasObject => Own(class, Object)' /\ Present(Object, class, Count)'
      BY <2>3, SameKeeps, RunKept DEF Count, Done
    <3> QED
      BY <2>3, <3>1 DEF RunInv, HasObject, MetatableOf, Done
  <2> QED
    BY <2>1, <2>2, <2>7, <2>8 DEF ContentsInv
<1>2. CASE Next
  <2>1. UserDataInv' /\ KeepsMetatables
    BY <1>2, StepInv DEF ContentsInv
  <2>2. CASE RegisterSeal
    <3>1. Run' /\ Keeps /\ class \in Class /\ complete' = complete \cup {class}
      BY <2>1, <2>2, RegisterSealContents
    <3>2. ASSUME NEW c \in complete' PROVE Whole(c)'
      <4>1. CASE c \in complete
        BY <2>1, <3>1, <4>1, CompleteKept
      <4>2. CASE c = class
        BY <2>1, <2>2, <3>1, <4>2, RegisterSealContents
      <4> QED
        BY <3>1, <4>1, <4>2
    <3>3. CompleteInv'
      BY <3>2 DEF CompleteInv
    <3> QED
      BY <2>1, <3>1, <3>3 DEF ContentsInv, Run
  <2>3. CASE ~ RegisterSeal
    <3>1. Run' /\ Keeps /\ complete' = complete
      BY <1>2, <2>1, <2>3, StepContents
    <3>2. ASSUME NEW c \in complete' PROVE Whole(c)'
      BY <2>1, <3>1, CompleteKept
    <3>3. CompleteInv'
      BY <3>2 DEF CompleteInv
    <3> QED
      BY <2>1, <3>1, <3>3 DEF ContentsInv, Run
  <2> QED
    BY <2>2, <2>3
<1> QED
  BY <1>1, <1>2

\* What the loops of Register have stored, where they stored it and what lies
\* under it on the stack, in every state.
THEOREM ContentsInvariance == Spec => []ContentsInv
BY InitContents, ContentsStep, PTL DEF Spec

\* The metamethods of a complete class are all there and are the Ada functions
\* of its Meta_Table, whatever scripts did between and during registrations.
THEOREM Intact == Spec => []MetamethodsIntact
<1>1. ContentsInv => MetamethodsIntact
  <2> SUFFICES ASSUME ContentsInv, NEW c \in complete, NEW i \in DOMAIN Meta_Table[c]
               PROVE  \E j \in DOMAIN Meta_Table[c] :
                        /\ Meta_Table[c][j].name = Meta_Table[c][i].name
                        /\ heap[MetatableOf(c)][Meta_Table[c][i].name]
                             = [fn |-> Meta_Table[c][j].func, up |-> << >>]
    BY DEF MetamethodsIntact
  <2>1. c \in Class /\ Bound(heap, MetatableOf(c), Meta_Table[c], Len(Meta_Table[c]))
    BY DEF ContentsInv, UserDataInv, TypeOK, CompleteInv, Whole
  <2>2. i \in 1..Len(Meta_Table[c])
    BY <2>1, Arrays
  <2> QED
    BY <2>1, <2>2 DEF Bound
<1> QED
  BY ContentsInvariance, <1>1, PTL

\* The object a complete class looks methods up in has under the name of each
\* of them the class's own function, unless a script wrote to the object or gave
\* it a metatable; where a script changed the globals it may be the function of
\* another class that shares the object.
THEOREM Reachable == Spec => []MethodsReachable
<1>1. ContentsInv => MethodsReachable
  <2> SUFFICES ASSUME ContentsInv, NEW c \in complete, NEW i \in DOMAIN Method_Table[c],
                      Methods(c) \in Table \ tampered
               PROVE  HasMethod(Methods(c), Method_Table[c][i].name, c)
    BY DEF MethodsReachable, Methods, HasMethod, Owners
  <2>1. Present(Methods(c), c, Len(Method_Table[c])) /\ c \in Class
    BY DEF ContentsInv, CompleteInv, Whole, UserDataInv, TypeOK
  <2>2. i \in 1..Len(Method_Table[c])
    BY <2>1, Arrays
  <2> QED
    BY <2>1, <2>2 DEF Present
<1> QED
  BY ContentsInvariance, <1>1, PTL

\* What RegisterLeaves says of one step.
LeavesStep ==
  class # NoClass /\ class' = NoClass /\ stack' # << >> =>
    LET n      == Len(caller)
        object == stack'[n + 1]
    IN  /\ SubSeq(stack', 1, n) = caller
        /\ IF class \in complete' \ complete
           THEN Len(stack') = n + 1 /\ object = heap'[MetatableOf(class)][Index]
           ELSE Len(stack') = n + 2 /\ stack'[n + 2] = MetatableOf(class)
        /\ Globals \notin tampered => object = heap[Globals][class]

\* The two steps that end Register without an error.
LEMMA EndsWhere ==
  ASSUME ContentsInv, Next, class # NoClass, class' = NoClass, stack' # << >>
  PROVE  /\ class \in Class
         /\ \/ RegisterSeal
            \/ NmtFound /\ complete' = complete
<1>1. class \in Class
  BY DEF ContentsInv, UserDataInv, TypeOK
<1>2. \A c \in Class : c # NoClass
  BY ClassAssumption
<1>3. RegisterSeal \/ RegisterStep
  BY <1>1, <1>2 DEF Next, Register, PushUserdata, RegisterMetatable, RegisterMeta, RegisterIndex,
              RegisterError, LuaError, Surroundings
<1>4. CASE RegisterStep
  <2>1. pc' = "idle" /\ (LibStep \/ NmtStep) /\ complete' = complete
    BY <1>4 DEF RegisterStep
  <2>2. NmtFound
    BY <2>1 DEF LibStep, NmtStep, LibCall, LibGet, LibSet, LibFunction, LibReturn, NmtCreate, NmtLink,
                ContentsInv, UserDataInv, FrameInv, ScriptsInv
  <2> QED
    BY <1>1, <2>1, <2>2
<1> QED
  BY <1>1, <1>3, <1>4

\* The end of a whole Register takes the metatable off.
LEMMA SealLeaves ==
  ASSUME ContentsInv, RegisterSeal, class \in Class, KeepsMetatables
  PROVE  LeavesStep
<1>1. /\ pc = "indexed" /\ complete' = complete \cup {class} /\ UserDataInv
      /\ class \notin complete
  BY DEF RegisterSeal, ContentsInv, UserDataInv, StackInv, Building
<1>2. PICK m \in Table \ {Registry}, v \in Value :
        m = stack[Len(stack)] /\ m = MetatableOf(class) /\ v = stack[Len(stack) - 1]
  BY <1>1, FieldTarget
<1>3. heap' = Stored(heap, m, Metatable, v) /\ stack' = Pop(stack, 1)
  BY <1>1, <1>2, FieldTarget, FieldEffect, Values DEF RegisterSeal
<1>4. /\ Len(stack) = Len(caller) + 2 /\ Len(caller) \in Nat /\ caller \in Seq(Value)
      /\ \A i \in 1..Len(caller) : stack[i] = caller[i]
      /\ stack \in Seq(Value)
  BY <1>1, Shapes DEF ContentsInv, CallerInv, UserDataInv, TypeOK, HasObject, Building
<1>5. /\ stack' \in Seq(Value) /\ Len(stack') = Len(caller) + 1
      /\ \A i \in 1..Len(caller) : stack'[i] = caller[i]
      /\ stack'[Len(caller) + 1] = v
  <2>1. /\ stack' \in Seq(Value) /\ Len(stack') = Len(stack) - 1
        /\ \A i \in 1..(Len(stack) - 1) : stack'[i] = stack[i]
    <3>1. stack # << >>
      BY <1>4
    <3> QED
      BY <1>3, <1>4, <3>1, PopTop
  <2> QED
    BY <1>2, <1>4, <2>1
<1>6. SubSeq(stack', 1, Len(caller)) = caller
  BY <1>4, <1>5
<1>7. heap'[m][Index] = v
  <2>1. heap \in [Table -> [Key -> Value]] /\ Index \in Key /\ Metatable \in Key
    BY <1>1, Shapes, Values
  <2>2. \A k \in Key : k # Metatable => Stored(heap, m, Metatable, v)[m][k] = heap[m][k]
    BY <2>1, StoreFacts
  <2>3. heap[m][Index] = v
    BY <1>1, <1>2 DEF UserDataInv, StackInv
  <2> QED
    BY <1>3, <2>1, <2>2, <2>3, Values
<1>8. Object = v /\ Own(class, Object)
  BY <1>1, <1>2, ObjectFacts DEF ContentsInv, RunInv, HasObject, Building
<1> QED
  BY <1>1, <1>2, <1>5, <1>6, <1>7, <1>8 DEF LeavesStep, Own

\* The name is taken: the metatable it is taken by stays on the stack.
LEMMA FoundLeaves ==
  ASSUME ContentsInv, NmtFound, complete' = complete, class \in Class
  PROVE  LeavesStep
<1>1. /\ pc = "metatable" /\ UserDataInv /\ stack' = Push(stack, MetatableOf(class))
  BY DEF NmtFound, MetatableOf, ContentsInv, UserDataInv, FrameInv
<1>2. /\ Len(stack) = Len(caller) + 1 /\ Len(caller) \in Nat /\ caller \in Seq(Value)
      /\ \A i \in 1..Len(caller) : stack[i] = caller[i]
      /\ stack \in Seq(Value) /\ MetatableOf(class) \in Value
  BY <1>1, Shapes, Values DEF ContentsInv, CallerInv, UserDataInv, TypeOK, ClassInv, HasObject, Building
<1>3. /\ stack' \in Seq(Value) /\ Len(stack') = Len(caller) + 2
      /\ \A i \in 1..(Len(caller) + 1) : stack'[i] = stack[i]
      /\ stack'[Len(caller) + 2] = MetatableOf(class)
  <2> HIDE DEF MetatableOf
  <2> QED
    BY <1>1, <1>2 DEF Push
<1>4. SubSeq(stack', 1, Len(caller)) = caller
  BY <1>2, <1>3
<1>5. stack'[Len(caller) + 1] = Object /\ Own(class, Object)
  BY <1>1, <1>2, <1>3 DEF Object, ContentsInv, RunInv, HasObject
<1> QED
  BY <1>3, <1>4, <1>5 DEF LeavesStep, Own

\* What Register leaves on its caller's stack: the caller's values as they were
\* at the call, over them the object its methods are in, and over that, if the
\* class was there already, the metatable.
THEOREM Leaves == Spec => RegisterLeaves
<1>1. ASSUME ContentsInv, Next PROVE LeavesStep
  <2>1. SUFFICES ASSUME class # NoClass, class' = NoClass, stack' # << >> PROVE LeavesStep
    BY DEF LeavesStep
  <2>2. KeepsMetatables
    BY <1>1, StepInv DEF ContentsInv
  <2> QED
    BY <1>1, <2>1, <2>2, EndsWhere, SealLeaves, FoundLeaves
<1>2. ContentsInv /\ [Next]_vars => [LeavesStep]_vars
  BY <1>1
<1> QED
  BY ContentsInvariance, <1>2, PTL DEF Spec, RegisterLeaves, LeavesStep
=============================================================================
