--------------------------- MODULE DebouncerProofs ---------------------------
(***************************************************************************)
(* No mark and no wake-up is lost, for any number of callers and groups    *)
(* and any order of their steps.                                           *)
(*                                                                         *)
(* The merge compares identities and copies bits; that it copies the bits  *)
(* of the pointer it replaces needs that equal identities mean equal bits, *)
(* which holds because every State has an identity of its own and nil is   *)
(* the only one that returns.                                              *)
(***************************************************************************)
EXTENDS Debouncer, SequenceTheorems, TLAPS

\* A loaded pointer that still has the identity of the current one has its bits.
OldInv ==
  \A c \in Callers : /\ call[c].old.id <= made
                     /\ call[c].old.id = 0 => call[c].old.bits = {}
                     /\ call[c].old.id = state.id => call[c].old.bits = state.bits

TodoInv == \A c \in Callers : call[c].pc # "idle" => call[c].todo # <<>>

IInv ==
  /\ TypeOK /\ OldInv /\ TodoInv
  /\ state.id <= made /\ (state.id = 0 => state.bits = {})
  /\ Covered /\ Awake

\* reloadAll on more bits reloads at least as much.
LEMMA TargetsGrow ==
  ASSUME NEW S, NEW T, S \subseteq T, T \subseteq Bits
  PROVE  Targets(S) \subseteq Targets(T)
BY DebouncerConstants DEF Targets, When, Has, Bits

\* A pass over a bit reloads what the table asks for that bit.
LEMMA NeedsMet ==
  ASSUME NEW S \in SUBSET Bits, NEW b \in S
  PROVE  Needs(b) \subseteq Targets(S)
<1>1. CASE b \in Groups
  <2>1. b \notin Kinds
    BY <1>1, DebouncerConstants
  <2>2. Needs(b) = {b}
    BY <2>1 DEF Needs, Kinds
  <2> QED BY <1>1, <2>2 DEF Targets, When
<1>2. CASE b \in Kinds
  BY <1>2 DEF Needs, Targets, When, Has, Kinds
<1> QED BY <1>1, <1>2 DEF Bits

\* The marks of a call are sets of bits.
LEMMA MarksType ==
  ASSUME NEW m \in Api, NEW gs \in SUBSET Groups, NEW kc \in BOOLEAN
  PROVE  Marks(m, gs, kc) \in Seq(SUBSET Bits)
<1>1. {m} \in SUBSET Bits \/ m = "accounts"
  BY DebouncerConstants DEF Bits
<1>2. {"templates", "clients"} \in SUBSET Bits /\ {"clients"} \in SUBSET Bits /\ gs \in SUBSET Bits
  BY DEF Bits, Kinds
<1>3. ASSUME NEW x \in SUBSET Bits, NEW y \in SUBSET Bits
      PROVE  <<>> \in Seq(SUBSET Bits) /\ <<x>> \in Seq(SUBSET Bits) /\ <<x, y>> \in Seq(SUBSET Bits)
  OBVIOUS
<1>4. CASE m = "templates"
  BY <1>2, <1>3, <1>4 DEF Marks
<1>5. CASE m = "accounts" /\ kc
  BY <1>2, <1>3, <1>5 DEF Marks
<1>6. CASE m = "accounts" /\ ~kc
  BY <1>2, <1>3, <1>6 DEF Marks
<1>7. CASE m \notin {"templates", "accounts"}
  BY <1>1, <1>3, <1>7 DEF Marks
<1> QED BY <1>4, <1>5, <1>6, <1>7

\* What is left of a call's marks after one of them.
LEMMA MarkDone ==
  ASSUME NEW s \in Seq(SUBSET Bits), s # <<>>
  PROVE  Tail(s) \in Seq(SUBSET Bits) /\ (Len(s) > 1 => Tail(s) # <<>>)
<1>1. Tail(s) \in Seq(SUBSET Bits) /\ Len(Tail(s)) = Len(s) - 1 /\ Len(s) \in Nat
  BY HeadTailProperties
<1>2. Len(s) > 1 => Len(Tail(s)) # 0
  BY <1>1
<1> QED BY <1>1, <1>2, EmptySeq

\* A new debouncer has no mark to cover.
LEMMA InitInv == Init => IInv
<1> SUFFICES ASSUME Init PROVE IInv
  OBVIOUS
<1>1. Nil \in States /\ <<>> \in Seq(SUBSET Bits)
  BY DEF Nil, States
<1>2. call \in [Callers -> CallStates]
  BY <1>1 DEF Init, CallStates
<1>3. TypeOK
  BY <1>1, <1>2 DEF Init, TypeOK
<1>4. OldInv /\ TodoInv
  BY DEF Init, OldInv, TodoInv, Nil
<1> QED BY <1>3, <1>4 DEF Init, IInv, Covered, Awake, Nil

\* Steps of the callers.
LEMMA CallerInv ==
  ASSUME IInv, NEW c \in Callers, Caller(c)
  PROVE  IInv'
<1> USE DEF IInv
<1>0. call[c] \in CallStates
  BY DEF TypeOK
<1>1. ASSUME NEW m \in Api, NEW gs \in SUBSET Groups, NEW kc \in BOOLEAN, Begin(c, m, gs, kc)
      PROVE  IInv'
  <2>1. Marks(m, gs, kc) \in Seq(SUBSET Bits)
    BY MarksType
  <2>2. call' \in [Callers -> CallStates]
    BY <1>1, <2>1 DEF Begin, TypeOK, CallStates
  <2>3. TypeOK'
    BY <1>1, <2>2 DEF Begin, TypeOK
  <2>4. OldInv' /\ TodoInv'
    BY <1>1 DEF Begin, TypeOK, OldInv, TodoInv
  <2>5. Covered' /\ Awake'
    BY <1>1 DEF Begin, TypeOK, Covered, Awake
  <2> QED BY <1>1, <2>3, <2>4, <2>5 DEF Begin
<1>2. CASE Load(c)
  <2>1. TypeOK'
    BY <1>2 DEF Load, TypeOK, CallStates
  <2>2. OldInv' /\ TodoInv'
    BY <1>2 DEF Load, TypeOK, OldInv, TodoInv
  <2>3. Covered' /\ Awake'
    BY <1>2 DEF Load, TypeOK, Covered, Awake
  <2> QED BY <1>2, <2>1, <2>2, <2>3 DEF Load
<1>3. CASE Cas(c)
  <2> DEFINE mark == Head(call[c].todo)
  <2> DEFINE next == IF call[c].old.id = 0 THEN "wake" ELSE AfterMark(c)
  <2>1. call[c].todo # <<>> /\ mark \in SUBSET Bits
    BY <1>0, <1>3 DEF Cas, TodoInv, CallStates
  <2>2. call[c].old.bits = state.bits /\ state.bits \in SUBSET Bits
    BY <1>3 DEF Cas, OldInv, TypeOK, States
  <2>3. state' = [id |-> made + 1, bits |-> state.bits \cup mark] /\ made' = made + 1
    BY <1>3, <2>2 DEF Cas, Merged
  <2>4. next \in {"load", "idle", "wake"} /\ (next = "load" => Tail(call[c].todo) # <<>>)
    BY <1>0, <2>1, MarkDone DEF AfterMark, CallStates
  <2>5. call' = [call EXCEPT ![c].pc = next, ![c].todo = IF next = "wake" THEN @ ELSE Tail(@)]
    BY <1>3 DEF Cas, Advance
  <2> HIDE DEF mark, next
  <2>6. call' \in [Callers -> CallStates]
    BY <1>0, <2>1, <2>4, <2>5, MarkDone DEF TypeOK, CallStates
  <2>7. TypeOK'
    BY <1>3, <2>1, <2>2, <2>3, <2>6 DEF Cas, TypeOK, States
  <2>8. OldInv'
    BY <2>3, <2>5 DEF TypeOK, OldInv, CallStates, States
  <2>9. TodoInv'
    BY <1>0, <2>1, <2>4, <2>5 DEF TypeOK, TodoInv, CallStates
  <2>10. Covered'
    <3>1. Targets(state.bits) \subseteq Targets(state'.bits)
      BY <2>1, <2>2, <2>3, TargetsGrow
    <3>2. ASSUME NEW b \in mark PROVE Needs(b) \subseteq Targets(state'.bits)
      BY <2>1, <2>2, <2>3, NeedsMet
    <3>3. Owing(c) \subseteq Targets(state'.bits)
      BY <3>2 DEF Owing, mark
    <3> QED BY <1>3, <3>1, <3>3 DEF Cas, Covered
  <2>11. Awake'
    <3>1. CASE call[c].old.id = 0
      BY <3>1, <2>5 DEF TypeOK, Awake, next
    <3>2. CASE call[c].old.id # 0
      <4>1. state.id # 0 /\ call[c].pc = "cas"
        BY <1>3, <3>2 DEF Cas
      <4>2. wake \/ timer \/ pc # "select" \/ \E d \in Callers : call[d].pc = "wake" /\ d # c
        BY <4>1 DEF Awake
      <4> QED BY <1>3, <2>5, <4>2 DEF Cas, TypeOK, Awake
    <3> QED BY <3>1, <3>2
  <2>12. state'.id <= made' /\ (state'.id = 0 => state'.bits = {})
    BY <2>3 DEF TypeOK
  <2> QED BY <2>7, <2>8, <2>9, <2>10, <2>11, <2>12
<1>4. CASE CasFails(c)
  <2>1. TypeOK'
    BY <1>4 DEF CasFails, TypeOK, CallStates
  <2>2. OldInv' /\ TodoInv'
    BY <1>4 DEF CasFails, TypeOK, OldInv, TodoInv
  <2>3. Covered' /\ Awake'
    BY <1>4 DEF CasFails, TypeOK, Covered, Awake
  <2> QED BY <1>4, <2>1, <2>2, <2>3 DEF CasFails
<1>5. CASE Wake(c)
  <2> DEFINE next == AfterMark(c)
  <2>1. call[c].todo # <<>>
    BY <1>5 DEF Wake, TodoInv
  <2>2. next \in {"load", "idle"} /\ (next = "load" => Tail(call[c].todo) # <<>>)
    BY <1>0, <2>1, MarkDone DEF AfterMark, CallStates
  <2>3. call' = [call EXCEPT ![c].pc = next, ![c].todo = Tail(@)]
    BY <1>5, <2>2 DEF Wake, Advance
  <2> HIDE DEF next
  <2>4. call' \in [Callers -> CallStates]
    BY <1>0, <2>1, <2>2, <2>3, MarkDone DEF TypeOK, CallStates
  <2>5. TypeOK'
    BY <1>5, <2>4 DEF Wake, TypeOK
  <2>6. OldInv'
    BY <1>5, <2>3 DEF Wake, TypeOK, OldInv
  <2>7. TodoInv'
    BY <2>2, <2>3 DEF TypeOK, TodoInv
  <2>8. Covered' /\ Awake'
    BY <1>5 DEF Wake, Covered, Awake
  <2> QED BY <1>5, <2>5, <2>6, <2>7, <2>8 DEF Wake
<1> QED BY <1>1, <1>2, <1>3, <1>4, <1>5 DEF Caller

\* Steps of the loop.
LEMMA LoopInv ==
  ASSUME IInv, Loop
  PROVE  IInv'
<1> USE DEF IInv
<1>1. CASE Woken
  BY <1>1 DEF Woken, TypeOK, OldInv, TodoInv, Covered, Awake
<1>2. CASE Window
  BY <1>2 DEF Window, TypeOK, OldInv, TodoInv, Covered, Awake
<1>3. CASE Take
  <2>1. TypeOK'
    BY <1>3 DEF Take, TypeOK, States, Nil
  <2>2. OldInv' /\ TodoInv'
    BY <1>3 DEF Take, OldInv, TodoInv, Nil
  <2>3. Covered' /\ Awake'
    BY <1>3 DEF Take, Covered, Awake, Nil
  <2> QED BY <1>3, <2>1, <2>2, <2>3 DEF Take, Nil, TypeOK
<1>4. CASE Reloaded
  BY <1>4 DEF Reloaded, TypeOK, OldInv, TodoInv, Covered, Awake
<1> QED BY <1>1, <1>2, <1>3, <1>4 DEF Loop

\* A step outside the debouncer changes none of it.
LEMMA StutterInv == IInv /\ UNCHANGED vars => IInv'
BY DEF vars, IInv, TypeOK, OldInv, TodoInv, Covered, Awake

\* mark's merge loses nothing: what the marks since the last flush ask for is
\* what the next pass reloads.
THEOREM NoMarkLost == Spec => []Covered
<1>1. IInv /\ [Next]_vars => IInv'
  BY CallerInv, LoopInv, StutterInv DEF Next
<1>2. IInv => Covered
  BY DEF IInv
<1> QED BY InitInv, <1>1, <1>2, PTL DEF Spec

\* The loop never sleeps on a marked state: the non-blocking wake-up, the
\* skipped empty wake-ups and the window that is not restarted are enough.
THEOREM NoWakeLost == Spec => []Awake
<1>1. IInv /\ [Next]_vars => IInv'
  BY CallerInv, LoopInv, StutterInv DEF Next
<1>2. IInv => Awake
  BY DEF IInv
<1> QED BY InitInv, <1>1, <1>2, PTL DEF Spec
=============================================================================
