--------------------- MODULE TriggeredAutomationProofs ---------------------
(***************************************************************************)
(* What the promise of TriggeredAutomation amounts to: the actions         *)
(* performed are counted by the occurrences acted on, so none was          *)
(* performed twice for one occurrence or for no occurrence at all.         *)
(***************************************************************************)
EXTENDS TriggeredAutomation, FiniteSetTheorems, TLAPS

\* The occurrences acted on with action a.
ActedOn(a) == {i \in done : calls[i] = a}

CountInv == TypeOK /\ IsFiniteSet(done) /\ OneTriggerEach

\* The occurrences already acted on keep what they call for.
LEMMA AppendKeeps ==
  ASSUME TypeOK, NEW c, calls' = Append(calls, c), c \in Actions \cup {"none"}
  PROVE  /\ calls' \in Seq(Actions \cup {"none"})
         /\ DOMAIN calls \subseteq DOMAIN calls'
         /\ \A i \in DOMAIN calls : calls'[i] = calls[i]
BY DEF TypeOK

\* Every action the automation ever performs has a trigger of its own.
THEOREM ActionsHaveTriggers == Spec => []OneTriggerEach
<1>1. Init => CountInv
  <2> SUFFICES ASSUME Init PROVE CountInv
    OBVIOUS
  <2>1. TypeOK
    BY DEF Init, TypeOK
  <2>2. IsFiniteSet(done)
    BY FS_EmptySet DEF Init
  <2>3. ASSUME NEW a \in Actions
        PROVE  acts[a] = Cardinality({i \in done : calls[i] = a})
    <3>1. {i \in done : calls[i] = a} = {} /\ acts[a] = 0
      BY DEF Init
    <3> QED BY <3>1, FS_EmptySet
  <2> QED BY <2>1, <2>2, <2>3 DEF CountInv, OneTriggerEach
<1>2. CountInv /\ [Next]_<<calls, done, acts>> => CountInv'
  <2> SUFFICES ASSUME CountInv, [Next]_<<calls, done, acts>> PROVE CountInv'
    OBVIOUS
  <2>1. TypeOK /\ IsFiniteSet(done) /\ done \subseteq DOMAIN calls
        /\ \A a \in Actions : acts[a] = Cardinality(ActedOn(a))
    BY DEF CountInv, OneTriggerEach, ActedOn, TypeOK
  <2>2. ASSUME NEW c \in Actions \cup {"none"}, Occur(c) PROVE CountInv'
    <3>1. /\ calls' \in Seq(Actions \cup {"none"}) /\ DOMAIN calls \subseteq DOMAIN calls'
          /\ \A i \in DOMAIN calls : calls'[i] = calls[i]
          /\ done' = done /\ acts' = acts
      BY <2>1, <2>2, AppendKeeps DEF Occur
    <3>2. \A a \in Actions : ActedOn(a)' = ActedOn(a)
      BY <2>1, <3>1 DEF ActedOn
    <3>3. TypeOK'
      BY <2>1, <3>1 DEF TypeOK
    <3> QED BY <2>1, <3>1, <3>2, <3>3 DEF CountInv, OneTriggerEach, ActedOn
  <2>3. ASSUME NEW j \in DOMAIN calls, Act(j) PROVE CountInv'
    <3>1. /\ calls' \in Seq(Actions \cup {"none"}) /\ DOMAIN calls \subseteq DOMAIN calls'
          /\ \A i \in DOMAIN calls : calls'[i] = calls[i]
      <4>1. CASE calls' = calls
        BY <2>1, <4>1 DEF TypeOK
      <4>2. CASE calls' = Append(calls, "none")
        BY <2>1, <4>2, AppendKeeps
      <4> QED BY <2>3, <4>1, <4>2 DEF Act
    <3>2. /\ j \notin done /\ calls[j] \in Actions /\ done' = done \cup {j}
          /\ acts' = [acts EXCEPT ![calls[j]] = @ + 1]
          /\ acts \in [Actions -> Nat]
      BY <2>1, <2>3 DEF Act, TypeOK
    <3>3. TypeOK'
      BY <2>1, <3>1, <3>2 DEF TypeOK
    <3>4. IsFiniteSet(done')
      BY <2>1, <3>2, FS_AddElement
    <3>5. ASSUME NEW a \in Actions PROVE acts'[a] = Cardinality(ActedOn(a)')
      <4>1. IsFiniteSet(ActedOn(a)) /\ j \notin ActedOn(a)
        BY <2>1, <3>2, FS_Subset DEF ActedOn
      <4>2. CASE a = calls[j]
        <5>1. ActedOn(a)' = ActedOn(a) \cup {j}
          BY <2>1, <3>1, <3>2, <4>2 DEF ActedOn
        <5>2. Cardinality(ActedOn(a) \cup {j}) = Cardinality(ActedOn(a)) + 1
          BY <4>1, FS_AddElement
        <5> QED BY <2>1, <3>2, <4>2, <5>1, <5>2
      <4>3. CASE a # calls[j]
        <5>1. ActedOn(a)' = ActedOn(a)
          BY <2>1, <3>1, <3>2, <4>3 DEF ActedOn
        <5> QED BY <2>1, <3>2, <4>3, <5>1
      <4> QED BY <4>2, <4>3
    <3> QED BY <3>3, <3>4, <3>5 DEF CountInv, OneTriggerEach, ActedOn
  <2>4. ASSUME UNCHANGED <<calls, done, acts>> PROVE CountInv'
    BY <2>4 DEF CountInv, TypeOK, OneTriggerEach
  <2> QED BY <2>2, <2>3, <2>4 DEF Next
<1>3. CountInv => OneTriggerEach
  BY DEF CountInv
<1> QED BY <1>1, <1>2, <1>3, PTL DEF Spec

=============================================================================
