--------------------------- MODULE FairGateProofs ---------------------------
(***************************************************************************)
(* For any set of requests, any accounts and any limits: the gate hands    *)
(* out no slot twice, leaks none, stays within its limits, never lets a    *)
(* request wait for a slot that is free, and remembers no account that     *)
(* has no request.                                                         *)
(***************************************************************************)
EXTENDS FairGate, RequestBudget, FiniteSetTheorems, SequenceTheorems, TLAPS

-----------------------------------------------------------------------------
(***************************************************************************)
(* Sequences.                                                              *)
(***************************************************************************)

\* Position is an index where the element is, or 0 when it is nowhere.
LEMMA PositionIndex ==
    ASSUME NEW S, NEW s \in Seq(S), NEW e
    PROVE  /\ Position(s, e) \in Nat
           /\ InSeq(s, e) => Position(s, e) \in 1..Len(s) /\ s[Position(s, e)] = e
           /\ ~InSeq(s, e) => Position(s, e) = 0
  <1>1. CASE InSeq(s, e)
    <2> DEFINE P(i) == s[i] = e
    <2>1. \E i \in 1..Len(s) : P(i)
      BY <1>1 DEF InSeq
    <2> DEFINE c == CHOOSE i \in 1..Len(s) : P(i)
    <2>2. c \in 1..Len(s) /\ P(c)
      BY <2>1
    <2>3. Position(s, e) = c
      BY <1>1 DEF Position
    <2> HIDE DEF c
    <2> QED
      BY <1>1, <2>2, <2>3
  <1>2. CASE ~InSeq(s, e)
    BY <1>2 DEF Position
  <1> QED
    BY <1>1, <1>2

\* What Without does to a sequence that holds the element: one item shorter,
\* and the items after it move up.
LEMMA WithoutShape ==
    ASSUME NEW S, NEW s \in Seq(S), NEW e, InSeq(s, e)
    PROVE  /\ Without(s, e) \in Seq(S)
           /\ Len(Without(s, e)) = Len(s) - 1
           /\ \A i \in 1..(Len(s) - 1) :
                 Without(s, e)[i] = IF i < Position(s, e) THEN s[i] ELSE s[i + 1]
  <1> DEFINE p == Position(s, e)
             f == [i \in 1..(Len(s) - 1) |-> s[IF i < p THEN i ELSE i + 1]]
  <1>1. p \in 1..Len(s) /\ Len(s) \in Nat
    BY PositionIndex
  <1>2. Without(s, e) = f
    BY DEF Without
  <1> HIDE DEF p
  <1>3. Len(s) - 1 \in Nat
    BY <1>1
  <1>4. \A i \in 1..(Len(s) - 1) : f[i] = IF i < p THEN s[i] ELSE s[i + 1]
    OBVIOUS
  <1>5. \A i \in 1..(Len(s) - 1) : f[i] \in S
    BY <1>1, <1>4, ElementOfSeq
  <1>6. f \in Seq(S) /\ Len(f) = Len(s) - 1
    <2>1. f \in [1..(Len(s) - 1) -> S]
      BY <1>5
    <2> QED
      BY <2>1, <1>3, IsASeq, LenProperties
  <1> HIDE DEF f
  <1> QED
    BY <1>2, <1>4, <1>6 DEF p

\* Without returns a sequence of the same elements.
LEMMA WithoutType ==
    ASSUME NEW S, NEW s \in Seq(S), NEW e
    PROVE  Without(s, e) \in Seq(S)
  <1>1. CASE InSeq(s, e)
    BY <1>1, WithoutShape
  <1>2. CASE ~InSeq(s, e)
    BY <1>2 DEF Without
  <1> QED
    BY <1>1, <1>2

\* Appending adds exactly the new element.
LEMMA AppendElements ==
    ASSUME NEW S, NEW s \in Seq(S), NEW e \in S
    PROVE  /\ \A x : InSeq(Append(s, e), x) <=> InSeq(s, x) \/ x = e
           /\ Distinct(s) /\ ~InSeq(s, e) => Distinct(Append(s, e))
  <1> DEFINE w == Append(s, e)
  <1>1. /\ Len(s) \in Nat
        /\ Len(w) = Len(s) + 1
        /\ \A i \in 1..Len(s) : w[i] = s[i]
        /\ w[Len(s) + 1] = e
    BY AppendProperties
  <1> HIDE DEF w
  <1>2. \A x : InSeq(w, x) <=> InSeq(s, x) \/ x = e
    BY <1>1, SMTT(30) DEF InSeq
  <1>3. Distinct(s) /\ ~InSeq(s, e) => Distinct(w)
    BY <1>1, SMTT(30) DEF InSeq, Distinct
  <1> QED
    BY <1>2, <1>3 DEF w

\* Popping the head of a queue of distinct elements removes exactly it.
LEMMA TailElements ==
    ASSUME NEW S, NEW s \in Seq(S), s # <<>>, Distinct(s)
    PROVE  /\ Distinct(Tail(s))
           /\ \A x : InSeq(Tail(s), x) <=> InSeq(s, x) /\ x # Head(s)
           /\ InSeq(s, Head(s))
  <1> DEFINE w == Tail(s)
             h == Head(s)
  <1>1. /\ Len(s) \in Nat
        /\ Len(s) # 0
        /\ Len(w) = Len(s) - 1
        /\ \A i \in 1..Len(w) : w[i] = s[i + 1]
        /\ h = s[1]
    BY HeadTailProperties, EmptySeq
  <1> HIDE DEF w, h
  <1>2. Distinct(w)
    BY <1>1, SMTT(30) DEF Distinct
  <1>3. ASSUME NEW x, InSeq(w, x) PROVE InSeq(s, x) /\ x # h
    BY <1>1, <1>3, SMTT(30) DEF Distinct, InSeq
  <1>4. ASSUME NEW x, InSeq(s, x), x # h PROVE InSeq(w, x)
    <2>1. PICK i \in 1..Len(s) : s[i] = x
      BY <1>4 DEF InSeq
    <2>2. i - 1 \in 1..Len(w) /\ w[i - 1] = s[(i - 1) + 1] /\ (i - 1) + 1 = i
      BY <2>1, <1>1, <1>4
    <2> QED
      BY <2>1, <2>2 DEF InSeq
  <1>5. InSeq(s, h)
    BY <1>1 DEF InSeq
  <1> QED
    BY <1>2, <1>3, <1>4, <1>5 DEF w, h

\* Removing an element from a sequence of distinct elements removes exactly it.
LEMMA WithoutElements ==
    ASSUME NEW S, NEW s \in Seq(S), NEW e, Distinct(s)
    PROVE  /\ Distinct(Without(s, e))
           /\ \A x : InSeq(Without(s, e), x) <=> InSeq(s, x) /\ x # e
  <1>1. CASE InSeq(s, e)
    <2> DEFINE p == Position(s, e)
               w == Without(s, e)
    <2>1. p \in 1..Len(s) /\ s[p] = e /\ Len(s) \in Nat
      BY <1>1, PositionIndex
    <2>2. Len(w) = Len(s) - 1
      BY <1>1, WithoutShape
    <2>3. \A i \in 1..(Len(s) - 1) : w[i] = IF i < p THEN s[i] ELSE s[i + 1]
      BY <1>1, WithoutShape
    <2> HIDE DEF p, w
    <2>4. Distinct(w)
      BY <2>1, <2>2, <2>3, SMTT(30) DEF Distinct
    <2>5. ASSUME NEW x, InSeq(w, x) PROVE InSeq(s, x) /\ x # e
      BY <2>1, <2>2, <2>3, <2>5, SMTT(30) DEF Distinct, InSeq
    <2>6. ASSUME NEW x, InSeq(s, x), x # e PROVE InSeq(w, x)
      <3>1. PICK i \in 1..Len(s) : s[i] = x
        BY <2>6 DEF InSeq
      <3>2. CASE i < p
        <4>1. i \in 1..Len(w) /\ w[i] = x
          BY <3>1, <3>2, <2>1, <2>2, <2>3
        <4> QED
          BY <4>1 DEF InSeq
      <3>3. CASE i > p
        <4>1. i - 1 \in 1..Len(w) /\ w[i - 1] = s[(i - 1) + 1]
          BY <3>3, <2>1, <2>2, <2>3
        <4>2. (i - 1) + 1 = i
          OBVIOUS
        <4> QED
          BY <4>1, <4>2, <3>1 DEF InSeq
      <3> QED
        BY <3>1, <3>2, <3>3, <2>1, <2>6
    <2> QED
      BY <2>4, <2>5, <2>6 DEF w
  <1>2. CASE ~InSeq(s, e)
    BY <1>2 DEF Without, InSeq
  <1> QED
    BY <1>1, <1>2
-----------------------------------------------------------------------------
(***************************************************************************)
(* Type correctness.                                                       *)
(***************************************************************************)

\* Granting keeps the types, whoever is granted.
LEMMA GrantType ==
    ASSUME TypeOK, NEW k \in Keys, waiting[k] # <<>>, Grant(k)
    PROVE  TypeOK'
  <1> USE GateAssumption
  <1>1. waiting[k] \in Seq(Tasks)
    BY DEF TypeOK
  <1>2. Head(waiting[k]) \in Tasks /\ Tail(waiting[k]) \in Seq(Tasks)
    BY <1>1, HeadTailProperties
  <1>3. Without(order, k) \in Seq(Keys) /\ Without(served, k) \in Seq(Keys)
    BY WithoutType DEF TypeOK
  <1>4. Append(Without(served, k), k) \in Seq(Keys)
    BY <1>3, AppendProperties
  <1>5. order' \in Seq(Keys)
    BY <1>3 DEF Grant, TypeOK
  <1>6. served' \in Seq(Keys)
    BY <1>4 DEF Grant, TypeOK
  <1>7. waiting' \in [Keys -> Seq(Tasks)]
    BY <1>2 DEF Grant, TypeOK
  <1>8. inUse' \in Int /\ held' \in [Keys -> Int]
    <2>1. \/ UNCHANGED <<inUse, held>>
          \/ inUse' = inUse + 1 /\ held' = [held EXCEPT ![k] = @ + 1]
      BY Zenon DEF Grant
    <2> QED
      BY <2>1 DEF TypeOK
  <1>9. st' \in [Tasks -> TaskStates]
    BY <1>2 DEF Grant, TypeOK, TaskStates
  <1> QED
    BY <1>5, <1>6, <1>7, <1>8, <1>9 DEF Grant, TypeOK

\* Every step keeps the types.
LEMMA TypeStep == ASSUME TypeOK, [Next]_vars PROVE TypeOK'
  <1> USE GateAssumption
  <1>1. CASE UNCHANGED vars
    BY <1>1 DEF vars, TypeOK
  <1>2. CASE DispatchGrant
    BY <1>2, GrantType DEF DispatchGrant, IsNextKey, Eligible
  <1>3. CASE DispatchEnd
    <2>1. served' \in Seq(Keys)
        <3>1. served \in Seq(Keys) /\ Without(served, leaving) \in Seq(Keys)
        BY WithoutType DEF TypeOK
      <3> QED
        BY <1>3, <3>1 DEF DispatchEnd, Forget
    <2> QED
      BY <1>3, <2>1 DEF DispatchEnd, TypeOK
  <1>4. ASSUME NEW t \in Tasks, Acquire(t) PROVE TypeOK'
    <2>1. KeyOf[t] \in Keys
      OBVIOUS
    <2>2. Append(waiting[KeyOf[t]], t) \in Seq(Tasks)
      BY <2>1, AppendProperties DEF TypeOK
    <2>3. Append(order, KeyOf[t]) \in Seq(Keys)
      BY <2>1, AppendProperties DEF TypeOK
    <2>4. order' \in Seq(Keys)
      BY <1>4, <2>3 DEF Acquire, TypeOK
    <2>5. waiting' \in [Keys -> Seq(Tasks)]
      BY <1>4, <2>1, <2>2 DEF Acquire, TypeOK
    <2> QED
      BY <1>4, <2>4, <2>5 DEF Acquire, TypeOK, TaskStates
  <1>5. ASSUME NEW t \in Tasks, Resume(t) PROVE TypeOK'
    BY <1>5 DEF Resume, TypeOK, TaskStates
  <1>6. ASSUME NEW t \in Tasks, Interrupt(t) PROVE TypeOK'
    BY <1>6 DEF Interrupt, TypeOK, TaskStates
  <1>7. ASSUME NEW t \in Tasks, Release(t) \/ AbandonGranted(t) PROVE TypeOK'
    <2>1. GiveBack(t)
      BY <1>7 DEF Release, AbandonGranted
    <2>2. KeyOf[t] \in Keys
      OBVIOUS
    <2>3. inUse' \in Int /\ held' \in [Keys -> Int]
      BY <2>1, <2>2 DEF GiveBack, TypeOK
    <2> QED
      BY <2>1, <2>2, <2>3 DEF GiveBack, TypeOK, TaskStates
  <1>8. ASSUME NEW t \in Tasks, AbandonQueued(t) PROVE TypeOK'
    <2> DEFINE k == KeyOf[t]
               rest == Without(waiting[k], t)
    <2>1. k \in Keys
      OBVIOUS
    <2>2. rest \in Seq(Tasks)
      BY <2>1, WithoutType DEF TypeOK
    <2>3. Without(order, k) \in Seq(Keys) /\ Without(served, k) \in Seq(Keys)
      BY WithoutType DEF TypeOK
    <2>4. waiting' = [waiting EXCEPT ![k] = rest]
      BY <1>8 DEF AbandonQueued
    <2>5. order' \in Seq(Keys)
      BY <1>8, <2>3 DEF AbandonQueued, TypeOK
    <2>6. served' \in Seq(Keys)
      BY <1>8, <2>3 DEF AbandonQueued, Forget, TypeOK
    <2>7. st' \in [Tasks -> TaskStates]
      BY <1>8 DEF AbandonQueued, TypeOK, TaskStates
    <2> QED
      BY <1>8, <2>1, <2>2, <2>4, <2>5, <2>6, <2>7 DEF AbandonQueued, TypeOK
  <1> QED
    BY <1>1, <1>2, <1>3, <1>4, <1>5, <1>6, <1>7, <1>8 DEF Next, Dispatch

\* What every operation of the gate leaves behind has its type: requests are in
\* a known state, counters are numbers, queues hold requests.
THEOREM TypeCorrect == Spec => []TypeOK
  <1>1. Init => TypeOK
    BY GateAssumption DEF Init, TypeOK, TaskStates
  <1>2. TypeOK /\ [Next]_vars => TypeOK'
    BY TypeStep
  <1> QED
    BY <1>1, <1>2, PTL DEF Spec

-----------------------------------------------------------------------------
(***************************************************************************)
(* Counting the owners of slots.                                           *)
(***************************************************************************)

\* A request that owned nothing is given a slot.
LEMMA OwnerGained ==
    ASSUME TypeOK, NEW t \in Tasks, t \notin Owners,
           NEW v \in SlotStates, st' = [st EXCEPT ![t] = v]
    PROVE  /\ Cardinality(Owners') = Cardinality(Owners) + 1
           /\ \A k \in Keys : Cardinality(OwnersOf(k)') =
                 IF k = KeyOf[t] THEN Cardinality(OwnersOf(k)) + 1
                                 ELSE Cardinality(OwnersOf(k))
  <1>1. IsFiniteSet(Owners) /\ \A k \in Keys : IsFiniteSet(OwnersOf(k))
    BY GateAssumption, FS_Subset DEF Owners, OwnersOf
  <1>2. Owners' = Owners \cup {t}
    BY DEF Owners, TypeOK
  <1>3. ASSUME NEW k \in Keys
        PROVE  OwnersOf(k)' = IF k = KeyOf[t] THEN OwnersOf(k) \cup {t} ELSE OwnersOf(k)
    BY <1>2 DEF OwnersOf
  <1>4. \A k \in Keys : t \notin OwnersOf(k)
    BY DEF OwnersOf
  <1>5. Cardinality(Owners \cup {t}) = Cardinality(Owners) + 1
    BY <1>1, FS_AddElement
  <1>6. \A k \in Keys : Cardinality(OwnersOf(k) \cup {t}) = Cardinality(OwnersOf(k)) + 1
    BY <1>1, <1>4, FS_AddElement
  <1> QED
    BY <1>2, <1>3, <1>5, <1>6

\* A request that owned a slot gives it back.
LEMMA OwnerLost ==
    ASSUME TypeOK, NEW t \in Tasks, t \in Owners,
           NEW v, v \notin SlotStates, st' = [st EXCEPT ![t] = v]
    PROVE  /\ Cardinality(Owners') = Cardinality(Owners) - 1
           /\ \A k \in Keys : Cardinality(OwnersOf(k)') =
                 IF k = KeyOf[t] THEN Cardinality(OwnersOf(k)) - 1
                                 ELSE Cardinality(OwnersOf(k))
  <1>1. IsFiniteSet(Owners) /\ \A k \in Keys : IsFiniteSet(OwnersOf(k))
    BY GateAssumption, FS_Subset DEF Owners, OwnersOf
  <1>2. Owners' = Owners \ {t}
    BY DEF Owners, TypeOK
  <1>3. ASSUME NEW k \in Keys
        PROVE  OwnersOf(k)' = IF k = KeyOf[t] THEN OwnersOf(k) \ {t} ELSE OwnersOf(k)
    BY <1>2 DEF OwnersOf
  <1>4. \A k \in Keys : k = KeyOf[t] => t \in OwnersOf(k)
    BY DEF OwnersOf
  <1> QED
    BY <1>1, <1>2, <1>3, <1>4, FS_RemoveElement

\* A step that moves no request into or out of the slot states keeps the owners.
LEMMA OwnersKept ==
    ASSUME TypeOK, NEW t \in Tasks, NEW v,
           st[t] \in SlotStates <=> v \in SlotStates, st' = [st EXCEPT ![t] = v]
    PROVE  Owners' = Owners /\ \A k \in Keys : OwnersOf(k)' = OwnersOf(k)
  <1>1. Owners' = Owners
    BY DEF Owners, TypeOK
  <1> QED
    BY <1>1 DEF OwnersOf

-----------------------------------------------------------------------------
(***************************************************************************)
(* The inductive invariant.  Slots are counted right only if the gate      *)
(* never grants a request that owns one, which is what the queues promise; *)
(* and a request that waits makes its account eligible only because it is  *)
(* in its account's queue.  So the three parts need each other.            *)
(***************************************************************************)
IInv == TypeOK /\ SlotsAccounted /\ QueuesMatch /\ WorkConserving

\* The head of a queue of an eligible account is a request of that account that
\* owns no slot.
LEMMA HeadOfQueue ==
    ASSUME TypeOK, QueuesMatch, NEW k \in Keys, waiting[k] # <<>>
    PROVE  /\ Head(waiting[k]) \in Tasks
           /\ KeyOf[Head(waiting[k])] = k
           /\ st[Head(waiting[k])] \in {"queued", "cancelled"}
  <1>1. waiting[k] \in Seq(Tasks) /\ Distinct(waiting[k])
    BY DEF TypeOK, QueuesMatch
  <1>2. Head(waiting[k]) \in Tasks
    BY <1>1, HeadTailProperties
  <1>3. InSeq(waiting[k], Head(waiting[k]))
    BY <1>1, TailElements
  <1> QED
    BY <1>2, <1>3 DEF QueuesMatch

\* Every step keeps the counts right and within the limits.
LEMMA SlotsStep == ASSUME IInv, [Next]_vars PROVE SlotsAccounted'
  <1> USE GateAssumption DEF IInv
  <1>1. CASE UNCHANGED vars
    BY <1>1 DEF vars, SlotsAccounted, Owners, OwnersOf
  <1>2. ASSUME NEW k \in Keys, inUse < Capacity, IsNextKey(k), Grant(k)
        PROVE  SlotsAccounted'
    <2> DEFINE t == Head(waiting[k])
    <2>1. waiting[k] # <<>> /\ held[k] < PerKey
      BY <1>2 DEF IsNextKey, Eligible, MayHold
    <2>2. t \in Tasks /\ KeyOf[t] = k /\ st[t] \in {"queued", "cancelled"}
      BY <2>1, HeadOfQueue
    <2>3. \/ UNCHANGED <<st, inUse, held>>
          \/ /\ st' = [st EXCEPT ![t] = "granted"]
             /\ inUse' = inUse + 1
             /\ held' = [held EXCEPT ![k] = @ + 1]
      BY <1>2, Zenon DEF Grant
    <2> HIDE DEF t
    <2>4. CASE UNCHANGED <<st, inUse, held>>
      BY <2>4 DEF SlotsAccounted, Owners, OwnersOf
    <2>5. CASE /\ st' = [st EXCEPT ![t] = "granted"]
               /\ inUse' = inUse + 1
               /\ held' = [held EXCEPT ![k] = @ + 1]
      <3>1. t \notin Owners /\ "granted" \in SlotStates
        BY <2>2 DEF Owners, SlotStates
      <3>2. /\ Cardinality(Owners') = Cardinality(Owners) + 1
            /\ \A j \in Keys : Cardinality(OwnersOf(j)') =
                  IF j = KeyOf[t] THEN Cardinality(OwnersOf(j)) + 1
                                  ELSE Cardinality(OwnersOf(j))
        BY <2>2, <2>5, <3>1, OwnerGained
      <3>3. inUse' = Cardinality(Owners') /\ inUse' <= Capacity
        BY <1>2, <2>5, <3>2 DEF SlotsAccounted, TypeOK
      <3>4. ASSUME NEW j \in Keys
            PROVE  held'[j] = Cardinality(OwnersOf(j)') /\ held'[j] <= PerKey
        BY <2>1, <2>2, <2>5, <3>2 DEF SlotsAccounted, TypeOK
      <3> QED
        BY <3>3, <3>4 DEF SlotsAccounted
    <2> QED
      BY <2>3, <2>4, <2>5
  <1>3. CASE DispatchEnd
    BY <1>3 DEF DispatchEnd, SlotsAccounted, Owners, OwnersOf
  <1>4. ASSUME NEW t \in Tasks, NEW v \in TaskStates,
               st[t] \in SlotStates <=> v \in SlotStates,
               st' = [st EXCEPT ![t] = v], UNCHANGED <<inUse, held>>
        PROVE  SlotsAccounted'
    BY <1>4, OwnersKept DEF SlotsAccounted
  <1>5. ASSUME NEW t \in Tasks, Acquire(t) PROVE SlotsAccounted'
    BY <1>5, <1>4 DEF Acquire, SlotStates, TaskStates
  <1>6. ASSUME NEW t \in Tasks, Resume(t) PROVE SlotsAccounted'
    BY <1>6, <1>4 DEF Resume, SlotStates, TaskStates
  <1>7. ASSUME NEW t \in Tasks, Interrupt(t) PROVE SlotsAccounted'
    BY <1>7, <1>4 DEF Interrupt, SlotStates, TaskStates
  <1>8. ASSUME NEW t \in Tasks, AbandonQueued(t) PROVE SlotsAccounted'
    BY <1>8, <1>4 DEF AbandonQueued, SlotStates, TaskStates
  <1>9. ASSUME NEW t \in Tasks, Release(t) \/ AbandonGranted(t)
        PROVE  SlotsAccounted'
    <2>1. /\ t \in Owners
          /\ st' = [st EXCEPT ![t] = "idle"]
          /\ inUse' = inUse - 1
          /\ held' = [held EXCEPT ![KeyOf[t]] = @ - 1]
      BY <1>9 DEF Release, AbandonGranted, GiveBack, Owners, SlotStates
    <2>2. "idle" \notin SlotStates /\ KeyOf[t] \in Keys
      BY DEF SlotStates
    <2>3. /\ Cardinality(Owners') = Cardinality(Owners) - 1
          /\ \A j \in Keys : Cardinality(OwnersOf(j)') =
                IF j = KeyOf[t] THEN Cardinality(OwnersOf(j)) - 1
                                ELSE Cardinality(OwnersOf(j))
      BY <2>1, <2>2, OwnerLost
    <2>4. inUse' = Cardinality(Owners') /\ inUse' <= Capacity
      BY <2>1, <2>3 DEF SlotsAccounted, TypeOK
    <2>5. ASSUME NEW j \in Keys
          PROVE  held'[j] = Cardinality(OwnersOf(j)') /\ held'[j] <= PerKey
      BY <2>1, <2>2, <2>3 DEF SlotsAccounted, TypeOK
    <2> QED
      BY <2>4, <2>5 DEF SlotsAccounted
  <1> QED
    BY <1>1, <1>2, <1>3, <1>5, <1>6, <1>7, <1>8, <1>9
    DEF Next, Dispatch, DispatchGrant

\* Every step keeps requests and queues in agreement.
LEMMA QueuesStep == ASSUME IInv, [Next]_vars PROVE QueuesMatch'
  <1> USE GateAssumption DEF IInv
  <1>0. \A k \in Keys : waiting[k] \in Seq(Tasks) /\ Distinct(waiting[k])
    BY DEF TypeOK, QueuesMatch
  <1>1. CASE UNCHANGED vars
    BY <1>1 DEF vars, QueuesMatch
  <1>2. ASSUME NEW k \in Keys, IsNextKey(k), Grant(k) PROVE QueuesMatch'
    <2> DEFINE t == Head(waiting[k])
               rest == Tail(waiting[k])
    <2>1. waiting[k] # <<>>
      BY <1>2 DEF IsNextKey, Eligible
    <2>2. t \in Tasks /\ KeyOf[t] = k /\ st[t] \in {"queued", "cancelled"}
      BY <2>1, HeadOfQueue
    <2>3. Distinct(rest) /\ \A x : InSeq(rest, x) <=> InSeq(waiting[k], x) /\ x # t
      BY <1>0, <2>1, TailElements
    <2>4. /\ waiting' = [waiting EXCEPT ![k] = rest]
          /\ \/ st[t] = "cancelled" /\ st' = st
             \/ st[t] # "cancelled" /\ st' = [st EXCEPT ![t] = "granted"]
      BY <1>2, Zenon DEF Grant
    <2> HIDE DEF t, rest
    <2>5. ASSUME NEW u \in Tasks, u # t PROVE st'[u] = st[u]
      BY <2>2, <2>4, <2>5 DEF TypeOK
    <2>6. st'[t] # "queued"
      BY <2>2, <2>4 DEF TypeOK
    <2>7. ASSUME NEW j \in Keys
          PROVE  /\ Distinct(waiting'[j])
                 /\ \A u \in Tasks : InSeq(waiting'[j], u) =>
                       KeyOf[u] = j /\ st'[u] \in {"queued", "cancelled"}
      <3>1. CASE j = k
        BY <3>1, <2>3, <2>4, <2>5 DEF TypeOK, QueuesMatch
      <3>2. CASE j # k
        <4>1. waiting'[j] = waiting[j] /\ ~InSeq(waiting[j], t)
          BY <3>2, <2>2, <2>4 DEF TypeOK, QueuesMatch
        <4> QED
          BY <4>1, <2>5 DEF QueuesMatch
      <3> QED
        BY <3>1, <3>2
    <2>8. ASSUME NEW u \in Tasks, st'[u] = "queued"
          PROVE  InSeq(waiting'[KeyOf[u]], u)
      <3>1. u # t /\ st[u] = "queued" /\ InSeq(waiting[KeyOf[u]], u)
        BY <2>5, <2>6, <2>8 DEF QueuesMatch
      <3> QED
        BY <3>1, <2>3, <2>4 DEF TypeOK
    <2> QED
      BY <2>7, <2>8 DEF QueuesMatch
  <1>3. CASE DispatchEnd
    BY <1>3 DEF DispatchEnd, QueuesMatch
  <1>4. ASSUME NEW t \in Tasks, Acquire(t) PROVE QueuesMatch'
    <2> DEFINE k == KeyOf[t]
               more == Append(waiting[k], t)
    <2>1. k \in Keys /\ st[t] = "idle"
      BY <1>4 DEF Acquire
    <2>2. ~InSeq(waiting[k], t)
      BY <2>1 DEF QueuesMatch
    <2>3. Distinct(more) /\ \A x : InSeq(more, x) <=> InSeq(waiting[k], x) \/ x = t
      BY <1>0, <2>1, <2>2, AppendElements
    <2>4. waiting' = [waiting EXCEPT ![k] = more] /\ st' = [st EXCEPT ![t] = "queued"]
      BY <1>4 DEF Acquire
    <2> HIDE DEF k, more
    <2>5. ASSUME NEW j \in Keys
          PROVE  /\ Distinct(waiting'[j])
                 /\ \A u \in Tasks : InSeq(waiting'[j], u) =>
                       KeyOf[u] = j /\ st'[u] \in {"queued", "cancelled"}
      <3>1. CASE j = k
        BY <3>1, <2>1, <2>3, <2>4 DEF TypeOK, QueuesMatch, k
      <3>2. CASE j # k
        BY <3>2, <2>1, <2>4 DEF TypeOK, QueuesMatch
      <3> QED
        BY <3>1, <3>2
    <2>6. ASSUME NEW u \in Tasks, st'[u] = "queued"
          PROVE  InSeq(waiting'[KeyOf[u]], u)
      BY <2>1, <2>3, <2>4, <2>6 DEF TypeOK, QueuesMatch, k
    <2> QED
      BY <2>5, <2>6 DEF QueuesMatch
  <1>k. ASSUME NEW t \in Tasks, NEW v \in TaskStates \ {"queued"},
               st[t] \in {"queued", "cancelled"} => v = "cancelled",
               st' = [st EXCEPT ![t] = v], waiting' = waiting
        PROVE  QueuesMatch'
    <2>1. \A u \in Tasks :
             /\ st[u] \in {"queued", "cancelled"} => st'[u] \in {"queued", "cancelled"}
             /\ st'[u] = "queued" => st[u] = "queued"
      BY <1>k DEF TypeOK
    <2> QED
      BY <2>1, <1>k DEF QueuesMatch
  <1>5. ASSUME NEW t \in Tasks, Resume(t) PROVE QueuesMatch'
    BY <1>5, <1>k DEF Resume, TaskStates
  <1>6. ASSUME NEW t \in Tasks, Interrupt(t) PROVE QueuesMatch'
    BY <1>6, <1>k DEF Interrupt, TaskStates
  <1>7. ASSUME NEW t \in Tasks, Release(t) \/ AbandonGranted(t) PROVE QueuesMatch'
    BY <1>7, <1>k DEF Release, AbandonGranted, GiveBack, TaskStates
  <1>8. ASSUME NEW t \in Tasks, AbandonQueued(t) PROVE QueuesMatch'
    <2> DEFINE k == KeyOf[t]
               rest == Without(waiting[k], t)
    <2>1. k \in Keys /\ st[t] = "cancelled"
      BY <1>8 DEF AbandonQueued
    <2>2. Distinct(rest) /\ \A x : InSeq(rest, x) <=> InSeq(waiting[k], x) /\ x # t
      BY <1>0, <2>1, WithoutElements
    <2>3. waiting' = [waiting EXCEPT ![k] = rest] /\ st' = [st EXCEPT ![t] = "idle"]
      BY <1>8 DEF AbandonQueued
    <2> HIDE DEF k, rest
    <2>4. ASSUME NEW j \in Keys
          PROVE  /\ Distinct(waiting'[j])
                 /\ \A u \in Tasks : InSeq(waiting'[j], u) =>
                       KeyOf[u] = j /\ st'[u] \in {"queued", "cancelled"}
      <3>1. CASE j = k
        BY <3>1, <2>1, <2>2, <2>3 DEF TypeOK, QueuesMatch
      <3>2. CASE j # k
        <4>1. ~InSeq(waiting[j], t)
          BY <3>2, <2>1 DEF QueuesMatch, k
        <4> QED
          BY <3>2, <4>1, <2>1, <2>3 DEF TypeOK, QueuesMatch
      <3> QED
        BY <3>1, <3>2
    <2>5. ASSUME NEW u \in Tasks, st'[u] = "queued"
          PROVE  InSeq(waiting'[KeyOf[u]], u)
      BY <2>1, <2>2, <2>3, <2>5 DEF TypeOK, QueuesMatch
    <2> QED
      BY <2>4, <2>5 DEF QueuesMatch
  <1> QED
    BY <1>1, <1>2, <1>3, <1>4, <1>5, <1>6, <1>7, <1>8
    DEF Next, Dispatch, DispatchGrant

\* Every step that leaves the event loop idle leaves no eligible request waiting
\* beside a free slot: `_dispatch` ends only when there is none, and nothing that
\* runs without it makes one.
LEMMA ConservingStep == ASSUME IInv, [Next]_vars PROVE WorkConserving'
  <1> USE GateAssumption DEF IInv
  <1>1. CASE UNCHANGED vars
    BY <1>1 DEF vars, WorkConserving
  <1>2. CASE DispatchGrant
    <2>1. pc' = "dispatch"
      BY <1>2, Zenon DEF DispatchGrant, Grant
    <2> QED
      BY <2>1 DEF WorkConserving
  <1>3. CASE DispatchEnd
    <2> SUFFICES ASSUME inUse' < Capacity, NEW t \in Tasks, st'[t] = "queued"
                 PROVE  held'[KeyOf[t]] >= PerKey
      BY DEF WorkConserving
    <2>1. UNCHANGED <<st, inUse, held, waiting>> /\ Eligible = {}
      BY <1>3 DEF DispatchEnd, TypeOK
    <2>2. InSeq(waiting[KeyOf[t]], t) /\ KeyOf[t] \in Keys
      BY <2>1 DEF QueuesMatch
    <2>3. waiting[KeyOf[t]] # <<>>
      BY <2>2 DEF InSeq
    <2> QED
      BY <2>1, <2>2, <2>3 DEF Eligible, MayHold, TypeOK
  <1>4. ASSUME NEW t \in Tasks, Acquire(t) \/ Release(t) \/ AbandonGranted(t)
        PROVE  WorkConserving'
    BY <1>4 DEF Acquire, Release, AbandonGranted, GiveBack, WorkConserving
  <1>5. ASSUME NEW t \in Tasks, Resume(t) \/ Interrupt(t) \/ AbandonQueued(t)
        PROVE  WorkConserving'
    <2>1. /\ UNCHANGED <<inUse, held, pc>>
          /\ \A u \in Tasks : st'[u] = "queued" => st[u] = "queued"
      BY <1>5 DEF Resume, Interrupt, AbandonQueued, TypeOK
    <2> QED
      BY <2>1 DEF WorkConserving
  <1> QED
    BY <1>1, <1>2, <1>3, <1>4, <1>5 DEF Next, Dispatch

\* The inductive invariant holds in every reachable state.
LEMMA Inductive == Spec => []IInv
  <1>1. Init => IInv
    <2> SUFFICES ASSUME Init PROVE IInv
      OBVIOUS
    <2>1. TypeOK
      BY GateAssumption DEF Init, TypeOK, TaskStates
    <2>2. Owners = {} /\ \A k \in Keys : OwnersOf(k) = {}
      BY DEF Init, Owners, OwnersOf, SlotStates
    <2>3. SlotsAccounted
      BY <2>2, GateAssumption, FS_EmptySet DEF Init, SlotsAccounted
    <2>4. QueuesMatch /\ WorkConserving
      BY DEF Init, QueuesMatch, WorkConserving, Distinct, InSeq
    <2> QED
      BY <2>1, <2>3, <2>4 DEF IInv
  <1>2. IInv /\ [Next]_vars => IInv'
    BY TypeStep, SlotsStep, QueuesStep, ConservingStep DEF IInv
  <1> QED
    BY <1>1, <1>2, PTL DEF Spec

\* No slot leaks and none is granted twice, whatever the order of grants,
\* timeouts and disconnects: _in_use and _held count the owners, within limits.
THEOREM SlotsAlwaysAccounted == Spec => []SlotsAccounted
  BY Inductive, PTL DEF IInv

\* A request is in its account's queue exactly while it may still be granted, so
\* `_grant` meets no request that already has a slot.
THEOREM QueuesAlwaysMatch == Spec => []QueuesMatch
  BY Inductive, PTL DEF IInv

\* No lost wakeup: between two callbacks of the event loop no request that may
\* have a slot waits while one is free.
THEOREM AlwaysWorkConserving == Spec => []WorkConserving
  BY Inductive, PTL DEF IInv

-----------------------------------------------------------------------------
(***************************************************************************)
(* What the gate remembers.  Between giving a slot back and the end of     *)
(* `_dispatch` the account that left may be remembered for nothing; every  *)
(* other one has a request.                                                *)
(***************************************************************************)
Live(k) == \E t \in Tasks : KeyOf[t] = k /\ st[t] # "idle"

MemoryFits ==
    /\ OrderMatches /\ Distinct(served)
    /\ pc = "ready" => leaving = NoKey
    /\ \A k \in Keys : InSeq(served, k) /\ k # leaving => Live(k)

\* An account with a slot or a queue has a request.
LEMMA BusyIsLive ==
    ASSUME IInv, NEW k \in Keys, held[k] # 0 \/ waiting[k] # <<>>
    PROVE  \E t \in Tasks : KeyOf[t] = k /\ st[t] \in {"queued", "cancelled", "granted", "revoked", "holding"}
                            /\ (held[k] = 0 => InSeq(waiting[k], t))
                            /\ (held[k] # 0 => t \in OwnersOf(k))
  <1>1. CASE held[k] # 0
    <2>1. OwnersOf(k) # {}
      BY <1>1, FS_EmptySet DEF IInv, SlotsAccounted
    <2>2. PICK t \in OwnersOf(k) : TRUE
      BY <2>1
    <2> QED
      BY <1>1, <2>2 DEF OwnersOf, Owners, SlotStates
  <1>2. CASE held[k] = 0
    <2>1. waiting[k] # <<>> /\ waiting[k] \in Seq(Tasks) /\ Distinct(waiting[k])
      BY <1>2 DEF IInv, TypeOK, QueuesMatch
    <2>2. InSeq(waiting[k], Head(waiting[k]))
      BY <2>1, TailElements
    <2> QED
      BY <1>2, <2>1, <2>2, HeadOfQueue DEF IInv
  <1> QED
    BY <1>1, <1>2

\* The order of the dict _waiting follows a queue that changes.
LEMMA OrderFollows ==
    ASSUME TypeOK, OrderMatches, NEW k \in Keys, NEW q, waiting' = [waiting EXCEPT ![k] = q],
           \/ q # <<>> /\ order' = (IF waiting[k] = <<>> THEN Append(order, k) ELSE order)
           \/ q = <<>> /\ order' = Without(order, k)
    PROVE  OrderMatches'
  <1>1. order \in Seq(Keys) /\ Distinct(order) /\ \A j \in Keys : InSeq(order, j) <=> waiting[j] # <<>>
    BY DEF TypeOK, OrderMatches
  <1>2. waiting'[k] = q /\ \A j \in Keys \ {k} : waiting'[j] = waiting[j]
    BY DEF TypeOK
  <1>3. ASSUME NEW s, s = order'
        PROVE  Distinct(s) /\ \A j \in Keys : InSeq(s, j) <=> waiting'[j] # <<>>
    <2>1. CASE q = <<>>
      <3>1. s = Without(order, k)
        BY <1>3, <2>1
      <3>2. Distinct(s) /\ \A x : InSeq(s, x) <=> InSeq(order, x) /\ x # k
        BY <1>1, <3>1, WithoutElements
      <3> QED
        BY <1>1, <1>2, <2>1, <3>2
    <2>2. CASE q # <<>> /\ waiting[k] = <<>>
      <3>1. s = Append(order, k) /\ ~InSeq(order, k)
        BY <1>1, <1>3, <2>2
      <3>2. Distinct(s) /\ \A x : InSeq(s, x) <=> InSeq(order, x) \/ x = k
        BY <1>1, <3>1, AppendElements
      <3> QED
        BY <1>1, <1>2, <2>2, <3>2
    <2>3. CASE q # <<>> /\ waiting[k] # <<>>
      <3>1. s = order
        BY <1>3, <2>3
      <3> QED
        BY <1>1, <1>2, <2>3, <3>1
    <2> QED
      BY <2>1, <2>2, <2>3
  <1>4. PICK s : s = order'
    OBVIOUS
  <1>5. Distinct(s) /\ \A j \in Keys : InSeq(s, j) <=> waiting'[j] # <<>>
    BY <1>3, <1>4
  <1> QED
    BY <1>4, <1>5 DEF OrderMatches

\* _forget_if_idle leaves an account in mind only if it has a slot or a queue.
LEMMA ForgetIs ==
    ASSUME TypeOK, Distinct(served), NEW k, NEW queues
    PROVE  /\ Distinct(Forget(k, queues))
           /\ \A x : InSeq(Forget(k, queues), x) => InSeq(served, x)
           /\ k \in Keys /\ InSeq(Forget(k, queues), k) => held[k] # 0 \/ queues[k] # <<>>
  <1>1. served \in Seq(Keys)
    BY DEF TypeOK
  <1>2. Distinct(Without(served, k)) /\ \A x : InSeq(Without(served, k), x) <=> InSeq(served, x) /\ x # k
    BY <1>1, WithoutElements
  <1> QED
    BY <1>2 DEF Forget

LEMMA MemoryStep == ASSUME IInv, MemoryFits, [Next]_vars PROVE MemoryFits'
  <1> USE GateAssumption
  <1>0. TypeOK /\ OrderMatches /\ Distinct(served) /\ served \in Seq(Keys)
    BY DEF IInv, MemoryFits, TypeOK
  <1>1. CASE UNCHANGED vars
    BY <1>1 DEF vars, MemoryFits, OrderMatches, Live
  <1>2. ASSUME NEW k \in Keys, IsNextKey(k), Grant(k), pc = "dispatch" PROVE MemoryFits'
    <2> DEFINE t == Head(waiting[k])
               rest == Tail(waiting[k])
    <2>1. waiting[k] # <<>>
      BY <1>2 DEF IsNextKey, Eligible
    <2>2. t \in Tasks /\ KeyOf[t] = k /\ st[t] \in {"queued", "cancelled"}
      BY <2>1, HeadOfQueue DEF IInv
    <2>3. /\ waiting' = [waiting EXCEPT ![k] = rest] /\ pc' = pc /\ leaving' = leaving
          /\ order' = IF rest = <<>> THEN Without(order, k) ELSE order
          /\ \/ st' = st /\ served' = served
             \/ st' = [st EXCEPT ![t] = "granted"] /\ served' = Append(Without(served, k), k)
      BY <1>2, Zenon DEF Grant
    <2> HIDE DEF t, rest
    <2>4. OrderMatches'
      <3>1. \/ rest # <<>> /\ order' = (IF waiting[k] = <<>> THEN Append(order, k) ELSE order)
            \/ rest = <<>> /\ order' = Without(order, k)
        BY <2>1, <2>3
      <3> QED
        BY <1>0, <2>3, <3>1, OrderFollows
    <2>5. \A j \in Keys : Live(j) => Live(j)'
      BY <1>0, <2>2, <2>3 DEF Live, TypeOK
    <2>6. Distinct(served') /\ \A j \in Keys : InSeq(served', j) /\ j # leaving' => Live(j)'
      <3>1. CASE st' = st /\ served' = served
        BY <1>0, <2>3, <2>5, <3>1 DEF MemoryFits
      <3>2. CASE st' = [st EXCEPT ![t] = "granted"] /\ served' = Append(Without(served, k), k)
        <4> DEFINE w == Without(served, k)
        <4>1. w \in Seq(Keys) /\ Distinct(w) /\ \A x : InSeq(w, x) <=> InSeq(served, x) /\ x # k
          BY <1>0, WithoutType, WithoutElements
        <4> HIDE DEF w
        <4>2. Distinct(Append(w, k)) /\ \A x : InSeq(Append(w, k), x) <=> InSeq(w, x) \/ x = k
          BY <4>1, AppendElements
        <4>3. served' = Append(w, k)
          BY <3>2 DEF w
        <4>4. Live(k)'
          BY <1>0, <2>2, <3>2 DEF Live, TypeOK
        <4> QED
          BY <2>3, <2>5, <4>1, <4>2, <4>3, <4>4 DEF MemoryFits
      <3> QED
        BY <2>3, <3>1, <3>2
    <2> QED
      BY <1>2, <2>3, <2>4, <2>6 DEF MemoryFits
  <1>3. CASE DispatchEnd
    <2>1. /\ st' = st /\ held' = held /\ waiting' = waiting /\ order' = order
          /\ served' = Forget(leaving, waiting) /\ leaving' = NoKey
      BY <1>3 DEF DispatchEnd
    <2>2. /\ Distinct(Forget(leaving, waiting))
          /\ \A x : InSeq(Forget(leaving, waiting), x) => InSeq(served, x)
          /\ leaving \in Keys /\ InSeq(Forget(leaving, waiting), leaving) => held[leaving] # 0 \/ waiting[leaving] # <<>>
      BY <1>0, ForgetIs
    <2>3. ASSUME NEW k \in Keys, InSeq(served', k) PROVE Live(k)'
      <3>1. CASE k = leaving
        <4>1. held[k] # 0 \/ waiting[k] # <<>>
          BY <2>1, <2>2, <2>3, <3>1
        <4> QED
          BY <2>1, <4>1, BusyIsLive DEF Live
      <3>2. CASE k # leaving
        BY <2>1, <2>2, <2>3, <3>2 DEF MemoryFits, Live
      <3> QED
        BY <3>1, <3>2
    <2>4. OrderMatches'
      BY <1>0, <2>1 DEF OrderMatches
    <2> QED
      BY <2>1, <2>2, <2>3, <2>4 DEF MemoryFits
  <1>4. ASSUME NEW t \in Tasks, Acquire(t) PROVE MemoryFits'
    <2> DEFINE k == KeyOf[t]
               q == Append(waiting[k], t)
    <2>1. k \in Keys /\ waiting[k] \in Seq(Tasks)
      BY <1>0 DEF TypeOK
    <2>2. q # <<>>
      BY <2>1, AppendProperties, EmptySeq
    <2>3. /\ waiting' = [waiting EXCEPT ![k] = q] /\ st' = [st EXCEPT ![t] = "queued"]
          /\ order' = (IF waiting[k] = <<>> THEN Append(order, k) ELSE order)
          /\ served' = served /\ pc' = "dispatch" /\ leaving' = NoKey
          /\ pc = "ready"
      BY <1>4 DEF Acquire
    <2> HIDE DEF q
    <2>4. OrderMatches'
      BY <1>0, <2>1, <2>2, <2>3, OrderFollows
    <2>5. \A j \in Keys : Live(j) => Live(j)'
      BY <1>0, <2>3 DEF Live, TypeOK
    <2> QED
      BY <1>0, <2>3, <2>4, <2>5 DEF MemoryFits
  <1>5. ASSUME NEW t \in Tasks, Resume(t) \/ Interrupt(t) PROVE MemoryFits'
    <2>1. \A j \in Keys : Live(j) => Live(j)'
      BY <1>0, <1>5 DEF Live, TypeOK, Resume, Interrupt
    <2>2. order' = order /\ waiting' = waiting /\ served' = served /\ pc' = pc /\ leaving' = leaving
      BY <1>5 DEF Resume, Interrupt
    <2>3. OrderMatches'
      BY <1>0, <2>2 DEF OrderMatches
    <2> QED
      BY <2>1, <2>2, <2>3 DEF MemoryFits
  <1>6. ASSUME NEW t \in Tasks, Release(t) \/ AbandonGranted(t) PROVE MemoryFits'
    <2>1. /\ st' = [st EXCEPT ![t] = "idle"] /\ pc' = "dispatch" /\ leaving' = KeyOf[t] /\ pc = "ready"
          /\ order' = order /\ waiting' = waiting /\ served' = served
      BY <1>6 DEF Release, AbandonGranted, GiveBack
    <2>2. \A j \in Keys : j # KeyOf[t] /\ Live(j) => Live(j)'
      BY <1>0, <2>1 DEF Live, TypeOK
    <2>3. OrderMatches'
      BY <1>0, <2>1 DEF OrderMatches
    <2>4. \A j \in Keys : InSeq(served', j) /\ j # leaving' => Live(j)'
      BY <2>1, <2>2 DEF MemoryFits
    <2> QED
      BY <1>0, <2>1, <2>3, <2>4 DEF MemoryFits
  <1>7. ASSUME NEW t \in Tasks, AbandonQueued(t) PROVE MemoryFits'
    <2> DEFINE k == KeyOf[t]
               rest == Without(waiting[k], t)
               queues == [waiting EXCEPT ![k] = rest]
    <2>1. k \in Keys /\ waiting[k] \in Seq(Tasks) /\ Distinct(waiting[k])
      BY <1>0 DEF TypeOK, IInv, QueuesMatch
    <2>2. /\ st[t] = "cancelled" /\ st' = [st EXCEPT ![t] = "idle"] /\ waiting' = queues
          /\ order' = (IF rest = <<>> THEN Without(order, k) ELSE order)
          /\ served' = Forget(k, queues) /\ held' = held /\ pc = "ready" /\ pc' = pc /\ leaving' = leaving
      BY <1>7 DEF AbandonQueued
    <2>3. rest \in Seq(Tasks) /\ Distinct(rest) /\ \A x : InSeq(rest, x) <=> InSeq(waiting[k], x) /\ x # t
      BY <2>1, WithoutType, WithoutElements
    <2>4. queues[k] = rest
      BY <1>0, <2>1 DEF TypeOK
    <2>5. waiting[k] = <<>> => rest = <<>>
      BY <2>1 DEF Without, InSeq
    <2> HIDE DEF rest
    <2>6. OrderMatches'
      <3>1. waiting' = [waiting EXCEPT ![k] = rest]
        BY <2>2
      <3>2. \/ rest # <<>> /\ order' = (IF waiting[k] = <<>> THEN Append(order, k) ELSE order)
            \/ rest = <<>> /\ order' = Without(order, k)
        BY <2>2, <2>5
      <3> HIDE DEF queues
      <3> QED
        BY <1>0, <2>1, <3>1, <3>2, OrderFollows
    <2> HIDE DEF queues
    <2>7. /\ Distinct(Forget(k, queues))
          /\ \A x : InSeq(Forget(k, queues), x) => InSeq(served, x)
          /\ InSeq(Forget(k, queues), k) => held[k] # 0 \/ rest # <<>>
      BY <1>0, <2>1, <2>4, ForgetIs
    <2>8. \A u \in Tasks : u # t => st'[u] = st[u]
      BY <1>0, <2>2 DEF TypeOK
    <2>9. ASSUME NEW j \in Keys, InSeq(served', j) PROVE Live(j)'
      <3>1. CASE j # k
        <4>1. Live(j)
          BY <2>2, <2>7, <2>9, <3>1 DEF MemoryFits
        <4> QED
          BY <2>8, <3>1, <4>1 DEF Live
      <3>2. CASE j = k /\ held[k] # 0
        <4>1. PICK u \in Tasks : KeyOf[u] = k /\ u \in OwnersOf(k)
          BY <2>1, <3>2, BusyIsLive
        <4>2. u # t /\ st[u] # "idle"
          BY <2>2, <4>1 DEF OwnersOf, Owners, SlotStates
        <4> QED
          BY <2>8, <3>2, <4>1, <4>2 DEF Live
      <3>3. CASE j = k /\ held[k] = 0
        <4>1. rest # <<>>
          BY <2>2, <2>7, <2>9, <3>3
        <4>2. InSeq(rest, Head(rest)) /\ Head(rest) \in Tasks
          BY <2>3, <4>1, TailElements, HeadTailProperties
        <4>3. PICK u \in Tasks : InSeq(waiting[k], u) /\ u # t
          BY <2>3, <4>2
        <4>4. KeyOf[u] = k /\ st[u] # "idle"
          BY <2>1, <4>3 DEF IInv, QueuesMatch
        <4> QED
          BY <2>8, <3>3, <4>3, <4>4 DEF Live
      <3> QED
        BY <3>1, <3>2, <3>3
    <2> QED
      BY <2>2, <2>6, <2>7, <2>9 DEF MemoryFits
  <1> QED
    BY <1>1, <1>2, <1>3, <1>4, <1>5, <1>6, <1>7 DEF Next, Dispatch, DispatchGrant

\* The gate's memory is bounded by its live requests: `_waiting` has no empty queue, and between callbacks
\* `_last_served` holds no account without a request, whatever was cancelled when.
THEOREM NothingEverRemembered == Spec => []NothingRemembered
  <1>1. Init => MemoryFits
    <2> SUFFICES ASSUME Init PROVE MemoryFits
      OBVIOUS
    <2>1. \A x : ~InSeq(<<>>, x)
      BY DEF InSeq
    <2>2. Distinct(<<>>)
      BY DEF Distinct
    <2> QED
      BY <2>1, <2>2 DEF Init, MemoryFits, OrderMatches
  <1>2. IInv /\ MemoryFits /\ [Next]_vars => MemoryFits'
    BY MemoryStep
  <1>3. IInv /\ MemoryFits => NothingRemembered
    BY GateAssumption DEF MemoryFits, NothingRemembered, Live
  <1> QED
    BY <1>1, <1>2, <1>3, Inductive, PTL DEF Spec
-----------------------------------------------------------------------------
(***************************************************************************)
(* The request rate, for any accounts, rate and number of buckets, however *)
(* long the clock runs.                                                    *)
(***************************************************************************)
LEMMA Spread == \A x, y, z \in Int : x * (y + z) = x * y + x * z
  OBVIOUS

LEMMA Growing == \A x, y \in Int, z \in Nat : x <= y => x * z <= y * z
  OBVIOUS

Gained(t) == PerMinute * (t - since)

\* What a bucket and the requests admitted since the observer came add up to: no more
\* than what it was given, and no less, but for what a full bucket had no room for.
BucketOK(a) ==
    LET b == bucket[a]
    IN  /\ b.units <= Full /\ b.stamp <= now
        /\ full[a] >= 1
        /\ b.stamp < since => taken[a] = 0
        /\ b.stamp >= since =>
              /\ taken[a] * Token + b.units <= full[a] * Full + Gained(b.stamp)
              /\ \/ taken[a] * Token + b.units >= Full
                 \/ taken[a] * Token + b.units >= Gained(b.stamp)
        /\ wait[a] # 0 => b.units < Token

AccountOK(a) ==
    /\ bucket[a] # NoBucket => BucketOK(a)
    /\ bucket[a] = NoBucket => taken[a] * Token <= full[a] * Full + Gained(now)

\* The order of the buckets is that of their stamps.
OrderOK ==
    /\ IsFiniteSet(Known) /\ Cardinality(Known) <= MaxKeys
    /\ \A a \in Known : behind[a] \subseteq Known
    /\ \A a \in Known : \A b \in behind[a] : bucket[b].stamp >= bucket[a].stamp

BudgetInv ==
    /\ BudgetTypeOK
    /\ since <= now
    /\ \A a \in Accounts : AccountOK(a)
    /\ OrderOK

LEMMA BudgetNumbers ==
    /\ PerMinute \in Nat \ {0} /\ Token \in Nat \ {0} /\ MaxKeys \in Nat \ {0}
    /\ Full \in Nat /\ Full >= Token
<1>1. PerMinute \in Nat \ {0} /\ Minute \in Nat \ {0} /\ MaxKeys \in Nat \ {0}
  BY BudgetAssumption
<1>2. PerMinute * Minute \in Nat /\ 1 * Minute <= PerMinute * Minute
  BY <1>1, Growing
<1> QED BY <1>1, <1>2 DEF Token, Full

\* What a request finds in its bucket.
LEMMA FoundUnits ==
    ASSUME BudgetInv, NEW a \in Accounts, bucket[a] # NoBucket
    PROVE  LET b == bucket[a]
           IN  /\ b \in [units : Nat, stamp : Nat] /\ b.stamp <= now
               /\ PerMinute * (now - b.stamp) \in Nat
               /\ Units(a) \in Nat /\ Units(a) <= Full
               /\ Units(a) = Full \/ Units(a) = b.units + PerMinute * (now - b.stamp)
               /\ Units(a) <= b.units + PerMinute * (now - b.stamp)
<1> DEFINE b == bucket[a]
<1>1. b \in [units : Nat, stamp : Nat] /\ BucketOK(a) /\ now \in Nat
  BY DEF BudgetInv, BudgetTypeOK, AccountOK
<1>2. b.stamp <= now /\ b.units \in Nat /\ now - b.stamp \in Nat
  BY <1>1 DEF BucketOK
<1>3. PerMinute * (now - b.stamp) \in Nat
  <2>1. \A x, y \in Nat : x * y \in Nat
    OBVIOUS
  <2> QED BY <1>2, <2>1, BudgetNumbers
<1>4. (now - b.stamp) * PerMinute = PerMinute * (now - b.stamp)
  <2>1. \A x, y \in Int : x * y = y * x
    OBVIOUS
  <2> QED BY <1>2, <2>1, BudgetNumbers
<1>5. Units(a) = IF b.units + PerMinute * (now - b.stamp) < Full
                 THEN b.units + PerMinute * (now - b.stamp) ELSE Full
  BY <1>4 DEF Units, Refilled
<1> HIDE DEF b
<1>6. /\ Units(a) \in Nat /\ Units(a) <= Full
      /\ Units(a) = Full \/ Units(a) = b.units + PerMinute * (now - b.stamp)
      /\ Units(a) <= b.units + PerMinute * (now - b.stamp)
  BY <1>2, <1>3, <1>5, BudgetNumbers
<1> QED BY <1>1, <1>2, <1>3, <1>6 DEF b

\* The time that was counted only grows.
LEMMA GainedGrows ==
    ASSUME NEW t \in Int, NEW u \in Int, t <= u, since \in Int
    PROVE  /\ Gained(t) \in Int /\ Gained(u) = Gained(t) + PerMinute * (u - t)
           /\ Gained(t) <= Gained(u) /\ Gained(since) = 0
<1>1. PerMinute \in Nat
  BY BudgetNumbers
<1>2. PerMinute * ((t - since) + (u - t)) = PerMinute * (t - since) + PerMinute * (u - t)
  BY <1>1, Spread
<1>3. (t - since) + (u - t) = u - since /\ u - t \in Nat /\ since - since = 0
  OBVIOUS
<1>4. \A x, y \in Nat : x * y \in Nat
  OBVIOUS
<1>5. PerMinute * (u - t) \in Nat
  BY <1>1, <1>3, <1>4
<1>6. PerMinute * (t - since) \in Int
  <2>1. \A x, y \in Int : x * y \in Int
    OBVIOUS
  <2> QED BY <1>1, <2>1
<1>7. PerMinute * 0 = 0
  BY <1>1
<1>8. PerMinute * (u - since) = PerMinute * (t - since) + PerMinute * (u - t)
  BY <1>2, <1>3
<1> QED BY <1>3, <1>5, <1>6, <1>7, <1>8 DEF Gained

\* A bucket may be forgotten: what it says of its account holds without it.
LEMMA Forgettable ==
    ASSUME BudgetInv, NEW a \in Accounts, bucket[a] # NoBucket
    PROVE  taken[a] * Token <= full[a] * Full + Gained(now)
<1> DEFINE b == bucket[a]
<1>0. \A t, u \in Nat : t <= u =>
          /\ Gained(t) \in Int /\ Gained(u) \in Int /\ Gained(u) = Gained(t) + PerMinute * (u - t)
          /\ Gained(t) <= Gained(u) /\ Gained(since) = 0
  <2>1. since \in Int
    BY DEF BudgetInv, BudgetTypeOK
  <2> SUFFICES ASSUME NEW t \in Nat, NEW u \in Nat, t <= u
               PROVE  /\ Gained(t) \in Int /\ Gained(u) \in Int
                      /\ Gained(u) = Gained(t) + PerMinute * (u - t)
                      /\ Gained(t) <= Gained(u) /\ Gained(since) = 0
    OBVIOUS
  <2> QED BY <2>1, GainedGrows
<1>1. /\ b.units \in Nat /\ b.stamp \in Nat /\ b.stamp <= now /\ BucketOK(a)
      /\ taken[a] \in Nat /\ full[a] \in Nat /\ since \in Nat /\ now \in Nat /\ since <= now
  BY FoundUnits DEF BudgetInv, BudgetTypeOK, AccountOK
<1>2. \A x, y \in Nat : x * y \in Nat
  OBVIOUS
<1>3. taken[a] * Token \in Nat /\ full[a] * Full \in Nat
  BY <1>1, <1>2, BudgetNumbers
<1>4. CASE b.stamp < since
  <2>1. taken[a] * Token = 0
    BY <1>1, <1>4, BudgetNumbers DEF BucketOK
  <2>2. Gained(now) >= 0 /\ Gained(now) \in Int
    BY <1>0, <1>1
  <2> QED BY <1>3, <2>1, <2>2
<1>5. CASE b.stamp >= since
  <2>1. taken[a] * Token + b.units <= full[a] * Full + Gained(b.stamp)
    BY <1>1, <1>5 DEF BucketOK
  <2>2. Gained(b.stamp) <= Gained(now) /\ Gained(b.stamp) \in Int /\ Gained(now) \in Int
    BY <1>0, <1>1
  <2> QED BY <1>1, <1>3, <2>1, <2>2
<1> QED BY <1>1, <1>4, <1>5

\* What a request finds, and what was admitted before it, add up as in BucketOK.
LEMMA FoundBalance ==
    ASSUME BudgetInv, NEW a \in Accounts
    PROVE  LET given == IF bucket[a] = NoBucket THEN full[a] + 1 ELSE full[a]
           IN  /\ Units(a) \in Nat /\ Units(a) <= Full /\ given \in Nat /\ given >= 1
               /\ taken[a] * Token + Units(a) <= given * Full + Gained(now)
               /\ \/ taken[a] * Token + Units(a) >= Full
                  \/ taken[a] * Token + Units(a) >= Gained(now)
<1> DEFINE given == IF bucket[a] = NoBucket THEN full[a] + 1 ELSE full[a]
<1>0. \A t, u \in Nat : t <= u =>
          /\ Gained(t) \in Int /\ Gained(u) \in Int /\ Gained(u) = Gained(t) + PerMinute * (u - t)
          /\ Gained(t) <= Gained(u) /\ Gained(since) = 0
  <2>1. since \in Int
    BY DEF BudgetInv, BudgetTypeOK
  <2> SUFFICES ASSUME NEW t \in Nat, NEW u \in Nat, t <= u
               PROVE  /\ Gained(t) \in Int /\ Gained(u) \in Int
                      /\ Gained(u) = Gained(t) + PerMinute * (u - t)
                      /\ Gained(t) <= Gained(u) /\ Gained(since) = 0
    OBVIOUS
  <2> QED BY <2>1, GainedGrows
<1>1. /\ taken[a] \in Nat /\ full[a] \in Nat /\ since \in Nat /\ now \in Nat /\ since <= now
      /\ AccountOK(a)
  BY DEF BudgetInv, BudgetTypeOK
<1>2. \A x, y \in Nat : x * y \in Nat
  OBVIOUS
<1>3. taken[a] * Token \in Nat /\ full[a] * Full \in Nat
  BY <1>1, <1>2, BudgetNumbers
<1>4. Gained(now) \in Int /\ Gained(now) >= 0
  BY <1>0, <1>1
<1>5. CASE bucket[a] = NoBucket
  <2>1. Units(a) = Full /\ given = full[a] + 1
    BY <1>5 DEF Units
  <2>2. (full[a] + 1) * Full = full[a] * Full + Full
    <3>1. \A x, y \in Nat : (x + 1) * y = x * y + y
      OBVIOUS
    <3> QED BY <1>1, <3>1, BudgetNumbers
  <2>3. taken[a] * Token <= full[a] * Full + Gained(now)
    BY <1>1, <1>5 DEF AccountOK
  <2>4. given * Full = full[a] * Full + Full
    BY <2>1, <2>2
  <2>5. given \in Nat /\ given >= 1 /\ given * Full \in Nat
    BY <1>1, <1>3, <2>1, <2>4, BudgetNumbers
  <2> HIDE DEF given
  <2>6. taken[a] * Token + Full <= given * Full + Gained(now)
    BY <1>3, <1>4, <2>3, <2>4, BudgetNumbers
  <2>7. taken[a] * Token + Full >= Full
    BY <1>3, BudgetNumbers
  <2>8. /\ Units(a) \in Nat /\ Units(a) <= Full
        /\ taken[a] * Token + Units(a) <= given * Full + Gained(now)
        /\ taken[a] * Token + Units(a) >= Full
    BY <2>1, <2>6, <2>7, BudgetNumbers
  <2> QED BY <2>5, <2>8 DEF given
<1>6. CASE bucket[a] # NoBucket
  <2> DEFINE b == bucket[a]
  <2>1. /\ b.units \in Nat /\ b.stamp \in Nat /\ b.stamp <= now /\ BucketOK(a)
        /\ Units(a) \in Nat /\ Units(a) <= Full
        /\ Units(a) = Full \/ Units(a) = b.units + PerMinute * (now - b.stamp)
        /\ Units(a) <= b.units + PerMinute * (now - b.stamp)
        /\ PerMinute * (now - b.stamp) \in Nat
    BY <1>1, <1>6, FoundUnits DEF AccountOK
  <2>2. given = full[a] /\ full[a] >= 1
    BY <1>6, <2>1 DEF BucketOK
  <2>3. Gained(b.stamp) \in Int /\ Gained(now) = Gained(b.stamp) + PerMinute * (now - b.stamp)
    BY <1>0, <1>1, <2>1
  <2>4. CASE b.stamp < since
    <3>1. taken[a] * Token = 0
      BY <1>1, <2>1, <2>4, BudgetNumbers DEF BucketOK
    <3>2. full[a] * Full >= Full
      <4>1. 1 * Full <= full[a] * Full
        BY <1>1, <2>2, Growing, BudgetNumbers
      <4> QED BY <4>1, BudgetNumbers
    <3>3. Gained(b.stamp) <= 0
      BY <1>0, <1>1, <2>1, <2>4
    <3> QED BY <1>1, <1>3, <1>4, <2>1, <2>2, <2>3, <3>1, <3>2, <3>3, BudgetNumbers
  <2>5. CASE b.stamp >= since
    <3>1. /\ taken[a] * Token + b.units <= full[a] * Full + Gained(b.stamp)
          /\ \/ taken[a] * Token + b.units >= Full
             \/ taken[a] * Token + b.units >= Gained(b.stamp)
      BY <2>1, <2>5 DEF BucketOK
    <3> QED BY <1>1, <1>3, <1>4, <2>1, <2>2, <2>3, <3>1, BudgetNumbers
  <2> QED BY <1>1, <2>1, <2>4, <2>5
<1> QED BY <1>5, <1>6

\* The bucket that is put back.
LEMMA PutBalance ==
    ASSUME BudgetInv, NEW a \in Accounts,
           NEW units, units = IF Admitted(a) THEN Units(a) - Token ELSE Units(a),
           wait' = [wait EXCEPT ![a] = IF Admitted(a) THEN 0 ELSE Token - units],
           taken' = [taken EXCEPT ![a] = IF Admitted(a) THEN @ + 1 ELSE @],
           full' = [full EXCEPT ![a] = IF bucket[a] = NoBucket THEN @ + 1 ELSE @],
           now' = now, since' = since, bucket'[a] = [units |-> units, stamp |-> now]
    PROVE  /\ units \in Nat /\ wait'[a] \in Nat /\ taken'[a] \in Nat /\ full'[a] \in Nat
           /\ BucketOK(a)'
<1> DEFINE given == IF bucket[a] = NoBucket THEN full[a] + 1 ELSE full[a]
<1>1. /\ taken[a] \in Nat /\ full[a] \in Nat /\ since \in Nat /\ now \in Nat /\ since <= now
      /\ wait \in [Accounts -> Nat] /\ taken \in [Accounts -> Nat] /\ full \in [Accounts -> Nat]
  BY DEF BudgetInv, BudgetTypeOK
<1>2. /\ Units(a) \in Nat /\ Units(a) <= Full /\ given \in Nat /\ given >= 1
      /\ taken[a] * Token + Units(a) <= given * Full + Gained(now)
      /\ \/ taken[a] * Token + Units(a) >= Full
         \/ taken[a] * Token + Units(a) >= Gained(now)
  BY FoundBalance
<1>3. full'[a] = given
  BY <1>1
<1>4. units \in Nat /\ units <= Full
  BY <1>2, BudgetNumbers DEF Admitted
<1>5. /\ taken'[a] \in Nat
      /\ taken'[a] * Token + units = taken[a] * Token + Units(a)
  <2>1. CASE Admitted(a)
    <3>1. taken'[a] = taken[a] + 1 /\ units = Units(a) - Token
      BY <1>1, <2>1
    <3>2. (taken[a] + 1) * Token = taken[a] * Token + Token
      <4>1. \A x, y \in Nat : (x + 1) * y = x * y + y
        OBVIOUS
      <4> QED BY <1>1, <4>1, BudgetNumbers
    <3>3. taken[a] * Token \in Nat
      <4>1. \A x, y \in Nat : x * y \in Nat
        OBVIOUS
      <4> QED BY <1>1, <4>1, BudgetNumbers
    <3>4. taken'[a] * Token = taken[a] * Token + Token
      BY <3>1, <3>2
    <3>5. (taken[a] * Token + Token) + (Units(a) - Token) = taken[a] * Token + Units(a)
      BY <1>2, <3>3, BudgetNumbers
    <3> QED BY <1>1, <3>1, <3>4, <3>5
  <2>2. CASE ~Admitted(a)
    <3>1. taken'[a] = taken[a] /\ units = Units(a)
      BY <1>1, <2>2
    <3> QED BY <1>1, <3>1
  <2> QED BY <2>1, <2>2
<1>6. wait'[a] \in Nat /\ (wait'[a] # 0 => units < Token)
  BY <1>1, <1>2, BudgetNumbers DEF Admitted
<1>7. bucket'[a].units = units /\ bucket'[a].stamp = now
  OBVIOUS
<1>8. Gained(now)' = Gained(now) /\ \A t : Gained(t)' = PerMinute * (t' - since)
  BY DEF Gained
<1> HIDE DEF given
<1>9. BucketOK(a)'
  <2>1. /\ taken'[a] * Token + units <= full'[a] * Full + Gained(now)
        /\ \/ taken'[a] * Token + units >= Full
           \/ taken'[a] * Token + units >= Gained(now)
    BY <1>2, <1>3, <1>5
  <2>2. full'[a] >= 1
    BY <1>2, <1>3
  <2>3. ~(now < since)
    BY <1>1
  <2> QED BY <1>1, <1>4, <1>6, <1>7, <2>1, <2>2, <2>3 DEF BucketOK, Gained, Full, Token
<1> QED BY <1>2, <1>3, <1>4, <1>5, <1>6, <1>9

\* An account that a step leaves alone.
LEMMA LeftAlone ==
    ASSUME NEW a \in Accounts, AccountOK(a), now' = now, since' = since, bucket'[a] = bucket[a],
           taken'[a] = taken[a], full'[a] = full[a], wait'[a] = wait[a]
    PROVE  AccountOK(a)'
BY DEF AccountOK, BucketOK, Gained

\* What a request does to the dict: its bucket comes last, and the first one may go.
LEMMA TakeDict ==
    ASSUME BudgetInv, NEW a \in Accounts, Take(a)
    PROVE  LET units == IF Admitted(a) THEN Units(a) - Token ELSE Units(a)
               all == Known \cup {a}
           IN  /\ IsFiniteSet(all) /\ bucket'[a] = [units |-> units, stamp |-> now]
               /\ \E gone \in SUBSET (all \ {a}) :
                     /\ Known' = all \ gone
                     /\ Cardinality(Known') <= MaxKeys
                     /\ gone # {} => Cardinality(Known') >= MaxKeys
                     /\ \A b \in Accounts \ {a} :
                           bucket'[b] = IF b \in gone THEN NoBucket ELSE bucket[b]
                     /\ \A b \in Accounts : behind'[b] =
                           IF b \in gone THEN {} ELSE PutBack(a)[b] \ gone
                     /\ \A o \in gone : PutBack(a)[o] = all \ {o}
<1> DEFINE units == IF Admitted(a) THEN Units(a) - Token ELSE Units(a)
           all == Known \cup {a}
           put == [bucket EXCEPT ![a] = [units |-> units, stamp |-> now]]
           Dict(gone) ==
               /\ Known' = all \ gone
               /\ Cardinality(Known') <= MaxKeys
               /\ gone # {} => Cardinality(Known') >= MaxKeys
               /\ \A b \in Accounts \ {a} : bucket'[b] = IF b \in gone THEN NoBucket ELSE bucket[b]
               /\ \A b \in Accounts : behind'[b] = IF b \in gone THEN {} ELSE PutBack(a)[b] \ gone
               /\ \A o \in gone : PutBack(a)[o] = all \ {o}
<1>1. /\ bucket \in [Accounts -> [units : Nat, stamp : Nat] \cup {NoBucket}]
      /\ now \in Nat /\ units \in Nat
      /\ IsFiniteSet(Known) /\ Cardinality(Known) <= MaxKeys
  <2>1. Units(a) \in Nat
    BY FoundBalance
  <2> QED BY <2>1, BudgetNumbers DEF BudgetInv, BudgetTypeOK, OrderOK, Admitted
<1>2. /\ IsFiniteSet(all) /\ Cardinality(all) \in Nat /\ Cardinality(all) <= MaxKeys + 1
  <2>1. IsFiniteSet(all) /\ Cardinality(all) = IF a \in Known THEN Cardinality(Known) ELSE Cardinality(Known) + 1
    BY <1>1, FS_AddElement
  <2>2. Cardinality(Known) \in Nat
    BY <1>1, FS_CardinalityType
  <2> QED BY <1>1, <2>1, <2>2, BudgetNumbers
<1>3. [units |-> units, stamp |-> now] # NoBucket
  BY <1>1, BudgetAssumption
<1> HIDE DEF units
<1>4. CASE Cardinality(all) <= MaxKeys
  <2>1. bucket' = put /\ behind' = PutBack(a)
    BY <1>4 DEF Take, units
  <2>2. /\ bucket'[a] = [units |-> units, stamp |-> now]
        /\ \A b \in Accounts \ {a} : bucket'[b] = bucket[b]
    BY <1>1, <2>1
  <2>3. Known' = all
    BY <1>3, <2>2 DEF Known
  <2>4. Dict({})
    BY <1>4, <2>1, <2>2, <2>3
  <2> HIDE DEF Dict
  <2>5. \E gone \in SUBSET (all \ {a}) : Dict(gone)
    BY <2>4
  <2> QED BY <1>2, <2>2, <2>5 DEF Dict, units
<1>5. CASE ~(Cardinality(all) <= MaxKeys)
  <2>1. PICK o \in all :
          /\ PutBack(a)[o] = all \ {o}
          /\ bucket' = [put EXCEPT ![o] = NoBucket]
          /\ behind' = [b \in Accounts |-> IF b = o THEN {} ELSE PutBack(a)[b] \ {o}]
    BY <1>5 DEF Take, Oldest, units
  <2>2. o # a
    <3> SUFFICES ASSUME o = a PROVE FALSE
      OBVIOUS
    <3>1. PutBack(a)[a] = {}
      BY DEF PutBack
    <3>2. all = {a}
      BY <2>1, <3>1
    <3>3. Cardinality({a}) = 1
      BY FS_Singleton
    <3>4. Cardinality(all) = 1
      BY <3>2, <3>3
    <3> HIDE DEF all
    <3> QED BY <1>5, <3>4, BudgetNumbers
  <2>3. /\ bucket'[a] = [units |-> units, stamp |-> now] /\ bucket'[o] = NoBucket
        /\ \A b \in Accounts \ {a} : bucket'[b] = IF b = o THEN NoBucket ELSE bucket[b]
    <3>1. o \in Accounts
      BY <2>1 DEF Known
    <3>2. put \in [Accounts -> [units : Nat, stamp : Nat] \cup {NoBucket}]
      BY <1>1
    <3>3. \A b \in Accounts : bucket'[b] = IF b = o THEN NoBucket ELSE put[b]
      BY <2>1, <3>1, <3>2
    <3>4. \A b \in Accounts : put[b] = IF b = a THEN [units |-> units, stamp |-> now] ELSE bucket[b]
      BY <1>1
    <3> HIDE DEF put
    <3> QED BY <2>2, <3>1, <3>3, <3>4
  <2>4. Known' = all \ {o}
    BY <1>3, <2>2, <2>3 DEF Known
  <2>5. Cardinality(Known') = Cardinality(all) - 1
    BY <1>2, <2>1, <2>4, FS_RemoveElement
  <2>6. Dict({o})
    <3>1. Cardinality(Known') <= MaxKeys /\ Cardinality(Known') >= MaxKeys
      BY <1>2, <1>5, <2>5, BudgetNumbers
    <3> QED BY <2>1, <2>3, <2>4, <3>1
  <2> HIDE DEF Dict
  <2>7. \E gone \in SUBSET (all \ {a}) : Dict(gone)
    BY <2>1, <2>2, <2>6
  <2> QED BY <1>2, <2>3, <2>7 DEF Dict, units
<1> QED BY <1>4, <1>5

LEMMA TakeAccounts ==
    ASSUME BudgetInv, NEW a \in Accounts, Take(a)
    PROVE  BudgetTypeOK' /\ \A b \in Accounts : AccountOK(b)'
<1> DEFINE units == IF Admitted(a) THEN Units(a) - Token ELSE Units(a)
<1>1. /\ BudgetTypeOK /\ \A b \in Accounts : AccountOK(b)
      /\ wait' = [wait EXCEPT ![a] = IF Admitted(a) THEN 0 ELSE Token - units]
      /\ taken' = [taken EXCEPT ![a] = IF Admitted(a) THEN @ + 1 ELSE @]
      /\ full' = [full EXCEPT ![a] = IF bucket[a] = NoBucket THEN @ + 1 ELSE @]
      /\ now' = now /\ since' = since
  BY DEF BudgetInv, Take
<1>2. /\ bucket'[a] = [units |-> units, stamp |-> now]
      /\ \A b \in Accounts \ {a} : bucket'[b] = NoBucket \/ bucket'[b] = bucket[b]
  BY TakeDict
<1>3. /\ units \in Nat /\ wait'[a] \in Nat /\ taken'[a] \in Nat /\ full'[a] \in Nat
      /\ BucketOK(a)'
  BY <1>1, <1>2, PutBalance
<1>4. \A b \in Accounts \ {a} : wait'[b] = wait[b] /\ taken'[b] = taken[b] /\ full'[b] = full[b]
  BY <1>1 DEF BudgetTypeOK
<1> HIDE DEF units
<1>5. BudgetTypeOK'
  <2>1. wait' \in [Accounts -> Nat] /\ taken' \in [Accounts -> Nat] /\ full' \in [Accounts -> Nat]
    <3>1. /\ DOMAIN wait' = Accounts /\ wait' = [b \in Accounts |-> wait'[b]]
          /\ DOMAIN taken' = Accounts /\ taken' = [b \in Accounts |-> taken'[b]]
          /\ DOMAIN full' = Accounts /\ full' = [b \in Accounts |-> full'[b]]
      BY <1>1 DEF BudgetTypeOK
    <3>2. \A b \in Accounts : wait'[b] \in Nat /\ taken'[b] \in Nat /\ full'[b] \in Nat
      BY <1>1, <1>3, <1>4 DEF BudgetTypeOK
    <3> QED BY <3>1, <3>2
  <2>2. bucket' \in [Accounts -> [units : Nat, stamp : Nat] \cup {NoBucket}]
    <3>1. bucket' = [b \in Accounts |-> bucket'[b]]
      BY <1>1 DEF Take, BudgetTypeOK
    <3>2. \A b \in Accounts : bucket'[b] \in [units : Nat, stamp : Nat] \cup {NoBucket}
      BY <1>1, <1>2, <1>3 DEF BudgetTypeOK
    <3> QED BY <3>1, <3>2
  <2>3. behind' \in [Accounts -> SUBSET Accounts]
    <3>1. behind' = [b \in Accounts |-> behind'[b]]
      <4>1. \/ behind' = PutBack(a)
            \/ \E o : behind' = [b \in Accounts |-> IF b = o THEN {} ELSE PutBack(a)[b] \ {o}]
        BY DEF Take
      <4>2. PutBack(a) = [b \in Accounts |-> PutBack(a)[b]]
        BY DEF PutBack
      <4> HIDE DEF PutBack
      <4>3. CASE behind' = PutBack(a)
        BY <4>2, <4>3
      <4>4. ASSUME NEW o, behind' = [b \in Accounts |-> IF b = o THEN {} ELSE PutBack(a)[b] \ {o}]
            PROVE  behind' = [b \in Accounts |-> behind'[b]]
        BY <4>4
      <4> QED BY <4>1, <4>3, <4>4
    <3>2. \A b \in Accounts : behind'[b] \subseteq PutBack(a)[b]
      <4>1. PICK gone : \A b \in Accounts : behind'[b] = IF b \in gone THEN {} ELSE PutBack(a)[b] \ gone
        BY TakeDict
      <4> QED BY <4>1
    <3>3. \A b \in Accounts : PutBack(a)[b] \subseteq Accounts
      BY <1>1 DEF PutBack, BudgetTypeOK
    <3>4. \A b \in Accounts : behind'[b] \in SUBSET Accounts
      BY <3>2, <3>3
    <3> QED BY <3>1, <3>4
  <2> QED BY <1>1, <2>1, <2>2, <2>3 DEF BudgetTypeOK
<1>6. ASSUME NEW b \in Accounts PROVE AccountOK(b)'
  <2>1. CASE b = a
    <3>1. bucket'[a] # NoBucket
      BY <1>1, <1>2, <1>3, BudgetAssumption DEF BudgetTypeOK
    <3> QED BY <1>3, <2>1, <3>1 DEF AccountOK
  <2>2. CASE b # a /\ bucket'[b] = bucket[b]
    BY <1>1, <1>4, <2>2, LeftAlone
  <2>3. CASE b # a /\ bucket'[b] = NoBucket /\ bucket[b] # NoBucket
    <3>1. taken[b] * Token <= full[b] * Full + Gained(now)
      BY <2>3, Forgettable
    <3> QED BY <1>1, <1>4, <2>3, <3>1 DEF AccountOK, Gained
  <2> QED BY <1>2, <2>1, <2>2, <2>3
<1> QED BY <1>5, <1>6

LEMMA TakeOrder == ASSUME BudgetInv, NEW a \in Accounts, Take(a) PROVE OrderOK'
<1> DEFINE units == IF Admitted(a) THEN Units(a) - Token ELSE Units(a)
           all == Known \cup {a}
<1>1. /\ OrderOK /\ IsFiniteSet(all) /\ now \in Nat /\ Known \subseteq Accounts
      /\ bucket'[a] = [units |-> units, stamp |-> now]
      /\ \A b \in Known : bucket[b].stamp \in Nat /\ bucket[b].stamp <= now
  BY TakeDict, FoundUnits DEF BudgetInv, BudgetTypeOK, Known
<1>2. PICK gone \in SUBSET (all \ {a}) :
        /\ Known' = all \ gone
        /\ Cardinality(Known') <= MaxKeys
        /\ \A b \in Accounts \ {a} : bucket'[b] = IF b \in gone THEN NoBucket ELSE bucket[b]
        /\ \A b \in Accounts : behind'[b] = IF b \in gone THEN {} ELSE PutBack(a)[b] \ gone
  BY TakeDict
<1> HIDE DEF units
<1>3. IsFiniteSet(Known')
  BY <1>1, <1>2, FS_Subset
<1>4. ASSUME NEW b \in Known' PROVE behind'[b] \subseteq Known'
  <2>1. b \in all /\ b \notin gone /\ b \in Accounts
    BY <1>1, <1>2
  <2>2. PutBack(a)[b] \subseteq all
    <3>1. CASE b = a
      BY <2>1, <3>1 DEF PutBack
    <3>2. CASE b # a
      <4>1. b \in Known /\ behind[b] \subseteq Known
        BY <1>1, <2>1, <3>2 DEF OrderOK
      <4> QED BY <2>1, <3>2, <4>1 DEF PutBack
    <3> QED BY <3>1, <3>2
  <2>3. behind'[b] = PutBack(a)[b] \ gone
    BY <1>2, <2>1
  <2> QED BY <1>2, <2>2, <2>3
<1>5. ASSUME NEW b \in Known', NEW c \in behind'[b] PROVE bucket'[c].stamp >= bucket'[b].stamp
  <2>1. c \in PutBack(a)[b] /\ c \notin gone /\ b \in all /\ b \notin gone
    BY <1>1, <1>2, <1>5
  <2>2. b # a /\ b \in Known /\ (c \in behind[b] \/ c = a)
    BY <1>1, <2>1 DEF PutBack
  <2>3. bucket'[b] = bucket[b]
    BY <1>1, <1>2, <2>1, <2>2
  <2>4. CASE c = a
    BY <1>1, <2>2, <2>3, <2>4
  <2>5. CASE c # a
    <3>1. c \in Known /\ bucket[c].stamp >= bucket[b].stamp
      BY <1>1, <2>2, <2>5 DEF OrderOK
    <3>2. bucket'[c] = bucket[c]
      BY <1>1, <1>2, <2>1, <2>5, <3>1
    <3> QED BY <2>3, <3>1, <3>2
  <2> QED BY <2>4, <2>5
<1> QED BY <1>2, <1>3, <1>4, <1>5 DEF OrderOK

LEMMA TickBudget == ASSUME BudgetInv, Tick PROVE BudgetInv'
<1>1. /\ now' = now + 1 /\ UNCHANGED <<bucket, behind, wait, since, full, taken>>
      /\ now \in Nat /\ since \in Nat /\ since <= now /\ BudgetTypeOK /\ OrderOK
  BY DEF Tick, BudgetInv, BudgetTypeOK
<1>2. BudgetTypeOK' /\ OrderOK'
  BY <1>1 DEF BudgetTypeOK, OrderOK, Known
<1>3. ASSUME NEW a \in Accounts PROVE AccountOK(a)'
  <2>1. AccountOK(a) /\ taken[a] \in Nat /\ full[a] \in Nat
    BY <1>1 DEF BudgetInv, BudgetTypeOK
  <2>2. CASE bucket[a] = NoBucket
    <3>1. now + 1 \in Int /\ now <= now + 1
      BY <1>1
    <3>2. Gained(now) \in Int /\ Gained(now + 1) \in Int /\ Gained(now) <= Gained(now + 1)
      BY <1>1, <3>1, GainedGrows
    <3>3. taken[a] * Token \in Nat /\ full[a] * Full \in Nat
      <4>1. \A x, y \in Nat : x * y \in Nat
        OBVIOUS
      <4> QED BY <2>1, <4>1, BudgetNumbers
    <3>4. taken[a] * Token <= full[a] * Full + Gained(now)
      BY <2>1, <2>2 DEF AccountOK
    <3>5. taken[a] * Token <= full[a] * Full + Gained(now + 1)
      BY <3>2, <3>3, <3>4
    <3> QED BY <1>1, <2>2, <3>5 DEF AccountOK, Gained
  <2>3. CASE bucket[a] # NoBucket
    <3>1. BucketOK(a) /\ bucket[a].stamp \in Nat /\ bucket[a].stamp <= now + 1
      BY <1>1, <2>1, <2>3, FoundUnits DEF AccountOK
    <3> QED BY <1>1, <2>3, <3>1 DEF AccountOK, BucketOK, Gained
  <2> QED BY <2>2, <2>3
<1> QED BY <1>1, <1>2, <1>3 DEF BudgetInv

LEMMA ObserveBudget == ASSUME BudgetInv, Observe PROVE BudgetInv'
<1>1. /\ since' = now /\ UNCHANGED <<now, bucket, behind, wait>>
      /\ full' = [a \in Accounts |-> IF bucket[a] = NoBucket THEN 0 ELSE 1]
      /\ taken' = [a \in Accounts |-> 0]
      /\ now \in Nat /\ BudgetTypeOK /\ OrderOK
  BY DEF Observe, BudgetInv, BudgetTypeOK
<1>2. BudgetTypeOK' /\ OrderOK'
  BY <1>1 DEF BudgetTypeOK, OrderOK, Known
<1>3. PerMinute * 0 = 0 /\ 0 * Token = 0 /\ 0 * Full = 0 /\ 1 * Full = Full /\ now - now = 0
  BY <1>1, BudgetNumbers
<1>4. ASSUME NEW a \in Accounts PROVE AccountOK(a)'
  <2>1. taken'[a] = 0
    BY <1>1
  <2>2. CASE bucket[a] = NoBucket
    <3>1. full'[a] = 0
      BY <1>1, <2>2
    <3>2. 0 * Token <= 0 * Full + PerMinute * (now - now)
      BY <1>3
    <3> QED BY <1>1, <2>1, <2>2, <3>1, <3>2 DEF AccountOK, Gained
  <2>3. CASE bucket[a] # NoBucket
    <3>1. /\ BucketOK(a) /\ bucket[a].stamp \in Nat /\ bucket[a].units \in Nat
          /\ bucket[a].stamp <= now /\ bucket[a].units <= Full
      BY <2>3, FoundUnits DEF AccountOK, BudgetInv, BucketOK
    <3>2. full'[a] = 1
      BY <1>1, <2>3
    <3>3. /\ 0 * Token + bucket[a].units <= 1 * Full + PerMinute * (now - now)
          /\ 0 * Token + bucket[a].units >= PerMinute * (now - now)
      BY <1>3, <3>1, BudgetNumbers
    <3>4. bucket[a].stamp >= now => bucket[a].stamp = now
      BY <1>1, <3>1
    <3> QED BY <1>1, <2>1, <2>3, <3>1, <3>2, <3>3, <3>4 DEF AccountOK, BucketOK, Gained
  <2> QED BY <2>2, <2>3
<1> QED BY <1>1, <1>2, <1>4 DEF BudgetInv

LEMMA BudgetInductive == BudgetInv /\ [BudgetNext]_budgetVars => BudgetInv'
<1> SUFFICES ASSUME BudgetInv, [BudgetNext]_budgetVars PROVE BudgetInv'
  OBVIOUS
<1>1. ASSUME NEW a \in Accounts, Take(a) PROVE BudgetInv'
  <2>1. (since <= now)'
    BY <1>1 DEF Take, BudgetInv
  <2> QED BY <1>1, <2>1, TakeAccounts, TakeOrder DEF BudgetInv
<1>2. CASE UNCHANGED budgetVars
  BY <1>2 DEF budgetVars, BudgetInv, BudgetTypeOK, AccountOK, BucketOK, OrderOK, Gained, Known
<1> QED BY <1>1, <1>2, TickBudget, ObserveBudget DEF BudgetNext

LEMMA BudgetStart == BudgetInit => BudgetInv
<1> SUFFICES ASSUME BudgetInit PROVE BudgetInv
  OBVIOUS
<1>1. BudgetTypeOK /\ since <= now /\ Known = {}
  BY DEF BudgetInit, BudgetTypeOK, Known
<1>2. OrderOK
  BY <1>1, FS_EmptySet, BudgetNumbers DEF OrderOK
<1>3. \A a \in Accounts : AccountOK(a)
  <2>1. PerMinute * 0 = 0 /\ 0 * Token = 0 /\ 0 * Full = 0
    BY BudgetNumbers
  <2>2. 0 * Token <= 0 * Full + PerMinute * (0 - 0)
    BY <2>1
  <2> QED BY <2>2 DEF BudgetInit, AccountOK, Gained
<1> QED BY <1>1, <1>2, <1>3 DEF BudgetInv

LEMMA BudgetInvariance == BudgetSpec => []BudgetInv
  BY BudgetStart, BudgetInductive, PTL DEF BudgetSpec

\* From whenever it is counted, an account is admitted no more often than its rate and
\* the full buckets it was given allow (RequestBudget.take), whatever is forgotten.
THEOREM RateAlwaysKept == BudgetSpec => []RateKept
<1>1. BudgetInv => RateKept
  BY Forgettable DEF RateKept, BudgetInv, AccountOK, Gained
<1> QED BY <1>1, BudgetInvariance, PTL

\* Nobody is refused who was admitted fewer than PerMinute times in the last minute.
THEOREM NeverRefusedEarly == BudgetSpec => []RefusedOnlyOverRate
<1>1. BudgetInv => RefusedOnlyOverRate
  <2> SUFFICES ASSUME BudgetInv, NEW a \in Accounts, wait[a] # 0, bucket[a] # NoBucket,
                      bucket[a].stamp = now, now - since >= Minute
               PROVE  taken[a] >= PerMinute
    BY DEF RefusedOnlyOverRate
  <2>1. /\ BucketOK(a) /\ taken[a] \in Nat /\ now \in Nat /\ since \in Nat /\ Minute \in Nat \ {0}
        /\ bucket[a].units \in Nat
    BY FoundUnits, BudgetAssumption DEF BudgetInv, BudgetTypeOK, AccountOK
  <2>2. Gained(now) >= Full
    <3>1. Minute * PerMinute <= (now - since) * PerMinute
      BY <2>1, Growing, BudgetNumbers
    <3>2. \A x, y \in Int : x * y = y * x
      OBVIOUS
    <3>3. Minute * PerMinute = PerMinute * Minute
          /\ (now - since) * PerMinute = PerMinute * (now - since)
      BY <2>1, <3>2, BudgetNumbers
    <3> QED BY <3>1, <3>3 DEF Gained, Full
  <2>3. /\ bucket[a].units < Token
        /\ taken[a] * Token + bucket[a].units >= Full
    <3>1. Gained(now) \in Int /\ taken[a] * Token \in Nat
      <4>1. \A x, y \in Nat : x * y \in Nat
        OBVIOUS
      <4>2. now \in Int /\ since \in Int /\ now <= now
        BY <2>1
      <4>3. Gained(now) \in Int
        BY <4>2, GainedGrows
      <4> QED BY <2>1, <4>1, <4>3, BudgetNumbers
    <3>2. bucket[a].stamp >= since
      BY <2>1 DEF BudgetInv
    <3> QED BY <2>1, <2>2, <3>1, <3>2, BudgetNumbers DEF BucketOK
  <2>4. CASE taken[a] <= PerMinute - 1
    <3>1. taken[a] * Token <= (PerMinute - 1) * Token
      BY <2>1, <2>4, Growing, BudgetNumbers
    <3>2. (PerMinute - 1) * Token = Full - Token
      <4>1. \A x, y \in Nat : (x - 1) * y = x * y - y
        OBVIOUS
      <4> QED BY <4>1, BudgetNumbers DEF Full, Token
    <3>3. taken[a] * Token \in Nat
      <4>1. \A x, y \in Nat : x * y \in Nat
        OBVIOUS
      <4> QED BY <2>1, <4>1, BudgetNumbers
    <3>4. taken[a] * Token <= Full - Token
      BY <3>1, <3>2
    <3> QED BY <2>1, <2>3, <3>3, <3>4, BudgetNumbers
  <2> QED BY <2>1, <2>4, BudgetNumbers
<1> QED BY <1>1, BudgetInvariance, PTL

\* RequestBudget.take lets through neither more nor less than the rate and the burst.
THEOREM RateAlwaysExact == BudgetSpec => []RateExact
BY RateAlwaysKept, NeverRefusedEarly, PTL DEF RateExact

\* An account is forgotten only when MaxKeys others have asked since it did, and never
\* are more remembered.
THEOREM AlwaysForgottenInTurn == BudgetSpec => ForgottenInTurn
<1> DEFINE InTurn ==
      /\ Cardinality(Known') <= MaxKeys
      /\ \A a \in Known \ Known' :
            Cardinality({b \in Known' : bucket'[b].stamp >= bucket[a].stamp}) >= MaxKeys
<1>1. BudgetInv /\ [BudgetNext]_budgetVars => [InTurn]_budgetVars
  <2> SUFFICES ASSUME BudgetInv, BudgetNext PROVE InTurn
    OBVIOUS
  <2>1. CASE Tick \/ Observe
    <3>1. Known' = Known
      BY <2>1 DEF Tick, Observe, Known
    <3> QED BY <3>1 DEF BudgetInv, OrderOK
  <2>2. ASSUME NEW x \in Accounts, Take(x) PROVE InTurn
    <3> DEFINE all == Known \cup {x}
               units == IF Admitted(x) THEN Units(x) - Token ELSE Units(x)
    <3>1. /\ OrderOK /\ OrderOK' /\ now \in Nat /\ Known \subseteq Accounts
          /\ bucket'[x] = [units |-> units, stamp |-> now]
          /\ \A b \in Known : bucket[b].stamp \in Nat /\ bucket[b].stamp <= now
      BY <2>2, TakeDict, TakeOrder, FoundUnits DEF BudgetInv, BudgetTypeOK, Known
    <3>2. PICK gone \in SUBSET (all \ {x}) :
            /\ Known' = all \ gone
            /\ gone # {} => Cardinality(Known') >= MaxKeys
            /\ \A b \in Accounts \ {x} : bucket'[b] = IF b \in gone THEN NoBucket ELSE bucket[b]
            /\ \A o \in gone : PutBack(x)[o] = all \ {o}
      BY <2>2, TakeDict
    <3> HIDE DEF units
    <3>3. ASSUME NEW a \in Known \ Known'
          PROVE  Cardinality({b \in Known' : bucket'[b].stamp >= bucket[a].stamp}) >= MaxKeys
      <4>1. a \in gone /\ a # x /\ a \in Accounts /\ a \in Known
        BY <3>1, <3>2, <3>3
      <4>2. ASSUME NEW b \in Known' PROVE bucket'[b].stamp >= bucket[a].stamp
        <5>1. b \in all /\ b \notin gone
          BY <3>2, <4>2
        <5>2. b \in PutBack(x)[a]
          BY <3>2, <4>1, <5>1
        <5>3. CASE b = x
          BY <3>1, <4>1, <5>3
        <5>4. CASE b # x
          <6>1. b \in Known /\ b \in behind[a]
            BY <4>1, <5>1, <5>2, <5>4 DEF PutBack
          <6>2. bucket'[b] = bucket[b]
            BY <3>1, <3>2, <5>1, <5>4, <6>1
          <6> QED BY <3>1, <4>1, <6>1, <6>2 DEF OrderOK
        <5> QED BY <5>3, <5>4
      <4>3. {b \in Known' : bucket'[b].stamp >= bucket[a].stamp} = Known'
        BY <4>2
      <4> QED BY <3>2, <4>1, <4>3
    <3> QED BY <3>1, <3>3 DEF OrderOK
  <2> QED BY <2>1, <2>2 DEF BudgetNext
<1> QED BY <1>1, BudgetInvariance, PTL DEF BudgetSpec, ForgottenInTurn
=============================================================================
