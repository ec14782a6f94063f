--------------------------- MODULE RemoteApplyProofs ---------------------------
(***************************************************************************)
(* Proofs about RemoteApply: the inductive invariant, the safety           *)
(* properties that follow from it, and the refinement of RemoteCalls.      *)
(***************************************************************************)
EXTENDS RemoteApply, TLAPS

\* The message of the call a thread is making.
CallOf(t) == [id |-> id[t], thread |-> t, call |-> n[t]]
UnderWay(m) == m \in calls \cup results

\* The free list has no id twice, and no id that was never given out.
FreeListSound ==
  /\ \A i \in DOMAIN free : free[i] < next
  /\ \A i, j \in DOMAIN free : free[i] = free[j] => i = j

\* A call in progress has an id that was given out.
BusyIdsGiven == \A t \in Caller : Busy(t) => id[t] < next

\* A message belongs to the call its thread is making now, and is either an
\* apply or a results message.
MessagesCurrent ==
  /\ \A m \in calls \cup results : m = CallOf(m.thread) /\ pc[m.thread] \in {"wait", "blocked"}
  /\ calls \cap results = {}

\* What the table says about the call a thread is making.
EntrySound(t) ==
  /\ pc[t] = "send" => waiters[id[t]] = Pending
  /\ pc[t] = "wait" => \/ waiters[id[t]] = Pending /\ UnderWay(CallOf(t))
                       \/ waiters[id[t]] = Values(CallOf(t)) /\ ~UnderWay(CallOf(t))
  /\ pc[t] = "blocked" => waiters[id[t]] = Blocked(t) /\ UnderWay(CallOf(t))
TableSound == \A t \in Caller : EntrySound(t)

\* The inductive invariant.
IInv == /\ TypeOK
        /\ FreeListSound
        /\ BusyIdsGiven /\ IdsDistinct /\ FreeIdsUnused
        /\ MessagesCurrent
        /\ TableSound
        /\ OwnResult

-----------------------------------------------------------------------------
\* The entries that the actions put into the table have the shape of an entry.
LEMMA EntryShapes ==
  /\ None \in Entry /\ Pending \in Entry
  /\ \A t \in Caller : Blocked(t) \in Entry
  /\ \A m \in Message : Values(m) \in Entry
  BY DEF None, Pending, Blocked, Values, Entry, Message

\* The different kinds of entries are told apart by their first field.
LEMMA EntryKinds ==
  /\ None.is = "none" /\ Pending.is = "pending"
  /\ \A t : Blocked(t).is = "thread" /\ Blocked(t).thread = t
  /\ \A m : Values(m).is = "values" /\ Values(m).call = m.call
  BY DEF None, Pending, Blocked, Values

\* The message of a call is a message.
LEMMA CallIsMessage ==
  ASSUME TypeOK, NEW t \in Caller
  PROVE  CallOf(t) \in Message
  BY DEF TypeOK, CallOf, Message

\* The id of a call in progress is within the table, and its own.
LEMMA BusyIds ==
  ASSUME IInv, NEW t \in Caller, Busy(t)
  PROVE  /\ id[t] \in Nat /\ id[t] < next /\ id[t] < size
         /\ id[t] \in 0 .. size - 1
         /\ \A u \in Caller : u # t /\ Busy(u) => id[u] # id[t]
  BY DEF IInv, TypeOK, BusyIdsGiven, IdsDistinct

\* A step that leaves a thread, its entry and its message alone leaves what the
\* table says about its call alone.
LEMMA EntryKept ==
  ASSUME IInv, NEW u \in Caller,
         pc'[u] = pc[u], id'[u] = id[u], n'[u] = n[u],
         Busy(u) => waiters'[id[u]] = waiters[id[u]],
         UnderWay(CallOf(u))' = UnderWay(CallOf(u))
  PROVE  EntrySound(u)'
<1>1. EntrySound(u)
  BY DEF IInv, TableSound
<1>2. CallOf(u)' = CallOf(u)
  BY DEF CallOf
<1>3. CASE Busy(u)
  BY <1>1, <1>2, <1>3 DEF EntrySound
<1>4. CASE ~Busy(u)
  BY <1>4 DEF EntrySound, Busy
<1>5. QED
  BY <1>3, <1>4

\* The initial state satisfies the invariant.
LEMMA InitIInv == Init => IInv
<1> SUFFICES ASSUME Init PROVE IInv
  OBVIOUS
<1> USE RemoteApplyAssumption DEF Init
<1>1. TypeOK
  BY EntryShapes DEF TypeOK
<1>2. FreeListSound
  BY DEF FreeListSound
<1>3. BusyIdsGiven /\ IdsDistinct /\ FreeIdsUnused
  BY DEF BusyIdsGiven, IdsDistinct, FreeIdsUnused, Busy
<1>4. MessagesCurrent
  BY DEF MessagesCurrent
<1>5. TableSound /\ OwnResult
  BY DEF TableSound, EntrySound, OwnResult
<1>6. QED
  BY <1>1, <1>2, <1>3, <1>4, <1>5 DEF IInv

\* next-remote-apply-id takes an id from the free list.
LEMMA ReuseIdIInv ==
  ASSUME IInv, NEW t \in Caller, ReuseId(t)
  PROVE  IInv'
<1> DEFINE uid == Head(free)
<1> USE DEF ReuseId, Begin
<1>1. /\ free # <<>> /\ free \in Seq(Nat)
      /\ uid = free[1] /\ 1 \in DOMAIN free
      /\ free' \in Seq(Nat)
      /\ \A i \in DOMAIN free' : i + 1 \in DOMAIN free /\ i + 1 # 1 /\ free'[i] = free[i + 1]
  BY DEF IInv, TypeOK
<1>2. uid \in Nat /\ uid < next /\ next \in Nat /\ size \in Nat /\ next <= size
  BY <1>1 DEF IInv, TypeOK, FreeListSound
<1>3. \A u \in Caller : Busy(u) => id[u] # uid
  BY <1>1 DEF IInv, FreeIdsUnused
<1>4. /\ pc[t] = "idle"
      /\ \A u \in Caller : u # t => pc'[u] = pc[u] /\ id'[u] = id[u] /\ n'[u] = n[u]
      /\ pc'[t] = "send" /\ id'[t] = uid
  BY DEF IInv, TypeOK
<1>5. TypeOK'
  BY <1>1, <1>2, EntryShapes DEF IInv, TypeOK
<1>6. FreeListSound'
  BY <1>1 DEF IInv, FreeListSound
<1>7. BusyIdsGiven' /\ IdsDistinct'
  BY <1>2, <1>3, <1>4 DEF IInv, BusyIdsGiven, IdsDistinct, Busy
<1>8. FreeIdsUnused'
  <2>1. \A i \in DOMAIN free' : free'[i] # uid
    BY <1>1 DEF IInv, FreeListSound
  <2>2. QED
    BY <1>1, <1>4, <2>1 DEF IInv, FreeIdsUnused, Busy
<1>9. \A m \in calls \cup results : m.thread \in Caller /\ m.thread # t
  BY <1>4 DEF IInv, TypeOK, Message, MessagesCurrent
<1>10. \A u \in Caller : u # t => CallOf(u)' = CallOf(u)
  BY <1>4 DEF CallOf
<1>11. MessagesCurrent'
  BY <1>4, <1>9, <1>10 DEF IInv, MessagesCurrent
<1>12. TableSound'
  <2>1. ASSUME NEW u \in Caller, u # t PROVE EntrySound(u)'
    <3>1. Busy(u) => waiters'[id[u]] = waiters[id[u]]
      BY <1>2, <1>3, BusyIds DEF IInv, TypeOK
    <3>2. UnderWay(CallOf(u))' = UnderWay(CallOf(u))
      BY <1>10, <2>1 DEF UnderWay
    <3>3. QED
      BY <1>4, <2>1, <3>1, <3>2, EntryKept
  <2>2. EntrySound(t)'
    BY <1>2, <1>4 DEF IInv, TypeOK, EntrySound
  <2>3. QED
    BY <2>1, <2>2 DEF TableSound
<1>13. OwnResult'
  BY <1>4 DEF IInv, OwnResult, Busy
<1>14. QED
  BY <1>5, <1>6, <1>7, <1>8, <1>11, <1>12, <1>13 DEF IInv

\* next-remote-apply-id gives out a new id and grows the table if it must.
LEMMA NewIdIInv ==
  ASSUME IInv, NEW t \in Caller, NewId(t)
  PROVE  IInv'
<1> USE RemoteApplyAssumption DEF NewId, Begin
<1>1. /\ next \in Nat /\ size \in Nat /\ next <= size
      /\ next' = next + 1 /\ size' \in Nat /\ next' <= size' /\ size <= size'
  BY DEF IInv, TypeOK
<1>2. /\ waiters' = [i \in 0 .. size' - 1 |->
                       IF i = next THEN Pending ELSE IF i < size THEN waiters[i] ELSE None]
      /\ waiters \in [0 .. size - 1 -> Entry]
  BY DEF IInv, TypeOK
<1>3. /\ pc[t] = "idle"
      /\ \A u \in Caller : u # t => pc'[u] = pc[u] /\ id'[u] = id[u] /\ n'[u] = n[u]
      /\ pc'[t] = "send" /\ id'[t] = next
  BY DEF IInv, TypeOK
<1>4. TypeOK'
  <2>1. waiters' \in [0 .. size' - 1 -> Entry]
    BY <1>1, <1>2, EntryShapes
  <2>2. QED
    BY <1>1, <2>1 DEF IInv, TypeOK
<1>5. FreeListSound'
  BY <1>1 DEF IInv, FreeListSound, TypeOK
<1>6. BusyIdsGiven' /\ IdsDistinct' /\ FreeIdsUnused'
  <2>1. \A u \in Caller : Busy(u) => id[u] \in Nat /\ id[u] < next
    BY DEF IInv, TypeOK, BusyIdsGiven
  <2>2. free' = <<>>
    OBVIOUS
  <2>3. QED
    BY <1>1, <1>3, <2>1, <2>2 DEF IInv, BusyIdsGiven, IdsDistinct, FreeIdsUnused, Busy
<1>7. \A m \in calls \cup results : m.thread \in Caller /\ m.thread # t
  BY <1>3 DEF IInv, TypeOK, Message, MessagesCurrent
<1>8. \A u \in Caller : u # t => CallOf(u)' = CallOf(u)
  BY <1>3 DEF CallOf
<1>9. MessagesCurrent'
  BY <1>3, <1>7, <1>8 DEF IInv, MessagesCurrent
<1>10. TableSound'
  <2>1. ASSUME NEW u \in Caller, u # t PROVE EntrySound(u)'
    <3>1. ASSUME Busy(u) PROVE waiters'[id[u]] = waiters[id[u]]
      <4>1. id[u] \in 0 .. size' - 1 /\ id[u] < size /\ id[u] # next
        BY <1>1, <3>1, BusyIds
      <4>2. QED
        BY <1>2, <4>1
    <3>2. UnderWay(CallOf(u))' = UnderWay(CallOf(u))
      BY <1>8, <2>1 DEF UnderWay
    <3>3. QED
      BY <1>3, <2>1, <3>1, <3>2, EntryKept
  <2>2. EntrySound(t)'
    BY <1>1, <1>2, <1>3 DEF EntrySound
  <2>3. QED
    BY <2>1, <2>2 DEF TableSound
<1>11. OwnResult'
  BY <1>3 DEF IInv, OwnResult, Busy
<1>12. QED
  BY <1>4, <1>5, <1>6, <1>9, <1>10, <1>11 DEF IInv

\* remote-apply sends its message.
LEMMA SendApplyIInv ==
  ASSUME IInv, NEW t \in Caller, SendApply(t)
  PROVE  IInv'
<1> USE DEF SendApply
<1>1. /\ pc[t] = "send" /\ pc'[t] = "wait"
      /\ \A u \in Caller : u # t => pc'[u] = pc[u]
      /\ \A u \in Caller : Busy(u)' = Busy(u)
  BY DEF IInv, TypeOK, Busy
<1>2. calls' = calls \cup {CallOf(t)}
  BY DEF CallOf
<1>3. \A m \in calls \cup results : m.thread \in Caller /\ m.thread # t
  BY <1>1 DEF IInv, TypeOK, Message, MessagesCurrent
<1>4. CallOf(t) \in Message /\ CallOf(t).thread = t
  BY CallIsMessage DEF IInv, CallOf
<1>5. \A u \in Caller : CallOf(u)' = CallOf(u)
  BY DEF CallOf
<1>6. TypeOK'
  BY <1>2, <1>4 DEF IInv, TypeOK
<1>7. FreeListSound' /\ BusyIdsGiven' /\ IdsDistinct' /\ FreeIdsUnused' /\ OwnResult'
  BY <1>1 DEF IInv, FreeListSound, BusyIdsGiven, IdsDistinct, FreeIdsUnused, OwnResult
<1>8. MessagesCurrent'
  BY <1>1, <1>2, <1>3, <1>4, <1>5 DEF IInv, MessagesCurrent
<1>9. TableSound'
  <2>1. ASSUME NEW u \in Caller, u # t PROVE EntrySound(u)'
    <3>1. UnderWay(CallOf(u))' = UnderWay(CallOf(u))
      BY <1>2, <1>5, <2>1 DEF UnderWay, CallOf
    <3>2. QED
      BY <1>1, <2>1, <3>1, EntryKept
  <2>2. EntrySound(t)'
    <3>1. waiters[id[t]] = Pending
      BY <1>1 DEF IInv, TableSound, EntrySound
    <3>2. UnderWay(CallOf(t))'
      BY <1>2, <1>5 DEF UnderWay
    <3>3. QED
      BY <1>1, <3>1, <3>2 DEF EntrySound
  <2>3. QED
    BY <2>1, <2>2 DEF TableSound
<1>10. QED
  BY <1>6, <1>7, <1>8, <1>9 DEF IInv

\* wait-for-remote-return finds the symbol pending and blocks.
LEMMA WaitForRemoteReturnIInv ==
  ASSUME IInv, NEW t \in Caller, WaitForRemoteReturn(t)
  PROVE  IInv'
<1> USE DEF WaitForRemoteReturn
<1>1. /\ pc[t] = "wait" /\ pc'[t] = "blocked"
      /\ \A u \in Caller : u # t => pc'[u] = pc[u]
      /\ \A u \in Caller : Busy(u)' = Busy(u)
  BY DEF IInv, TypeOK, Busy
<1>2. /\ id[t] \in 0 .. size - 1
      /\ \A u \in Caller : u # t /\ Busy(u) => id[u] # id[t]
  BY <1>1, BusyIds DEF Busy
<1>3. waiters[id[t]] # Values(CallOf(t))
  BY EntryKinds
<1>4. UnderWay(CallOf(t))
  BY <1>1, <1>3 DEF IInv, TableSound, EntrySound
<1>5. \A u \in Caller : CallOf(u)' = CallOf(u) /\ UnderWay(CallOf(u))' = UnderWay(CallOf(u))
  BY DEF CallOf, UnderWay
<1>6. TypeOK'
  BY <1>2, EntryShapes DEF IInv, TypeOK
<1>7. FreeListSound' /\ BusyIdsGiven' /\ IdsDistinct' /\ FreeIdsUnused' /\ OwnResult'
  BY <1>1 DEF IInv, FreeListSound, BusyIdsGiven, IdsDistinct, FreeIdsUnused, OwnResult
<1>8. MessagesCurrent'
  <2>1. \A m \in calls \cup results : m.thread \in Caller
    BY DEF IInv, TypeOK, Message
  <2>2. QED
    BY <1>1, <1>5, <2>1 DEF IInv, MessagesCurrent
<1>9. TableSound'
  <2>1. ASSUME NEW u \in Caller, u # t PROVE EntrySound(u)'
    <3>1. Busy(u) => waiters'[id[u]] = waiters[id[u]]
      BY <1>2, <2>1 DEF IInv, TypeOK
    <3>2. QED
      BY <1>1, <1>5, <2>1, <3>1, EntryKept
  <2>2. EntrySound(t)'
    <3>1. waiters'[id[t]] = Blocked(t)
      BY <1>2 DEF IInv, TypeOK
    <3>2. QED
      BY <1>1, <1>4, <1>5, <3>1 DEF EntrySound
  <2>3. QED
    BY <2>1, <2>2 DEF TableSound
<1>10. QED
  BY <1>6, <1>7, <1>8, <1>9 DEF IInv

\* wait-for-remote-return finds the values and gives the id back.
LEMMA ReturnValuesIInv ==
  ASSUME IInv, NEW t \in Caller, ReturnValues(t)
  PROVE  IInv' /\ got'[t] = n[t]
<1> USE DEF ReturnValues
<1>1. /\ pc[t] = "wait" /\ pc'[t] = "idle" /\ Busy(t)
      /\ \A u \in Caller : u # t => pc'[u] = pc[u] /\ got'[u] = got[u]
      /\ \A u \in Caller : Busy(u)' => Busy(u) /\ u # t
  BY DEF IInv, TypeOK, Busy
<1>2. waiters[id[t]] = Values(CallOf(t)) /\ ~UnderWay(CallOf(t))
  BY <1>1, EntryKinds DEF IInv, TableSound, EntrySound
<1>3. got'[t] = n[t]
  BY <1>2, EntryKinds DEF IInv, TypeOK, CallOf
<1>4. /\ id[t] \in Nat /\ id[t] < next
      /\ \A i \in DOMAIN free : free[i] # id[t]
  BY <1>1, BusyIds DEF IInv, FreeIdsUnused
<1>5. /\ free \in Seq(Nat) /\ free' \in Seq(Nat) /\ free'[1] = id[t]
      /\ \A i \in DOMAIN free' : i # 1 => i - 1 \in DOMAIN free /\ free'[i] = free[i - 1]
  BY <1>4 DEF IInv, TypeOK
<1>6. TypeOK'
  <2>1. waiters' \in [0 .. size' - 1 -> Entry]
    BY EntryShapes DEF IInv, TypeOK
  <2>2. got' \in [Caller -> Nat]
    BY <1>3 DEF IInv, TypeOK
  <2>3. QED
    BY <1>5, <2>1, <2>2 DEF IInv, TypeOK
<1>7. FreeListSound'
  <2>1. \A i \in DOMAIN free' : free'[i] < next
    BY <1>4, <1>5 DEF IInv, FreeListSound
  <2>2. ASSUME NEW i \in DOMAIN free', NEW j \in DOMAIN free', free'[i] = free'[j]
        PROVE  i = j
    <3>1. i \in Nat /\ j \in Nat
      BY <1>5
    <3>2. CASE i = 1 \/ j = 1
      BY <1>4, <1>5, <2>2, <3>2
    <3>3. CASE i # 1 /\ j # 1
      BY <1>5, <2>2, <3>1, <3>3 DEF IInv, FreeListSound
    <3>4. QED
      BY <3>2, <3>3
  <2>3. QED
    BY <2>1, <2>2 DEF FreeListSound
<1>8. BusyIdsGiven' /\ IdsDistinct' /\ OwnResult'
  BY <1>1, <1>3 DEF IInv, BusyIdsGiven, IdsDistinct, OwnResult, Busy
<1>9. FreeIdsUnused'
  <2>1. ASSUME NEW i \in DOMAIN free', NEW u \in Caller, Busy(u)'
        PROVE  id[u] # free'[i]
    <3>1. Busy(u) /\ u # t
      BY <1>1, <2>1
    <3>2. CASE i = 1
      BY <1>1, <1>5, <3>1, <3>2, BusyIds
    <3>3. CASE i # 1
      BY <1>5, <3>1, <3>3 DEF IInv, FreeIdsUnused
    <3>4. QED
      BY <3>2, <3>3
  <2>2. QED
    BY <2>1 DEF FreeIdsUnused
<1>10. \A u \in Caller : CallOf(u)' = CallOf(u) /\ UnderWay(CallOf(u))' = UnderWay(CallOf(u))
  BY DEF CallOf, UnderWay
<1>11. MessagesCurrent'
  <2>1. \A m \in calls \cup results : m.thread \in Caller /\ m.thread # t
    BY <1>2 DEF IInv, TypeOK, Message, MessagesCurrent, UnderWay
  <2>2. QED
    BY <1>1, <1>10, <2>1 DEF IInv, MessagesCurrent
<1>12. TableSound'
  <2>1. ASSUME NEW u \in Caller, u # t PROVE EntrySound(u)'
    <3>1. Busy(u) => waiters'[id[u]] = waiters[id[u]]
      BY <1>1, <2>1, BusyIds DEF IInv, TypeOK
    <3>2. QED
      BY <1>1, <1>10, <2>1, <3>1, EntryKept
  <2>2. EntrySound(t)'
    BY <1>1 DEF EntrySound
  <2>3. QED
    BY <2>1, <2>2 DEF TableSound
<1>13. QED
  BY <1>3, <1>6, <1>7, <1>8, <1>9, <1>11, <1>12 DEF IInv

\* The other address space applies the procedure and sends the values.
LEMMA ApplyIInv ==
  ASSUME IInv, NEW m \in calls, Apply(m)
  PROVE  IInv'
<1> USE DEF Apply
<1>1. m \notin results
  BY DEF IInv, MessagesCurrent
<1>2. /\ \A u \in Caller : CallOf(u)' = CallOf(u) /\ Busy(u)' = Busy(u)
      /\ \A k : UnderWay(k)' = UnderWay(k)
  BY DEF CallOf, UnderWay, Busy
<1>3. TypeOK'
  BY DEF IInv, TypeOK
<1>4. FreeListSound' /\ BusyIdsGiven' /\ IdsDistinct' /\ FreeIdsUnused' /\ OwnResult'
  BY <1>2 DEF IInv, FreeListSound, BusyIdsGiven, IdsDistinct, FreeIdsUnused, OwnResult
<1>5. MessagesCurrent'
  <2>1. \A k \in calls \cup results : k.thread \in Caller
    BY DEF IInv, TypeOK, Message
  <2>2. QED
    BY <1>1, <1>2, <2>1 DEF IInv, MessagesCurrent
<1>6. TableSound'
  BY <1>2, EntryKept DEF TableSound, UnderWay, CallOf
<1>7. QED
  BY <1>3, <1>4, <1>5, <1>6 DEF IInv

\* A dispatcher leaves the values in the table and makes a blocked caller ready.
LEMMA RemoteReturnIInv ==
  ASSUME IInv, NEW m \in results, RemoteReturn(m)
  PROVE  IInv' /\ \A u \in Caller : Busy(u)' = Busy(u)
<1> DEFINE t == m.thread
<1> USE DEF RemoteReturn
<1>1. t \in Caller /\ m \in Message /\ m \notin calls
  BY DEF IInv, TypeOK, Message, MessagesCurrent
<1>2. m = CallOf(t) /\ m.id = id[t] /\ UnderWay(CallOf(t)) /\ pc[t] \in {"wait", "blocked"} /\ Busy(t)
  BY <1>1 DEF IInv, MessagesCurrent, CallOf, UnderWay, Busy
<1>3. \/ pc[t] = "wait" /\ waiters[m.id] = Pending
      \/ pc[t] = "blocked" /\ waiters[m.id] = Blocked(t)
  BY <1>1, <1>2 DEF IInv, TableSound, EntrySound
<1>4. pc'[t] = "wait" /\ \A u \in Caller : u # t => pc'[u] = pc[u]
  BY <1>1, <1>3, EntryKinds DEF IInv, TypeOK
<1>5. /\ pc' \in [Caller -> {"idle", "send", "wait", "blocked"}]
      /\ \A u \in Caller : Busy(u)' = Busy(u)
  BY <1>1, <1>2, <1>3, <1>4, EntryKinds DEF IInv, TypeOK, Busy
<1>6. id[t] \in 0 .. size - 1 /\ \A u \in Caller : u # t /\ Busy(u) => id[u] # id[t]
  BY <1>1, <1>2, BusyIds
<1>7. /\ waiters' \in [0 .. size - 1 -> Entry]
      /\ waiters'[id[t]] = Values(m)
      /\ \A i \in 0 .. size - 1 : i # id[t] => waiters'[i] = waiters[i]
  BY <1>1, <1>2, <1>6, EntryShapes DEF IInv, TypeOK
<1>8. \A u \in Caller : CallOf(u)' = CallOf(u)
  BY DEF CallOf
<1>9. TypeOK'
  BY <1>5, <1>7 DEF IInv, TypeOK
<1>10. FreeListSound' /\ BusyIdsGiven' /\ IdsDistinct' /\ FreeIdsUnused' /\ OwnResult'
  BY <1>5 DEF IInv, FreeListSound, BusyIdsGiven, IdsDistinct, FreeIdsUnused, OwnResult
<1>11. MessagesCurrent'
  <2>1. \A k \in calls \cup results : k.thread \in Caller
    BY DEF IInv, TypeOK, Message
  <2>2. QED
    BY <1>4, <1>8, <2>1 DEF IInv, MessagesCurrent
<1>12. TableSound'
  <2>1. ASSUME NEW u \in Caller, u # t PROVE EntrySound(u)'
    <3>1. Busy(u) => waiters'[id[u]] = waiters[id[u]]
      BY <1>6, <1>7, <2>1, BusyIds
    <3>2. CallOf(u) # m
      BY <2>1 DEF CallOf
    <3>3. UnderWay(CallOf(u))' = UnderWay(CallOf(u))
      BY <1>8, <3>2 DEF UnderWay
    <3>4. QED
      BY <1>4, <2>1, <3>1, <3>3, EntryKept
  <2>2. EntrySound(t)'
    <3>1. ~UnderWay(CallOf(t))'
      BY <1>1, <1>2, <1>8 DEF UnderWay
    <3>2. QED
      BY <1>1, <1>2, <1>4, <1>7, <1>8, <3>1 DEF EntrySound
  <2>3. QED
    BY <2>1, <2>2 DEF TableSound
<1>13. QED
  BY <1>5, <1>9, <1>10, <1>11, <1>12 DEF IInv

\* Every step keeps the invariant.
LEMMA NextIInv == IInv /\ [Next]_vars => IInv'
<1> SUFFICES ASSUME IInv, [Next]_vars PROVE IInv'
  OBVIOUS
<1>1. ASSUME NEW t \in Caller, CallerStep(t) PROVE IInv'
  BY <1>1, ReuseIdIInv, NewIdIInv, SendApplyIInv, WaitForRemoteReturnIInv,
     ReturnValuesIInv DEF CallerStep
<1>2. ASSUME NEW m \in calls, Apply(m) PROVE IInv'
  BY <1>2, ApplyIInv
<1>3. ASSUME NEW m \in results, RemoteReturn(m) PROVE IInv'
  BY <1>3, RemoteReturnIInv
<1>4. CASE UNCHANGED vars
  BY <1>4 DEF vars, IInv, TypeOK, FreeListSound, BusyIdsGiven, IdsDistinct, FreeIdsUnused,
     MessagesCurrent, TableSound, EntrySound, OwnResult, Busy, CallOf, UnderWay
<1>5. QED
  BY <1>1, <1>2, <1>3, <1>4 DEF Next

\* The invariant holds in every reachable state.
THEOREM Invariance == Spec => []IInv
  BY InitIInv, NextIInv, PTL DEF Spec

\* next-remote-apply-id grows *apply-waiters* before an id is used, so that every
\* vector-ref and vector-set! of a call's id is within the table.
THEOREM TypeCorrect == Spec => []TypeOK
<1>1. IInv => TypeOK
  BY DEF IInv
<1>2. QED
  BY <1>1, Invariance, PTL

\* next-remote-apply-id never gives one id to two calls in progress, nor is an id
\* in *free-apply-ids* while the call that has it is in progress.
THEOREM IdsSafe == Spec => [](IdsDistinct /\ FreeIdsUnused)
<1>1. IInv => IdsDistinct /\ FreeIdsUnused
  BY DEF IInv
<1>2. QED
  BY <1>1, Invariance, PTL

\* remote-apply returns the values of the call its thread made.
THEOREM OwnResultReturned == Spec => []OwnResult
<1>1. IInv => OwnResult
  BY DEF IInv
<1>2. QED
  BY <1>1, Invariance, PTL

\* wait-for-remote-return never blocks a thread whose values are there already or
\* can no longer come.
THEOREM NoLostWakeup == Spec => []BlockedHasCall
<1>1. ASSUME IInv, NEW t \in Caller, pc[t] = "blocked"
      PROVE  \E m \in calls \cup results : m.thread = t /\ m.id = id[t]
  <2>1. CallOf(t) \in calls \cup results
    BY <1>1 DEF IInv, TableSound, EntrySound, UnderWay
  <2>2. QED
    BY <2>1 DEF CallOf
<1>2. IInv => BlockedHasCall
  BY <1>1 DEF BlockedHasCall
<1>3. QED
  BY <1>2, Invariance, PTL

\* remote-return finds the entry of a call in progress: the symbol pending, or the
\* thread to make ready.
THEOREM ResultsExpected == Spec => []ResultExpected
<1>1. ASSUME IInv, NEW m \in results
      PROVE  /\ id[m.thread] = m.id
             /\ \/ pc[m.thread] = "wait" /\ waiters[m.id] = Pending
                \/ pc[m.thread] = "blocked" /\ waiters[m.id] = Blocked(m.thread)
  <2>1. m.thread \in Caller
    BY <1>1 DEF IInv, TypeOK, Message
  <2>2. m = CallOf(m.thread) /\ pc[m.thread] \in {"wait", "blocked"} /\ UnderWay(CallOf(m.thread))
    BY <1>1 DEF IInv, MessagesCurrent, UnderWay
  <2>3. m.id = id[m.thread]
    BY <2>2 DEF CallOf
  <2>4. QED
    BY <1>1, <2>1, <2>2, <2>3 DEF IInv, TableSound, EntrySound
<1>2. IInv => ResultExpected
  BY <1>1 DEF ResultExpected
<1>3. QED
  BY <1>2, Invariance, PTL

-----------------------------------------------------------------------------
\* A call that starts, with an old id or a new one, is a Call of RemoteCalls.
LEMMA BeginIsCall ==
  ASSUME TypeOK, NEW t \in Caller, NEW uid, Begin(t, uid)
  PROVE  Promise!Call(t)
<1>1. /\ pc[t] = "idle" /\ n[t] < MaxCalls /\ got' = got
      /\ n' = [n EXCEPT ![t] = @ + 1]
      /\ pc'[t] = "send" /\ \A u \in Caller : u # t => pc'[u] = pc[u]
  BY DEF Begin, TypeOK
<1>2. [u \in Caller |-> Busy(u)'] = [[u \in Caller |-> Busy(u)] EXCEPT ![t] = TRUE]
  BY <1>1 DEF Busy
<1>3. QED
  BY <1>1, <1>2 DEF Promise!Call, Busy

\* The return of wait-for-remote-return is a Return of RemoteCalls.
LEMMA ReturnValuesIsReturn ==
  ASSUME IInv, NEW t \in Caller, ReturnValues(t)
  PROVE  Promise!Return(t)
<1>1. /\ pc[t] = "wait" /\ n' = n
      /\ pc'[t] = "idle" /\ \A u \in Caller : u # t => pc'[u] = pc[u]
  BY DEF ReturnValues, IInv, TypeOK
<1>2. [u \in Caller |-> Busy(u)'] = [[u \in Caller |-> Busy(u)] EXCEPT ![t] = FALSE]
  BY <1>1 DEF Busy
<1>3. got' = [got EXCEPT ![t] = n[t]]
  <2>1. waiters[id[t]] # Pending
    BY EntryKinds DEF ReturnValues
  <2>2. waiters[id[t]] = Values(CallOf(t))
    BY <1>1, <2>1 DEF IInv, TableSound, EntrySound
  <2>3. waiters[id[t]].call = n[t]
    BY <2>2, EntryKinds DEF CallOf
  <2>4. QED
    BY <2>3 DEF ReturnValues
<1>4. QED
  BY <1>1, <1>2, <1>3 DEF Promise!Return, Busy

\* A step that makes no thread busy or idle is nothing to RemoteCalls.
LEMMA SameBusyStutters ==
  ASSUME UNCHANGED <<n, got>>, \A u \in Caller : Busy(u)' = Busy(u)
  PROVE  UNCHANGED Promise!vars
<1>1. [u \in Caller |-> Busy(u)'] = [u \in Caller |-> Busy(u)]
  OBVIOUS
<1>2. QED
  BY <1>1 DEF Promise!vars

\* Every step of the program is a step of RemoteCalls, or nothing to it.
LEMMA NextRefines == IInv /\ [Next]_vars => [Promise!Next]_(Promise!vars)
<1> SUFFICES ASSUME IInv, [Next]_vars PROVE Promise!Next \/ UNCHANGED Promise!vars
  OBVIOUS
<1>1. ASSUME NEW t \in Caller, CallerStep(t) PROVE Promise!Next \/ UNCHANGED Promise!vars
  <2>1. CASE ReuseId(t) \/ NewId(t)
    <3>1. Promise!Call(t)
      BY <2>1, BeginIsCall DEF ReuseId, NewId, IInv, TypeOK
    <3>2. QED
      BY <3>1 DEF Promise!Next
  <2>2. CASE SendApply(t) \/ WaitForRemoteReturn(t)
    <3>1. UNCHANGED <<n, got>> /\ \A u \in Caller : Busy(u)' = Busy(u)
      BY <2>2 DEF SendApply, WaitForRemoteReturn, IInv, TypeOK, Busy
    <3>2. QED
      BY <3>1, SameBusyStutters
  <2>3. CASE ReturnValues(t)
    BY <2>3, ReturnValuesIsReturn DEF Promise!Next
  <2>4. QED
    BY <1>1, <2>1, <2>2, <2>3 DEF CallerStep
<1>2. ASSUME NEW m \in calls, Apply(m) PROVE UNCHANGED Promise!vars
  BY <1>2, SameBusyStutters DEF Apply, Busy
<1>3. ASSUME NEW m \in results, RemoteReturn(m) PROVE UNCHANGED Promise!vars
  <2>1. \A u \in Caller : Busy(u)' = Busy(u)
    BY <1>3, RemoteReturnIInv
  <2>2. QED
    BY <1>3, <2>1, SameBusyStutters DEF RemoteReturn
<1>4. CASE UNCHANGED vars
  BY <1>4, SameBusyStutters DEF vars, Busy
<1>5. QED
  BY <1>1, <1>2, <1>3, <1>4 DEF Next

\* Remote procedure calls do what RemoteCalls promises.
THEOREM Refinement == Spec => ImplementsRemoteCalls
<1>1. Init => Promise!Init
  BY DEF Init, Promise!Init, Busy
<1>2. IInv /\ [Next]_vars => [Promise!Next]_(Promise!vars)
  BY NextRefines
<1>3. QED
  BY <1>1, <1>2, Invariance, PTL DEF Spec, ImplementsRemoteCalls, Promise!Spec
================================================================================
