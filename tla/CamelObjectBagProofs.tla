------------------------- MODULE CamelObjectBagProofs -------------------------
(***************************************************************************)
(* Proofs about CamelObjectBag for any sets of threads, keys and objects.  *)
(***************************************************************************)
EXTENDS CamelObjectBag, FiniteSetTheorems, TLAPS

-----------------------------------------------------------------------------
(* Typing.                                                                 *)

\* Waking a sleeper leaves the program counters well typed.
LEMMA SignalType ==
  ASSUME NEW k \in Keys, NEW phase \in [Threads -> Phases], Signal(k, phase)
  PROVE  pc' \in [Threads -> Phases]
<1> DEFINE sleepers == {t \in Threads : phase[t] \in Waiting /\ arg[t] = k}
<1>1. CASE sleepers = {}
  BY <1>1 DEF Signal
<1>2. CASE sleepers # {}
  <2>1. PICK t \in sleepers : pc' = [phase EXCEPT ![t] = WokenFrom(@)]
    BY <1>2 DEF Signal
  <2>2. WokenFrom(phase[t]) \in Phases
    BY DEF WokenFrom, Phases, Woken
  <2> QED
    BY <2>1, <2>2
<1> QED
  BY <1>1, <1>2

\* Giving up a reservation keeps the reservations and counters well typed.
LEMMA UnreserveType ==
  ASSUME TypeOK, NEW k \in Keys, NEW w \in Nat,
         NEW phase \in [Threads -> Phases], Unreserve(k, w, phase)
  PROVE  /\ reserved' \in SUBSET Keys
         /\ owner' \in [Keys -> Threads \cup {NULL}]
         /\ waiters' \in [Keys -> Nat]
         /\ pc' \in [Threads -> Phases]
<1>1. pc' \in [Threads -> Phases]
  BY SignalType DEF Unreserve
<1> QED
  BY <1>1 DEF Unreserve, TypeOK

\* A thread has a key to wait for exactly while it is inside the wait.
PcArg == \A t \in Threads : arg[t] # NULL <=> pc[t] \in Waiting \cup Woken

\* A thread inside the wait is among those the reservation counts.
LEMMA WaiterIsCounted ==
  ASSUME TypeOK, BagAssumption, WaitersKeepReservation,
         NEW t \in Threads, arg[t] # NULL
  PROVE  arg[t] \in Keys /\ waiters[arg[t]] \in Nat \ {0}
<1> DEFINE W == WaitersOf(arg[t])
<1>1. arg[t] \in Keys
  BY DEF TypeOK
<1>2. W \in SUBSET Threads /\ t \in W
  BY DEF WaitersOf
<1>3. IsFiniteSet(W)
  BY <1>2, FS_Subset DEF BagAssumption
<1>4. Cardinality(W) # 0
  BY <1>2, <1>3, FS_EmptySet
<1>5. waiters[arg[t]] = Cardinality(W)
  BY <1>1 DEF WaitersKeepReservation
<1> QED
  BY <1>1, <1>3, <1>4, <1>5, FS_CardinalityType

\* The type invariant is preserved as long as the counters are right.
LEMMA TypeStep ==
  ASSUME BagAssumption, TypeOK, PcArg, WaitersKeepReservation, [Next]_vars
  PROVE  TypeOK'
<1>1. ASSUME NEW t \in Threads, NEW k \in Keys, Find(t, k)
      PROVE  TypeOK'
  BY <1>1 DEF TypeOK, bagVars, resVars, objVars, vars, Find, MayBlockOn
<1>2. ASSUME NEW t \in Threads, NEW k \in Keys, GetWait(t, k)
      PROVE  TypeOK'
  BY <1>2 DEF TypeOK, bagVars, resVars, objVars, vars, GetWait, WaitFor, MayBlockOn, Phases, Waiting
<1>3. ASSUME NEW t \in Threads, NEW k \in Keys, GetBetween(t, k)
      PROVE  TypeOK'
  BY UnreserveType, <1>3 DEF TypeOK, bagVars, resVars, objVars, vars, GetBetween, MayBlockOn
<1>4. ASSUME NEW t \in Threads, NEW k \in Keys, ReserveNew(t, k)
      PROVE  TypeOK'
  BY <1>4 DEF TypeOK, bagVars, resVars, objVars, vars, ReserveNew, MayBlockOn
<1>5. ASSUME NEW t \in Threads, NEW k \in Keys, ReserveWait(t, k)
      PROVE  TypeOK'
  BY <1>5 DEF TypeOK, bagVars, resVars, objVars, vars, ReserveWait, WaitFor, MayBlockOn, Phases, Waiting
<1>6. ASSUME NEW t \in Threads, NEW k \in Keys, ReserveBetween(t, k)
      PROVE  TypeOK'
  BY <1>6 DEF TypeOK, bagVars, resVars, objVars, vars, ReserveBetween, MayBlockOn
<1>7. ASSUME NEW t \in Threads, WaitAgain(t)
      PROVE  TypeOK'
  BY <1>7 DEF TypeOK, bagVars, resVars, objVars, vars, WaitAgain, Phases, Waiting
<1>8. ASSUME NEW t \in Threads, GetResume(t)
      PROVE  TypeOK'
  <2>1. arg[t] \in Keys /\ waiters[arg[t]] - 1 \in Nat
    BY <1>8, WaiterIsCounted DEF GetResume, PcArg, Woken
  <2>2. [pc EXCEPT ![t] = "idle"] \in [Threads -> Phases]
    BY DEF TypeOK, Phases
  <2>3. Unreserve(arg[t], waiters[arg[t]] - 1, [pc EXCEPT ![t] = "idle"])
    BY <1>8 DEF GetResume
  <2>4. /\ reserved' \in SUBSET Keys
        /\ owner' \in [Keys -> Threads \cup {NULL}]
        /\ waiters' \in [Keys -> Nat]
        /\ pc' \in [Threads -> Phases]
    BY <2>1, <2>2, <2>3, UnreserveType
  <2>5. ref' \in [Threads -> SUBSET Objects]
    BY <1>8, <2>1 DEF TypeOK, GetResume
  <2>6. arg' \in [Threads -> Keys \cup {NULL}]
    BY <1>8 DEF TypeOK, GetResume
  <2>7. UNCHANGED <<objectTable, keyTable, holds, weak, dying, alive>>
    BY <1>8 DEF bagVars, GetResume
  <2> QED
    BY <2>4, <2>5, <2>6, <2>7 DEF TypeOK
<1>9. ASSUME NEW t \in Threads, ReserveResume(t)
      PROVE  TypeOK'
  <2>1. arg[t] \in Keys /\ waiters[arg[t]] - 1 \in Nat
    BY <1>9, WaiterIsCounted DEF ReserveResume, PcArg, Woken
  <2>2. [pc EXCEPT ![t] = "idle"] \in [Threads -> Phases]
    BY DEF TypeOK, Phases
  <2>3. CASE objectTable[arg[t]] = NULL
    BY <1>9, <2>1, <2>2, <2>3 DEF TypeOK, bagVars, objVars, ReserveResume, TakeOver
  <2>4. CASE objectTable[arg[t]] # NULL
    <3>1. Unreserve(arg[t], waiters[arg[t]] - 1, [pc EXCEPT ![t] = "idle"])
      BY <1>9, <2>4 DEF ReserveResume
    <3>2. /\ reserved' \in SUBSET Keys
          /\ owner' \in [Keys -> Threads \cup {NULL}]
          /\ waiters' \in [Keys -> Nat]
          /\ pc' \in [Threads -> Phases]
      BY <2>1, <2>2, <3>1, UnreserveType
    <3>3. ref' \in [Threads -> SUBSET Objects]
      BY <1>9, <2>1, <2>4 DEF TypeOK, ReserveResume
    <3>4. arg' \in [Threads -> Keys \cup {NULL}]
      BY <1>9, <2>4 DEF TypeOK, ReserveResume
    <3>5. UNCHANGED <<objectTable, keyTable, holds, weak, dying, alive>>
      BY <1>9, <2>4 DEF bagVars, ReserveResume
    <3> QED
      BY <3>2, <3>3, <3>4, <3>5 DEF TypeOK
  <2> QED
    BY <2>3, <2>4
<1>10. ASSUME NEW t \in Threads, SpuriousWakeup(t)
      PROVE  TypeOK'
  BY <1>10 DEF TypeOK, bagVars, resVars, objVars, vars, SpuriousWakeup, WokenFrom, Phases, Woken
<1>11. ASSUME NEW t \in Threads, NEW k \in Keys, Abort(t, k)
      PROVE  TypeOK'
  BY UnreserveType, <1>11 DEF TypeOK, bagVars, resVars, objVars, vars, Abort
<1>12. ASSUME NEW t \in Threads, NEW k \in Keys, NEW o \in Objects, Add(t, k, o)
      PROVE  TypeOK'
  <2>1. CASE keyTable[o] = NULL
    <3>1. Unreserve(k, waiters[k], pc)
      BY <1>12, <2>1 DEF Add
    <3>2. /\ reserved' \in SUBSET Keys
          /\ owner' \in [Keys -> Threads \cup {NULL}]
          /\ waiters' \in [Keys -> Nat]
          /\ pc' \in [Threads -> Phases]
      BY <3>1, UnreserveType DEF TypeOK
    <3>3. /\ objectTable' \in [Keys -> Objects \cup {NULL}]
          /\ keyTable' \in [Objects -> Keys \cup {NULL, Freed}]
      BY <1>12, <2>1 DEF TypeOK, Add, Bind
    <3>4. /\ ref' \in [Threads -> SUBSET Objects]
          /\ holds' \in [Threads -> SUBSET Keys]
      BY <1>12, <2>1 DEF TypeOK, Add
    <3>5. weak' \in [Objects -> BOOLEAN]
      <4>1. weak' = [weak EXCEPT ![o] = TRUE]
        BY <1>12, <2>1 DEF Add
      <4> QED
        BY <4>1 DEF TypeOK
    <3>6. UNCHANGED <<arg, dying, alive>>
      BY <1>12 DEF Add
    <3> QED
      BY <3>2, <3>3, <3>4, <3>5, <3>6 DEF TypeOK
  <2>2. CASE keyTable[o] # NULL
    BY <1>12, <2>2 DEF TypeOK, bagVars, resVars, Add
  <2> QED
    BY <2>1, <2>2
<1>13. ASSUME NEW t \in Threads, NEW o \in Objects, Remove(t, o)
      PROVE  TypeOK'
  BY <1>13 DEF TypeOK, bagVars, resVars, objVars, vars, Remove, Uses, Unbind, WithoutKeyOf
<1>14. ASSUME NEW t \in Threads, NEW o \in Objects, NEW k \in Keys, Rekey(t, o, k)
      PROVE  TypeOK'
  BY <1>14 DEF TypeOK, bagVars, resVars, objVars, vars, Rekey, Uses, Bind, WithoutKeyOf
<1>15. ASSUME NEW t \in Threads, List(t)
      PROVE  TypeOK'
  BY <1>15 DEF TypeOK, bagVars, resVars, objVars, vars, List
<1>16. ASSUME NEW t \in Threads, NEW o \in Objects, Unref(t, o)
      PROVE  TypeOK'
  BY <1>16 DEF TypeOK, bagVars, resVars, objVars, vars, Unref
<1>17. ASSUME NEW t \in Threads, NEW o \in Objects, StartDispose(t, o)
      PROVE  TypeOK'
  BY <1>17 DEF TypeOK, bagVars, resVars, objVars, vars, StartDispose, Phases, Disposing
<1>18. ASSUME NEW t \in Threads, TakeWeakRefs(t)
      PROVE  TypeOK'
  BY <1>18 DEF TypeOK, bagVars, resVars, objVars, vars, TakeWeakRefs, Phases, Disposing
<1>19. ASSUME NEW t \in Threads, Notify(t)
      PROVE  TypeOK'
  BY <1>19 DEF TypeOK, bagVars, resVars, objVars, vars, Notify, Unbind, WithoutKeyOf, Phases, Disposing
<1>20. ASSUME NEW t \in Threads, Drop(t)
      PROVE  TypeOK'
  BY <1>20 DEF TypeOK, bagVars, resVars, objVars, vars, Drop, Phases
<1>21. CASE Destroy
  BY <1>21 DEF TypeOK, bagVars, resVars, objVars, vars, Destroy
<1>22. CASE New
  BY <1>22 DEF TypeOK, bagVars, resVars, objVars, vars, New
<1>23. CASE UNCHANGED vars
  BY <1>23 DEF TypeOK, bagVars, resVars, objVars, vars
<1> QED
  BY <1>1, <1>2, <1>3, <1>4, <1>5, <1>6, <1>7, <1>8, <1>9, <1>10, <1>11, <1>12,
     <1>13, <1>14, <1>15, <1>16, <1>17, <1>18, <1>19, <1>20, <1>21, <1>22, <1>23
     DEF Next, Lookup, Reserve, Resume, Finish, Change, Release, Dispose

-----------------------------------------------------------------------------
(* Reservations and their waiters.                                         *)

\* waiters is the number of threads inside the wait.
Counted == \A k \in Keys : waiters[k] = Cardinality(WaitersOf(k))

\* A thread waits only for a reserved key of a bag that exists.
WaitsOnReserved == \A t \in Threads : arg[t] # NULL => alive /\ arg[t] \in reserved

\* A reservation with an owner exists and its key has no object.
OwnedIsEmpty ==
  \A k \in Keys : owner[k] # NULL => k \in reserved /\ objectTable[k] = NULL

\* A thread has been told to build exactly the keys it owns.
HoldsIsOwner == \A t \in Threads, k \in Keys : k \in holds[t] <=> owner[k] = t

\* The part of the invariant that is about waiting.
WaitInv == PcArg /\ Counted /\ WaitsOnReserved /\ NoLostWakeup

\* Signalling touches only the threads that sleep on the key.
LEMMA SignalKeeps ==
  ASSUME NEW k \in Keys, NEW phase \in [Threads -> Phases], Signal(k, phase),
         NEW u \in Threads
  PROVE  \/ pc'[u] = phase[u]
         \/ phase[u] \in Waiting /\ arg[u] = k /\ pc'[u] \in Woken
<1> DEFINE sleepers == {t \in Threads : phase[t] \in Waiting /\ arg[t] = k}
<1>1. CASE sleepers = {}
  BY <1>1 DEF Signal
<1>2. CASE sleepers # {}
  <2>1. PICK t \in sleepers : pc' = [phase EXCEPT ![t] = WokenFrom(@)]
    BY <1>2 DEF Signal
  <2> QED
    BY <2>1 DEF WokenFrom, Woken
<1> QED
  BY <1>1, <1>2

\* If a thread is inside the wait for the key, one is awake after the signal.
LEMMA SignalWakes ==
  ASSUME NEW k \in Keys, NEW phase \in [Threads -> Phases], Signal(k, phase),
         NEW u \in Threads, arg[u] = k, phase[u] \in Waiting \cup Woken
  PROVE  \E v \in Threads :
           arg[v] = k /\ phase[v] \in Waiting \cup Woken /\ pc'[v] \in Woken
<1> DEFINE sleepers == {t \in Threads : phase[t] \in Waiting /\ arg[t] = k}
<1>1. CASE sleepers = {}
  BY <1>1 DEF Signal
<1>2. CASE sleepers # {}
  <2>1. PICK t \in sleepers : pc' = [phase EXCEPT ![t] = WokenFrom(@)]
    BY <1>2 DEF Signal
  <2> QED
    BY <2>1 DEF WokenFrom, Woken
<1> QED
  BY <1>1, <1>2

\* Giving up a reservation preserves what is said of waiting, whether the
\* caller was inside the wait itself (it has left it in phase and arg') or not.
LEMMA UnreserveWait ==
  ASSUME BagAssumption, TypeOK, WaitInv, NEW k \in Keys, NEW w \in Nat,
         NEW phase \in [Threads -> Phases], Unreserve(k, w, phase),
         UNCHANGED alive,
         \A u \in Threads : arg'[u] # NULL <=> phase[u] \in Waiting \cup Woken,
         \A u \in Threads : arg'[u] # NULL => arg'[u] = arg[u] /\ phase[u] = pc[u],
         \A u \in Threads : arg[u] # k => arg'[u] = arg[u],
         w = Cardinality(WaitersOf(k)'),
         \A j \in Keys \ {k} : WaitersOf(j)' = WaitersOf(j)
  PROVE  WaitInv'
<1>1. Counted'
  <2> SUFFICES ASSUME NEW j \in Keys PROVE waiters'[j] = Cardinality(WaitersOf(j)')
    BY DEF Counted
  <2>1. waiters' = [waiters EXCEPT ![k] = w]
    BY DEF Unreserve
  <2>2. CASE j = k
    BY <2>1, <2>2 DEF TypeOK
  <2>3. CASE j # k
    BY <2>1, <2>3 DEF TypeOK, WaitInv, Counted
  <2> QED
    BY <2>2, <2>3
<1>2. CASE w > 0
  <2>1. Signal(k, phase) /\ reserved' = reserved /\ owner' = [owner EXCEPT ![k] = NULL]
    BY <1>2 DEF Unreserve
  <2>2. PcArg'
    BY <2>1, SignalKeeps DEF PcArg, Woken, Waiting
  <2>3. WaitsOnReserved'
    BY <2>1 DEF WaitInv, WaitsOnReserved
  <2>4. NoLostWakeup'
    <3> SUFFICES ASSUME NEW j \in reserved, owner'[j] = NULL
                 PROVE  \E v \in Threads : arg'[v] = j /\ pc'[v] \in Woken
      BY <2>1 DEF NoLostWakeup, WaitersOf
    <3>1. CASE j = k
      <4>1. WaitersOf(k)' # {}
        <5>1. Cardinality({}) = 0
          BY FS_EmptySet
        <5>2. w # 0
          BY <1>2
        <5> QED
          BY <5>1, <5>2, Zenon
      <4>2. PICK u \in Threads : arg'[u] = k
        BY <4>1 DEF WaitersOf
      <4>3. k # NULL
        BY DEF BagAssumption
      <4>4. arg[u] = k /\ phase[u] \in Waiting \cup Woken
        BY <4>2, <4>3
      <4>5. PICK v \in Threads :
              arg[v] = k /\ phase[v] \in Waiting \cup Woken /\ pc'[v] \in Woken
        BY <4>4, <2>1, SignalWakes
      <4> QED
        BY <4>5, <3>1
    <3>2. CASE j # k
      <4>1. j \in Keys /\ owner[j] = NULL
        BY <2>1, <3>2 DEF TypeOK
      <4>2. PICK u \in Threads : arg[u] = j /\ pc[u] \in Woken
        BY <4>1 DEF WaitInv, NoLostWakeup, WaitersOf
      <4>3. arg'[u] = j /\ phase[u] = pc[u]
        BY <4>1, <4>2, <3>2 DEF BagAssumption
      <4> QED
        BY <4>2, <4>3, <2>1, SignalKeeps DEF Woken, Waiting
    <3> QED
      BY <3>1, <3>2
  <2> QED
    BY <1>1, <2>2, <2>3, <2>4 DEF WaitInv
<1>3. CASE w = 0
  <2>1. pc' = phase /\ reserved' = reserved \ {k} /\ owner' = [owner EXCEPT ![k] = NULL]
    BY <1>3 DEF Unreserve
  <2>2. IsFiniteSet(WaitersOf(k)') /\ WaitersOf(k)' = {}
    <3>1. WaitersOf(k)' \in SUBSET Threads
      BY DEF WaitersOf
    <3>2. IsFiniteSet(WaitersOf(k)')
      BY <3>1, FS_Subset DEF BagAssumption
    <3> QED
      BY <3>2, <1>3, FS_EmptySet
  <2>3. PcArg'
    BY <2>1 DEF PcArg
  <2>4. WaitsOnReserved'
    BY <2>1, <2>2 DEF WaitInv, WaitsOnReserved, WaitersOf
  <2>5. NoLostWakeup'
    <3> SUFFICES ASSUME NEW j \in reserved \ {k}, owner'[j] = NULL
                 PROVE  \E v \in Threads : arg'[v] = j /\ pc'[v] \in Woken
      BY <2>1 DEF NoLostWakeup, WaitersOf
    <3>1. j \in Keys /\ owner[j] = NULL
      BY <2>1 DEF TypeOK
    <3>2. PICK u \in Threads : arg[u] = j /\ pc[u] \in Woken
      BY <3>1 DEF WaitInv, NoLostWakeup, WaitersOf
    <3>3. arg'[u] = j /\ phase[u] = pc[u]
      BY <3>1, <3>2 DEF BagAssumption
    <3> QED
      BY <3>2, <3>3, <2>1
  <2> QED
    BY <1>1, <2>3, <2>4, <2>5 DEF WaitInv
<1> QED
  BY <1>2, <1>3

\* A thread that leaves the wait leaves the waiters of its key, and of no other.
LEMMA LeaveWait ==
  ASSUME BagAssumption, TypeOK, Counted, NEW t \in Threads, NEW k \in Keys,
         arg[t] = k, arg' = [arg EXCEPT ![t] = NULL]
  PROVE  /\ waiters[k] - 1 \in Nat
         /\ waiters[k] - 1 = Cardinality(WaitersOf(k)')
         /\ \A j \in Keys \ {k} : WaitersOf(j)' = WaitersOf(j)
         /\ \A u \in Threads : u # t => arg'[u] = arg[u]
         /\ arg'[t] = NULL
<1>1. k # NULL
  BY DEF BagAssumption
<1>2. (\A u \in Threads : u # t => arg'[u] = arg[u]) /\ arg'[t] = NULL
  BY DEF TypeOK
<1>3. WaitersOf(k)' = WaitersOf(k) \ {t} /\ t \in WaitersOf(k)
  BY <1>1, <1>2 DEF WaitersOf
<1>4. \A j \in Keys \ {k} : WaitersOf(j)' = WaitersOf(j)
  BY <1>2 DEF WaitersOf, BagAssumption
<1>5. IsFiniteSet(WaitersOf(k))
  BY FS_Subset DEF BagAssumption, WaitersOf
<1>6. Cardinality(WaitersOf(k) \ {t}) = Cardinality(WaitersOf(k)) - 1
  BY <1>3, <1>5, FS_RemoveElement
<1>7. Cardinality(WaitersOf(k) \ {t}) \in Nat
  BY <1>5, FS_RemoveElement, FS_CardinalityType
<1> QED
  BY <1>2, <1>3, <1>4, <1>6, <1>7 DEF Counted

\* Starting to wait for an owned reservation preserves what is said of waiting.
LEMMA JoinWait ==
  ASSUME BagAssumption, TypeOK, WaitInv, NEW t \in Threads, NEW k \in reserved,
         NEW phase \in Waiting, pc[t] = "idle", owner[k] # NULL, alive,
         WaitFor(t, k, phase)
  PROVE  WaitInv'
<1>1. k \in Keys /\ k # NULL /\ arg[t] = NULL
  BY DEF TypeOK, BagAssumption, WaitInv, PcArg, Waiting, Woken
<1>2. \A u \in Threads : /\ u # t => arg'[u] = arg[u] /\ pc'[u] = pc[u]
                         /\ u = t => arg'[u] = k /\ pc'[u] = phase
  BY DEF WaitFor, TypeOK
<1>3. UNCHANGED <<reserved, owner, alive>>
  BY DEF WaitFor
<1>4. PcArg'
  BY <1>1, <1>2 DEF WaitInv, PcArg
<1>5. Counted'
  <2> SUFFICES ASSUME NEW j \in Keys PROVE waiters'[j] = Cardinality(WaitersOf(j)')
    BY DEF Counted
  <2>1. CASE j = k
    <3>1. WaitersOf(k)' = WaitersOf(k) \cup {t} /\ t \notin WaitersOf(k)
      BY <1>1, <1>2 DEF WaitersOf
    <3>2. IsFiniteSet(WaitersOf(k))
      BY FS_Subset DEF BagAssumption, WaitersOf
    <3>3. Cardinality(WaitersOf(k) \cup {t}) = Cardinality(WaitersOf(k)) + 1
      BY <3>1, <3>2, FS_AddElement
    <3>4. waiters'[k] = waiters[k] + 1
      BY <1>1 DEF WaitFor, TypeOK
    <3> QED
      BY <1>1, <2>1, <3>1, <3>3, <3>4 DEF WaitInv, Counted
  <2>2. CASE j # k
    <3>1. WaitersOf(j)' = WaitersOf(j)
      BY <1>1, <1>2, <2>2 DEF WaitersOf, BagAssumption
    <3>2. waiters'[j] = waiters[j]
      BY <1>1, <2>2 DEF WaitFor, TypeOK
    <3> QED
      BY <3>1, <3>2 DEF WaitInv, Counted
  <2> QED
    BY <2>1, <2>2
<1>6. WaitsOnReserved'
  BY <1>2, <1>3 DEF WaitInv, WaitsOnReserved
<1>7. NoLostWakeup'
  <2> SUFFICES ASSUME NEW j \in reserved, owner[j] = NULL
               PROVE  \E v \in Threads : arg'[v] = j /\ pc'[v] \in Woken
    BY <1>3 DEF NoLostWakeup, WaitersOf
  <2>1. PICK u \in Threads : arg[u] = j /\ pc[u] \in Woken
    BY DEF WaitInv, NoLostWakeup, WaitersOf
  <2>2. u # t
    BY <2>1 DEF Woken
  <2> QED
    BY <1>2, <2>1, <2>2
<1> QED
  BY <1>4, <1>5, <1>6, <1>7 DEF WaitInv

\* Keeping the reservation one has waited for does so as well.
LEMMA TakeOverWait ==
  ASSUME BagAssumption, TypeOK, WaitInv, NEW t \in Threads, NEW k \in Keys,
         arg[t] = k, TakeOver(t, k)
  PROVE  WaitInv'
<1>1. arg' = [arg EXCEPT ![t] = NULL]
  BY DEF TakeOver
<1>2. /\ waiters[k] - 1 = Cardinality(WaitersOf(k)')
      /\ \A j \in Keys \ {k} : WaitersOf(j)' = WaitersOf(j)
      /\ \A u \in Threads : u # t => arg'[u] = arg[u]
      /\ arg'[t] = NULL
  BY <1>1, LeaveWait DEF WaitInv
<1>3. \A u \in Threads : /\ u # t => pc'[u] = pc[u]
                         /\ u = t => pc'[u] = "idle"
  BY DEF TakeOver, TypeOK
<1>4. UNCHANGED <<reserved, alive>> /\ owner' = [owner EXCEPT ![k] = t]
  BY DEF TakeOver
<1>5. waiters' = [waiters EXCEPT ![k] = waiters[k] - 1]
  BY DEF TakeOver
<1>6. PcArg'
  BY <1>2, <1>3 DEF WaitInv, PcArg, Waiting, Woken
<1>7. Counted'
  <2> SUFFICES ASSUME NEW j \in Keys PROVE waiters'[j] = Cardinality(WaitersOf(j)')
    BY DEF Counted
  <2>1. CASE j = k
    BY <1>2, <1>5, <2>1 DEF TypeOK
  <2>2. CASE j # k
    BY <1>2, <1>5, <2>2 DEF TypeOK, WaitInv, Counted
  <2> QED
    BY <2>1, <2>2
<1>8. WaitsOnReserved'
  BY <1>2, <1>4 DEF WaitInv, WaitsOnReserved
<1>9. NoLostWakeup'
  <2> SUFFICES ASSUME NEW j \in reserved, owner'[j] = NULL
               PROVE  \E v \in Threads : arg'[v] = j /\ pc'[v] \in Woken
    BY <1>4 DEF NoLostWakeup, WaitersOf
  <2>1. j # k /\ owner[j] = NULL
    BY <1>2, <1>4 DEF TypeOK, BagAssumption
  <2>2. PICK u \in Threads : arg[u] = j /\ pc[u] \in Woken
    BY <2>1 DEF WaitInv, NoLostWakeup, WaitersOf
  <2> QED
    BY <1>2, <1>3, <2>1, <2>2
<1> QED
  BY <1>6, <1>7, <1>8, <1>9 DEF WaitInv

\* A step that leaves the waiters alone preserves what is said of waiting.
LEMMA QuietWait ==
  ASSUME TypeOK, WaitInv, UNCHANGED <<arg, waiters>>,
         reserved \subseteq reserved',
         \A u \in Threads : arg[u] # NULL /\ alive => alive',
         \A j \in reserved' : owner'[j] = NULL => j \in reserved /\ owner[j] = NULL,
         \A u \in Threads : pc'[u] \in Waiting \cup Woken <=> pc[u] \in Waiting \cup Woken,
         \A u \in Threads : pc[u] \in Woken /\ owner[arg[u]] = NULL => pc'[u] \in Woken
  PROVE  WaitInv'
<1>1. PcArg'
  BY DEF WaitInv, PcArg
<1>2. \A j : WaitersOf(j)' = WaitersOf(j)
  BY DEF WaitersOf
<1>3. Counted'
  BY <1>2 DEF WaitInv, Counted
<1>4. WaitsOnReserved'
  BY DEF WaitInv, WaitsOnReserved
<1>5. NoLostWakeup'
  BY DEF WaitInv, NoLostWakeup, WaitersOf
<1> QED
  BY <1>1, <1>3, <1>4, <1>5 DEF WaitInv

\* Giving a reservation up from outside the wait.
LEMMA UnreserveOutside ==
  ASSUME BagAssumption, TypeOK, WaitInv, NEW k \in Keys,
         Unreserve(k, waiters[k], pc), UNCHANGED <<arg, alive>>
  PROVE  WaitInv'
<1>1. \A j \in Keys : WaitersOf(j)' = WaitersOf(j)
  BY DEF WaitersOf
<1>2. waiters[k] \in Nat /\ waiters[k] = Cardinality(WaitersOf(k)')
  BY <1>1 DEF TypeOK, WaitInv, Counted
<1>3. pc \in [Threads -> Phases]
  BY DEF TypeOK
<1>4. \A u \in Threads : arg'[u] # NULL <=> pc[u] \in Waiting \cup Woken
  BY DEF WaitInv, PcArg
<1> QED
  BY <1>1, <1>2, <1>3, <1>4, UnreserveWait

\* Giving a reservation up after the wait, as get always does.
LEMMA UnreserveAfterWait ==
  ASSUME BagAssumption, TypeOK, WaitInv, NEW t \in Threads, NEW k \in Keys,
         arg[t] = k, arg' = [arg EXCEPT ![t] = NULL], UNCHANGED alive,
         Unreserve(k, waiters[k] - 1, [pc EXCEPT ![t] = "idle"])
  PROVE  WaitInv'
<1> DEFINE phase == [pc EXCEPT ![t] = "idle"]
<1>1. /\ waiters[k] - 1 \in Nat
      /\ waiters[k] - 1 = Cardinality(WaitersOf(k)')
      /\ \A j \in Keys \ {k} : WaitersOf(j)' = WaitersOf(j)
      /\ \A u \in Threads : u # t => arg'[u] = arg[u]
      /\ arg'[t] = NULL
  BY LeaveWait DEF WaitInv
<1>2. phase \in [Threads -> Phases]
  BY DEF TypeOK, Phases
<1>3. \A u \in Threads : /\ u # t => phase[u] = pc[u]
                         /\ u = t => phase[u] = "idle"
  BY DEF TypeOK
<1>4. \A u \in Threads : arg'[u] # NULL <=> phase[u] \in Waiting \cup Woken
  BY <1>1, <1>3 DEF WaitInv, PcArg, Waiting, Woken
<1>5. \A u \in Threads : arg'[u] # NULL => arg'[u] = arg[u] /\ phase[u] = pc[u]
  BY <1>1, <1>3
<1>6. \A u \in Threads : arg[u] # k => arg'[u] = arg[u]
  BY <1>1
<1>7. Unreserve(k, waiters[k] - 1, phase)
  OBVIOUS
<1> HIDE DEF phase
<1> QED
  BY <1>1, <1>2, <1>4, <1>5, <1>6, <1>7, UnreserveWait

\* The invariant about waiting is preserved by every step.
LEMMA WaitStep ==
  ASSUME BagAssumption, TypeOK, WaitInv, [Next]_vars
  PROVE  WaitInv'
<1>1. ASSUME NEW t \in Threads, NEW k \in Keys, Find(t, k)
      PROVE  WaitInv'
  BY <1>1, QuietWait DEF Find, bagVars, resVars, objVars
<1>2. ASSUME NEW t \in Threads, NEW k \in Keys, GetWait(t, k)
      PROVE  WaitInv'
  BY <1>2, JoinWait DEF GetWait, MayBlockOn, Waiting
<1>3. ASSUME NEW t \in Threads, NEW k \in Keys, GetBetween(t, k)
      PROVE  WaitInv'
  BY <1>3, UnreserveOutside DEF GetBetween, MayBlockOn
<1>4. ASSUME NEW t \in Threads, NEW k \in Keys, ReserveNew(t, k)
      PROVE  WaitInv'
  <2>1. reserved' = reserved \cup {k} /\ owner' = [owner EXCEPT ![k] = t]
    BY <1>4 DEF ReserveNew
  <2>2. \A j \in reserved' : owner'[j] = NULL => j \in reserved /\ owner[j] = NULL
    BY <2>1 DEF TypeOK, BagAssumption
  <2> QED
    BY <1>4, <2>1, <2>2, QuietWait DEF ReserveNew
<1>5. ASSUME NEW t \in Threads, NEW k \in Keys, ReserveWait(t, k)
      PROVE  WaitInv'
  BY <1>5, JoinWait DEF ReserveWait, MayBlockOn, Waiting
<1>6. ASSUME NEW t \in Threads, NEW k \in Keys, ReserveBetween(t, k)
      PROVE  WaitInv'
  <2>1. reserved' = reserved /\ owner' = [owner EXCEPT ![k] = t]
    BY <1>6 DEF ReserveBetween
  <2>2. \A j \in reserved' : owner'[j] = NULL => j \in reserved /\ owner[j] = NULL
    BY <2>1 DEF TypeOK, BagAssumption
  <2> QED
    BY <1>6, <2>1, <2>2, QuietWait DEF ReserveBetween
<1>7. ASSUME NEW t \in Threads, WaitAgain(t)
      PROVE  WaitInv'
  <2>1. \A u \in Threads : pc'[u] \in Waiting \cup Woken <=> pc[u] \in Waiting \cup Woken
    BY <1>7 DEF WaitAgain, TypeOK, Waiting, Woken
  <2>2. \A u \in Threads : pc[u] \in Woken /\ owner[arg[u]] = NULL => pc'[u] \in Woken
    BY <1>7 DEF WaitAgain, TypeOK
  <2> QED
    BY <1>7, <2>1, <2>2, QuietWait DEF WaitAgain, resVars
<1>8. ASSUME NEW t \in Threads, GetResume(t)
      PROVE  WaitInv'
  <2>1. arg[t] \in Keys
    BY <1>8 DEF GetResume, WaitInv, PcArg, Woken, TypeOK
  <2> QED
    BY <1>8, <2>1, UnreserveAfterWait DEF GetResume
<1>9. ASSUME NEW t \in Threads, ReserveResume(t)
      PROVE  WaitInv'
  <2>1. arg[t] \in Keys
    BY <1>9 DEF ReserveResume, WaitInv, PcArg, Woken, TypeOK
  <2>2. CASE objectTable[arg[t]] = NULL
    BY <1>9, <2>1, <2>2, TakeOverWait DEF ReserveResume
  <2>3. CASE objectTable[arg[t]] # NULL
    BY <1>9, <2>1, <2>3, UnreserveAfterWait DEF ReserveResume
  <2> QED
    BY <2>2, <2>3
<1>10. ASSUME NEW t \in Threads, SpuriousWakeup(t)
      PROVE  WaitInv'
  <2>1. \A u \in Threads : pc'[u] \in Waiting \cup Woken <=> pc[u] \in Waiting \cup Woken
    BY <1>10 DEF SpuriousWakeup, WokenFrom, TypeOK, Waiting, Woken
  <2>2. \A u \in Threads : pc[u] \in Woken /\ owner[arg[u]] = NULL => pc'[u] \in Woken
    BY <1>10 DEF SpuriousWakeup, WokenFrom, TypeOK, Waiting, Woken
  <2> QED
    BY <1>10, <2>1, <2>2, QuietWait DEF SpuriousWakeup, resVars
<1>11. ASSUME NEW t \in Threads, NEW k \in Keys, Abort(t, k)
      PROVE  WaitInv'
  BY <1>11, UnreserveOutside DEF Abort, MayBlockOn
<1>12. ASSUME NEW t \in Threads, NEW k \in Keys, NEW o \in Objects, Add(t, k, o)
      PROVE  WaitInv'
  <2>1. CASE keyTable[o] = NULL
    BY <1>12, <2>1, UnreserveOutside DEF Add
  <2>2. CASE keyTable[o] # NULL
    BY <1>12, <2>2, QuietWait DEF Add, resVars
  <2> QED
    BY <2>1, <2>2
<1>13. ASSUME NEW t \in Threads, NEW o \in Objects, Remove(t, o)
      PROVE  WaitInv'
  BY <1>13, QuietWait DEF Remove, bagVars, resVars, objVars
<1>14. ASSUME NEW t \in Threads, NEW o \in Objects, NEW k \in Keys, Rekey(t, o, k)
      PROVE  WaitInv'
  BY <1>14, QuietWait DEF Rekey, bagVars, resVars, objVars
<1>15. ASSUME NEW t \in Threads, List(t)
      PROVE  WaitInv'
  BY <1>15, QuietWait DEF List, bagVars, resVars, objVars
<1>16. ASSUME NEW t \in Threads, NEW o \in Objects, Unref(t, o)
      PROVE  WaitInv'
  BY <1>16, QuietWait DEF Unref, bagVars, resVars, objVars
<1>17. ASSUME NEW t \in Threads, NEW o \in Objects, StartDispose(t, o)
      PROVE  WaitInv'
  BY <1>17, QuietWait DEF StartDispose, bagVars, resVars, objVars, TypeOK, Waiting, Woken
<1>18. ASSUME NEW t \in Threads, TakeWeakRefs(t)
      PROVE  WaitInv'
  BY <1>18, QuietWait DEF TakeWeakRefs, bagVars, resVars, objVars, TypeOK, Waiting, Woken
<1>19. ASSUME NEW t \in Threads, Notify(t)
      PROVE  WaitInv'
  BY <1>19, QuietWait DEF Notify, bagVars, resVars, objVars, TypeOK, Waiting, Woken
<1>20. ASSUME NEW t \in Threads, Drop(t)
      PROVE  WaitInv'
  BY <1>20, QuietWait DEF Drop, bagVars, resVars, objVars, TypeOK, Waiting, Woken
<1>21. CASE Destroy
  BY <1>21, QuietWait DEF Destroy, resVars, WaitInv, WaitsOnReserved
<1>22. CASE New
  BY <1>22, QuietWait DEF New, bagVars, resVars, objVars
<1>23. CASE UNCHANGED vars
  BY <1>23, QuietWait DEF vars
<1> QED
  BY <1>1, <1>2, <1>3, <1>4, <1>5, <1>6, <1>7, <1>8, <1>9, <1>10, <1>11, <1>12,
     <1>13, <1>14, <1>15, <1>16, <1>17, <1>18, <1>19, <1>20, <1>21, <1>22, <1>23
     DEF Next, Lookup, Reserve, Resume, Finish, Change, Release, Dispose

\* A step that changes no owner and puts nothing into the table preserves it.
LEMMA QuietOwner ==
  ASSUME OwnedIsEmpty, HoldsIsOwner, UNCHANGED <<owner, holds>>,
         reserved \subseteq reserved',
         \A k \in Keys : owner[k] # NULL /\ objectTable[k] = NULL => objectTable'[k] = NULL
  PROVE  OwnedIsEmpty' /\ HoldsIsOwner'
BY DEF OwnedIsEmpty, HoldsIsOwner

\* Nor does taking an entry out of the tables fill another one.
LEMMA UnbindEmpties ==
  ASSUME TypeOK, NEW o \in Objects, NEW objT \in WithoutKeyOf(o)
  PROVE  /\ objT \in [Keys -> Objects \cup {NULL}]
         /\ \A k \in Keys : objT[k] \in {objectTable[k], NULL}
BY DEF TypeOK, WithoutKeyOf

\* A thread that becomes the owner of a key without an object.
LEMMA TakeOwner ==
  ASSUME BagAssumption, TypeOK, OwnedIsEmpty, HoldsIsOwner,
         NEW t \in Threads, NEW k \in Keys,
         objectTable[k] = NULL, owner[k] = NULL,
         owner' = [owner EXCEPT ![k] = t], holds' = [holds EXCEPT ![t] = @ \cup {k}],
         reserved \cup {k} \subseteq reserved', UNCHANGED objectTable
  PROVE  OwnedIsEmpty' /\ HoldsIsOwner'
<1>1. OwnedIsEmpty'
  BY DEF TypeOK, OwnedIsEmpty
<1>2. HoldsIsOwner'
  <2> SUFFICES ASSUME NEW u \in Threads, NEW j \in Keys
               PROVE  j \in holds'[u] <=> owner'[j] = u
    BY DEF HoldsIsOwner
  <2>1. j \in holds[u] <=> owner[j] = u
    BY DEF HoldsIsOwner
  <2> QED
    BY <2>1 DEF TypeOK, BagAssumption
<1> QED
  BY <1>1, <1>2

\* The owner, if there is one, gives the key up.
LEMMA DropOwner ==
  ASSUME BagAssumption, TypeOK, OwnedIsEmpty, HoldsIsOwner,
         NEW k \in Keys, NEW w, NEW phase, Unreserve(k, w, phase),
         \A j \in Keys \ {k} : objectTable'[j] = objectTable[j],
         \A u \in Threads, j \in Keys : j \in holds'[u] <=> j \in holds[u] /\ j # k
  PROVE  OwnedIsEmpty' /\ HoldsIsOwner'
<1>1. owner' = [owner EXCEPT ![k] = NULL] /\ reserved \ {k} \subseteq reserved'
  BY DEF Unreserve
<1>2. OwnedIsEmpty'
  BY <1>1 DEF TypeOK, OwnedIsEmpty
<1>3. HoldsIsOwner'
  BY <1>1 DEF TypeOK, HoldsIsOwner, BagAssumption
<1> QED
  BY <1>2, <1>3

\* The owner of a key, and the thread that was told to build, stay the same.
LEMMA OwnerStep ==
  ASSUME BagAssumption, ~RenameOntoOpen, TypeOK, WaitInv, OwnedIsEmpty, HoldsIsOwner,
         [Next]_vars
  PROVE  OwnedIsEmpty' /\ HoldsIsOwner'
<1>1. ASSUME NEW t \in Threads, NEW k \in Keys, Find(t, k)
      PROVE  OwnedIsEmpty' /\ HoldsIsOwner'
  BY <1>1, QuietOwner DEF Find, bagVars, resVars, objVars
<1>2. ASSUME NEW t \in Threads, NEW k \in Keys, GetWait(t, k)
      PROVE  OwnedIsEmpty' /\ HoldsIsOwner'
  BY <1>2, QuietOwner DEF GetWait, WaitFor, bagVars, resVars, objVars
<1>3. ASSUME NEW t \in Threads, NEW k \in Keys, GetBetween(t, k)
      PROVE  OwnedIsEmpty' /\ HoldsIsOwner'
  <2>1. \A u \in Threads, j \in Keys : j \in holds'[u] <=> j \in holds[u] /\ j # k
    BY <1>3 DEF GetBetween, HoldsIsOwner, BagAssumption
  <2> QED
    BY <1>3, <2>1, DropOwner DEF GetBetween, bagVars
<1>4. ASSUME NEW t \in Threads, NEW k \in Keys, ReserveNew(t, k)
      PROVE  OwnedIsEmpty' /\ HoldsIsOwner'
  <2>1. owner[k] = NULL
    BY <1>4 DEF ReserveNew, OwnedIsEmpty
  <2> QED
    BY <1>4, <2>1, TakeOwner DEF ReserveNew, bagVars
<1>5. ASSUME NEW t \in Threads, NEW k \in Keys, ReserveWait(t, k)
      PROVE  OwnedIsEmpty' /\ HoldsIsOwner'
  BY <1>5, QuietOwner DEF ReserveWait, WaitFor, bagVars, resVars, objVars
<1>6. ASSUME NEW t \in Threads, NEW k \in Keys, ReserveBetween(t, k)
      PROVE  OwnedIsEmpty' /\ HoldsIsOwner'
  BY <1>6, TakeOwner DEF ReserveBetween, bagVars
<1>7. ASSUME NEW t \in Threads, WaitAgain(t)
      PROVE  OwnedIsEmpty' /\ HoldsIsOwner'
  BY <1>7, QuietOwner DEF WaitAgain, bagVars, resVars, objVars
<1>8. ASSUME NEW t \in Threads, GetResume(t)
      PROVE  OwnedIsEmpty' /\ HoldsIsOwner'
  <2>1. arg[t] \in Keys
    BY <1>8 DEF GetResume, WaitInv, PcArg, Woken, TypeOK
  <2>2. \A u \in Threads, j \in Keys : j \in holds'[u] <=> j \in holds[u] /\ j # arg[t]
    BY <1>8 DEF GetResume, HoldsIsOwner, BagAssumption
  <2> QED
    BY <1>8, <2>1, <2>2, DropOwner DEF GetResume, bagVars
<1>9. ASSUME NEW t \in Threads, ReserveResume(t)
      PROVE  OwnedIsEmpty' /\ HoldsIsOwner'
  <2>1. arg[t] \in Keys
    BY <1>9 DEF ReserveResume, WaitInv, PcArg, Woken, TypeOK
  <2>2. CASE objectTable[arg[t]] = NULL
    <3>1. arg[t] \in reserved
      BY <2>1 DEF WaitInv, WaitsOnReserved, BagAssumption
    <3>2. TakeOver(t, arg[t]) /\ owner[arg[t]] = NULL
      BY <1>9, <2>2 DEF ReserveResume
    <3>3. PICK k \in Keys : k = arg[t]
      BY <2>1
    <3>4. /\ owner' = [owner EXCEPT ![k] = t]
          /\ holds' = [holds EXCEPT ![t] = holds[t] \cup {k}]
          /\ reserved \cup {k} \subseteq reserved'
          /\ UNCHANGED objectTable
      BY <3>1, <3>2, <3>3 DEF TakeOver, bagVars
    <3> QED
      BY <2>2, <3>2, <3>3, <3>4, TakeOwner
  <2>3. CASE objectTable[arg[t]] # NULL
    <3>1. UNCHANGED <<bagVars, holds>>
      BY <1>9, <2>3 DEF ReserveResume
    <3>2. \A u \in Threads, j \in Keys : j \in holds'[u] <=> j \in holds[u] /\ j # arg[t]
      BY <1>9, <3>1 DEF ReserveResume, HoldsIsOwner, BagAssumption
    <3> QED
      BY <1>9, <2>1, <2>3, <3>1, <3>2, DropOwner DEF ReserveResume, bagVars
  <2> QED
    BY <2>2, <2>3
<1>10. ASSUME NEW t \in Threads, SpuriousWakeup(t)
      PROVE  OwnedIsEmpty' /\ HoldsIsOwner'
  BY <1>10, QuietOwner DEF SpuriousWakeup, bagVars, resVars, objVars
<1>11. ASSUME NEW t \in Threads, NEW k \in Keys, Abort(t, k)
      PROVE  OwnedIsEmpty' /\ HoldsIsOwner'
  <2>1. holds' = [holds EXCEPT ![t] = holds[t] \ {k}]
    BY <1>11 DEF Abort
  <2>2. \A u \in Threads, j \in Keys : j \in holds'[u] <=> j \in holds[u] /\ j # k
    BY <1>11, <2>1 DEF Abort, HoldsIsOwner, TypeOK
  <2> QED
    BY <1>11, <2>2, DropOwner DEF Abort, bagVars
<1>12. ASSUME NEW t \in Threads, NEW k \in Keys, NEW o \in Objects, Add(t, k, o)
      PROVE  OwnedIsEmpty' /\ HoldsIsOwner'
  <2>1. CASE keyTable[o] = NULL
    <3>1. holds' = [holds EXCEPT ![t] = holds[t] \ {k}]
      BY <1>12, <2>1 DEF Add
    <3>2. \A u \in Threads, j \in Keys : j \in holds'[u] <=> j \in holds[u] /\ j # k
      BY <1>12, <3>1 DEF Add, HoldsIsOwner, TypeOK
    <3>3. \A j \in Keys \ {k} : objectTable'[j] = objectTable[j]
      BY <1>12, <2>1 DEF Add, Bind, TypeOK
    <3> QED
      BY <1>12, <2>1, <3>2, <3>3, DropOwner DEF Add
  <2>2. CASE keyTable[o] # NULL
    BY <1>12, <2>2, QuietOwner DEF Add, bagVars, resVars
  <2> QED
    BY <2>1, <2>2
<1>13. ASSUME NEW t \in Threads, NEW o \in Objects, Remove(t, o)
      PROVE  OwnedIsEmpty' /\ HoldsIsOwner'
  <2>1. objectTable' \in WithoutKeyOf(o)
    BY <1>13 DEF Remove, Unbind
  <2> QED
    BY <1>13, <2>1, UnbindEmpties, QuietOwner DEF Remove, resVars
<1>14. ASSUME NEW t \in Threads, NEW o \in Objects, NEW k \in Keys, Rekey(t, o, k)
      PROVE  OwnedIsEmpty' /\ HoldsIsOwner'
  <2>1. objectTable[k] = NULL /\ k \notin reserved
    BY <1>14 DEF Rekey
  <2>2. PICK objT \in WithoutKeyOf(o) : Bind(o, k, keyTable, objT)
    BY <1>14 DEF Rekey
  <2>3. \A j \in Keys \ {k} : objectTable'[j] \in {objectTable[j], NULL}
    BY <2>2, UnbindEmpties DEF Bind
  <2>4. owner[k] = NULL
    BY <2>1 DEF OwnedIsEmpty
  <2> QED
    BY <1>14, <2>3, <2>4, QuietOwner DEF Rekey, resVars
<1>15. ASSUME NEW t \in Threads, List(t)
      PROVE  OwnedIsEmpty' /\ HoldsIsOwner'
  BY <1>15, QuietOwner DEF List, bagVars, resVars, objVars
<1>16. ASSUME NEW t \in Threads, NEW o \in Objects, Unref(t, o)
      PROVE  OwnedIsEmpty' /\ HoldsIsOwner'
  BY <1>16, QuietOwner DEF Unref, bagVars, resVars, objVars
<1>17. ASSUME NEW t \in Threads, NEW o \in Objects, StartDispose(t, o)
      PROVE  OwnedIsEmpty' /\ HoldsIsOwner'
  BY <1>17, QuietOwner DEF StartDispose, bagVars, resVars, objVars
<1>18. ASSUME NEW t \in Threads, TakeWeakRefs(t)
      PROVE  OwnedIsEmpty' /\ HoldsIsOwner'
  BY <1>18, QuietOwner DEF TakeWeakRefs, bagVars, resVars, objVars
<1>19. ASSUME NEW t \in Threads, Notify(t)
      PROVE  OwnedIsEmpty' /\ HoldsIsOwner'
  <2>1. CASE keyTable[dying[t]] # NULL
    <3>1. objectTable' \in WithoutKeyOf(dying[t])
      BY <1>19, <2>1 DEF Notify, Unbind
    <3>2. \A k \in Keys : objectTable'[k] \in {objectTable[k], NULL}
      BY <3>1 DEF WithoutKeyOf, TypeOK
    <3> QED
      BY <1>19, <3>2, QuietOwner DEF Notify, resVars
  <2>2. CASE keyTable[dying[t]] = NULL
    BY <1>19, <2>2, QuietOwner DEF Notify, bagVars, resVars
  <2> QED
    BY <2>1, <2>2
<1>20. ASSUME NEW t \in Threads, Drop(t)
      PROVE  OwnedIsEmpty' /\ HoldsIsOwner'
  BY <1>20, QuietOwner DEF Drop, bagVars, resVars, objVars
<1>21. CASE Destroy
  BY <1>21, QuietOwner DEF Destroy, resVars
<1>22. CASE New
  BY <1>22, QuietOwner DEF New, bagVars, resVars, objVars
<1>23. CASE UNCHANGED vars
  BY <1>23, QuietOwner DEF vars
<1> QED
  BY <1>1, <1>2, <1>3, <1>4, <1>5, <1>6, <1>7, <1>8, <1>9, <1>10, <1>11, <1>12,
     <1>13, <1>14, <1>15, <1>16, <1>17, <1>18, <1>19, <1>20, <1>21, <1>22, <1>23
     DEF Next, Lookup, Reserve, Resume, Finish, Change, Release, Dispose

-----------------------------------------------------------------------------
(* The tables and the life of the objects.                                 *)

\* No key in key_table has been freed.
NoFreedKey == \A o \in Objects : keyTable[o] # Freed

\* A thread that disposes of an object still counts as one of its owners.
DyingIsCounted ==
  \A t \in Threads : pc[t] \in Disposing => dying[t] \in Objects /\ dying[t] \in ref[t]

\* Every object in the bag carries the weak reference or is being notified.
BoundIsWatched ==
  \A o \in Objects : keyTable[o] # NULL =>
    weak[o] \/ \E t \in Threads : pc[t] = "notify" /\ dying[t] = o

\* Every object in the bag is alive.
KeyedAreLive == \A o \in Objects : keyTable[o] # NULL => Live(o)

\* An object whose weak references were taken gets none while it is disposed of.
TakenIsUnwatched ==
  \A t \in Threads : pc[t] \in {"notify", "disposed"} => ~weak[dying[t]]

\* The part of the invariant that is about tables and objects.
ObjectInv == /\ NoFreedKey /\ TablesInverse
             /\ DyingIsCounted /\ BoundIsWatched /\ KeyedAreLive /\ TakenIsUnwatched

\* Giving up a reservation wakes threads but moves none into or out of a disposal.
LEMMA UnreserveDisposes ==
  ASSUME NEW k \in Keys, NEW w, NEW phase \in [Threads -> Phases],
         Unreserve(k, w, phase), NEW u \in Threads
  PROVE  \/ pc'[u] = phase[u]
         \/ phase[u] \in Waiting /\ pc'[u] \in Woken
<1>1. CASE w > 0
  BY <1>1, SignalKeeps DEF Unreserve
<1>2. CASE ~(w > 0)
  BY <1>2 DEF Unreserve
<1> QED
  BY <1>1, <1>2

\* A step that leaves the tables, the weak references and the disposals alone
\* and takes references at most.
LEMMA QuietObject ==
  ASSUME ObjectInv, UNCHANGED <<objectTable, keyTable, weak, dying>>,
         \A u \in Threads : ref[u] \subseteq ref'[u],
         \A u \in Threads : pc'[u] = pc[u] \/ (pc'[u] \notin Disposing /\ pc[u] \notin Disposing)
  PROVE  ObjectInv'
<1>1. NoFreedKey' /\ TablesInverse'
  BY DEF ObjectInv, NoFreedKey, TablesInverse
<1>2. DyingIsCounted'
  BY DEF ObjectInv, DyingIsCounted
<1>3. BoundIsWatched'
  BY DEF ObjectInv, BoundIsWatched, Disposing
<1>4. KeyedAreLive'
  BY DEF ObjectInv, KeyedAreLive, Live
<1>5. TakenIsUnwatched'
  BY DEF ObjectInv, TakenIsUnwatched, Disposing
<1> QED
  BY <1>1, <1>2, <1>3, <1>4, <1>5 DEF ObjectInv

\* Taking an object out of both tables keeps them inverse to each other.
LEMMA UnbindInverse ==
  ASSUME BagAssumption, TypeOK, NoFreedKey, TablesInverse, NEW o \in Objects,
         keyTable[o] # NULL, NEW objT \in WithoutKeyOf(o)
  PROVE  /\ keyTable[o] \in Keys
         /\ objT = [objectTable EXCEPT ![keyTable[o]] = NULL]
         /\ \A j \in Keys, p \in Objects :
              objT[j] = p <=> [keyTable EXCEPT ![o] = NULL][p] = j
<1>1. keyTable[o] \in Keys
  BY DEF TypeOK, NoFreedKey
<1>2. objT = [objectTable EXCEPT ![keyTable[o]] = NULL]
  BY DEF WithoutKeyOf, NoFreedKey
<1>3. ASSUME NEW j \in Keys, NEW p \in Objects
      PROVE  objT[j] = p <=> [keyTable EXCEPT ![o] = NULL][p] = j
  <2>1. objectTable[j] = p <=> keyTable[p] = j
    BY DEF TablesInverse
  <2>2. objectTable[j] = o <=> keyTable[o] = j
    BY DEF TablesInverse
  <2> QED
    BY <1>1, <1>2, <2>1, <2>2 DEF TypeOK, BagAssumption
<1> QED
  BY <1>1, <1>2, <1>3

\* Entering an object under a key that has none, neither of them being in the
\* tables, keeps the tables inverse to each other.
LEMMA BindInverse ==
  ASSUME BagAssumption, NEW objT \in [Keys -> Objects \cup {NULL}],
         NEW keyT \in [Objects -> Keys \cup {NULL, Freed}],
         NEW k \in Keys, NEW o \in Objects, objT[k] = NULL,
         \A j \in Keys : objT[j] # o,
         \A j \in Keys, p \in Objects : p # o => (objT[j] = p <=> keyT[p] = j),
         Bind(o, k, keyT, objT)
  PROVE  /\ TablesInverse'
         /\ keyTable' = [keyT EXCEPT ![o] = k]
         /\ objectTable' = [objT EXCEPT ![k] = o]
<1>1. keyTable' = [keyT EXCEPT ![o] = k] /\ objectTable' = [objT EXCEPT ![k] = o]
  BY DEF Bind
<1>2. ASSUME NEW j \in Keys, NEW p \in Objects
      PROVE  objectTable'[j] = p <=> keyTable'[p] = j
  BY <1>1, <1>2 DEF BagAssumption
<1> QED
  BY <1>1, <1>2 DEF TablesInverse

\* The tables, weak references and disposals fit together after every step.
LEMMA ObjectStep ==
  ASSUME BagAssumption, ~RenameOntoOpen, TypeOK, WaitInv, OwnedIsEmpty, HoldsIsOwner,
         ObjectInv, [Next]_vars
  PROVE  ObjectInv'
<1>1. ASSUME NEW t \in Threads, NEW k \in Keys, Find(t, k)
      PROVE  ObjectInv'
  <2>1. \A u \in Threads : ref[u] \subseteq ref'[u]
    BY <1>1 DEF Find, TypeOK
  <2> QED
    BY <1>1, <2>1, QuietObject DEF Find, bagVars
<1>2. ASSUME NEW t \in Threads, NEW k \in Keys, GetWait(t, k)
      PROVE  ObjectInv'
  <2>1. \A u \in Threads : pc'[u] = pc[u] \/ (pc'[u] \notin Disposing /\ pc[u] \notin Disposing)
    BY <1>2 DEF GetWait, WaitFor, MayBlockOn, TypeOK, Disposing
  <2> QED
    BY <1>2, <2>1, QuietObject DEF GetWait, WaitFor, bagVars, objVars
<1>3. ASSUME NEW t \in Threads, NEW k \in Keys, GetBetween(t, k)
      PROVE  ObjectInv'
  <2>1. Unreserve(k, waiters[k], pc)
    BY <1>3 DEF GetBetween
  <2>2. \A u \in Threads : pc'[u] = pc[u] \/ (pc'[u] \notin Disposing /\ pc[u] \notin Disposing)
    BY <2>1, UnreserveDisposes DEF TypeOK, Disposing, Waiting, Woken
  <2> QED
    BY <1>3, <2>2, QuietObject DEF GetBetween, bagVars, objVars
<1>4. ASSUME NEW t \in Threads, NEW k \in Keys, ReserveNew(t, k)
      PROVE  ObjectInv'
  BY <1>4, QuietObject DEF ReserveNew, bagVars, objVars
<1>5. ASSUME NEW t \in Threads, NEW k \in Keys, ReserveWait(t, k)
      PROVE  ObjectInv'
  <2>1. \A u \in Threads : pc'[u] = pc[u] \/ (pc'[u] \notin Disposing /\ pc[u] \notin Disposing)
    BY <1>5 DEF ReserveWait, WaitFor, MayBlockOn, TypeOK, Disposing
  <2> QED
    BY <1>5, <2>1, QuietObject DEF ReserveWait, WaitFor, bagVars, objVars
<1>6. ASSUME NEW t \in Threads, NEW k \in Keys, ReserveBetween(t, k)
      PROVE  ObjectInv'
  BY <1>6, QuietObject DEF ReserveBetween, bagVars, objVars
<1>7. ASSUME NEW t \in Threads, WaitAgain(t)
      PROVE  ObjectInv'
  <2>1. \A u \in Threads : pc'[u] = pc[u] \/ (pc'[u] \notin Disposing /\ pc[u] \notin Disposing)
    BY <1>7 DEF WaitAgain, WokenFrom, TypeOK, Disposing, Waiting, Woken
  <2> QED
    BY <1>7, <2>1, QuietObject DEF WaitAgain, bagVars, objVars
<1>8. ASSUME NEW t \in Threads, GetResume(t)
      PROVE  ObjectInv'
  <2>1. Unreserve(arg[t], waiters[arg[t]] - 1, [pc EXCEPT ![t] = "idle"])
    BY <1>8 DEF GetResume
  <2>2. arg[t] \in Keys /\ pc[t] \in Woken
    BY <1>8 DEF GetResume, WaitInv, PcArg, Woken, TypeOK
  <2>3. [pc EXCEPT ![t] = "idle"] \in [Threads -> Phases]
    BY DEF TypeOK, Phases
  <2>4. PICK phase \in [Threads -> Phases] : phase = [pc EXCEPT ![t] = "idle"]
    BY <2>3
  <2>5. \A u \in Threads :
          pc'[u] = phase[u] \/ (phase[u] \in Waiting /\ pc'[u] \in Woken)
    BY <2>1, <2>2, <2>4, UnreserveDisposes
  <2>6. \A u \in Threads : pc'[u] = pc[u] \/ (pc'[u] \notin Disposing /\ pc[u] \notin Disposing)
    BY <2>2, <2>4, <2>5 DEF TypeOK, Disposing, Waiting, Woken
  <2>7. \A u \in Threads : ref[u] \subseteq ref'[u]
    BY <1>8 DEF GetResume, TypeOK
  <2> QED
    BY <1>8, <2>6, <2>7, QuietObject DEF GetResume, bagVars
<1>9. ASSUME NEW t \in Threads, ReserveResume(t)
      PROVE  ObjectInv'
  <2>1. CASE objectTable[arg[t]] = NULL
    <3>1. \A u \in Threads : pc'[u] = pc[u] \/ (pc'[u] \notin Disposing /\ pc[u] \notin Disposing)
      BY <1>9, <2>1 DEF ReserveResume, TakeOver, TypeOK, Disposing
    <3> QED
      BY <1>9, <2>1, <3>1, QuietObject DEF ReserveResume, TakeOver, bagVars, objVars
  <2>2. CASE objectTable[arg[t]] # NULL
    <3>1. Unreserve(arg[t], waiters[arg[t]] - 1, [pc EXCEPT ![t] = "idle"])
      BY <1>9, <2>2 DEF ReserveResume
    <3>2. arg[t] \in Keys /\ pc[t] \in Woken
      BY <1>9 DEF ReserveResume, WaitInv, PcArg, Woken, TypeOK
    <3>3. [pc EXCEPT ![t] = "idle"] \in [Threads -> Phases]
      BY DEF TypeOK, Phases
    <3>4. PICK phase \in [Threads -> Phases] : phase = [pc EXCEPT ![t] = "idle"]
      BY <3>3
    <3>5. \A u \in Threads :
            pc'[u] = phase[u] \/ (phase[u] \in Waiting /\ pc'[u] \in Woken)
      BY <3>1, <3>2, <3>4, UnreserveDisposes
    <3>6. \A u \in Threads : pc'[u] = pc[u] \/ (pc'[u] \notin Disposing /\ pc[u] \notin Disposing)
      BY <3>2, <3>4, <3>5 DEF TypeOK, Disposing, Waiting, Woken
    <3>7. \A u \in Threads : ref[u] \subseteq ref'[u]
      BY <1>9, <2>2 DEF ReserveResume, TypeOK
    <3> QED
      BY <1>9, <2>2, <3>6, <3>7, QuietObject DEF ReserveResume, bagVars
  <2> QED
    BY <2>1, <2>2
<1>10. ASSUME NEW t \in Threads, SpuriousWakeup(t)
      PROVE  ObjectInv'
  <2>1. \A u \in Threads : pc'[u] = pc[u] \/ (pc'[u] \notin Disposing /\ pc[u] \notin Disposing)
    BY <1>10 DEF SpuriousWakeup, WokenFrom, TypeOK, Disposing, Waiting, Woken
  <2> QED
    BY <1>10, <2>1, QuietObject DEF SpuriousWakeup, bagVars, objVars
<1>11. ASSUME NEW t \in Threads, NEW k \in Keys, Abort(t, k)
      PROVE  ObjectInv'
  <2>1. Unreserve(k, waiters[k], pc)
    BY <1>11 DEF Abort
  <2>2. \A u \in Threads : pc'[u] = pc[u] \/ (pc'[u] \notin Disposing /\ pc[u] \notin Disposing)
    BY <2>1, UnreserveDisposes DEF TypeOK, Disposing, Waiting, Woken
  <2> QED
    BY <1>11, <2>2, QuietObject DEF Abort, bagVars, objVars
<1>12. ASSUME NEW t \in Threads, NEW k \in Keys, NEW o \in Objects, Add(t, k, o)
      PROVE  ObjectInv'
  <2>1. CASE keyTable[o] = NULL
    <3>1. Unreserve(k, waiters[k], pc)
      BY <1>12, <2>1 DEF Add
    <3>2. \A u \in Threads : pc'[u] = pc[u] \/ (pc'[u] \notin Disposing /\ pc[u] \notin Disposing)
      BY <3>1, UnreserveDisposes DEF TypeOK, Disposing, Waiting, Woken
    <3>3. objectTable[k] = NULL
      BY <1>12 DEF Add, HoldsIsOwner, OwnedIsEmpty, BagAssumption
    <3>4. \A j \in Keys, p \in Objects : objectTable[j] = p <=> keyTable[p] = j
      BY DEF ObjectInv, TablesInverse
    <3>5. \A j \in Keys : objectTable[j] # o
      BY <2>1, <3>4 DEF BagAssumption
    <3>6. Bind(o, k, keyTable, objectTable)
      BY <1>12, <2>1 DEF Add
    <3>7. TablesInverse' /\ keyTable' = [keyTable EXCEPT ![o] = k]
      BY <3>3, <3>4, <3>5, <3>6, BindInverse DEF TypeOK
    <3>8. weak' = [weak EXCEPT ![o] = TRUE] /\ dying' = dying
      BY <1>12, <2>1 DEF Add
    <3>9. /\ o \in ref'[t]
          /\ \A u \in Threads : ref[u] \subseteq ref'[u]
      BY <1>12 DEF Add, TypeOK
    <3>10. NoFreedKey'
      BY <3>7 DEF ObjectInv, NoFreedKey, TypeOK, BagAssumption
    <3>11. DyingIsCounted'
      BY <3>2, <3>8, <3>9 DEF ObjectInv, DyingIsCounted
    <3>12. BoundIsWatched'
      BY <3>2, <3>7, <3>8 DEF ObjectInv, BoundIsWatched, TypeOK, Disposing
    <3>13. KeyedAreLive'
      BY <3>7, <3>9 DEF ObjectInv, KeyedAreLive, Live, TypeOK
    <3>14. TakenIsUnwatched'
      <4> SUFFICES ASSUME NEW u \in Threads, pc'[u] \in {"notify", "disposed"}
                   PROVE  ~weak'[dying[u]]
        BY <3>8 DEF TakenIsUnwatched
      <4>1. pc[u] \in {"notify", "disposed"} /\ pc[u] \in Disposing
        BY <3>2 DEF Disposing
      <4>2. dying[u] \in Objects /\ dying[u] \in ref[u] /\ ~weak[dying[u]]
        BY <4>1 DEF ObjectInv, DyingIsCounted, TakenIsUnwatched
      <4>3. dying[u] # o
        BY <1>12, <4>2 DEF Add, Fresh, Live
      <4> QED
        BY <3>8, <4>2, <4>3 DEF TypeOK
    <3> QED
      BY <3>7, <3>10, <3>11, <3>12, <3>13, <3>14 DEF ObjectInv
  <2>2. CASE keyTable[o] # NULL
    <3>1. \A u \in Threads : ref[u] \subseteq ref'[u]
      BY <1>12 DEF Add, TypeOK
    <3> QED
      BY <1>12, <2>2, <3>1, QuietObject DEF Add, bagVars
  <2> QED
    BY <2>1, <2>2
<1>13. ASSUME NEW t \in Threads, NEW o \in Objects, Remove(t, o)
      PROVE  ObjectInv'
  <2>1. keyTable[o] # NULL /\ Unbind(o) /\ UNCHANGED <<ref, pc, dying>>
    BY <1>13 DEF Remove
  <2>2. weak' = [weak EXCEPT ![o] = FALSE]
    BY <1>13 DEF Remove
  <2>3. keyTable' = [keyTable EXCEPT ![o] = NULL] /\ objectTable' \in WithoutKeyOf(o)
    BY <2>1 DEF Unbind
  <2>4. NoFreedKey'
    BY <2>3 DEF ObjectInv, NoFreedKey, TypeOK, BagAssumption
  <2>5. TablesInverse'
    BY <2>1, <2>3, UnbindInverse DEF ObjectInv, TablesInverse
  <2>6. DyingIsCounted'
    BY <2>1 DEF ObjectInv, DyingIsCounted
  <2>7. BoundIsWatched'
    BY <2>1, <2>2, <2>3 DEF ObjectInv, BoundIsWatched, TypeOK
  <2>8. KeyedAreLive'
    BY <2>1, <2>3 DEF ObjectInv, KeyedAreLive, Live, TypeOK
  <2>9. TakenIsUnwatched'
    BY <2>1, <2>2 DEF ObjectInv, TakenIsUnwatched, DyingIsCounted, Disposing, TypeOK
  <2> QED
    BY <2>4, <2>5, <2>6, <2>7, <2>8, <2>9 DEF ObjectInv
<1>14. ASSUME NEW t \in Threads, NEW o \in Objects, NEW k \in Keys, Rekey(t, o, k)
      PROVE  ObjectInv'
  <2>1. /\ keyTable[o] # NULL /\ objectTable[k] = NULL
        /\ UNCHANGED <<ref, pc, dying, weak>>
    BY <1>14 DEF Rekey, objVars
  <2>2. PICK objT \in WithoutKeyOf(o) : Bind(o, k, keyTable, objT)
    BY <1>14 DEF Rekey
  <2>3. /\ objT \in [Keys -> Objects \cup {NULL}]
        /\ objT[k] = NULL
    BY <2>1, UnbindEmpties
  <2>4. \A j \in Keys, p \in Objects : objT[j] = p <=> [keyTable EXCEPT ![o] = NULL][p] = j
    BY <2>1, UnbindInverse DEF ObjectInv
  <2>5. \A j \in Keys, p \in Objects : p # o => (objT[j] = p <=> keyTable[p] = j)
    BY <2>4 DEF TypeOK
  <2>6. \A j \in Keys : objT[j] # o
    BY <2>4 DEF TypeOK, BagAssumption
  <2>7. TablesInverse' /\ keyTable' = [keyTable EXCEPT ![o] = k]
    <3>1. keyTable \in [Objects -> Keys \cup {NULL, Freed}]
      BY DEF TypeOK
    <3> QED
      BY <2>2, <2>3, <2>5, <2>6, <3>1, BindInverse
  <2>8. NoFreedKey'
    BY <2>7 DEF ObjectInv, NoFreedKey, TypeOK, BagAssumption
  <2>9. DyingIsCounted'
    BY <2>1 DEF ObjectInv, DyingIsCounted
  <2>10. BoundIsWatched'
    BY <2>1, <2>7 DEF ObjectInv, BoundIsWatched, TypeOK
  <2>11. KeyedAreLive'
    BY <2>1, <2>7 DEF ObjectInv, KeyedAreLive, Live, TypeOK
  <2>12. TakenIsUnwatched'
    BY <2>1 DEF ObjectInv, TakenIsUnwatched
  <2> QED
    BY <2>7, <2>8, <2>9, <2>10, <2>11, <2>12 DEF ObjectInv
<1>15. ASSUME NEW t \in Threads, List(t)
      PROVE  ObjectInv'
  <2>1. \A u \in Threads : ref[u] \subseteq ref'[u]
    BY <1>15 DEF List, TypeOK
  <2> QED
    BY <1>15, <2>1, QuietObject DEF List, bagVars
<1>16. ASSUME NEW t \in Threads, NEW o \in Objects, Unref(t, o)
      PROVE  ObjectInv'
  <2>1. /\ pc[t] = "idle" /\ UNCHANGED <<objectTable, keyTable, weak, dying, pc>>
        /\ \E u \in Threads \ {t} : o \in ref[u]
        /\ ref' = [ref EXCEPT ![t] = ref[t] \ {o}]
    BY <1>16 DEF Unref, bagVars
  <2>2. \A u \in Threads : u # t => ref'[u] = ref[u]
    BY <2>1 DEF TypeOK
  <2>3. ref'[t] = ref[t] \ {o}
    BY <2>1 DEF TypeOK
  <2>4. NoFreedKey' /\ TablesInverse' /\ BoundIsWatched' /\ TakenIsUnwatched'
    BY <2>1 DEF ObjectInv, NoFreedKey, TablesInverse, BoundIsWatched, TakenIsUnwatched
  <2>5. DyingIsCounted'
    BY <2>1, <2>2 DEF ObjectInv, DyingIsCounted, Disposing
  <2>6. KeyedAreLive'
    BY <2>1, <2>2, <2>3 DEF ObjectInv, KeyedAreLive, Live
  <2> QED
    BY <2>4, <2>5, <2>6 DEF ObjectInv
<1>17. ASSUME NEW t \in Threads, NEW o \in Objects, StartDispose(t, o)
      PROVE  ObjectInv'
  <2>1. /\ UNCHANGED <<objectTable, keyTable, weak, ref>> /\ o \in ref[t]
        /\ \A u \in Threads : u # t => pc'[u] = pc[u] /\ dying'[u] = dying[u]
        /\ pc[t] = "idle" /\ pc'[t] = "dispose" /\ dying'[t] = o
    BY <1>17 DEF StartDispose, bagVars, TypeOK
  <2>2. NoFreedKey' /\ TablesInverse' /\ KeyedAreLive'
    BY <2>1 DEF ObjectInv, NoFreedKey, TablesInverse, KeyedAreLive, Live
  <2>3. DyingIsCounted'
    BY <2>1 DEF ObjectInv, DyingIsCounted
  <2>4. BoundIsWatched'
    BY <2>1 DEF ObjectInv, BoundIsWatched
  <2>5. TakenIsUnwatched'
    BY <2>1 DEF ObjectInv, TakenIsUnwatched
  <2> QED
    BY <2>2, <2>3, <2>4, <2>5 DEF ObjectInv
<1>18. ASSUME NEW t \in Threads, TakeWeakRefs(t)
      PROVE  ObjectInv'
  <2>1. /\ UNCHANGED <<objectTable, keyTable, ref, dying>>
        /\ weak' = [weak EXCEPT ![dying[t]] = FALSE]
        /\ \A u \in Threads : u # t => pc'[u] = pc[u]
        /\ pc[t] = "dispose"
        /\ pc'[t] = IF weak[dying[t]] THEN "notify" ELSE "disposed"
    BY <1>18 DEF TakeWeakRefs, bagVars, TypeOK
  <2>2. NoFreedKey' /\ TablesInverse' /\ KeyedAreLive'
    BY <2>1 DEF ObjectInv, NoFreedKey, TablesInverse, KeyedAreLive, Live
  <2>3. DyingIsCounted'
    BY <2>1 DEF ObjectInv, DyingIsCounted, Disposing
  <2>4. BoundIsWatched'
    BY <2>1 DEF ObjectInv, BoundIsWatched, TypeOK
  <2>5. TakenIsUnwatched'
    <3> SUFFICES ASSUME NEW u \in Threads, pc'[u] \in {"notify", "disposed"}
                 PROVE  ~weak'[dying[u]]
      BY <2>1 DEF TakenIsUnwatched
    <3>1. pc[u] \in Disposing
      BY <2>1 DEF Disposing
    <3>2. dying[u] \in Objects
      BY <3>1 DEF ObjectInv, DyingIsCounted
    <3>3. u # t => ~weak[dying[u]]
      BY <2>1 DEF ObjectInv, TakenIsUnwatched
    <3> QED
      BY <2>1, <3>2, <3>3 DEF TypeOK
  <2> QED
    BY <2>2, <2>3, <2>4, <2>5 DEF ObjectInv
<1>19. ASSUME NEW t \in Threads, Notify(t)
      PROVE  ObjectInv'
  <2>1. /\ UNCHANGED <<ref, dying, weak>> /\ pc[t] = "notify" /\ pc'[t] = "disposed"
        /\ \A u \in Threads : u # t => pc'[u] = pc[u]
    BY <1>19 DEF Notify, objVars, TypeOK
  <2>2. dying[t] \in Objects
    BY <2>1 DEF ObjectInv, DyingIsCounted, Disposing
  <2>3. DyingIsCounted'
    BY <2>1 DEF ObjectInv, DyingIsCounted, Disposing
  <2>4. TakenIsUnwatched'
    BY <2>1 DEF ObjectInv, TakenIsUnwatched
  <2>5. CASE keyTable[dying[t]] # NULL
    <3>1. /\ keyTable' = [keyTable EXCEPT ![dying[t]] = NULL]
          /\ objectTable' \in WithoutKeyOf(dying[t])
      BY <1>19, <2>5 DEF Notify, Unbind
    <3>2. TablesInverse'
      BY <2>2, <2>5, <3>1, UnbindInverse DEF ObjectInv, TablesInverse
    <3>3. NoFreedKey'
      BY <2>2, <3>1 DEF ObjectInv, NoFreedKey, TypeOK, BagAssumption
    <3>4. BoundIsWatched'
      BY <2>1, <2>2, <3>1 DEF ObjectInv, BoundIsWatched, TypeOK
    <3>5. KeyedAreLive'
      BY <2>1, <2>2, <3>1 DEF ObjectInv, KeyedAreLive, Live, TypeOK
    <3> QED
      BY <2>3, <2>4, <3>2, <3>3, <3>4, <3>5 DEF ObjectInv
  <2>6. CASE keyTable[dying[t]] = NULL
    <3>1. UNCHANGED <<objectTable, keyTable>>
      BY <1>19, <2>6 DEF Notify, bagVars
    <3>2. NoFreedKey' /\ TablesInverse' /\ KeyedAreLive'
      BY <2>1, <3>1 DEF ObjectInv, NoFreedKey, TablesInverse, KeyedAreLive, Live
    <3>3. BoundIsWatched'
      BY <2>1, <2>6, <3>1 DEF ObjectInv, BoundIsWatched
    <3> QED
      BY <2>3, <2>4, <3>2, <3>3 DEF ObjectInv
  <2> QED
    BY <2>5, <2>6
<1>20. ASSUME NEW t \in Threads, Drop(t)
      PROVE  ObjectInv'
  <2>1. /\ UNCHANGED <<objectTable, keyTable, weak>>
        /\ \A u \in Threads : u # t => /\ pc'[u] = pc[u] /\ dying'[u] = dying[u]
                                     /\ ref'[u] = ref[u]
        /\ pc[t] = "disposed" /\ pc'[t] = "idle" /\ ref'[t] = ref[t] \ {dying[t]}
    BY <1>20 DEF Drop, bagVars, TypeOK
  <2>2. NoFreedKey' /\ TablesInverse'
    BY <2>1 DEF ObjectInv, NoFreedKey, TablesInverse
  <2>3. DyingIsCounted'
    BY <2>1 DEF ObjectInv, DyingIsCounted, Disposing
  <2>4. BoundIsWatched'
    BY <2>1 DEF ObjectInv, BoundIsWatched
  <2>5. KeyedAreLive'
    <3> SUFFICES ASSUME NEW o \in Objects, keyTable[o] # NULL
                 PROVE  \E u \in Threads : o \in ref'[u]
      BY <2>1 DEF KeyedAreLive, Live
    <3>1. PICK u \in Threads : o \in ref[u]
      BY DEF ObjectInv, KeyedAreLive, Live
    <3>2. CASE dying[t] = o
      <4>1. ~weak[o]
        BY <2>1, <3>2 DEF ObjectInv, TakenIsUnwatched
      <4>2. PICK v \in Threads : pc[v] = "notify" /\ dying[v] = o
        BY <4>1 DEF ObjectInv, BoundIsWatched
      <4>3. v # t /\ o \in ref[v]
        BY <2>1, <4>2 DEF ObjectInv, DyingIsCounted, Disposing
      <4> QED
        BY <2>1, <4>3
    <3>3. CASE dying[t] # o
      BY <2>1, <3>1, <3>3
    <3> QED
      BY <3>2, <3>3
  <2>6. TakenIsUnwatched'
    BY <2>1 DEF ObjectInv, TakenIsUnwatched
  <2> QED
    BY <2>2, <2>3, <2>4, <2>5, <2>6 DEF ObjectInv
<1>21. CASE Destroy
  <2>1. /\ UNCHANGED <<pc, ref, dying>>
        /\ weak' = [o \in Objects |-> weak[o] /\ \A k \in Keys : objectTable[k] # o]
        /\ objectTable' = [k \in Keys |-> NULL]
        /\ keyTable' = [o \in Objects |-> NULL]
    BY <1>21 DEF Destroy
  <2>2. NoFreedKey' /\ TablesInverse' /\ BoundIsWatched' /\ KeyedAreLive'
    BY <2>1 DEF NoFreedKey, TablesInverse, BoundIsWatched, KeyedAreLive, BagAssumption
  <2>3. DyingIsCounted'
    BY <2>1 DEF ObjectInv, DyingIsCounted
  <2>4. TakenIsUnwatched'
    BY <2>1 DEF ObjectInv, TakenIsUnwatched, DyingIsCounted, Disposing
  <2> QED
    BY <2>2, <2>3, <2>4 DEF ObjectInv
<1>22. CASE New
  BY <1>22, QuietObject DEF New, bagVars, objVars
<1>23. CASE UNCHANGED vars
  BY <1>23, QuietObject DEF vars
<1> QED
  BY <1>1, <1>2, <1>3, <1>4, <1>5, <1>6, <1>7, <1>8, <1>9, <1>10, <1>11, <1>12,
     <1>13, <1>14, <1>15, <1>16, <1>17, <1>18, <1>19, <1>20, <1>21, <1>22, <1>23
     DEF Next, Lookup, Reserve, Resume, Finish, Change, Release, Dispose

-----------------------------------------------------------------------------
(* The inductive invariants.  What concerns waiting holds whatever keys the *)
(* callers rekey to; the rest needs them to keep off the keys in use.       *)

WaitIInv == TypeOK /\ WaitInv

IInv == WaitIInv /\ OwnedIsEmpty /\ HoldsIsOwner /\ ObjectInv

\* Nobody waits, builds or has anything at first.
LEMMA InitIInv ==
  ASSUME BagAssumption, Init
  PROVE  IInv
<1>1. TypeOK
  BY DEF Init, TypeOK, Phases
<1>2. PcArg /\ WaitsOnReserved /\ NoLostWakeup
  BY DEF Init, PcArg, WaitsOnReserved, NoLostWakeup, Waiting, Woken
<1>3. Counted
  <2> SUFFICES ASSUME NEW k \in Keys PROVE waiters[k] = Cardinality(WaitersOf(k))
    BY DEF Counted
  <2>1. WaitersOf(k) = {}
    BY DEF Init, WaitersOf, BagAssumption
  <2> QED
    BY <2>1, FS_EmptySet DEF Init
<1>4. OwnedIsEmpty /\ HoldsIsOwner
  BY DEF Init, OwnedIsEmpty, HoldsIsOwner, BagAssumption
<1>5. NoFreedKey /\ TablesInverse
  BY DEF Init, NoFreedKey, TablesInverse, BagAssumption
<1>6. DyingIsCounted /\ BoundIsWatched /\ KeyedAreLive /\ TakenIsUnwatched
  BY DEF Init, DyingIsCounted, BoundIsWatched, KeyedAreLive, TakenIsUnwatched, Disposing
<1> QED
  BY <1>1, <1>2, <1>3, <1>4, <1>5, <1>6 DEF IInv, WaitIInv, WaitInv, ObjectInv

\* Every step keeps the invariant of the waiters, whatever is rekeyed.
LEMMA WaitIInvStep ==
  ASSUME BagAssumption, WaitIInv, [Next]_vars
  PROVE  WaitIInv'
<1>1. PcArg /\ WaitersKeepReservation
  BY DEF WaitIInv, WaitInv, Counted, WaitsOnReserved, WaitersKeepReservation
<1>2. TypeOK'
  BY <1>1, TypeStep DEF WaitIInv
<1> QED
  BY <1>2, WaitStep DEF WaitIInv

\* Every step keeps the whole invariant, unless it rekeys onto a name in use.
LEMMA IInvStep ==
  ASSUME BagAssumption, ~RenameOntoOpen, IInv, [Next]_vars
  PROVE  IInv'
BY WaitIInvStep, OwnerStep, ObjectStep DEF IInv, WaitIInv

\* So the first holds in every behaviour,
LEMMA WaitInvariant == ASSUME BagAssumption PROVE Spec => []WaitIInv
<1>1. Init => WaitIInv
  BY InitIInv DEF IInv
<1>2. WaitIInv /\ [Next]_vars => WaitIInv'
  BY WaitIInvStep
<1> QED
  BY <1>1, <1>2, PTL DEF Spec

\* and the second where callers rekey onto free names only.
LEMMA Invariant == ASSUME BagAssumption, ~RenameOntoOpen PROVE Spec => []IInv
<1>1. Init => IInv
  BY InitIInv
<1>2. IInv /\ [Next]_vars => IInv'
  BY IInvStep
<1> QED
  BY <1>1, <1>2, PTL DEF Spec

-----------------------------------------------------------------------------
(* The theorems.                                                           *)

\* Type correctness; above all, no waiter is taken off a count that is zero.
THEOREM TypeCorrect == Spec => []TypeOK
<1>1. WaitIInv => TypeOK
  BY DEF WaitIInv
<1> QED
  BY <1>1, BagAssumption, WaitInvariant, PTL

\* For any number of threads, a reservation is not freed under a thread that
\* waits for it, and its count of waiters is right.
THEOREM WaitersAreSafe == Spec => []WaitersKeepReservation
<1>1. WaitIInv => WaitersKeepReservation
  BY DEF WaitIInv, WaitInv, Counted, WaitsOnReserved, WaitersKeepReservation
<1> QED
  BY <1>1, BagAssumption, WaitInvariant, PTL

\* For any number of threads, the single g_cond_signal of a hand-over is enough:
\* a reservation without an owner has a thread that is awake to take it.
THEOREM SignalSuffices == Spec => []NoLostWakeup
<1>1. WaitIInv => NoLostWakeup
  BY DEF WaitIInv, WaitInv
<1> QED
  BY <1>1, BagAssumption, WaitInvariant, PTL

\* At most one thread builds the object of a key, which has none meanwhile.
THEOREM BuildersExclude ==
  ASSUME ~RenameOntoOpen PROVE Spec => []ExclusiveBuilder
<1>1. IInv => ExclusiveBuilder
  BY BagAssumption DEF IInv, WaitIInv, TypeOK, OwnedIsEmpty, HoldsIsOwner, ExclusiveBuilder
<1> QED
  BY <1>1, BagAssumption, Invariant, PTL

\* As long as nobody rekeys onto a key in use, the tables never disagree.
THEOREM TablesAgree ==
  ASSUME ~RenameOntoOpen PROVE Spec => []TablesInverse
<1>1. IInv => TablesInverse
  BY DEF IInv, ObjectInv
<1> QED
  BY <1>1, BagAssumption, Invariant, PTL

\* No lookup returns an object whose last reference is gone.
THEOREM LookupsAreLive ==
  ASSUME ~RenameOntoOpen PROVE Spec => []BoundAreLive
<1>1. IInv => BoundAreLive
  <2> SUFFICES ASSUME IInv, NEW k \in Keys, objectTable[k] # NULL
               PROVE  Live(objectTable[k])
    BY DEF BoundAreLive
  <2>1. objectTable[k] \in Objects
    BY DEF IInv, WaitIInv, TypeOK
  <2>2. keyTable[objectTable[k]] = k
    BY <2>1 DEF IInv, ObjectInv, TablesInverse
  <2> QED
    BY BagAssumption, <2>1, <2>2 DEF IInv, ObjectInv, KeyedAreLive
<1> QED
  BY <1>1, BagAssumption, Invariant, PTL

-----------------------------------------------------------------------------
(* The bag implements the abstract cache.                                  *)

\* A step that changes neither the table nor an owner is a stutter.
LEMMA Stutter ==
  ASSUME UNCHANGED <<objectTable, owner>>
  PROVE  [Cache!Next]_<<objectTable, owner>>
OBVIOUS

\* So is giving up a reservation that had no owner.
LEMMA UnreserveStutters ==
  ASSUME TypeOK, NEW k \in Keys, owner[k] = NULL, NEW w, NEW phase,
         Unreserve(k, w, phase), UNCHANGED objectTable
  PROVE  [Cache!Next]_<<objectTable, owner>>
<1>1. owner' = owner
  BY DEF Unreserve, TypeOK
<1> QED
  BY <1>1, Stutter

\* Becoming the owner of a key begins a transaction.
LEMMA OwningBegins ==
  ASSUME NEW t \in Threads, NEW k \in Keys, objectTable[k] = NULL, owner[k] = NULL,
         owner' = [owner EXCEPT ![k] = t], UNCHANGED objectTable
  PROVE  [Cache!Next]_<<objectTable, owner>>
<1>1. Cache!Begin(t, k)
  BY DEF Cache!Begin, Cache!Free
<1> QED
  BY <1>1 DEF Cache!Next

\* Taking an object out of the tables forgets its key.
LEMMA UnbindForgets ==
  ASSUME BagAssumption, TypeOK, ObjectInv, NEW o \in Objects, keyTable[o] # NULL,
         Unbind(o), UNCHANGED owner
  PROVE  [Cache!Next]_<<objectTable, owner>>
<1>1. /\ keyTable[o] \in Keys
      /\ objectTable' = [objectTable EXCEPT ![keyTable[o]] = NULL]
  BY UnbindInverse DEF Unbind, ObjectInv
<1>2. objectTable[keyTable[o]] # NULL
  BY <1>1 DEF ObjectInv, TablesInverse, BagAssumption
<1>3. Cache!Forget(keyTable[o])
  BY <1>1, <1>2 DEF Cache!Forget
<1> QED
  BY <1>1, <1>3 DEF Cache!Next

\* Every step of the bag is a step of the cache, or none.
LEMMA CacheStep ==
  ASSUME BagAssumption, ~RenameOntoOpen, IInv, [Next]_vars
  PROVE  [Cache!Next]_<<objectTable, owner>>
<1> USE DEF IInv, WaitIInv
<1>1. ASSUME NEW t \in Threads, NEW k \in Keys, Find(t, k)
      PROVE  [Cache!Next]_<<objectTable, owner>>
  BY <1>1, Stutter DEF Find, bagVars, resVars
<1>2. ASSUME NEW t \in Threads, NEW k \in Keys, GetWait(t, k)
      PROVE  [Cache!Next]_<<objectTable, owner>>
  BY <1>2, Stutter DEF GetWait, WaitFor, bagVars
<1>3. ASSUME NEW t \in Threads, NEW k \in Keys, GetBetween(t, k)
      PROVE  [Cache!Next]_<<objectTable, owner>>
  BY <1>3, UnreserveStutters DEF GetBetween, bagVars
<1>4. ASSUME NEW t \in Threads, NEW k \in Keys, ReserveNew(t, k)
      PROVE  [Cache!Next]_<<objectTable, owner>>
  <2>1. owner[k] = NULL
    BY <1>4 DEF ReserveNew, OwnedIsEmpty
  <2> QED
    BY <1>4, <2>1, OwningBegins DEF ReserveNew, bagVars
<1>5. ASSUME NEW t \in Threads, NEW k \in Keys, ReserveWait(t, k)
      PROVE  [Cache!Next]_<<objectTable, owner>>
  BY <1>5, Stutter DEF ReserveWait, WaitFor, bagVars
<1>6. ASSUME NEW t \in Threads, NEW k \in Keys, ReserveBetween(t, k)
      PROVE  [Cache!Next]_<<objectTable, owner>>
  BY <1>6, OwningBegins DEF ReserveBetween, bagVars
<1>7. ASSUME NEW t \in Threads, WaitAgain(t)
      PROVE  [Cache!Next]_<<objectTable, owner>>
  BY <1>7, Stutter DEF WaitAgain, bagVars, resVars
<1>8. ASSUME NEW t \in Threads, GetResume(t)
      PROVE  [Cache!Next]_<<objectTable, owner>>
  <2>1. arg[t] \in Keys
    BY <1>8 DEF GetResume, WaitInv, PcArg, Woken, TypeOK
  <2> QED
    BY <1>8, <2>1, UnreserveStutters DEF GetResume, bagVars
<1>9. ASSUME NEW t \in Threads, ReserveResume(t)
      PROVE  [Cache!Next]_<<objectTable, owner>>
  <2>1. arg[t] \in Keys
    BY <1>9 DEF ReserveResume, WaitInv, PcArg, Woken, TypeOK
  <2>2. owner[arg[t]] = NULL
    BY <1>9 DEF ReserveResume
  <2>3. CASE objectTable[arg[t]] = NULL
    BY <1>9, <2>1, <2>2, <2>3, OwningBegins DEF ReserveResume, TakeOver, bagVars
  <2>4. CASE objectTable[arg[t]] # NULL
    BY <1>9, <2>1, <2>2, <2>4, UnreserveStutters DEF ReserveResume, bagVars
  <2> QED
    BY <2>3, <2>4
<1>10. ASSUME NEW t \in Threads, SpuriousWakeup(t)
      PROVE  [Cache!Next]_<<objectTable, owner>>
  BY <1>10, Stutter DEF SpuriousWakeup, bagVars, resVars
<1>11. ASSUME NEW t \in Threads, NEW k \in Keys, Abort(t, k)
      PROVE  [Cache!Next]_<<objectTable, owner>>
  <2>1. Cache!GiveUp(k)
    BY <1>11 DEF Abort, Unreserve, bagVars, BagAssumption, Cache!GiveUp
  <2> QED
    BY <2>1 DEF Cache!Next
<1>12. ASSUME NEW t \in Threads, NEW k \in Keys, NEW o \in Objects, Add(t, k, o)
      PROVE  [Cache!Next]_<<objectTable, owner>>
  <2>1. CASE keyTable[o] = NULL
    <3>1. owner[k] # NULL /\ objectTable[k] = NULL
      BY <1>12 DEF Add, HoldsIsOwner, OwnedIsEmpty, BagAssumption
    <3>2. \A j \in Keys : objectTable[j] # o
      BY <2>1 DEF ObjectInv, TablesInverse, BagAssumption
    <3>3. objectTable' = [objectTable EXCEPT ![k] = o] /\ owner' = [owner EXCEPT ![k] = NULL]
      BY <1>12, <2>1 DEF Add, Bind, Unreserve
    <3>4. Cache!Commit(k, o)
      BY <3>1, <3>2, <3>3 DEF Cache!Commit
    <3> QED
      BY <3>4 DEF Cache!Next
  <2>2. CASE keyTable[o] # NULL
    BY <1>12, <2>2, Stutter DEF Add, bagVars, resVars
  <2> QED
    BY <2>1, <2>2
<1>13. ASSUME NEW t \in Threads, NEW o \in Objects, Remove(t, o)
      PROVE  [Cache!Next]_<<objectTable, owner>>
  BY <1>13, UnbindForgets DEF Remove, resVars
<1>14. ASSUME NEW t \in Threads, NEW o \in Objects, NEW k \in Keys, Rekey(t, o, k)
      PROVE  [Cache!Next]_<<objectTable, owner>>
  <2>1. keyTable[o] # NULL /\ objectTable[k] = NULL /\ owner[k] = NULL
    BY <1>14 DEF Rekey, OwnedIsEmpty
  <2>2. PICK objT \in WithoutKeyOf(o) : Bind(o, k, keyTable, objT)
    BY <1>14 DEF Rekey
  <2>3. keyTable[o] \in Keys /\ objT = [objectTable EXCEPT ![keyTable[o]] = NULL]
    BY <2>1, UnbindInverse DEF ObjectInv
  <2>4. objectTable[keyTable[o]] = o
    BY <2>3 DEF ObjectInv, TablesInverse
  <2>5. objectTable' = [objT EXCEPT ![k] = o]
    BY <2>2 DEF Bind
  <2>6. Cache!Move(keyTable[o], k)
    BY <1>14, <2>1, <2>3, <2>4, <2>5 DEF Rekey, resVars, BagAssumption, Cache!Move, Cache!Free
  <2> QED
    BY <2>3, <2>6 DEF Cache!Next
<1>15. ASSUME NEW t \in Threads, List(t)
      PROVE  [Cache!Next]_<<objectTable, owner>>
  BY <1>15, Stutter DEF List, bagVars, resVars
<1>16. ASSUME NEW t \in Threads, NEW o \in Objects, Unref(t, o)
      PROVE  [Cache!Next]_<<objectTable, owner>>
  BY <1>16, Stutter DEF Unref, bagVars, resVars
<1>17. ASSUME NEW t \in Threads, NEW o \in Objects, StartDispose(t, o)
      PROVE  [Cache!Next]_<<objectTable, owner>>
  BY <1>17, Stutter DEF StartDispose, bagVars, resVars
<1>18. ASSUME NEW t \in Threads, TakeWeakRefs(t)
      PROVE  [Cache!Next]_<<objectTable, owner>>
  BY <1>18, Stutter DEF TakeWeakRefs, bagVars, resVars
<1>19. ASSUME NEW t \in Threads, Notify(t)
      PROVE  [Cache!Next]_<<objectTable, owner>>
  <2>1. dying[t] \in Objects /\ UNCHANGED owner
    BY <1>19 DEF Notify, resVars, ObjectInv, DyingIsCounted, Disposing
  <2>2. CASE keyTable[dying[t]] # NULL
    BY <1>19, <2>1, <2>2, UnbindForgets DEF Notify
  <2>3. CASE keyTable[dying[t]] = NULL
    BY <1>19, <2>1, <2>3, Stutter DEF Notify, bagVars
  <2> QED
    BY <2>2, <2>3
<1>20. ASSUME NEW t \in Threads, Drop(t)
      PROVE  [Cache!Next]_<<objectTable, owner>>
  BY <1>20, Stutter DEF Drop, bagVars, resVars
<1>21. CASE Destroy
  <2>1. Cache!Clear
    BY <1>21 DEF Destroy, resVars, OwnedIsEmpty, Cache!Clear
  <2> QED
    BY <2>1 DEF Cache!Next
<1>22. CASE New
  BY <1>22, Stutter DEF New, bagVars, resVars
<1>23. CASE UNCHANGED vars
  BY <1>23, Stutter DEF vars
<1> QED
  BY <1>1, <1>2, <1>3, <1>4, <1>5, <1>6, <1>7, <1>8, <1>9, <1>10, <1>11, <1>12,
     <1>13, <1>14, <1>15, <1>16, <1>17, <1>18, <1>19, <1>20, <1>21, <1>22, <1>23
     DEF Next, Lookup, Reserve, Resume, Finish, Change, Release, Dispose

\* For any sets of threads, keys and objects, reservations look atomic: the
\* bag implements the keyed cache.
THEOREM BagIsCache ==
  ASSUME ~RenameOntoOpen PROVE Spec => CacheSpec
<1>1. Init => Cache!Init
  BY DEF Init, Cache!Init
<1>2. IInv /\ [Next]_vars => [Cache!Next]_<<objectTable, owner>>
  BY BagAssumption, CacheStep
<1>3. Spec => []IInv
  BY BagAssumption, Invariant
<1> QED
  BY <1>1, <1>2, <1>3, PTL DEF Spec, CacheSpec, Cache!Spec
=============================================================================
