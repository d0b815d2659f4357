--------------------------- MODULE CamelLockProofs ---------------------------
(***************************************************************************)
(* Theorems about CamelLock for any number of programs, threads and        *)
(* messages, and any age at which a lock is stale.                         *)
(***************************************************************************)
EXTENDS CamelLock, TLAPS

\* A thread that has been granted the lock and has not given it back.
Holding(t) == thread[t] \in {"copy", "truncate", "unlock"}
Busy(t)    == thread[t] = "asking" \/ Holding(t)

\* A lock that a helper has was asked for at least once more than given back.
Counted == \A p \in has : depth[p] >= 1

\* The helper's list and what its process does: only a helper that answers
\* requests or grants one has a lock, and no helper dies alone.
HelperHas ==
  /\ \A p \in has : helper[p] \in {"idle", "grant"}
  /\ \A p \in Programs : helper[p] = "grant" => p \in has
  /\ \A p \in Programs : helper[p] # "dead"

\* The lock file is that of the one helper that has the lock, and is refreshed
\* before it looks stale; a stale one is removed by one helper at a time.
FileOfHolder ==
  /\ \A p \in has : lockFile = stamp[p]
  /\ \A p, q \in has : p = q
  /\ \A p \in Programs : helper[p] = "unlink" => lockFile \in Nat /\ lockFile > Stale
  /\ \A p, q \in Programs : helper[p] = "unlink" /\ helper[q] = "unlink" => p = q

\* A program that was granted the lock has it; the one thread that knows the id
\* of the lock may give it back only when nobody else was granted it.
LockHeld ==
  /\ \A t \in Threads : Holding(t) => ProgramOf[t] \in has
  /\ \A t, u \in Threads :
       ProgramOf[t] = ProgramOf[u] /\ Busy(t) /\ id[t] /\ Busy(u) /\ id[u] => t = u
  /\ \A t, u \in Threads :
       ProgramOf[t] = ProgramOf[u] /\ Busy(t) /\ id[t] /\ Busy(u) /\ ~id[u]
         => ProgramOf[t] \in has /\ depth[ProgramOf[t]] >= 2
  /\ \A t \in Threads : Busy(t) /\ ~id[t] => ProgramOf[t] \in has

\* What is truncated has been copied.
Copied == \A t \in Threads : thread[t] = "truncate" => spool \subseteq dest[ProgramOf[t]]

LockInv == HelperHas /\ FileOfHolder /\ LockHeld

\* Without a second request for a lock that the helper has.
OneAtATime ==
  /\ \A t, u \in Threads : ProgramOf[t] = ProgramOf[u] /\ Busy(t) /\ Busy(u) => t = u
  /\ \A t \in Threads : Busy(t) => id[t]
  /\ \A p \in has : depth[p] = 1
  /\ \A p \in has : \E t \in Of(p) : Busy(t) \/ thread[t] = "gone"
  /\ \A p \in Programs : helper[p] \in {"try", "stat", "unlink"} =>
       \E t \in Of(p) : thread[t] \in {"asking", "gone"}

-----------------------------------------------------------------------------
\* Every variable keeps its type, and no lock is counted below one: for the type
\* of depth, which unlock_id lowers.
LEMMA LockTyped == Spec => [](TypeOK /\ Counted)
<1>1. Init => TypeOK /\ Counted
  BY DEF Init, TypeOK, Counted
<1>2. ASSUME TypeOK, Counted, [Next]_vars  PROVE TypeOK' /\ Counted'
  <2> USE <1>2, LockAssumption DEF TypeOK, Counted, helperVars, mailVars
  <2>1. CASE Deliver
    BY <2>1 DEF Deliver
  <2>2. CASE Tick
    BY <2>2 DEF Tick
  <2>3. ASSUME NEW p \in Programs, Crash(p)  PROVE TypeOK' /\ Counted'
    BY <2>3 DEF Crash
  <2>4. ASSUME NEW p \in Programs, Helper(p)  PROVE TypeOK' /\ Counted'
    <3>1. CASE Link(p)
      BY <3>1 DEF Link
    <3>2. CASE Stat(p)
      BY <3>2 DEF Stat, Refused
    <3>3. CASE RemoveStale(p)
      BY <3>3 DEF RemoveStale, Refused
    <3>4. CASE Touch(p)
      BY <3>4 DEF Touch
    <3>5. CASE Exit(p)
      BY <3>5 DEF Exit
    <3>6. QED  BY <2>4, <3>1, <3>2, <3>3, <3>4, <3>5 DEF Helper
  <2>5. ASSUME NEW t \in Threads, AskLock(t)  PROVE TypeOK' /\ Counted'
    BY <2>5 DEF AskLock, Step
  <2>6. ASSUME NEW t \in Threads, Works(t)  PROVE TypeOK' /\ Counted'
    <3>1. CASE Answered(t)
      BY <3>1 DEF Answered, Step
    <3>2. CASE Copy(t)
      BY <3>2 DEF Copy, Step
    <3>3. CASE Truncate(t)
      BY <3>3 DEF Truncate, Step
    <3>4. CASE Unlock(t)
      <4> DEFINE p == ProgramOf[t]
                 known == helper[p] = "idle" /\ p \in has /\ id[t]
      <4>1. known => depth[p] >= 1
        OBVIOUS
      <4>2. depth' = [depth EXCEPT ![p] = IF known THEN @ - 1 ELSE @]
        BY <3>4 DEF Unlock
      <4>3. depth' \in [Programs -> Nat]
        BY <4>1, <4>2
      <4>4. Counted'
        BY <4>2, <3>4 DEF Unlock
      <4>5. QED  BY <4>3, <4>4, <3>4 DEF Unlock, Step
    <3>5. QED  BY <2>6, <3>1, <3>2, <3>3, <3>4 DEF Works
  <2>7. CASE UNCHANGED vars
    BY <2>7 DEF vars
  <2>8. QED  BY <1>2, <2>1, <2>2, <2>3, <2>4, <2>5, <2>6, <2>7 DEF Next
<1>3. QED  BY <1>1, <1>2, PTL DEF Spec

-----------------------------------------------------------------------------
\* LockInv and what it rests on.
IInv == TypeOK /\ Counted /\ LockInv

\* The helper that has the lock keeps its file fresh, so the file is never taken
\* for a stale one.
LEMMA HolderIsFresh ==
  ASSUME IInv, NEW p \in has
  PROVE  /\ lockFile \in {0, 1} /\ lockFile # NULL /\ ~(lockFile > Stale)
         /\ \A q \in Programs : helper[q] # "unlink"
BY LockAssumption DEF IInv, LockInv, TypeOK, FileOfHolder

\* The world: another program that delivers, time, and programs that are killed.
LEMMA WorldKeepsLock ==
  ASSUME IInv, "helper" \notin Faults,
         Deliver \/ Tick \/ \E p \in Programs : Crash(p)
  PROVE  LockInv'
<1> USE DEF IInv, LockInv, TypeOK
<1>1. CASE Deliver
  BY <1>1 DEF Deliver, helperVars, HelperHas, FileOfHolder, LockHeld, Holding, Busy
<1>2. CASE Tick
  <2>1. HelperHas' /\ LockHeld'
    BY <1>2 DEF Tick, HelperHas, LockHeld, Holding, Busy
  <2>2. ASSUME NEW p \in has  PROVE stamp[p] = 0
    BY <1>2, <2>2 DEF Tick, Due
  <2>3. ASSUME NEW p \in has  PROVE lockFile' = stamp'[p]
    BY <1>2, <2>2, <2>3, HolderIsFresh DEF Tick, FileOfHolder
  <2>4. ASSUME NEW p \in Programs, helper[p] = "unlink"  PROVE lockFile' > Stale
    BY <1>2, <2>4, LockAssumption DEF Tick, FileOfHolder
  <2>5. FileOfHolder'
    BY <1>2, <2>3, <2>4, LockAssumption DEF Tick, FileOfHolder
  <2>6. QED  BY <2>1, <2>5
<1>3. ASSUME NEW p \in Programs, Crash(p)  PROVE LockInv'
  <2>1. CASE /\ helper' = helper /\ has' = has
             /\ thread' = [t \in Threads |-> IF t \in Of(p) THEN "gone" ELSE thread[t]]
    <3>1. UNCHANGED <<lockFile, depth, stamp, id>>
      BY <1>3 DEF Crash
    <3>2. \A t \in Threads : /\ Busy(t)' => Busy(t) /\ thread'[t] = thread[t]
                             /\ Holding(t)' => Holding(t)
      BY <2>1 DEF Busy, Holding
    <3>3. HelperHas' /\ FileOfHolder'
      BY <2>1, <3>1 DEF HelperHas, FileOfHolder
    <3>4. LockHeld'
      BY <2>1, <3>1, <3>2 DEF LockHeld
    <3>5. QED  BY <3>3, <3>4
  <2>2. CASE /\ helper' = [helper EXCEPT ![p] = "off"] /\ has' = has \ {p}
             /\ thread' = [t \in Threads |-> IF t \in Of(p) THEN "idle" ELSE thread[t]]
    <3>1. UNCHANGED <<lockFile, depth, stamp, id>>
      BY <1>3 DEF Crash
    <3>2. \A t \in Threads : /\ Busy(t)' => Busy(t) /\ ProgramOf[t] # p
                             /\ Holding(t)' => Holding(t) /\ ProgramOf[t] # p
      BY <2>2 DEF Busy, Holding, Of
    <3>3. HelperHas' /\ FileOfHolder'
      BY <2>2, <3>1 DEF HelperHas, FileOfHolder
    <3>4. LockHeld'
      BY <2>2, <3>1, <3>2 DEF LockHeld
    <3>5. QED  BY <3>3, <3>4
  <2>3. QED  BY <1>3, <2>1, <2>2 DEF Crash
<1>4. QED  BY <1>1, <1>2, <1>3

\* The helpers.
LEMMA HelpersKeepLock ==
  ASSUME IInv, "steal" \notin Faults, NEW p \in Programs, Helper(p)
  PROVE  LockInv'
<1> USE LockAssumption DEF IInv, LockInv, TypeOK
<1>1. CASE Link(p) /\ lockFile = NULL
  <2>1. has = {} /\ \A q \in Programs : helper[q] # "unlink"
    BY <1>1, HolderIsFresh DEF FileOfHolder
  <2>2. HelperHas' /\ FileOfHolder'
    BY <1>1, <2>1 DEF Link, HelperHas, FileOfHolder
  <2>3. LockHeld'
    BY <1>1, <2>1 DEF Link, LockHeld, Holding, Busy
  <2>4. QED  BY <2>2, <2>3
<1>2. CASE Link(p) /\ lockFile # NULL
  <2>1. p \notin has
    BY <1>2 DEF Link, HelperHas
  <2>2. HelperHas' /\ FileOfHolder'
    BY <1>2, <2>1 DEF Link, HelperHas, FileOfHolder
  <2>3. LockHeld'
    BY <1>2 DEF Link, LockHeld, Holding, Busy
  <2>4. QED  BY <2>2, <2>3
<1>3. CASE Stat(p)
  <2>1. p \notin has
    BY <1>3 DEF Stat, HelperHas
  <2>2. HelperHas'
    BY <1>3, <2>1 DEF Stat, Refused, HelperHas
  <2>3. FileOfHolder'
    BY <1>3, <2>1 DEF Stat, Refused, FileOfHolder
  <2>4. LockHeld'
    BY <1>3 DEF Stat, LockHeld, Holding, Busy
  <2>5. QED  BY <2>2, <2>3, <2>4
<1>4. CASE RemoveStale(p)
  <2>1. has = {}
    BY <1>4, HolderIsFresh DEF RemoveStale
  <2>2. HelperHas' /\ FileOfHolder'
    BY <1>4, <2>1 DEF RemoveStale, Refused, HelperHas, FileOfHolder
  <2>3. LockHeld'
    BY <1>4 DEF RemoveStale, LockHeld, Holding, Busy
  <2>4. QED  BY <2>2, <2>3
<1>5. CASE Touch(p)
  <2>1. p \in has
    BY <1>5 DEF Touch, Due
  <2>2. HelperHas' /\ LockHeld'
    BY <1>5 DEF Touch, HelperHas, LockHeld, Holding, Busy
  <2>3. FileOfHolder'
    BY <1>5, <2>1, HolderIsFresh DEF Touch, FileOfHolder
  <2>4. QED  BY <2>2, <2>3
<1>6. CASE Exit(p)
  <2>1. \A t \in Threads : /\ Busy(t)' => Busy(t) /\ ProgramOf[t] # p
                           /\ Holding(t)' => Holding(t) /\ ProgramOf[t] # p
    BY <1>6 DEF Exit, Of, Busy, Holding
  <2>2. HelperHas'
    BY <1>6 DEF Exit, HelperHas
  <2>3. FileOfHolder'
    <3>1. CASE p \in has
      BY <3>1, <1>6, HolderIsFresh DEF Exit, FileOfHolder
    <3>2. CASE p \notin has
      BY <3>2, <1>6 DEF Exit, FileOfHolder
    <3>3. QED  BY <3>1, <3>2
  <2>4. LockHeld'
    BY <1>6, <2>1 DEF Exit, LockHeld
  <2>5. QED  BY <2>2, <2>3, <2>4
<1>7. QED  BY <1>1, <1>2, <1>3, <1>4, <1>5, <1>6 DEF Helper

\* The threads that ask for the lock and give it back.  An id that the helper
\* does not know gives nothing back, and the thread whose id it knows gives the
\* lock up only when no other was counted in.
LEMMA ThreadsKeepLock ==
  ASSUME IInv, "helper" \notin Faults, NEW t \in Threads, AskLock(t) \/ Works(t)
  PROVE  LockInv'
<1> DEFINE p == ProgramOf[t]
<1> USE LockAssumption DEF IInv, LockInv, TypeOK, Step
<1>1. CASE AskLock(t) /\ p \notin has
  <2>1. helper' = [helper EXCEPT ![p] = "try"]
    BY <1>1, Zenon DEF AskLock, HelperHas
  <2>2. id' = [id EXCEPT ![t] = TRUE] /\ UNCHANGED <<lockFile, has, depth, stamp>>
    BY <1>1 DEF AskLock
  <2>3. thread[t] = "idle" /\ thread' = [thread EXCEPT ![t] = "asking"]
    BY <1>1 DEF AskLock
  <2>4. \A u \in Threads : ProgramOf[u] = p => ~Busy(u)
    BY <1>1 DEF AskLock, Busy, LockHeld, Of
  <2>5. HelperHas' /\ FileOfHolder'
    BY <1>1, <2>1, <2>2 DEF HelperHas, FileOfHolder
  <2>6. \A u \in Threads : u # t => (Busy(u)' <=> Busy(u)) /\ id'[u] = id[u]
    BY <2>2, <2>3 DEF Busy, Holding
  <2>7. \A u \in Threads : Holding(u)' => Holding(u)
    BY <2>3 DEF Holding
  <2>8. LockHeld'
    BY <2>2, <2>4, <2>6, <2>7 DEF LockHeld
  <2>9. QED  BY <2>5, <2>8
<1>2. CASE AskLock(t) /\ p \in has
  <2>1. helper' = [helper EXCEPT ![p] = "grant"]
    BY <1>2, Zenon DEF AskLock, HelperHas
  <2>2. id' = [id EXCEPT ![t] = FALSE] /\ UNCHANGED <<lockFile, has, stamp>>
        /\ depth' = [depth EXCEPT ![p] = @ + 1]
    BY <1>2 DEF AskLock
  <2>3. thread[t] = "idle" /\ thread' = [thread EXCEPT ![t] = "asking"]
    BY <1>2 DEF AskLock
  <2>4. HelperHas' /\ FileOfHolder'
    BY <1>2, <2>1, <2>2 DEF HelperHas, FileOfHolder
  <2>5. \A u \in Threads : u # t => (Busy(u)' <=> Busy(u)) /\ id'[u] = id[u]
    BY <2>2, <2>3 DEF Busy, Holding
  <2>6. \A u \in Threads : Holding(u)' => Holding(u)
    BY <2>3 DEF Holding
  <2>7. depth'[p] >= 2 /\ \A q \in Programs : depth'[q] >= depth[q]
    BY <1>2, <2>2 DEF Counted
  <2>8. LockHeld'
    BY <1>2, <2>2, <2>5, <2>6, <2>7 DEF LockHeld
  <2>9. QED  BY <2>4, <2>8
<1>3. CASE Answered(t)
  <2>1. CASE helper[p] = "grant"
    <3>1. p \in has /\ helper' = [helper EXCEPT ![p] = "idle"] /\ id' = id
          /\ thread[t] = "asking" /\ thread' = [thread EXCEPT ![t] = "copy"]
          /\ UNCHANGED <<lockFile, has, depth, stamp>>
      BY <1>3, <2>1 DEF Answered, HelperHas
    <3>2. HelperHas' /\ FileOfHolder'
      BY <3>1 DEF HelperHas, FileOfHolder
    <3>3. \A u \in Threads : /\ Busy(u)' => Busy(u)
                             /\ Holding(u)' => Holding(u) \/ u = t
      BY <3>1 DEF Busy, Holding
    <3>4. LockHeld'
      BY <3>1, <3>3 DEF LockHeld
    <3>5. QED  BY <3>2, <3>4
  <2>2. CASE helper[p] = "refuse"
    <3>1. helper' = [helper EXCEPT ![p] = "idle"] /\ id' = id
          /\ thread[t] = "asking" /\ thread' = [thread EXCEPT ![t] = "idle"]
          /\ UNCHANGED <<lockFile, has, depth, stamp>>
      BY <1>3, <2>2 DEF Answered
    <3>2. HelperHas' /\ FileOfHolder'
      BY <3>1 DEF HelperHas, FileOfHolder
    <3>3. \A u \in Threads : /\ Busy(u)' => Busy(u)
                             /\ Holding(u)' => Holding(u)
      BY <3>1 DEF Busy, Holding
    <3>4. LockHeld'
      BY <3>1, <3>3 DEF LockHeld
    <3>5. QED  BY <3>2, <3>4
  <2>3. QED  BY <1>3, <2>1, <2>2 DEF Answered, HelperHas
<1>4. CASE Copy(t) \/ Truncate(t)
  <2>1. Holding(t) /\ UNCHANGED <<lockFile, helper, has, depth, stamp, id>>
    BY <1>4 DEF Copy, Truncate, Holding, helperVars
  <2>2. thread' = [thread EXCEPT ![t] = "truncate"]
        \/ thread' = [thread EXCEPT ![t] = "unlock"]
    BY <1>4 DEF Copy, Truncate
  <2>3. \A u \in Threads : (Busy(u)' <=> Busy(u)) /\ (Holding(u)' <=> Holding(u))
    BY <2>1, <2>2 DEF Busy, Holding
  <2>4. QED  BY <2>1, <2>3 DEF HelperHas, FileOfHolder, LockHeld
<1>5. CASE Unlock(t)
  <2>1. p \in has /\ helper[p] = "idle" /\ helper' = [helper EXCEPT ![p] = @]
    BY <1>5 DEF Unlock, LockHeld, HelperHas, Holding
  <2>2. helper' = helper /\ UNCHANGED <<stamp, id>> /\ thread[t] = "unlock" /\ Busy(t)
        /\ thread' = [thread EXCEPT ![t] = "idle"]
    BY <1>5, <2>1 DEF Unlock, Busy, Holding
  <2>3. \A u \in Threads : /\ Busy(u)' => Busy(u) /\ u # t
                           /\ Holding(u)' => Holding(u) /\ Busy(u) /\ u # t
    BY <2>2 DEF Busy, Holding
  <2>4. CASE id[t] /\ depth[p] = 1
    <3>1. has' = has \ {p} /\ lockFile' = NULL /\ depth' = [depth EXCEPT ![p] = @ - 1]
      BY <1>5, <2>1, <2>4 DEF Unlock
    <3>2. \A u \in Threads : Busy(u)' => ProgramOf[u] # p
      BY <2>2, <2>3, <2>4 DEF LockHeld
    <3>3. HelperHas' /\ FileOfHolder'
      BY <2>1, <2>2, <3>1, HolderIsFresh DEF HelperHas, FileOfHolder
    <3>4. \A q \in Programs \ {p} : depth'[q] = depth[q]
      BY <3>1
    <3>5. \A u \in Threads : Busy(u)' => depth'[ProgramOf[u]] = depth[ProgramOf[u]]
      BY <3>2, <3>4
    <3>6. \A u \in Threads : Holding(u)' => ProgramOf[u] # p
      BY <3>2 DEF Busy
    <3>7. LockHeld'
      BY <2>2, <2>3, <3>1, <3>2, <3>5, <3>6 DEF LockHeld
    <3>8. QED  BY <3>3, <3>7
  <2>5. CASE id[t] /\ depth[p] # 1
    <3>1. UNCHANGED <<lockFile, has>> /\ depth' = [depth EXCEPT ![p] = @ - 1]
      BY <1>5, <2>1, <2>5 DEF Unlock
    <3>2. \A u \in Threads : Busy(u)' /\ id[u] => ProgramOf[u] # p
      BY <2>2, <2>3, <2>5 DEF LockHeld
    <3>3. HelperHas' /\ FileOfHolder'
      BY <2>2, <3>1 DEF HelperHas, FileOfHolder
    <3>4. \A q \in Programs \ {p} : depth'[q] = depth[q]
      BY <3>1
    <3>5. LockHeld'
      BY <2>2, <2>3, <3>1, <3>2, <3>4 DEF LockHeld
    <3>6. QED  BY <3>3, <3>5
  <2>6. CASE ~id[t]
    <3>1. UNCHANGED <<lockFile, has>> /\ depth' = [depth EXCEPT ![p] = @]
      BY <1>5, <2>1, <2>6 DEF Unlock
    <3>2. depth' = depth
      BY <3>1
    <3>3. QED  BY <2>2, <2>3, <3>1, <3>2 DEF HelperHas, FileOfHolder, LockHeld
  <2>7. QED  BY <2>4, <2>5, <2>6
<1>6. QED  BY <1>1, <1>2, <1>3, <1>4, <1>5 DEF Works

\* LockInv, unless a helper is killed alone or two helpers find the same lock
\* stale; it does not matter whether threads ask again for a lock of their own
\* program.
LEMMA LockInvariant ==
  ASSUME "helper" \notin Faults, "steal" \notin Faults
  PROVE  Spec => []IInv
<1>1. Init => LockInv
  BY DEF Init, LockInv, HelperHas, FileOfHolder, LockHeld, Holding, Busy
<1>2. TypeOK /\ Counted /\ LockInv /\ [Next]_vars => LockInv'
  <2>1. ASSUME IInv, Next  PROVE LockInv'
    BY <2>1, WorldKeepsLock, HelpersKeepLock, ThreadsKeepLock DEF Next
  <2>2. ASSUME LockInv, UNCHANGED vars  PROVE LockInv'
    BY <2>2 DEF vars, helperVars, LockInv, HelperHas, FileOfHolder, LockHeld, Holding, Busy
  <2>3. QED  BY <2>1, <2>2 DEF IInv
<1>3. QED  BY <1>1, <1>2, LockTyped, PTL DEF Spec, IInv

-----------------------------------------------------------------------------
\* A message that was delivered is kept, until it is in the file of the program
\* that took it, also when programs are killed, copies fail, locks are left
\* behind and threads ask again for a lock that their program has.  Nothing is
\* delivered between the copy and the truncation, because the lock is held.
THEOREM MailIsKept ==
  ASSUME "helper" \notin Faults, "steal" \notin Faults
  PROVE  Spec => []SpoolMailKept
<1>1. Init => Copied /\ SpoolMailKept
  BY DEF Init, Copied, SpoolMailKept
<1>2. ASSUME IInv, Copied, SpoolMailKept, [Next]_vars
      PROVE  Copied' /\ SpoolMailKept'
  <2> USE <1>2 DEF IInv, LockInv, TypeOK
  <2>1. CASE UNCHANGED mailVars /\ \A t \in Threads : thread'[t] = "truncate" => thread[t] = "truncate"
    BY <2>1 DEF mailVars, Copied, SpoolMailKept
  <2>2. CASE Deliver
    <3>1. has = {} /\ \A t \in Threads : thread[t] # "truncate"
      BY <2>2, HolderIsFresh DEF Deliver, LockHeld, Holding
    <3>2. QED  BY <2>2, <3>1 DEF Deliver, Copied, SpoolMailKept
  <2>3. CASE Tick
    BY <2>1, <2>3 DEF Tick
  <2>4. ASSUME NEW p \in Programs, Crash(p)  PROVE Copied' /\ SpoolMailKept'
    BY <2>1, <2>4 DEF Crash
  <2>5. ASSUME NEW p \in Programs, Helper(p)  PROVE Copied' /\ SpoolMailKept'
    BY <2>1, <2>5 DEF Helper, Link, Stat, RemoveStale, Touch, Exit
  <2>6. ASSUME NEW t \in Threads, AskLock(t) \/ Answered(t) \/ Unlock(t)
        PROVE  Copied' /\ SpoolMailKept'
    BY <2>1, <2>6 DEF AskLock, Answered, Unlock, Step
  <2>7. ASSUME NEW t \in Threads, Copy(t)  PROVE Copied' /\ SpoolMailKept'
    <3>1. spool' = spool /\ coming' = coming
          /\ \A p \in Programs : dest[p] \subseteq dest'[p]
      BY <2>7 DEF Copy
    <3>2. thread' = [thread EXCEPT ![t] = "unlock"]
          \/ /\ thread' = [thread EXCEPT ![t] = "truncate"]
             /\ spool \subseteq dest'[ProgramOf[t]]
      BY <2>7, LockAssumption DEF Copy, Step
    <3>3. QED  BY <3>1, <3>2, LockAssumption DEF Copied, SpoolMailKept
  <2>8. ASSUME NEW t \in Threads, Truncate(t)  PROVE Copied' /\ SpoolMailKept'
    BY <2>8, LockAssumption DEF Truncate, Step, Copied, SpoolMailKept
  <2>9. CASE UNCHANGED vars
    BY <2>1, <2>9 DEF vars
  <2>10. QED
    BY <1>2, <2>2, <2>3, <2>4, <2>5, <2>6, <2>7, <2>8, <2>9 DEF Next, Works
<1>3. QED  BY <1>1, <1>2, LockInvariant, PTL DEF Spec

-----------------------------------------------------------------------------
\* Unless a thread asks again, a helper serves one thread at a time.
LEMMA OneThreadPerProgram ==
  ASSUME {"again", "helper", "steal"} \cap Faults = {}
  PROVE  Spec => []OneAtATime
<1>1. Init => OneAtATime
  BY DEF Init, OneAtATime, Busy, Holding
<1>2. ASSUME IInv, OneAtATime, [Next]_vars  PROVE OneAtATime'
  <2> USE <1>2, LockAssumption DEF IInv, LockInv, TypeOK
  <2>1. CASE Deliver \/ Tick \/ UNCHANGED vars
    BY <2>1 DEF Deliver, Tick, vars, helperVars, OneAtATime, Busy, Holding
  <2>2. ASSUME NEW p \in Programs, Crash(p)  PROVE OneAtATime'
    BY <2>2 DEF Crash, OneAtATime, Busy, Holding, Of
  <2>3. ASSUME NEW p \in Programs, Link(p)  PROVE OneAtATime'
    BY <2>3 DEF Link, OneAtATime, Busy, Holding
  <2>4. ASSUME NEW p \in Programs, Stat(p) \/ RemoveStale(p) \/ Touch(p)  PROVE OneAtATime'
    BY <2>4 DEF Stat, RemoveStale, Touch, Refused, OneAtATime, Busy, Holding
  <2>5. ASSUME NEW p \in Programs, Exit(p)  PROVE OneAtATime'
    <3>1. UNCHANGED <<depth, id>> /\ has' = has \ {p}
      BY <2>5 DEF Exit
    <3>2. \A t \in Threads : Busy(t)' => Busy(t)
      BY <2>5 DEF Exit, Busy, Holding
    <3>3. \A t \in Threads : ProgramOf[t] # p => thread'[t] = thread[t]
      BY <2>5 DEF Exit, Of
    <3>4. \A q \in has' : \E t \in Of(q) : Busy(t)' \/ thread'[t] = "gone"
      BY <3>1, <3>3 DEF OneAtATime, Busy, Holding, Of
    <3>5. \A q \in Programs : helper'[q] \in {"try", "stat", "unlink"} =>
            \E t \in Of(q) : thread'[t] \in {"asking", "gone"}
      BY <2>5, <3>3 DEF Exit, OneAtATime, Of
    <3>6. QED  BY <3>1, <3>2, <3>4, <3>5 DEF OneAtATime, Of
  <2>6. ASSUME NEW t \in Threads, AskLock(t)  PROVE OneAtATime'
    <3>1. ProgramOf[t] \notin has /\ thread[t] = "idle" /\ thread' = [thread EXCEPT ![t] = "asking"]
          /\ UNCHANGED <<has>> /\ id' = [id EXCEPT ![t] = TRUE]
      BY <2>6 DEF AskLock, Step
    <3>2. \A u \in Threads : ProgramOf[u] = ProgramOf[t] => ~Busy(u)
      BY <2>6, <3>1 DEF AskLock, Busy, LockHeld, Of
    <3>3. \A p \in has : depth'[p] = depth[p]
      BY <2>6, <3>1 DEF AskLock
    <3>4. \A p \in Programs : p # ProgramOf[t] => helper'[p] = helper[p]
      BY <2>6 DEF AskLock
    <3>5. QED  BY <3>1, <3>2, <3>3, <3>4 DEF OneAtATime, Busy, Holding, Of
  <2>7. ASSUME NEW t \in Threads, Answered(t)  PROVE OneAtATime'
    <3>1. UNCHANGED <<has, depth>> /\ thread[t] = "asking" /\ id' = [id EXCEPT ![t] = @]
      BY <2>7 DEF Answered, Step, HelperHas
    <3>2. id' = id /\ helper' = [helper EXCEPT ![ProgramOf[t]] = "idle"]
      <4>1. id' = id
        BY <3>1
      <4>2. QED  BY <2>7, <4>1 DEF Answered, HelperHas
    <3>3. CASE helper[ProgramOf[t]] = "refuse"
      <4>1. ProgramOf[t] \notin has /\ thread' = [thread EXCEPT ![t] = "idle"]
        BY <2>7, <3>3 DEF Answered, Step, HelperHas
      <4>2. QED  BY <3>1, <3>2, <4>1 DEF OneAtATime, Busy, Holding, Of
    <3>4. CASE helper[ProgramOf[t]] # "refuse"
      <4>1. thread' = [thread EXCEPT ![t] = "copy"]
        BY <2>7, <3>4 DEF Answered, Step
      <4>2. QED  BY <3>1, <3>2, <4>1 DEF OneAtATime, Busy, Holding, Of
    <3>5. QED  BY <3>3, <3>4
  <2>8. ASSUME NEW t \in Threads, Copy(t) \/ Truncate(t)  PROVE OneAtATime'
    BY <2>8 DEF Copy, Truncate, Step, helperVars, OneAtATime, Busy, Holding, Of
  <2>9. ASSUME NEW t \in Threads, Unlock(t)  PROVE OneAtATime'
    <3>1. Busy(t) /\ id[t] /\ ProgramOf[t] \in has /\ depth[ProgramOf[t]] = 1
      BY <2>9 DEF Unlock, Step, OneAtATime, LockHeld, Busy, Holding
    <3>2. has' = has \ {ProgramOf[t]} /\ id' = id /\ thread' = [thread EXCEPT ![t] = "idle"]
      BY <2>9, <3>1 DEF Unlock, Step, HelperHas, Holding, LockHeld
    <3>3. \A p \in has' : depth'[p] = depth[p]
      BY <2>9, <3>2 DEF Unlock
    <3>4. helper[ProgramOf[t]] \in {"idle", "grant"} /\ helper' = helper
      BY <2>9, <3>1 DEF Unlock, HelperHas
    <3>5. QED  BY <3>1, <3>2, <3>3, <3>4 DEF OneAtATime, Busy, Holding, Of
  <2>10. QED
    BY <1>2, <2>1, <2>2, <2>3, <2>4, <2>5, <2>6, <2>7, <2>8, <2>9 DEF Next, Helper, Works
<1>3. "helper" \notin Faults /\ "steal" \notin Faults
  OBVIOUS
<1>4. QED  BY <1>1, <1>2, <1>3, LockInvariant, PTL DEF Spec

\* No two threads, of whatever programs, are in the spool file at once.
THEOREM LockIsExclusive ==
  ASSUME {"again", "helper", "steal"} \cap Faults = {}
  PROVE  Spec => []ExclusiveLock
<1>1. IInv /\ OneAtATime => ExclusiveLock
  BY DEF IInv, LockInv, FileOfHolder, LockHeld, OneAtATime, ExclusiveLock, InSpool,
         Busy, Holding
<1>2. "helper" \notin Faults /\ "steal" \notin Faults
  OBVIOUS
<1>3. Spec => []IInv
  BY <1>2, LockInvariant
<1>4. Spec => []OneAtATime
  BY OneThreadPerProgram
<1>5. QED  BY <1>1, <1>3, <1>4, PTL

\* The lock is given back: it is kept only for the threads that ask again.
THEOREM LockIsGivenBack ==
  ASSUME {"again", "helper", "steal"} \cap Faults = {}
  PROVE  Spec => []UnlockedInTheEnd
<1>1. OneAtATime => UnlockedInTheEnd
  BY DEF OneAtATime, UnlockedInTheEnd, Busy, Holding
<1>2. QED  BY <1>1, OneThreadPerProgram, PTL
=============================================================================
