----------------------------- MODULE MailMtProofs -----------------------------
(***************************************************************************)
(* Theorems about MailMt for any number of jobs, events, kinds of jobs and *)
(* threads.                                                                *)
(***************************************************************************)
EXTENDS MailMt, TLAPS

\* What every push does for QueueServed: the pushing thread is in kick.
LEMMA PushServes ==
  ASSUME NEW j, NEW m, PushMain(j, m), QueueServed, UNCHANGED <<replyQ, source, mainVars>>
  PROVE  QueueServed'
BY DEF PushMain, QueueServed, mainVars

\* A step that leaves the queues, the source, the pushers and the main thread
\* alone leaves QueueServed alone.
LEMMA QuietServes ==
  ASSUME QueueServed, UNCHANGED <<kick, mainQ, replyQ, source, mainPc>>
  PROVE  QueueServed'
BY DEF QueueServed

\* The steps of the workers.
LEMMA WorkersServe ==
  ASSUME QueueServed, NEW j \in Jobs,
         \/ Begin(j) \/ Work(j) \/ Call(j) \/ EndExec(j)
         \/ \E e \in Events : EmitFromWorker(j, e)
  PROVE  QueueServed'
<1>1. CASE Begin(j) \/ Return(j) \/ EndExec(j) \/ UnrefByWorker(j)
  BY <1>1, QuietServes
     DEF Begin, Return, EndExec, UnrefByWorker, mainVars
<1>2. CASE Attach(j)
  BY <1>2 DEF Attach, QueueServed, mainVars
<1>3. CASE ReportStart(j) \/ ReportEnd(j) \/ Call(j) \/ EmitFinish(j)
  BY <1>3, PushServes DEF ReportStart, ReportEnd, Call, EmitFinish
<1>4. CASE Reply(j)
  BY <1>4 DEF Reply, QueueServed, mainVars
<1>5. CASE \E e \in Events : EmitFromWorker(j, e)
  BY <1>5, PushServes DEF EmitFromWorker
<1>6. QED  BY <1>1, <1>2, <1>3, <1>4, <1>5 DEF Work

\* The steps of the main thread.  It leaves a phase only when the queue of the
\* phase is empty, and starts a round at the main queue.
LEMMA MainThreadServes ==
  ASSUME QueueServed, MainThread
  PROVE  QueueServed'
<1>1. CASE Dispatch
  BY <1>1 DEF Dispatch, QueueServed, jobVars
<1>2. CASE HandleStatus \/ HandleCall \/ HandleEvent
  BY <1>2 DEF HandleStatus, HandleCall, HandleEvent, HeadIs, QueueServed,
              mainVars, jobVars
<1>3. CASE CreateActivity
  BY <1>3 DEF CreateActivity, QueueServed, jobVars
<1>4. CASE \E m \in idleEvents : HandleIdleEvent(m)
  BY <1>4, QuietServes DEF HandleIdleEvent, mainVars
<1>5. CASE MainQDrained \/ ReplyQDrained
  BY <1>5 DEF MainQDrained, ReplyQDrained, QueueServed
<1>6. CASE HandleReply
  BY <1>6 DEF HandleReply, QueueServed, mainVars
<1>7. CASE WaitReturns \/ DestroyTask \/ DestroyReturn
  BY <1>7, QuietServes DEF WaitReturns, DestroyTask, DestroyReturn, mainVars
<1>8. QED
  BY <1>1, <1>2, <1>3, <1>4, <1>5, <1>6, <1>7, MainThread DEF MainThread

\* The steps of the user interface.
LEMMA UserServes ==
  ASSUME QueueServed,
         \/ \E j \in Jobs : Submit(j) \/ Wait(j)
         \/ CancelSome \/ Destroy
         \/ \E e \in Events : EmitInMain(e)
         \/ \E i \in Infos : ErrorDialog(i)
  PROVE  QueueServed'
BY QuietServes DEF Submit, Wait, CancelSome, Cancel, Destroy, EmitInMain,
                   ErrorDialog, DialogTurns, mainVars

\* No message is left lying in a queue, however many threads push while the
\* main thread drains: mail_msg_idle_cb may forget its id and drain the queues
\* without holding a lock around both.
THEOREM QueuesAreServed == Spec => []QueueServed
<1>1. Init => QueueServed
  BY DEF Init, QueueServed
<1>2. QueueServed /\ [Next]_vars => QueueServed'
  <2>1. ASSUME QueueServed, Next  PROVE QueueServed'
    BY <2>1, WorkersServe, MainThreadServes, UserServes DEF Next
  <2>2. ASSUME QueueServed, UNCHANGED vars  PROVE QueueServed'
    BY <2>2, QuietServes DEF vars
  <2>3. QED  BY <2>1, <2>2
<1>3. QED  BY <1>1, <1>2, PTL DEF Spec

-----------------------------------------------------------------------------
(* The life of a job, and of the messages about it.                        *)

\* A job is in the table of active messages from its submission to the end of
\* its life; a job in the reply queue, which holds it once, is alive.
Alive(j) == Msg("job", j) \in active
LifeOfJobs ==
  \A j \in Jobs :
    /\ stage[j] = "new" => ~Alive(j)
    /\ stage[j] \in {"queued"} \cup (Running \ {"emitting"}) => Alive(j)
    /\ stage[j] \in {"emitting", "gone"} => ~Alive(j)
    /\ j \in freed => ~Alive(j) /\ stage[j] \in {"replied", "emitting", "gone"}
RepliesAlive ==
  \A n \in 1..Len(replyQ) :
    /\ stage[replyQ[n]] = "replied" /\ Alive(replyQ[n])
    /\ \A m \in 1..Len(replyQ) : replyQ[m] = replyQ[n] => m = n

\* The main thread creates the activity of a job that is alive, or whose last
\* reference the worker has left to it.
CreatesForJob ==
  /\ mainPc = "creating" => /\ creating \in Messages /\ creating.kind \in {"start", "end"}
                            /\ state[creating.of] \in {1, 3} /\ creating.of \notin freed
  /\ \A j \in Jobs :
       /\ state[j] = 1 => Alive(j)
       /\ state[j] = 3 => stage[j] = "gone"
       /\ state[j] \in {1, 3} /\ j \notin freed =>
            mainPc = "creating" /\ creating.of = j /\ activity[j] # "shown"

\* A call is in the main queue once, until it is answered; the caller keeps its
\* own reference until it returns.
CallsCounted ==
  \A j \in Jobs :
    /\ stage[j] = "calling" => /\ Msg("call", j) \in active
                               /\ callRefs[j] = IF j \in answered THEN 1 ELSE 2
    /\ \A n \in 1..Len(mainQ) :
         mainQ[n] = Msg("call", j) =>
           /\ stage[j] = "calling" /\ j \notin answered
           /\ \A m \in 1..Len(mainQ) : mainQ[m] = mainQ[n] => m = n

\* What waits as an idle source of its own, and what a widget waits for.
IdleKinds ==
  /\ \A m \in idleEvents : m.kind \in {"event", "finish"}
  /\ \A m \in tasks : m.kind = "event"

MsgInv ==
  /\ TypeOK
  /\ LifeOfJobs
  /\ RepliesAlive
  /\ CreatesForJob
  /\ CallsCounted
  /\ IdleKinds
  /\ NoLostActivity

\* A message is what it was made of.
LEMMA MsgIs ==
  /\ \A k, x : Msg(k, x).kind = k /\ Msg(k, x).of = x
  /\ \A k, x, l, y : Msg(k, x) = Msg(l, y) => k = l /\ x = y
BY DEF Msg

LEMMA MsgTyped ==
  /\ \A k \in {"job", "start", "end", "call", "finish"} : \A j \in Jobs : Msg(k, j) \in Messages
  /\ \A e \in Events : Msg("event", e) \in Messages
  /\ \A m \in Messages : m = Msg(m.kind, m.of) /\ (m.kind # "event" => m.of \in Jobs)
BY DEF Msg, Messages

\* The queues.
LEMMA QueueAppend ==
  ASSUME NEW S, NEW q \in Seq(S), NEW e \in S
  PROVE  /\ Append(q, e) \in Seq(S) /\ Len(Append(q, e)) = Len(q) + 1 /\ Len(q) \in Nat
         /\ \A n \in 1..(Len(q) + 1) : Append(q, e)[n] = IF n = Len(q) + 1 THEN e ELSE q[n]
OBVIOUS

LEMMA QueueTail ==
  ASSUME NEW S, NEW q \in Seq(S), q # <<>>
  PROVE  /\ Tail(q) \in Seq(S) /\ Len(Tail(q)) = Len(q) - 1 /\ Len(q) \in Nat \ {0}
         /\ Head(q) = q[1] /\ Head(q) \in S
         /\ \A n \in 1..(Len(q) - 1) : Tail(q)[n] = q[n + 1]
OBVIOUS

-----------------------------------------------------------------------------
(* Types.                                                                  *)

LEMMA PushTyped ==
  ASSUME TypeOK, NEW j \in Jobs, NEW m \in Messages, PushMain(j, m)
  PROVE  active' \subseteq Messages /\ mainQ' \in Seq(Messages) /\ kick' \subseteq Jobs
BY QueueAppend DEF PushMain, TypeOK

LEMMA WorkersTyped ==
  ASSUME MsgInv, NEW j \in Jobs,
         \/ Begin(j) \/ Work(j) \/ Call(j) \/ EndExec(j) \/ Submit(j)
         \/ \E e \in Events : EmitFromWorker(j, e)
  PROVE  TypeOK'
<1> USE DEF MsgInv, Running, jobVars, errorVars, actVars, mainVars, eaVars
<1>1. CASE Begin(j) \/ Attach(j) \/ EndExec(j)
  BY <1>1 DEF TypeOK, Begin, Attach, EndExec
<1>2. CASE ReportStart(j) \/ ReportEnd(j) \/ EmitFinish(j)
  <2>1. active' \subseteq Messages /\ mainQ' \in Seq(Messages) /\ kick' \subseteq Jobs
    BY <1>2, MsgTyped, PushTyped DEF ReportStart, ReportEnd, EmitFinish
  <2>2. QED  BY <1>2, <2>1 DEF TypeOK, ReportStart, ReportEnd, EmitFinish, AfterEnd
<1>3. CASE Call(j)
  <2>1. active' \subseteq Messages /\ mainQ' \in Seq(Messages) /\ kick' \subseteq Jobs
    BY <1>3, MsgTyped, PushTyped DEF Call
  <2>2. QED  BY <1>3, <2>1 DEF TypeOK, Call, CallReferences
<1>4. CASE Return(j)
  <2>1. callRefs[j] = 1
    BY <1>4 DEF Return, CallsCounted
  <2>2. QED  BY <1>4, <2>1 DEF TypeOK, Return, UnrefCall
<1>5. CASE \E e \in Events : EmitFromWorker(j, e)
  <2>1. active' \subseteq Messages /\ mainQ' \in Seq(Messages) /\ kick' \subseteq Jobs
    BY <1>5, MsgTyped, PushTyped DEF EmitFromWorker
  <2>2. tasks' \subseteq Messages
    BY <1>5, MsgTyped DEF EmitFromWorker, TypeOK
  <2>3. QED  BY <1>5, <2>1, <2>2 DEF TypeOK, EmitFromWorker
<1>6. CASE Reply(j)
  <2>1. replyQ' \in Seq(Jobs)
    BY <1>6, QueueAppend DEF Reply, TypeOK
  <2>2. QED  BY <1>6, <2>1 DEF TypeOK, Reply
<1>7. CASE UnrefByWorker(j)
  BY <1>7 DEF TypeOK, UnrefByWorker
<1>8. CASE Submit(j)
  BY <1>8, MsgTyped DEF TypeOK, Submit
<1>9. QED  BY <1>1, <1>2, <1>3, <1>4, <1>5, <1>6, <1>7, <1>8 DEF Work

LEMMA MainThreadTyped ==
  ASSUME MsgInv, MainThread
  PROVE  TypeOK'
<1> USE DEF MsgInv, jobVars, errorVars, actVars, mainVars, eaVars
<1>1. CASE Dispatch \/ MainQDrained \/ ReplyQDrained \/ WaitReturns \/ DestroyReturn
  BY <1>1 DEF TypeOK, Dispatch, MainQDrained, ReplyQDrained, WaitReturns, DestroyReturn
<1>2. ASSUME HeadIs({"start", "end", "call", "event", "finish"})
      PROVE  Head(mainQ) \in Messages /\ Tail(mainQ) \in Seq(Messages)
  BY <1>2, QueueTail DEF HeadIs, TypeOK
<1>3. CASE HandleStatus
  <2>1. Head(mainQ) \in Messages /\ Tail(mainQ) \in Seq(Messages)
        /\ Head(mainQ).of \in Jobs
    BY <1>2, <1>3, MsgTyped DEF HandleStatus, HeadIs
  <2>2. mainQ' = Tail(mainQ) /\ UNCHANGED <<jobVars, kick, freed, cancelled, answered, activity,
                 errorVars, replyQ, source, waiting, idleEvents, eaVars>>
    BY <1>3 DEF HandleStatus
  <2>3. /\ state' = state \/ state' = [state EXCEPT ![Head(mainQ).of] = 1]
        /\ mainPc' \in {mainPc, "creating"} /\ creating' \in {creating, Head(mainQ)}
        /\ active' \subseteq active
    BY <1>3 DEF HandleStatus
  <2>4. QED  BY <2>1, <2>2, <2>3 DEF TypeOK
<1>4. CASE CreateActivity
  <2>1. creating.of \in Jobs /\ Msg("finish", creating.of) \in Messages
    BY <1>4, MsgTyped DEF CreateActivity, CreatesForJob
  <2>2. QED  BY <1>4, <2>1 DEF TypeOK, CreateActivity
<1>5. CASE HandleCall
  <2>1. Head(mainQ) \in Messages /\ Tail(mainQ) \in Seq(Messages) /\ mainQ # <<>>
        /\ Head(mainQ).of \in Jobs /\ Head(mainQ) = Msg("call", Head(mainQ).of)
    BY <1>2, <1>5, MsgTyped DEF HandleCall, HeadIs
  <2>2. Head(mainQ) = mainQ[1] /\ 1 \in 1..Len(mainQ)
    BY <2>1, QueueTail DEF TypeOK
  <2>3. callRefs[Head(mainQ).of] = 2
    BY <2>1, <2>2 DEF CallsCounted
  <2>4. QED  BY <1>5, <2>1, <2>3 DEF TypeOK, HandleCall, UnrefCall
<1>6. ASSUME NEW m \in Messages, RunEvent(m), m.kind \in {"event", "finish"}
      PROVE  /\ active' \subseteq Messages /\ tasks' \subseteq Messages
             /\ activity' \in [Jobs -> {"none", "shown", "complete"}]
             /\ dialog' \in [Infos -> {"none", "hidden", "offered", "expired", "shown"}]
  <2>1. m.kind = "finish" => m.of \in Jobs
    BY MsgTyped
  <2>2. QED  BY <1>6, <2>1 DEF TypeOK, RunEvent
<1>7. CASE HandleEvent
  <2>1. Head(mainQ) \in Messages /\ Tail(mainQ) \in Seq(Messages)
        /\ Head(mainQ).kind \in {"event", "finish"}
    BY <1>2, <1>7 DEF HandleEvent, HeadIs
  <2>2. QED  BY <1>6, <1>7, <2>1 DEF TypeOK, HandleEvent
<1>8. CASE \E m \in idleEvents : HandleIdleEvent(m)
  <2>1. PICK m \in idleEvents : HandleIdleEvent(m)
    BY <1>8
  <2>2. m \in Messages /\ m.kind \in {"event", "finish"}
    BY DEF TypeOK, IdleKinds
  <2>3. QED  BY <1>6, <2>1, <2>2 DEF TypeOK, HandleIdleEvent
<1>9. CASE HandleReply
  <2>1. Head(replyQ) \in Jobs /\ Tail(replyQ) \in Seq(Jobs)
    BY <1>9, QueueTail DEF HandleReply, TypeOK
  <2>2. Msg("finish", Head(replyQ)) \in Messages
    BY <2>1, MsgTyped
  <2>3. hasDialog' \subseteq Jobs
        /\ dialog' \in [Infos -> {"none", "hidden", "offered", "expired", "shown"}]
    <3>1. hasDialog' \subseteq hasDialog \cup {Head(replyQ)}
      BY <1>9, Zenon DEF HandleReply, CheckError
    <3>2. dialog' \in [Infos -> {"none", "hidden", "offered", "expired", "shown"}]
      BY <1>9 DEF TypeOK, HandleReply, CheckError
    <3>3. QED  BY <2>1, <3>1, <3>2 DEF TypeOK
  <2>4. QED  BY <1>9, <2>1, <2>2, <2>3 DEF TypeOK, HandleReply
<1>10. CASE DestroyTask
  BY <1>10 DEF TypeOK, DestroyTask
<1>11. QED
  BY <1>1, <1>3, <1>4, <1>5, <1>7, <1>8, <1>9, <1>10 DEF MainThread

LEMMA UserTyped ==
  ASSUME MsgInv,
         \/ \E j \in Jobs : Wait(j)
         \/ CancelSome \/ Destroy
         \/ \E e \in Events : EmitInMain(e)
         \/ \E i \in Infos : ErrorDialog(i)
  PROVE  TypeOK'
<1> USE DEF MsgInv, TypeOK, jobVars, errorVars, actVars, mainVars, eaVars
<1>1. CASE \E j \in Jobs : Wait(j)
  BY <1>1, MsgTyped DEF Wait
<1>2. CASE CancelSome
  <2>1. PICK js \in SUBSET Jobs : Cancel(js)
    BY <1>2 DEF CancelSome
  <2>2. QED  BY <2>1 DEF Cancel
<1>3. CASE Destroy
  BY <1>3 DEF Destroy
<1>4. CASE \E e \in Events : EmitInMain(e)
  BY <1>4, MsgTyped DEF EmitInMain
<1>5. CASE \E i \in Infos : ErrorDialog(i)
  BY <1>5 DEF ErrorDialog, DialogTurns
<1>6. QED  BY <1>1, <1>2, <1>3, <1>4, <1>5

-----------------------------------------------------------------------------
(* Steps that leave a part of the invariant alone.                         *)

\* Where a job that has been submitted is until its thread is done with it.
InPool == {"queued"} \cup (Running \ {"emitting"})

LEMMA LifeKept ==
  ASSUME MsgInv, UNCHANGED <<freed, replyQ, state, activity, creating>>,
         mainPc' = "creating" <=> mainPc = "creating",
         \A k \in Jobs : Alive(k)' <=> Alive(k),
         \A k \in Jobs : \/ stage'[k] = stage[k]
                         \/ stage[k] \in InPool /\ stage'[k] \in InPool
                         \/ stage[k] = "emitting" /\ stage'[k] = "gone"
  PROVE  LifeOfJobs' /\ RepliesAlive' /\ CreatesForJob'
<1> USE DEF MsgInv
<1>1. LifeOfJobs'
  BY DEF LifeOfJobs, InPool, Running
<1>2. RepliesAlive'
  <2>1. \A n \in 1..Len(replyQ) : replyQ[n] \in Jobs /\ stage[replyQ[n]] = "replied"
    BY DEF RepliesAlive, TypeOK
  <2>2. \A n \in 1..Len(replyQ) : stage'[replyQ[n]] = "replied"
    BY <2>1 DEF InPool, Running
  <2>3. QED  BY <2>1, <2>2 DEF RepliesAlive
<1>3. CreatesForJob'
  <2>1. \A k \in Jobs : stage[k] = "gone" => stage'[k] = "gone"
    BY DEF InPool, Running
  <2>2. QED  BY <2>1 DEF CreatesForJob
<1>4. QED  BY <1>1, <1>2, <1>3

\* The main queue gets a message, loses its first one or stays as it is; kind
\* is not that of the message.
QueueMoves(kind) ==
  \/ mainQ' = mainQ
  \/ \E m \in Messages : m.kind # kind /\ mainQ' = Append(mainQ, m)
  \/ mainQ # <<>> /\ Head(mainQ).kind # kind /\ mainQ' = Tail(mainQ)

LEMMA CallsKept ==
  ASSUME MsgInv, UNCHANGED <<callRefs, answered>>, QueueMoves("call"),
         \A k \in Jobs : stage'[k] = "calling" <=> stage[k] = "calling",
         \A k \in Jobs : Msg("call", k) \in active => Msg("call", k) \in active'
  PROVE  CallsCounted'
<1> USE DEF MsgInv
<1>1. SUFFICES ASSUME NEW k \in Jobs, NEW n \in 1..Len(mainQ'), mainQ'[n] = Msg("call", k)
               PROVE  /\ stage[k] = "calling" /\ k \notin answered
                      /\ \A m \in 1..Len(mainQ') : mainQ'[m] = mainQ'[n] => m = n
  BY DEF CallsCounted
<1>2. mainQ \in Seq(Messages) /\ Msg("call", k).kind = "call"
  BY MsgIs DEF TypeOK
<1>3. CASE mainQ' = mainQ
  BY <1>1, <1>3 DEF CallsCounted
<1>4. CASE \E e \in Messages : e.kind # "call" /\ mainQ' = Append(mainQ, e)
  <2>1. PICK e \in Messages : e.kind # "call" /\ mainQ' = Append(mainQ, e)
    BY <1>4
  <2>2. /\ Len(mainQ') = Len(mainQ) + 1 /\ Len(mainQ) \in Nat
        /\ \A m \in 1..(Len(mainQ) + 1) : mainQ'[m] = IF m = Len(mainQ) + 1 THEN e ELSE mainQ[m]
    BY <1>2, <2>1, QueueAppend
  <2>3. \A m \in 1..Len(mainQ') : mainQ'[m] = Msg("call", k) =>
          m \in 1..Len(mainQ) /\ mainQ[m] = Msg("call", k)
    BY <1>2, <2>1, <2>2
  <2>4. QED  BY <1>1, <2>3 DEF CallsCounted
<1>5. CASE mainQ # <<>> /\ mainQ' = Tail(mainQ)
  <2>1. /\ Len(mainQ') = Len(mainQ) - 1 /\ Len(mainQ) \in Nat \ {0}
        /\ \A m \in 1..(Len(mainQ) - 1) : mainQ'[m] = mainQ[m + 1]
    BY <1>2, <1>5, QueueTail
  <2>2. \A m \in 1..Len(mainQ') : m + 1 \in 1..Len(mainQ) /\ mainQ'[m] = mainQ[m + 1]
    BY <2>1
  <2>3. \A m \in 1..Len(mainQ') : mainQ'[m] = Msg("call", k) => m + 1 = n + 1
    BY <1>1, <2>2 DEF CallsCounted
  <2>4. \A m \in 1..Len(mainQ') : mainQ'[m] = Msg("call", k) => m = n
    BY <2>1, <2>3
  <2>5. QED  BY <1>1, <2>2, <2>4 DEF CallsCounted
<1>6. QED  BY <1>3, <1>4, <1>5 DEF QueueMoves

LEMMA FinishKept ==
  ASSUME MsgInv, QueueMoves("finish"), NEW k \in Jobs, FinishPending(k),
         stage[k] = "emitting" => stage'[k] = "emitting",
         Msg("finish", k) \in idleEvents => Msg("finish", k) \in idleEvents'
  PROVE  FinishPending(k)'
<1> USE DEF MsgInv
<1>1. CASE \E n \in 1..Len(mainQ) : mainQ[n] = Msg("finish", k)
  <2>1. PICK n \in 1..Len(mainQ) : mainQ[n] = Msg("finish", k)
    BY <1>1
  <2>2. mainQ \in Seq(Messages) /\ Msg("finish", k).kind = "finish"
    BY MsgIs DEF TypeOK
  <2>3. CASE \E e \in Messages : mainQ' = Append(mainQ, e)
    <3>1. Len(mainQ') = Len(mainQ) + 1 /\ Len(mainQ) \in Nat /\ mainQ'[n] = mainQ[n]
      BY <2>2, <2>3, QueueAppend
    <3>2. n \in 1..Len(mainQ')
      BY <3>1
    <3>3. QED  BY <2>1, <3>1, <3>2 DEF FinishPending
  <2>4. CASE mainQ # <<>> /\ Head(mainQ).kind # "finish" /\ mainQ' = Tail(mainQ)
    <3>1. /\ Len(mainQ') = Len(mainQ) - 1 /\ Len(mainQ) \in Nat \ {0} /\ Head(mainQ) = mainQ[1]
          /\ \A m \in 1..(Len(mainQ) - 1) : mainQ'[m] = mainQ[m + 1]
      BY <2>2, <2>4, QueueTail
    <3>2. n # 1
      BY <2>1, <2>2, <2>4, <3>1
    <3>3. n - 1 \in 1..Len(mainQ') /\ mainQ'[n - 1] = mainQ[(n - 1) + 1] /\ (n - 1) + 1 = n
      BY <3>1, <3>2
    <3>4. QED  BY <2>1, <3>3 DEF FinishPending
  <2>5. QED  BY <2>1, <2>3, <2>4 DEF FinishPending, QueueMoves
<1>2. QED  BY <1>1 DEF FinishPending

LEMMA ActivitiesKept ==
  ASSUME MsgInv, QueueMoves("finish"), UNCHANGED activity,
         \A k \in Jobs : Alive(k) => Alive(k)',
         \A k \in Jobs : stage[k] = "emitting" => stage'[k] = "emitting",
         \A k \in Jobs : Msg("finish", k) \in idleEvents => Msg("finish", k) \in idleEvents'
  PROVE  NoLostActivity'
<1>1. SUFFICES ASSUME NEW k \in Jobs, activity[k] = "shown", ~Alive(k)'  PROVE FinishPending(k)'
  BY DEF NoLostActivity, Alive
<1>2. FinishPending(k)
  BY <1>1 DEF MsgInv, NoLostActivity, Alive
<1>3. QED  BY <1>2, FinishKept

-----------------------------------------------------------------------------
(* The steps of the workers.                                               *)

LEMMA PushMoves ==
  ASSUME TypeOK, NEW j \in Jobs, NEW m \in Messages, PushMain(j, m), m.kind # "job"
  PROVE  /\ \A kind : kind # m.kind => QueueMoves(kind)
         /\ \A k \in Jobs : Alive(k)' <=> Alive(k)
         /\ active \subseteq active'
BY MsgIs DEF PushMain, QueueMoves, Alive

LEMMA WorkersKeep ==
  ASSUME MsgInv, NEW j \in Jobs,
         \/ Begin(j) \/ Attach(j) \/ ReportStart(j) \/ ReportEnd(j) \/ EndExec(j)
         \/ \E e \in Events : EmitFromWorker(j, e)
  PROVE  MsgInv'
<1> USE DEF MsgInv, jobVars, errorVars, actVars, mainVars, eaVars
<1>1. TypeOK'
  BY WorkersTyped DEF Work
<1>2. /\ UNCHANGED <<freed, replyQ, state, activity, creating, mainPc, callRefs, answered, idleEvents>>
      /\ stage' = stage \/ \E p \in InPool : stage' = [stage EXCEPT ![j] = p] /\ p # "calling"
                                             /\ stage[j] \in InPool /\ stage[j] # "calling"
  BY DEF Begin, Attach, ReportStart, ReportEnd, EndExec, EmitFromWorker, AfterEnd, InPool, Running
<1>3. \A k \in Jobs : /\ stage'[k] = stage[k] \/ (stage[k] \in InPool /\ stage'[k] \in InPool)
                      /\ stage'[k] = "calling" <=> stage[k] = "calling"
  BY <1>2 DEF TypeOK
<1>4. /\ \A k \in Jobs : Alive(k)' <=> Alive(k)
      /\ active \subseteq active'
      /\ QueueMoves("call") /\ QueueMoves("finish")
  <2>1. CASE Begin(j) \/ Attach(j) \/ EndExec(j)
    BY <2>1 DEF Begin, Attach, EndExec, Alive, QueueMoves
  <2>2. CASE ReportStart(j) \/ ReportEnd(j) \/ \E e \in Events : EmitFromWorker(j, e)
    <3>1. PICK m \in Messages : PushMain(j, m) /\ m.kind \in {"start", "end", "event"}
      BY <2>2, MsgIs, MsgTyped DEF ReportStart, ReportEnd, EmitFromWorker
    <3>2. QED  BY <3>1, PushMoves
  <2>3. QED  BY <2>1, <2>2
<1>5. LifeOfJobs' /\ RepliesAlive' /\ CreatesForJob'
  BY <1>2, <1>3, <1>4, LifeKept
<1>6. CallsCounted'
  BY <1>2, <1>3, <1>4, CallsKept
<1>7. NoLostActivity'
  BY <1>2, <1>3, <1>4, ActivitiesKept DEF InPool, Running
<1>8. IdleKinds'
  <2>1. \A m \in tasks' : m \in tasks \/ m.kind = "event"
    BY MsgIs DEF Begin, Attach, ReportStart, ReportEnd, EndExec, EmitFromWorker
  <2>2. QED  BY <1>2, <2>1 DEF IdleKinds
<1>9. QED  BY <1>1, <1>5, <1>6, <1>7, <1>8

\* mail_call_main: the call goes to the main thread and its result comes back.
LEMMA CallKeeps ==
  ASSUME MsgInv, NEW j \in Jobs, Call(j)
  PROVE  MsgInv'
<1> USE DEF MsgInv, jobVars, errorVars, actVars, mainVars, eaVars
<1> DEFINE m == Msg("call", j)
<1>1. TypeOK' /\ m \in Messages /\ m.kind = "call" /\ m.of = j
  BY WorkersTyped, MsgIs, MsgTyped
<1>2. /\ UNCHANGED <<freed, replyQ, state, activity, creating, mainPc, answered, idleEvents, tasks>>
      /\ stage[j] = "executing" /\ j \notin answered
      /\ stage' = [stage EXCEPT ![j] = "calling"] /\ callRefs' = [callRefs EXCEPT ![j] = 2]
      /\ PushMain(j, m) /\ mainQ' = Append(mainQ, m) /\ active' = active \cup {m}
  BY DEF Call, CallReferences, PushMain
<1>3. stage'[j] = "calling" /\ callRefs'[j] = 2
      /\ \A k \in Jobs : k # j => stage'[k] = stage[k] /\ callRefs'[k] = callRefs[k]
  BY <1>2 DEF TypeOK
<1>4. (\A k \in Jobs : Alive(k)' <=> Alive(k)) /\ active \subseteq active' /\ QueueMoves("finish")
  BY <1>1, <1>2, PushMoves
<1>5. LifeOfJobs' /\ RepliesAlive' /\ CreatesForJob'
  BY <1>2, <1>3, <1>4, LifeKept DEF InPool, Running
<1>6. NoLostActivity' /\ IdleKinds'
  BY <1>2, <1>3, <1>4, ActivitiesKept DEF IdleKinds
<1>7. CallsCounted'
  <2>1. /\ Len(mainQ') = Len(mainQ) + 1 /\ Len(mainQ) \in Nat
        /\ \A n \in 1..(Len(mainQ) + 1) : mainQ'[n] = IF n = Len(mainQ) + 1 THEN m ELSE mainQ[n]
    BY <1>1, <1>2, QueueAppend DEF TypeOK
  <2>2. \A n \in 1..Len(mainQ) : mainQ[n] # m
    BY <1>2 DEF CallsCounted
  <2>3. ASSUME NEW k \in Jobs, NEW n \in 1..Len(mainQ'), mainQ'[n] = Msg("call", k)
        PROVE  /\ stage'[k] = "calling" /\ k \notin answered
               /\ \A i \in 1..Len(mainQ') : mainQ'[i] = mainQ'[n] => i = n
    <3>1. CASE n = Len(mainQ) + 1
      <4>1. k = j
        BY <2>1, <2>3, <3>1, MsgIs
      <4>2. QED  BY <1>2, <1>3, <2>1, <2>2, <2>3, <3>1, <4>1
    <3>2. CASE n \in 1..Len(mainQ)
      <4>1. mainQ[n] = Msg("call", k) /\ k # j
        BY <2>1, <2>2, <2>3, <3>2
      <4>2. Msg("call", k) # m
        BY <4>1, MsgIs
      <4>3. QED  BY <1>3, <2>1, <2>3, <3>2, <4>1, <4>2 DEF CallsCounted
    <3>3. QED  BY <2>1, <3>1, <3>2
  <2>4. ASSUME NEW k \in Jobs, stage'[k] = "calling"
        PROVE  Msg("call", k) \in active' /\ callRefs'[k] = IF k \in answered THEN 1 ELSE 2
    BY <1>2, <1>3, <2>4 DEF CallsCounted
  <2>5. QED  BY <1>2, <2>3, <2>4 DEF CallsCounted
<1>8. QED  BY <1>1, <1>5, <1>6, <1>7

LEMMA ReturnKeeps ==
  ASSUME MsgInv, NEW j \in Jobs, Return(j)
  PROVE  MsgInv'
<1> USE DEF MsgInv, jobVars, errorVars, actVars, mainVars, eaVars
<1>1. TypeOK'
  BY WorkersTyped DEF Work
<1>2. /\ UNCHANGED <<freed, replyQ, state, activity, creating, mainPc, answered, idleEvents, tasks, mainQ>>
      /\ stage[j] = "calling" /\ j \in answered
      /\ stage' = [stage EXCEPT ![j] = "executing"]
      /\ callRefs' = [callRefs EXCEPT ![j] = @ - 1]
      /\ active \ {Msg("call", j)} \subseteq active' /\ active' \subseteq active
  BY DEF Return, UnrefCall
<1>3. stage'[j] = "executing"
      /\ \A k \in Jobs : k # j => stage'[k] = stage[k] /\ callRefs'[k] = callRefs[k]
  BY <1>2 DEF TypeOK
<1>4. \A k \in Jobs : Alive(k)' <=> Alive(k)
  BY <1>2, MsgIs DEF Alive
<1>5. QueueMoves("finish")
  BY <1>2 DEF QueueMoves
<1>6. LifeOfJobs' /\ RepliesAlive' /\ CreatesForJob'
  BY <1>2, <1>3, <1>4, LifeKept DEF InPool, Running
<1>7. NoLostActivity' /\ IdleKinds'
  BY <1>2, <1>3, <1>4, <1>5, ActivitiesKept DEF IdleKinds
<1>8. CallsCounted'
  <2>1. ASSUME NEW k \in Jobs, k # j  PROVE Msg("call", k) \in active => Msg("call", k) \in active'
    BY <1>2, <2>1, MsgIs
  <2>2. \A n \in 1..Len(mainQ) : mainQ[n] # Msg("call", j)
    BY <1>2 DEF CallsCounted
  <2>3. QED  BY <1>2, <1>3, <2>1, <2>2 DEF CallsCounted
<1>9. QED  BY <1>1, <1>6, <1>7, <1>8

\* The job goes to the reply queue.
LEMMA ReplyKeeps ==
  ASSUME MsgInv, NEW j \in Jobs, Reply(j)
  PROVE  MsgInv'
<1> USE DEF MsgInv, jobVars, errorVars, actVars, mainVars, eaVars
<1>1. TypeOK'
  BY WorkersTyped DEF Work
<1>2. /\ UNCHANGED <<active, freed, callRefs, answered, state, activity, creating, mainPc, mainQ,
                     idleEvents, tasks>>
      /\ stage[j] = "replying" /\ stage' = [stage EXCEPT ![j] = "replied"]
      /\ replyQ' = Append(replyQ, j)
  BY DEF Reply
<1>3. stage'[j] = "replied" /\ \A k \in Jobs : k # j => stage'[k] = stage[k]
  BY <1>2 DEF TypeOK
<1>4. Alive(j) /\ j \notin freed
  BY <1>2 DEF LifeOfJobs, Running
<1>5. LifeOfJobs'
  BY <1>2, <1>3, <1>4 DEF LifeOfJobs, Alive, Running
<1>6. RepliesAlive'
  <2>1. /\ Len(replyQ') = Len(replyQ) + 1 /\ Len(replyQ) \in Nat
        /\ \A n \in 1..(Len(replyQ) + 1) : replyQ'[n] = IF n = Len(replyQ) + 1 THEN j ELSE replyQ[n]
    BY <1>2, QueueAppend DEF TypeOK
  <2>2. \A n \in 1..Len(replyQ) : replyQ[n] \in Jobs /\ replyQ[n] # j
                                  /\ stage[replyQ[n]] = "replied" /\ Alive(replyQ[n])
    BY <1>2 DEF RepliesAlive, TypeOK
  <2>3. \A k \in Jobs : Alive(k)' <=> Alive(k)
    BY <1>2 DEF Alive
  <2>4. \A n \in 1..Len(replyQ') : replyQ'[n] \in Jobs /\ stage'[replyQ'[n]] = "replied" /\ Alive(replyQ'[n])
    BY <1>3, <1>4, <2>1, <2>2
  <2>5. \A k \in Jobs : Alive(k) => Alive(k)'
    BY <2>3
  <2>6. \A n \in 1..Len(replyQ') : \A m \in 1..Len(replyQ') : replyQ'[m] = replyQ'[n] => m = n
    BY <2>1, <2>2 DEF RepliesAlive
  <2>7. QED  BY <1>2, <2>4, <2>6 DEF RepliesAlive, Alive
<1>7. CreatesForJob'
  BY <1>2, <1>3 DEF CreatesForJob, Alive
<1>8. CallsCounted'
  BY <1>2, <1>3, CallsKept DEF QueueMoves
<1>9. NoLostActivity' /\ IdleKinds'
  BY <1>2, <1>3, ActivitiesKept DEF QueueMoves, Alive, IdleKinds
<1>10. QED  BY <1>1, <1>5, <1>6, <1>7, <1>8, <1>9

LEMMA SubmitKeeps ==
  ASSUME MsgInv, NEW j \in Jobs, Submit(j)
  PROVE  MsgInv'
<1> USE DEF MsgInv, jobVars, errorVars, actVars, mainVars, eaVars
<1>1. TypeOK'
  BY WorkersTyped
<1>2. /\ UNCHANGED <<freed, callRefs, answered, state, activity, creating, mainPc, mainQ, replyQ,
                     idleEvents, tasks>>
      /\ stage[j] = "new" /\ stage' = [stage EXCEPT ![j] = "queued"]
      /\ active' = active \cup {Msg("job", j)}
  BY DEF Submit
<1>3. stage'[j] = "queued" /\ \A k \in Jobs : k # j => stage'[k] = stage[k]
  BY <1>2 DEF TypeOK
<1>4. /\ Alive(j)' /\ \A k \in Jobs : k # j => (Alive(k)' <=> Alive(k))
      /\ \A k \in Jobs : Alive(k) => Alive(k)'
  BY <1>2, MsgIs DEF Alive
<1>5. LifeOfJobs'
  BY <1>2, <1>3, <1>4 DEF LifeOfJobs
<1>6. RepliesAlive'
  <2>1. \A n \in 1..Len(replyQ) : replyQ[n] \in Jobs /\ replyQ[n] # j
    BY <1>2 DEF RepliesAlive, TypeOK
  <2>2. \A n \in 1..Len(replyQ) : stage'[replyQ[n]] = "replied" /\ Msg("job", replyQ[n]) \in active'
    BY <1>2, <1>3, <2>1 DEF RepliesAlive, Alive
  <2>3. QED  BY <1>2, <2>2 DEF RepliesAlive, Alive
<1>7. CreatesForJob'
  BY <1>2, <1>3, <1>4 DEF CreatesForJob
<1>8. CallsCounted'
  BY <1>2, <1>3, CallsKept DEF QueueMoves
<1>9. NoLostActivity' /\ IdleKinds'
  BY <1>2, <1>3, <1>4, ActivitiesKept DEF QueueMoves, IdleKinds
<1>10. QED  BY <1>1, <1>5, <1>6, <1>7, <1>8, <1>9

\* mail_msg_unref by the thread of a session job: it frees the job, and if
\* there is an activity goes on to end it; or it leaves the job to the main
\* thread, which is creating its activity.
LEMMA UnrefByWorkerKeeps ==
  ASSUME MsgInv, NEW j \in Jobs, UnrefByWorker(j)
  PROVE  MsgInv'
<1> USE DEF MsgInv, jobVars, errorVars, actVars, mainVars, eaVars
<1>1. TypeOK'
  BY WorkersTyped DEF Work
<1>2. /\ UNCHANGED <<callRefs, answered, activity, creating, mainPc, mainQ, replyQ, idleEvents, tasks>>
      /\ stage[j] = "freeing" /\ active' = active \ {Msg("job", j)}
  BY DEF UnrefByWorker
<1>3. Alive(j) /\ j \notin freed
  BY <1>2 DEF LifeOfJobs, Running
<1>4. ~Alive(j)' /\ \A k \in Jobs : k # j => (Alive(k)' <=> Alive(k))
  BY <1>2, MsgIs DEF Alive
<1>5. \A k \in Jobs : k # j => stage'[k] = stage[k] /\ state'[k] = state[k]
  BY DEF UnrefByWorker, TypeOK
<1>6. /\ stage'[j] \in {"gone", "emitting"}
      /\ freed' \in {freed, freed \cup {j}}
      /\ state[j] = 1 => state'[j] = 3 /\ stage'[j] = "gone" /\ freed' = freed
      /\ state[j] # 1 => state' = state /\ freed' = freed \cup {j}
                         /\ (activity[j] # "none" => stage'[j] = "emitting")
  BY DEF UnrefByWorker, TypeOK
<1>7. LifeOfJobs'
  BY <1>4, <1>5, <1>6 DEF LifeOfJobs, Running
<1>8. RepliesAlive'
  <2>1. \A n \in 1..Len(replyQ) : replyQ[n] \in Jobs /\ replyQ[n] # j
    BY <1>2 DEF RepliesAlive, TypeOK
  <2>2. \A n \in 1..Len(replyQ) : stage'[replyQ[n]] = "replied" /\ Msg("job", replyQ[n]) \in active'
    BY <1>2, <1>5, <2>1, MsgIs DEF RepliesAlive, Alive
  <2>3. QED  BY <1>2, <2>2 DEF RepliesAlive, Alive
<1>9. CreatesForJob'
  <2>1. state[j] # 3
    BY <1>2 DEF CreatesForJob
  <2>2. mainPc = "creating" => creating.of \in Jobs
    BY MsgTyped DEF CreatesForJob
  <2>3. state[j] = 1 => mainPc = "creating" /\ creating.of = j /\ activity[j] # "shown"
    BY <1>3 DEF CreatesForJob
  <2>4. state[j] # 1 /\ mainPc = "creating" => creating.of # j
    BY <2>1 DEF CreatesForJob
  <2>5. ASSUME NEW k \in Jobs
        PROVE  /\ state'[k] = 1 => Alive(k)'
               /\ state'[k] = 3 => stage'[k] = "gone"
               /\ state'[k] \in {1, 3} /\ k \notin freed' =>
                    mainPc = "creating" /\ creating.of = k /\ activity[k] # "shown"
    <3>1. CASE k = j
      BY <1>6, <2>1, <2>3, <3>1
    <3>2. CASE k # j
      BY <1>4, <1>5, <1>6, <3>2 DEF CreatesForJob
    <3>3. QED  BY <3>1, <3>2
  <2>6. mainPc = "creating" => /\ creating \in Messages /\ creating.kind \in {"start", "end"}
                               /\ state'[creating.of] \in {1, 3} /\ creating.of \notin freed'
    BY <1>5, <1>6, <2>2, <2>4 DEF CreatesForJob
  <2>7. QED  BY <1>2, <2>5, <2>6 DEF CreatesForJob
<1>10. CallsCounted'
  BY <1>2, <1>5, <1>6, MsgIs, CallsKept DEF QueueMoves
<1>11. NoLostActivity'
  <2>1. SUFFICES ASSUME NEW k \in Jobs, activity[k] = "shown", ~Alive(k)'  PROVE FinishPending(k)'
    BY <1>2 DEF NoLostActivity, Alive
  <2>2. CASE k = j
    <3>1. state[j] # 1
      BY <1>3, <2>1, <2>2 DEF CreatesForJob
    <3>2. QED  BY <1>6, <2>1, <2>2, <3>1 DEF FinishPending
  <2>3. CASE k # j
    BY <1>2, <1>4, <1>5, <2>1, <2>3, FinishKept DEF NoLostActivity, Alive, QueueMoves
  <2>4. QED  BY <2>2, <2>3
<1>12. IdleKinds'
  BY <1>2 DEF IdleKinds
<1>13. QED  BY <1>1, <1>7, <1>8, <1>9, <1>10, <1>11, <1>12

LEMMA EmitFinishKeeps ==
  ASSUME MsgInv, NEW j \in Jobs, EmitFinish(j)
  PROVE  MsgInv'
<1> USE DEF MsgInv, jobVars, errorVars, actVars, mainVars, eaVars
<1> DEFINE m == Msg("finish", j)
<1>1. TypeOK' /\ m \in Messages /\ m.kind = "finish"
  BY WorkersTyped, MsgIs, MsgTyped DEF Work
<1>2. /\ UNCHANGED <<freed, replyQ, state, activity, creating, mainPc, callRefs, answered, idleEvents, tasks>>
      /\ stage[j] = "emitting" /\ stage' = [stage EXCEPT ![j] = "gone"]
      /\ PushMain(j, m) /\ mainQ' = Append(mainQ, m)
  BY DEF EmitFinish, PushMain
<1>3. stage'[j] = "gone" /\ \A k \in Jobs : k # j => stage'[k] = stage[k]
  BY <1>2 DEF TypeOK
<1>4. (\A k \in Jobs : Alive(k)' <=> Alive(k)) /\ active \subseteq active' /\ QueueMoves("call")
  BY <1>1, <1>2, PushMoves
<1>5. LifeOfJobs' /\ RepliesAlive' /\ CreatesForJob'
  BY <1>2, <1>3, <1>4, LifeKept
<1>6. CallsCounted' /\ IdleKinds'
  BY <1>2, <1>3, <1>4, CallsKept DEF IdleKinds
<1>7. NoLostActivity'
  <2>1. SUFFICES ASSUME NEW k \in Jobs, activity[k] = "shown", ~Alive(k)'  PROVE FinishPending(k)'
    BY <1>2 DEF NoLostActivity, Alive
  <2>2. FinishPending(k)
    BY <1>4, <2>1 DEF NoLostActivity, Alive
  <2>3. /\ Len(mainQ') = Len(mainQ) + 1 /\ Len(mainQ) \in Nat
        /\ \A n \in 1..(Len(mainQ) + 1) : mainQ'[n] = IF n = Len(mainQ) + 1 THEN m ELSE mainQ[n]
    BY <1>1, <1>2, QueueAppend DEF TypeOK
  <2>4. CASE k = j
    <3>1. Len(mainQ') \in 1..Len(mainQ') /\ mainQ'[Len(mainQ')] = m
      BY <2>3
    <3>2. QED  BY <2>4, <3>1 DEF FinishPending
  <2>5. CASE k # j
    <3>1. \A n \in 1..Len(mainQ) : n \in 1..Len(mainQ') /\ mainQ'[n] = mainQ[n]
      BY <2>3
    <3>2. QED  BY <1>2, <1>3, <2>2, <2>5, <3>1 DEF FinishPending
  <2>6. QED  BY <2>4, <2>5
<1>8. QED  BY <1>1, <1>5, <1>6, <1>7

-----------------------------------------------------------------------------
(* The steps of the main thread and of the user interface.                 *)

\* Turns of the loop, waits, and what the user does.
LEMMA TurnsKeep ==
  ASSUME MsgInv,
         \/ Dispatch \/ MainQDrained \/ ReplyQDrained \/ WaitReturns \/ DestroyTask \/ DestroyReturn
         \/ \E j \in Jobs : Wait(j)
         \/ CancelSome \/ Destroy
         \/ \E e \in Events : EmitInMain(e)
         \/ \E i \in Infos : ErrorDialog(i)
  PROVE  MsgInv'
<1> USE DEF MsgInv, jobVars, errorVars, actVars, mainVars, eaVars
<1>1. TypeOK'
  BY MainThreadTyped, UserTyped DEF MainThread
<1>2. UNCHANGED <<stage, freed, replyQ, state, activity, creating, callRefs, answered, mainQ>>
  BY DEF Dispatch, MainQDrained, ReplyQDrained, WaitReturns, DestroyTask, DestroyReturn, Wait,
         CancelSome, Cancel, Destroy, EmitInMain, ErrorDialog, DialogTurns
<1>3. mainPc' = "creating" <=> mainPc = "creating"
  BY DEF Dispatch, InLoop, MainQDrained, ReplyQDrained, WaitReturns, DestroyTask, DestroyReturn,
         Wait, CancelSome, Cancel, Destroy, EmitInMain, ErrorDialog, DialogTurns
<1>4. active' = active \/ \E e \in Events : active' = active \cup {Msg("event", e)}
  BY DEF Dispatch, MainQDrained, ReplyQDrained, WaitReturns, DestroyTask, DestroyReturn, Wait,
         CancelSome, Cancel, Destroy, EmitInMain, ErrorDialog, DialogTurns
<1>5. /\ \A m \in idleEvents' : m \in idleEvents \/ m.kind = "event"
      /\ \A m \in tasks' : m \in tasks \/ m.kind = "event"
      /\ \A m \in idleEvents : m \in idleEvents' \/ m.kind = "event"
  BY MsgIs DEF Dispatch, MainQDrained, ReplyQDrained, WaitReturns, DestroyTask, DestroyReturn, Wait,
               CancelSome, Cancel, Destroy, EmitInMain, ErrorDialog, DialogTurns, IdleKinds
<1>6. /\ \A k \in Jobs : Alive(k)' <=> Alive(k)
      /\ active \subseteq active'
  BY <1>4, MsgIs DEF Alive
<1>7. LifeOfJobs' /\ RepliesAlive' /\ CreatesForJob'
  BY <1>2, <1>3, <1>6, LifeKept
<1>8. CallsCounted'
  BY <1>2, <1>6, CallsKept DEF QueueMoves
<1>9. IdleKinds'
  BY <1>5 DEF IdleKinds
<1>10. \A k \in Jobs : Msg("finish", k) \in idleEvents => Msg("finish", k) \in idleEvents'
  BY <1>5, MsgIs
<1>11. NoLostActivity'
  BY <1>2, <1>6, <1>10, ActivitiesKept DEF QueueMoves
<1>12. QED  BY <1>1, <1>7, <1>8, <1>9, <1>11

\* The main thread takes a message from the main queue.
LEMMA HeadTyped ==
  ASSUME TypeOK, NEW kinds, HeadIs(kinds)
  PROVE  /\ mainPc = "mainQ" /\ mainQ # <<>> /\ Head(mainQ) \in Messages /\ Head(mainQ).kind \in kinds
         /\ Head(mainQ) = Msg(Head(mainQ).kind, Head(mainQ).of)
         /\ Head(mainQ).kind # "event" => Head(mainQ).of \in Jobs
BY QueueTail, MsgTyped DEF HeadIs, TypeOK

LEMMA HandleStatusKeeps ==
  ASSUME MsgInv, HandleStatus
  PROVE  MsgInv'
<1> USE DEF MsgInv, jobVars, errorVars, actVars, mainVars, eaVars
<1> DEFINE m == Head(mainQ)
<1>1. TypeOK'
  BY MainThreadTyped DEF MainThread
<1>2. mainPc = "mainQ" /\ mainQ # <<>> /\ m \in Messages /\ m.kind \in {"start", "end"}
      /\ m = Msg(m.kind, m.of) /\ m.of \in Jobs
  <2>1. HeadIs({"start", "end"})
    BY DEF HandleStatus
  <2>2. QED  BY <2>1, HeadTyped
<1>3. /\ UNCHANGED <<stage, freed, replyQ, activity, callRefs, answered, idleEvents, tasks>>
      /\ mainQ' = Tail(mainQ)
      /\ active' = active \/ active' = active \ {m}
  BY DEF HandleStatus
<1>4. QueueMoves("call") /\ QueueMoves("finish")
  BY <1>2, <1>3 DEF QueueMoves
<1>5. /\ \A k \in Jobs : Alive(k)' <=> Alive(k)
      /\ \A k \in Jobs : Msg("call", k) \in active => Msg("call", k) \in active'
  BY <1>2, <1>3, MsgIs DEF Alive
<1>6. LifeOfJobs' /\ RepliesAlive'
  BY <1>3, <1>5 DEF LifeOfJobs, RepliesAlive, Alive, TypeOK
<1>7. CallsCounted' /\ NoLostActivity' /\ IdleKinds'
  BY <1>3, <1>4, <1>5, CallsKept, ActivitiesKept DEF IdleKinds
<1>8. CreatesForJob'
  <2>1. CASE /\ Msg("job", m.of) \in active /\ activity[m.of] = "none" /\ state[m.of] \in {0, 2}
             /\ state' = [state EXCEPT ![m.of] = 1] /\ mainPc' = "creating" /\ creating' = m
    <3>1. Alive(m.of) /\ m.of \notin freed
      BY <1>2, <2>1 DEF LifeOfJobs, Alive
    <3>2. state'[m.of] = 1 /\ \A k \in Jobs : k # m.of => state'[k] = state[k]
      BY <1>2, <2>1 DEF TypeOK
    <3>3. \A k \in Jobs : k # m.of /\ state'[k] \in {1, 3} => k \in freed
      BY <1>2, <3>2 DEF CreatesForJob
    <3> HIDE DEF m
    <3>4. QED  BY <1>2, <1>3, <1>5, <2>1, <3>1, <3>2, <3>3 DEF CreatesForJob
  <2>2. CASE UNCHANGED <<state, mainPc, creating>>
    BY <1>2, <1>3, <1>5, <2>2 DEF CreatesForJob
  <2>3. QED  BY <2>1, <2>2 DEF HandleStatus
<1>9. QED  BY <1>1, <1>6, <1>7, <1>8

\* op_status_exec has the activity: it keeps it, or frees the job that has lost
\* its last reference meanwhile and ends the activity.
LEMMA CreateActivityKeeps ==
  ASSUME MsgInv, CreateActivity
  PROVE  MsgInv'
<1> USE DEF MsgInv, jobVars, errorVars, actVars, mainVars, eaVars
<1> DEFINE j == creating.of
           f == Msg("finish", j)
<1>1. TypeOK'
  BY MainThreadTyped DEF MainThread
<1>2. /\ mainPc = "creating" /\ mainPc' = "mainQ" /\ creating \in Messages
      /\ creating.kind \in {"start", "end"} /\ creating = Msg(creating.kind, j) /\ j \in Jobs
      /\ state[j] \in {1, 3} /\ j \notin freed
  BY MsgTyped DEF CreateActivity, CreatesForJob
<1>3. /\ UNCHANGED <<stage, replyQ, callRefs, answered, mainQ, tasks>>
      /\ activity' = [activity EXCEPT ![j] = "shown"]
      /\ active \ {creating} \subseteq active' /\ active' \subseteq active \cup {f}
      /\ idleEvents \subseteq idleEvents' /\ idleEvents' \subseteq idleEvents \cup {f}
  BY DEF CreateActivity
<1>4. /\ \A k \in Jobs : Alive(k)' <=> Alive(k)
      /\ \A k \in Jobs : Msg("call", k) \in active => Msg("call", k) \in active'
  BY <1>2, <1>3, MsgIs DEF Alive
<1>5. /\ state[j] = 3 => state' = state /\ freed' = freed \cup {j} /\ f \in idleEvents'
      /\ state[j] = 1 => state' = [state EXCEPT ![j] = 2] /\ freed' = freed
  BY DEF CreateActivity
<1>6. /\ state[j] = 3 => stage[j] = "gone" /\ ~Alive(j)
      /\ state[j] = 1 => Alive(j)
  BY <1>2 DEF CreatesForJob, LifeOfJobs
<1>7. LifeOfJobs'
  BY <1>2, <1>3, <1>4, <1>5, <1>6 DEF LifeOfJobs
<1>8. RepliesAlive'
  BY <1>3, <1>4 DEF RepliesAlive, Alive, TypeOK
<1>9. CreatesForJob'
  <2>1. ASSUME NEW k \in Jobs, k # j
        PROVE  state'[k] = state[k] /\ (state[k] \in {1, 3} => k \in freed /\ k \in freed')
    BY <1>2, <1>5, <2>1 DEF CreatesForJob, TypeOK
  <2>2. state'[j] = 2 \/ (state'[j] = 3 /\ j \in freed' /\ stage[j] = "gone")
    BY <1>2, <1>5, <1>6 DEF TypeOK
  <2>3. QED  BY <1>2, <1>3, <1>4, <2>1, <2>2 DEF CreatesForJob
<1>10. CallsCounted'
  BY <1>3, <1>4, CallsKept DEF QueueMoves
<1>11. IdleKinds'
  BY <1>3, MsgIs DEF IdleKinds
<1>12. NoLostActivity'
  <2>1. SUFFICES ASSUME NEW k \in Jobs, activity'[k] = "shown", ~Alive(k)'  PROVE FinishPending(k)'
    BY DEF NoLostActivity, Alive
  <2>2. CASE k = j
    BY <1>2, <1>4, <1>5, <1>6, <2>1, <2>2 DEF FinishPending
  <2>3. CASE k # j
    <3>1. activity[k] = "shown" /\ ~Alive(k)
      BY <1>2, <1>3, <1>4, <2>1, <2>3 DEF TypeOK
    <3>2. QED  BY <1>3, <3>1, FinishKept DEF NoLostActivity, Alive, QueueMoves
  <2>4. QED  BY <2>2, <2>3
<1>13. QED  BY <1>1, <1>7, <1>8, <1>9, <1>10, <1>11, <1>12

\* The main queue without its first message.
LEMMA HeadDropped ==
  ASSUME TypeOK, mainQ # <<>>, mainQ' = Tail(mainQ)
  PROVE  /\ 1 \in 1..Len(mainQ) /\ Head(mainQ) = mainQ[1]
         /\ \A n \in 1..Len(mainQ') : n + 1 \in 1..Len(mainQ) /\ mainQ'[n] = mainQ[n + 1]
         /\ \A n \in 1..Len(mainQ) : n # 1 => n - 1 \in 1..Len(mainQ') /\ mainQ'[n - 1] = mainQ[n]
<1>1. /\ Len(mainQ') = Len(mainQ) - 1 /\ Len(mainQ) \in Nat \ {0} /\ Head(mainQ) = mainQ[1]
      /\ \A n \in 1..(Len(mainQ) - 1) : mainQ'[n] = mainQ[n + 1]
  BY QueueTail DEF TypeOK
<1>2. \A n \in 1..Len(mainQ') : n + 1 \in 1..Len(mainQ) /\ mainQ'[n] = mainQ[n + 1]
  BY <1>1
<1>3. ASSUME NEW n \in 1..Len(mainQ), n # 1
      PROVE  n - 1 \in 1..Len(mainQ') /\ mainQ'[n - 1] = mainQ[n]
  <2>1. n - 1 \in 1..(Len(mainQ) - 1) /\ (n - 1) + 1 = n
    BY <1>1, <1>3
  <2>2. QED  BY <1>1, <2>1
<1>4. QED  BY <1>1, <1>2, <1>3

\* do_call answers the caller, which keeps a reference of its own.
LEMMA HandleCallKeeps ==
  ASSUME MsgInv, HandleCall
  PROVE  MsgInv'
<1> USE DEF MsgInv, jobVars, errorVars, actVars, mainVars, eaVars
<1> DEFINE j == Head(mainQ).of
<1>1. TypeOK'
  BY MainThreadTyped DEF MainThread
<1>2. HeadIs({"call"})
  BY DEF HandleCall
<1>3. mainQ # <<>> /\ Head(mainQ) \in Messages /\ Head(mainQ) = Msg("call", j) /\ j \in Jobs
      /\ Head(mainQ).kind = "call"
  BY <1>2, HeadTyped
<1>4. /\ UNCHANGED <<stage, freed, replyQ, state, activity, creating, mainPc, idleEvents, tasks>>
      /\ mainQ' = Tail(mainQ) /\ answered' = answered \cup {j}
      /\ callRefs' = [callRefs EXCEPT ![j] = @ - 1]
      /\ active' = IF callRefs[j] = 1 THEN active \ {Msg("call", j)} ELSE active
  BY DEF HandleCall, UnrefCall
<1>5. /\ 1 \in 1..Len(mainQ) /\ mainQ[1] = Msg("call", j)
      /\ \A n \in 1..Len(mainQ') : n + 1 \in 1..Len(mainQ) /\ mainQ'[n] = mainQ[n + 1]
  BY <1>3, <1>4, HeadDropped
<1>6. /\ stage[j] = "calling" /\ j \notin answered
      /\ \A n \in 1..Len(mainQ) : mainQ[n] = Msg("call", j) => n = 1
  BY <1>3, <1>5 DEF CallsCounted
<1>7. callRefs[j] = 2 /\ Msg("call", j) \in active
  BY <1>3, <1>6 DEF CallsCounted
<1>8. active' = active /\ callRefs'[j] = 1 /\ \A k \in Jobs : k # j => callRefs'[k] = callRefs[k]
  BY <1>3, <1>4, <1>7 DEF TypeOK
<1>9. \A k \in Jobs : Alive(k)' <=> Alive(k)
  BY <1>8 DEF Alive
<1>10. LifeOfJobs' /\ RepliesAlive' /\ CreatesForJob'
  BY <1>4, <1>9, LifeKept
<1>11. NoLostActivity' /\ IdleKinds'
  BY <1>3, <1>4, <1>9, ActivitiesKept DEF QueueMoves, IdleKinds
<1>12. CallsCounted'
  <2>1. ASSUME NEW k \in Jobs, NEW n \in 1..Len(mainQ'), mainQ'[n] = Msg("call", k)
        PROVE  /\ stage[k] = "calling" /\ k \notin answered'
               /\ \A m \in 1..Len(mainQ') : mainQ'[m] = mainQ'[n] => m = n
    <3>1. n + 1 \in 1..Len(mainQ) /\ mainQ[n + 1] = Msg("call", k) /\ n + 1 # 1
      BY <1>5, <2>1
    <3>2. k # j
      BY <1>6, <3>1
    <3>3. stage[k] = "calling" /\ k \notin answered
          /\ \A m \in 1..Len(mainQ) : mainQ[m] = Msg("call", k) => m = n + 1
      BY <3>1 DEF CallsCounted
    <3>4. ASSUME NEW m \in 1..Len(mainQ'), mainQ'[m] = Msg("call", k)  PROVE m = n
      <4>1. m + 1 \in 1..Len(mainQ) /\ mainQ[m + 1] = Msg("call", k)
        BY <1>5, <3>4
      <4>2. m + 1 = n + 1
        BY <3>3, <4>1
      <4>3. QED  BY <4>2
    <3>5. QED  BY <1>4, <2>1, <3>2, <3>3, <3>4
  <2>2. ASSUME NEW k \in Jobs, stage[k] = "calling"
        PROVE  Msg("call", k) \in active' /\ callRefs'[k] = IF k \in answered' THEN 1 ELSE 2
    BY <1>4, <1>7, <1>8, <2>2 DEF CallsCounted
  <2>3. QED  BY <1>4, <2>1, <2>2 DEF CallsCounted
<1>13. QED  BY <1>1, <1>10, <1>11, <1>12

\* do_async_event for a message of the main queue or of an idle source.
LEMMA RunEventKeeps ==
  ASSUME MsgInv, TypeOK', NEW m \in Messages, RunEvent(m), m.kind \in {"event", "finish"},
         UNCHANGED <<stage, freed, replyQ, state, creating, mainPc, callRefs, answered>>,
         \/ mainQ' = mainQ
         \/ mainQ # <<>> /\ Head(mainQ) = m /\ mainQ' = Tail(mainQ),
         idleEvents' \subseteq idleEvents, idleEvents \ {m} \subseteq idleEvents'
  PROVE  MsgInv'
<1> USE DEF MsgInv, jobVars, errorVars, actVars, mainVars, eaVars
<1>1. /\ active' = active \ {m} /\ tasks' = tasks \ {m}
      /\ activity' = activity \/ (m.kind = "finish" /\ activity' = [activity EXCEPT ![m.of] = "complete"])
  BY DEF RunEvent
<1>2. m = Msg(m.kind, m.of) /\ (m.kind = "finish" => m.of \in Jobs)
  BY MsgTyped
<1>3. /\ \A k \in Jobs : Alive(k)' <=> Alive(k)
      /\ \A k \in Jobs : Msg("call", k) \in active => Msg("call", k) \in active'
  BY <1>1, MsgIs DEF Alive
<1>4. \A k \in Jobs : activity'[k] = activity[k] \/ (m = Msg("finish", k) /\ activity'[k] = "complete")
  BY <1>1, <1>2 DEF TypeOK
<1>5. LifeOfJobs' /\ RepliesAlive'
  BY <1>3 DEF LifeOfJobs, RepliesAlive, Alive, TypeOK
<1>6. CreatesForJob'
  BY <1>3, <1>4 DEF CreatesForJob
<1>7. CallsCounted'
  BY <1>3, CallsKept DEF QueueMoves
<1>8. IdleKinds'
  BY <1>1 DEF IdleKinds
<1>9. NoLostActivity'
  <2>1. SUFFICES ASSUME NEW k \in Jobs, activity'[k] = "shown", ~Alive(k)'  PROVE FinishPending(k)'
    BY DEF NoLostActivity, Alive
  <2>2. activity[k] = "shown" /\ ~Alive(k)
    BY <1>3, <1>4, <2>1
  <2>3. CASE m = Msg("finish", k)
    <3>1. m.kind = "finish" /\ m.of = k
      BY <2>3, MsgIs
    <3>2. activity'[k] = "complete"
      BY <2>2, <3>1 DEF RunEvent, TypeOK
    <3>3. QED  BY <2>1, <3>2
  <2>4. CASE m # Msg("finish", k)
    <3>1. FinishPending(k)
      BY <2>2 DEF NoLostActivity, Alive
    <3>2. ASSUME NEW n \in 1..Len(mainQ), mainQ[n] = Msg("finish", k)  PROVE FinishPending(k)'
      <4>1. CASE mainQ' = mainQ
        BY <3>2, <4>1 DEF FinishPending
      <4>2. CASE mainQ # <<>> /\ Head(mainQ) = m /\ mainQ' = Tail(mainQ)
        <5>1. n # 1
          BY <2>4, <3>2, <4>2, HeadDropped
        <5>2. n - 1 \in 1..Len(mainQ') /\ mainQ'[n - 1] = mainQ[n]
          BY <4>2, <5>1, HeadDropped
        <5>3. QED  BY <3>2, <5>2 DEF FinishPending
      <4>3. QED  BY <4>1, <4>2
    <3>3. QED  BY <2>4, <3>1, <3>2 DEF FinishPending
  <2>5. QED  BY <2>3, <2>4
<1>10. QED  BY <1>5, <1>6, <1>7, <1>8, <1>9

LEMMA EventsKeep ==
  ASSUME MsgInv, HandleEvent \/ \E m \in idleEvents : HandleIdleEvent(m)
  PROVE  MsgInv'
<1> USE DEF jobVars, errorVars, actVars, mainVars, eaVars
<1>1. TypeOK'
  BY MainThreadTyped DEF MainThread
<1>2. CASE HandleEvent
  <2>1. HeadIs({"event", "finish"})
    BY <1>2 DEF HandleEvent
  <2>2. mainQ # <<>> /\ Head(mainQ) \in Messages /\ Head(mainQ).kind \in {"event", "finish"}
    BY <2>1, HeadTyped DEF MsgInv
  <2>3. QED  BY <1>1, <1>2, <2>2, RunEventKeeps DEF HandleEvent
<1>3. CASE \E m \in idleEvents : HandleIdleEvent(m)
  <2>1. PICK m \in idleEvents : HandleIdleEvent(m)
    BY <1>3
  <2>2. m \in Messages /\ m.kind \in {"event", "finish"}
    BY DEF MsgInv, TypeOK, IdleKinds
  <2>3. QED  BY <1>1, <2>1, <2>2, RunEventKeeps DEF HandleIdleEvent
<1>4. QED  BY <1>2, <1>3

\* A reply: the job is freed, and the end of its activity emitted.
LEMMA HandleReplyKeeps ==
  ASSUME MsgInv, HandleReply
  PROVE  MsgInv'
<1> USE DEF MsgInv, jobVars, errorVars, actVars, mainVars, eaVars
<1>1. TypeOK'
  BY MainThreadTyped DEF MainThread
<1>0. PICK j : j = Head(replyQ)
  OBVIOUS
<1> DEFINE f == Msg("finish", j)
<1>2. /\ UNCHANGED <<stage, state, activity, creating, mainPc, callRefs, answered, mainQ, tasks>>
      /\ mainPc = "replyQ" /\ replyQ # <<>> /\ replyQ' = Tail(replyQ)
      /\ freed' = freed \cup {j}
      /\ active \ {Msg("job", j)} \subseteq active' /\ active' \subseteq (active \ {Msg("job", j)}) \cup {f}
      /\ idleEvents \subseteq idleEvents' /\ idleEvents' \subseteq idleEvents \cup {f}
      /\ activity[j] # "none" => f \in idleEvents'
  BY <1>0 DEF HandleReply
<1>3. /\ Len(replyQ') = Len(replyQ) - 1 /\ Len(replyQ) \in Nat \ {0} /\ j = replyQ[1] /\ j \in Jobs
      /\ \A n \in 1..(Len(replyQ) - 1) : replyQ'[n] = replyQ[n + 1]
  BY <1>0, <1>2, QueueTail DEF TypeOK
<1>4. \A n \in 1..Len(replyQ') : n + 1 \in 1..Len(replyQ) /\ replyQ'[n] = replyQ[n + 1]
                                 /\ replyQ'[n] \in Jobs
  BY <1>1, <1>3 DEF TypeOK
<1>5. 1 \in 1..Len(replyQ) /\ stage[j] = "replied" /\ Alive(j)
      /\ \A n \in 1..Len(replyQ) : replyQ[n] = j => n = 1
  <2>1. 1 \in 1..Len(replyQ)
    BY <1>3
  <2>2. QED  BY <1>3, <2>1 DEF RepliesAlive
<1>6. j \notin freed /\ state[j] \notin {1, 3}
  BY <1>2, <1>3, <1>5 DEF LifeOfJobs, CreatesForJob
<1>7. ~Alive(j)' /\ \A k \in Jobs : k # j => (Alive(k)' <=> Alive(k))
  BY <1>2, MsgIs DEF Alive
<1>8. LifeOfJobs'
  BY <1>2, <1>5, <1>7 DEF LifeOfJobs, Running
<1>9. RepliesAlive'
  <2>1. \A n \in 1..Len(replyQ') : replyQ'[n] # j
    <3>1. SUFFICES ASSUME NEW n \in 1..Len(replyQ'), replyQ'[n] = j  PROVE FALSE
      OBVIOUS
    <3>2. n + 1 = 1
      BY <1>4, <1>5, <3>1
    <3>3. QED  BY <3>2
  <2>2. \A n \in 1..Len(replyQ') : stage[replyQ'[n]] = "replied" /\ Msg("job", replyQ'[n]) \in active
    BY <1>4 DEF RepliesAlive, Alive
  <2>3. \A n \in 1..Len(replyQ') : Msg("job", replyQ'[n]) \in active'
    BY <1>2, <2>1, <2>2, MsgIs
  <2>4. ASSUME NEW n \in 1..Len(replyQ'), NEW m \in 1..Len(replyQ'), replyQ'[m] = replyQ'[n]
        PROVE  m = n
    <3>1. m + 1 = n + 1
      BY <1>4, <2>4 DEF RepliesAlive
    <3>2. QED  BY <3>1
  <2>5. QED  BY <1>2, <2>2, <2>3, <2>4 DEF RepliesAlive, Alive
<1>10. CreatesForJob'
  BY <1>2, <1>6, <1>7 DEF CreatesForJob
<1>11. CallsCounted'
  <2>1. \A k \in Jobs : Msg("call", k) \in active => Msg("call", k) \in active'
    BY <1>2, MsgIs
  <2>2. QED  BY <1>2, <2>1, CallsKept DEF QueueMoves
<1>12. IdleKinds'
  BY <1>2, MsgIs DEF IdleKinds
<1>13. NoLostActivity'
  <2>1. SUFFICES ASSUME NEW k \in Jobs, activity[k] = "shown", ~Alive(k)'  PROVE FinishPending(k)'
    BY <1>2 DEF NoLostActivity, Alive
  <2>2. CASE k = j
    BY <1>2, <2>1, <2>2 DEF FinishPending
  <2>3. CASE k # j
    <3>1. FinishPending(k)
      BY <1>7, <2>1, <2>3 DEF NoLostActivity, Alive
    <3>2. QED  BY <1>2, <3>1 DEF FinishPending
  <2>4. QED  BY <2>2, <2>3
<1>14. QED  BY <1>1, <1>8, <1>9, <1>10, <1>11, <1>12, <1>13

-----------------------------------------------------------------------------
LEMMA MsgInvStep ==
  ASSUME MsgInv, [Next]_vars
  PROVE  MsgInv'
<1>1. CASE UNCHANGED vars
  BY <1>1 DEF vars, MsgInv, TypeOK, LifeOfJobs, RepliesAlive, CreatesForJob, CallsCounted, IdleKinds,
              NoLostActivity, FinishPending, Alive
<1>2. ASSUME NEW j \in Jobs,
             \/ Begin(j) \/ Work(j) \/ Call(j) \/ EndExec(j) \/ Submit(j)
             \/ \E e \in Events : EmitFromWorker(j, e)
      PROVE  MsgInv'
  BY <1>2, WorkersKeep, CallKeeps, ReturnKeeps, ReplyKeeps, SubmitKeeps, UnrefByWorkerKeeps,
     EmitFinishKeeps DEF Work
<1>3. CASE MainThread
  BY <1>3, TurnsKeep, HandleStatusKeeps, CreateActivityKeeps, HandleCallKeeps, EventsKeep,
     HandleReplyKeeps DEF MainThread
<1>4. CASE \/ \E j \in Jobs : Wait(j)
           \/ CancelSome \/ Destroy
           \/ \E e \in Events : EmitInMain(e)
           \/ \E i \in Infos : ErrorDialog(i)
  BY <1>4, TurnsKeep
<1>5. QED  BY <1>1, <1>2, <1>3, <1>4 DEF Next

LEMMA MsgInvariant == Spec => []MsgInv
<1>1. Init => MsgInv
  <2>1. ASSUME Init  PROVE TypeOK
    <3>1. stage \in [Jobs -> {"new"}] /\ callRefs \in [Jobs -> {0}] /\ state \in [Jobs -> {0}]
          /\ activity \in [Jobs -> {"none"}] /\ dialog \in [Infos -> {"none"}]
      BY <2>1 DEF Init
    <3>2. mainQ \in Seq(Messages) /\ replyQ \in Seq(Jobs)
      BY <2>1 DEF Init
    <3>3. stage \in [Jobs -> {"new", "queued", "replied", "gone"} \cup Running]
      BY <3>1
    <3>4. callRefs \in [Jobs -> 0..2] /\ state \in [Jobs -> 0..3]
      BY <3>1
    <3>5. /\ activity \in [Jobs -> {"none", "shown", "complete"}]
          /\ dialog \in [Infos -> {"none", "hidden", "offered", "expired", "shown"}]
      BY <3>1
    <3>6. QED  BY <2>1, <3>2, <3>3, <3>4, <3>5 DEF Init, TypeOK
  <2>2. ASSUME Init  PROVE /\ LifeOfJobs /\ RepliesAlive /\ CreatesForJob /\ CallsCounted /\ IdleKinds
                           /\ NoLostActivity
    BY <2>2 DEF Init, LifeOfJobs, RepliesAlive, CreatesForJob, CallsCounted, IdleKinds, NoLostActivity,
                Alive, Running
  <2>3. QED  BY <2>1, <2>2 DEF MsgInv
<1>2. QED  BY <1>1, MsgInvStep, PTL DEF Spec

\* The variables keep their types.
THEOREM TypeCorrect == Spec => []TypeOK
BY MsgInvariant, PTL DEF MsgInv

\* Nobody uses a message that has been freed, however the last unref of a job
\* falls into the time for which op_status_exec gives up mail_msg_lock.
THEOREM NothingUsedFreed == Spec => []NoUseAfterFree
<1>1. MsgInv => NoUseAfterFree
  <2>1. SUFFICES ASSUME MsgInv  PROVE NoUseAfterFree
    OBVIOUS
  <2>2. \A n \in 1..Len(replyQ) : replyQ[n] \in Jobs /\ Alive(replyQ[n])
    BY <2>1 DEF MsgInv, RepliesAlive, TypeOK
  <2>3. \A k \in freed : k \in Jobs /\ ~Alive(k)
    BY <2>1 DEF MsgInv, LifeOfJobs, TypeOK
  <2>4. QED  BY <2>1, <2>2, <2>3 DEF MsgInv, NoUseAfterFree, CreatesForJob, CallsCounted, Alive
<1>2. QED  BY <1>1, MsgInvariant, PTL

\* The hand-over of an activity between op_status_exec and mail_msg_unref loses
\* none, whichever of the two comes last.
THEOREM ActivitiesEnd == Spec => []NoLostActivity
BY MsgInvariant, PTL DEF MsgInv
=============================================================================
