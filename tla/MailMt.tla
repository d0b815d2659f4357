-------------------------------- MODULE MailMt --------------------------------
(***************************************************************************)
(* mail/mail-mt.c: how Evolution's mailer moves work out of the GTK+ main  *)
(* thread and its results, its progress and its errors back into it.       *)
(*                                                                         *)
(* Everything that travels is a MailMsg: the jobs that worker threads run, *)
(* the progress reports of their CamelOperations, calls into the main      *)
(* thread, asynchronous events.  A message is in mail_msg_active_table     *)
(* (here: active) from mail_msg_new to its last mail_msg_unref.  Workers   *)
(* push onto one of two queues and then, in a second step, attach an idle  *)
(* source to the main loop unless there is one; the source drains both.    *)
(*                                                                         *)
(* GLib's main loop, thread pools and queues are external.  Messages have  *)
(* equal priority, as in the callers, so the sorted queues are FIFO.       *)
(***************************************************************************)
EXTENDS Naturals, Sequences, FiniteSets

CONSTANTS Jobs,           \* messages with a job, each submitted once
          Class,          \* Jobs -> "described", "undescribed" or "session"
          Info,           \* Jobs -> MailMsgInfo: the kind of operation
          Cancelable,     \* jobs with priv->cancelable set
          Callers,        \* jobs that call mail_call_main
          Events,         \* events of the MailAsyncEvent of one widget
          DestroyPending, \* is the widget destroyed before its own events ran?
          PoolSize,       \* threads of the pool
          NULL

ASSUME MailMtAssumption ==
  /\ IsFiniteSet(Jobs)
  /\ Class \in [Jobs -> {"described", "undescribed", "session"}]
  /\ Cancelable \subseteq Jobs
  /\ Callers \subseteq Jobs
  /\ DestroyPending \in BOOLEAN
  /\ PoolSize \in Nat \ {0}

Msg(kind, x) == [kind |-> kind, of |-> x]

Messages == [kind : {"job", "start", "end", "call", "finish"}, of : Jobs]
              \cup [kind : {"event"}, of : Events]

VARIABLES
  stage,        \* how far each job is
  kick,         \* jobs whose thread has pushed but not yet seen to the source
  active,       \* mail_msg_active_table
  freed,        \* jobs that mail_msg_free has freed
  failed,       \* jobs with msg->error set
  cancelled,    \* jobs whose CamelOperation is cancelled
  callRefs,     \* references to the message of a job's mail_call_main
  answered,     \* jobs whose call has its EFlag set
  state,        \* priv->activity_state
  activity,     \* priv->activity
  hasDialog,    \* jobs with priv->error set
  dialog,       \* active_errors: MailMsgInfo -> the state of its dialogue
  mainQ,        \* main_loop_queue
  replyQ,       \* msg_reply_queue
  source,       \* idle_source_id # 0
  mainPc,       \* what the main thread is in the middle of
  creating,     \* the job whose activity op_status_exec creates
  waiting,      \* the message a GUI handler is in mail_msg_wait for
  idleEvents,   \* events with an idle source of their own (idle_id)
  emitted,      \* events that mail_async_event_emit has been called for
  tasks,        \* ea->tasks
  destroy       \* mail_async_event_destroy: not called, running, returned

jobVars   == <<stage, failed, callRefs>>
errorVars == <<hasDialog, dialog>>
actVars   == <<state, activity>>
mainVars  == <<mainPc, creating, waiting>>
eaVars    == <<emitted, tasks, destroy>>
vars == <<stage, kick, active, freed, failed, cancelled, callRefs, answered,
          state, activity, hasDialog, dialog, mainQ, replyQ, source, mainPc,
          creating, waiting, idleEvents, emitted, tasks, destroy>>

Infos == {Info[j] : j \in Jobs}

\* The stages in which a job occupies a thread of its pool.
Running == {"starting", "executing", "calling", "ending", "replying",
            "freeing", "emitting"}

Init ==
  /\ stage = [j \in Jobs |-> "new"]
  /\ kick = {}
  /\ active = {}
  /\ freed = {}
  /\ failed = {}
  /\ cancelled = {}
  /\ callRefs = [j \in Jobs |-> 0]
  /\ answered = {}
  /\ state = [j \in Jobs |-> 0]
  /\ activity = [j \in Jobs |-> "none"]
  /\ hasDialog = {}
  /\ dialog = [i \in Infos |-> "none"]
  /\ mainQ = <<>>
  /\ replyQ = <<>>
  /\ source = FALSE
  /\ mainPc = "loop"
  /\ creating = NULL
  /\ waiting = NULL
  /\ idleEvents = {}
  /\ emitted = {}
  /\ tasks = {}
  /\ destroy = "no"

-----------------------------------------------------------------------------
(* Worker threads.                                                         *)

Pool(j) == IF Class[j] = "session"
           THEN {k \in Jobs : Class[k] = "session"}
           ELSE {k \in Jobs : Class[k] # "session"}

Threads(j) == IF Class[j] = "session" THEN 1 ELSE PoolSize

\* mail_msg_proxy, or camel-session.c's session_thread_proxy, starts on a job.
\* Only a job that is described and has an operation reports its start; a
\* session job reports what the code it runs reports.
Begin(j) ==
  /\ stage[j] = "queued"
  /\ Cardinality({k \in Pool(j) : stage[k] \in Running \/ k \in kick}) < Threads(j)
  /\ stage' = [stage EXCEPT ![j] = IF Class[j] = "undescribed" THEN "executing"
                                                               ELSE "starting"]
  /\ UNCHANGED <<kick, active, freed, failed, cancelled, callRefs, answered,
                 actVars, errorVars, mainQ, replyQ, source, mainVars,
                 idleEvents, eaVars>>

\* mail_msg_new and mail_msg_main_loop_push by the thread of job j, up to the
\* push.
PushMain(j, m) ==
  /\ active' = active \cup {m}
  /\ mainQ' = Append(mainQ, m)
  /\ kick' = kick \cup {j}

\* Mutant: no source is attached while the main thread is draining.
AttachWhenIdle(j) ==
  /\ j \in kick
  /\ kick' = kick \ {j}
  /\ source' = (source \/ mainPc = "loop")
  /\ UNCHANGED <<stage, active, freed, failed, cancelled, callRefs, answered,
                 actVars, errorVars, mainQ, replyQ, mainVars, idleEvents,
                 eaVars>>

\* The section under idle_source_id that ends every push.
Attach(j) ==
  /\ j \in kick
  /\ kick' = kick \ {j}
  /\ source' = TRUE
  /\ UNCHANGED <<stage, active, freed, failed, cancelled, callRefs, answered,
                 actVars, errorVars, mainQ, replyQ, mainVars, idleEvents,
                 eaVars>>

AfterEnd(j) == IF Class[j] = "session" THEN "freeing" ELSE "replying"

\* camel_operation_start and _end call mail_operation_status.
ReportStart(j) ==
  /\ stage[j] = "starting"
  /\ PushMain(j, Msg("start", j))
  /\ stage' = [stage EXCEPT ![j] = "executing"]
  /\ UNCHANGED <<freed, failed, cancelled, callRefs, answered, actVars,
                 errorVars, replyQ, source, mainVars, idleEvents, eaVars>>

ReportEnd(j) ==
  /\ stage[j] = "ending"
  /\ j \notin kick
  /\ PushMain(j, Msg("end", j))
  /\ stage' = [stage EXCEPT ![j] = AfterEnd(j)]
  /\ UNCHANGED <<freed, failed, cancelled, callRefs, answered, actVars,
                 errorVars, replyQ, source, mainVars, idleEvents, eaVars>>

\* mail_call_main keeps a reference, and the queue has one.
CallReferences == 2

\* mail_call_main from a worker, up to e_flag_wait.
Call(j) ==
  /\ stage[j] = "executing"
  /\ j \in Callers \ answered
  /\ j \notin kick
  /\ PushMain(j, Msg("call", j))
  /\ callRefs' = [callRefs EXCEPT ![j] = CallReferences]
  /\ stage' = [stage EXCEPT ![j] = "calling"]
  /\ UNCHANGED <<freed, failed, cancelled, answered, actVars, errorVars,
                 replyQ, source, mainVars, idleEvents, eaVars>>

\* Giving up one reference to the message of a call.
UnrefCall(j) ==
  /\ callRefs' = [callRefs EXCEPT ![j] = @ - 1]
  /\ active' = IF callRefs[j] = 1 THEN active \ {Msg("call", j)} ELSE active

\* e_flag_wait returns and mail_call_main reads the result.
Return(j) ==
  /\ stage[j] = "calling"
  /\ j \in answered
  /\ j \notin kick
  /\ UnrefCall(j)
  /\ stage' = [stage EXCEPT ![j] = "executing"]
  /\ UNCHANGED <<kick, freed, failed, cancelled, answered, actVars, errorVars,
                 mainQ, replyQ, source, mainVars, idleEvents, eaVars>>

\* mail_async_event_emit (MAIL_ASYNC_GUI) from a worker.  Its callers stop
\* when the widget is being destroyed, but a worker may be past that check.
EmitFromWorker(j, e) ==
  /\ stage[j] = "executing"
  /\ j \notin kick
  /\ e \notin emitted
  /\ destroy # "returned"
  /\ emitted' = emitted \cup {e}
  /\ tasks' = tasks \cup {Msg("event", e)}
  /\ PushMain(j, Msg("event", e))
  /\ UNCHANGED <<jobVars, freed, cancelled, answered, actVars, errorVars,
                 replyQ, source, mainVars, idleEvents, destroy>>

\* info->exec returns; it may have set msg->error.
EndExec(j) ==
  /\ stage[j] = "executing"
  /\ j \notin kick
  /\ stage' = [stage EXCEPT ![j] = IF Class[j] = "undescribed" THEN "replying"
                                                               ELSE "ending"]
  /\ \/ UNCHANGED failed
     \/ Class[j] # "session" /\ failed' = failed \cup {j}
  /\ UNCHANGED <<kick, active, freed, cancelled, callRefs, answered, actVars,
                 errorVars, mainQ, replyQ, source, mainVars, idleEvents,
                 eaVars>>

\* The worker hands the job to the main thread.
Reply(j) ==
  /\ stage[j] = "replying"
  /\ j \notin kick
  /\ replyQ' = Append(replyQ, j)
  /\ kick' = kick \cup {j}
  /\ stage' = [stage EXCEPT ![j] = "replied"]
  /\ UNCHANGED <<active, freed, failed, cancelled, callRefs, answered, actVars,
                 errorVars, mainQ, source, mainVars, idleEvents, eaVars>>

\* Mutant: the last unref frees the job whoever is using it.
UnrefFrees(j) ==
  /\ stage[j] = "freeing"
  /\ j \notin kick
  /\ active' = active \ {Msg("job", j)}
  /\ freed' = freed \cup {j}
  /\ stage' = [stage EXCEPT ![j] = IF activity[j] = "none" THEN "gone"
                                                           ELSE "emitting"]
  /\ UNCHANGED <<kick, failed, cancelled, callRefs, answered, actVars,
                 errorVars, mainQ, replyQ, source, mainVars, idleEvents,
                 eaVars>>

\* mail_msg_unref by the thread of a session job.  While the main thread is
\* creating the activity the job is left to it.
UnrefByWorker(j) ==
  /\ stage[j] = "freeing"
  /\ j \notin kick
  /\ active' = active \ {Msg("job", j)}
  /\ IF state[j] = 1
     THEN /\ state' = [state EXCEPT ![j] = 3]
          /\ stage' = [stage EXCEPT ![j] = "gone"]
          /\ UNCHANGED freed
     ELSE /\ freed' = freed \cup {j}
          /\ stage' = [stage EXCEPT ![j] = IF activity[j] = "none"
                                           THEN "gone" ELSE "emitting"]
          /\ UNCHANGED state
  /\ UNCHANGED <<kick, failed, cancelled, callRefs, answered, activity,
                 errorVars, mainQ, replyQ, source, mainVars, idleEvents,
                 eaVars>>

\* The rest of that mail_msg_unref: end_event_callback goes to the main thread.
EmitFinish(j) ==
  /\ stage[j] = "emitting"
  /\ PushMain(j, Msg("finish", j))
  /\ stage' = [stage EXCEPT ![j] = "gone"]
  /\ UNCHANGED <<freed, failed, cancelled, callRefs, answered, actVars,
                 errorVars, replyQ, source, mainVars, idleEvents, eaVars>>

-----------------------------------------------------------------------------
(* The main thread.  A GUI handler that calls mail_msg_wait runs the main  *)
(* loop inside itself, so the loop goes on below it.                       *)

InLoop == mainPc = "loop" /\ (destroy = "running" => waiting # NULL)

\* mail_msg_idle_cb starts: the source is gone, so it forgets its id.
Dispatch ==
  /\ InLoop
  /\ source
  /\ source' = FALSE
  /\ mainPc' = "mainQ"
  /\ UNCHANGED <<jobVars, kick, active, freed, cancelled, answered, actVars,
                 errorVars, mainQ, replyQ, creating, waiting, idleEvents,
                 eaVars>>

HeadIs(kinds) == mainPc = "mainQ" /\ mainQ # <<>> /\ Head(mainQ).kind \in kinds

\* op_status_exec, up to the point where it gives up mail_msg_lock to create
\* the activity of the job.
HandleStatus ==
  LET m == Head(mainQ) IN
  /\ HeadIs({"start", "end"})
  /\ mainQ' = Tail(mainQ)
  /\ IF Msg("job", m.of) \in active /\ activity[m.of] = "none" /\ state[m.of] \in {0, 2}
     THEN /\ state' = [state EXCEPT ![m.of] = 1]
          /\ mainPc' = "creating"
          /\ creating' = m
          /\ UNCHANGED active
     ELSE /\ active' = active \ {m}
          /\ UNCHANGED <<state, mainPc, creating>>
  /\ UNCHANGED <<jobVars, kick, freed, cancelled, answered, activity,
                 errorVars, replyQ, source, waiting, idleEvents, eaVars>>

\* Mutant: op_status_exec takes the job for alive when it has created the
\* activity.
CreateActivityFor ==
  LET j == creating.of IN
  /\ mainPc = "creating"
  /\ activity' = [activity EXCEPT ![j] = "shown"]
  /\ mainPc' = "mainQ"
  /\ creating' = NULL
  /\ active' = active \ {creating}
  /\ state' = [state EXCEPT ![j] = 2]
  /\ UNCHANGED <<jobVars, kick, freed, cancelled, answered, errorVars, mainQ,
                 replyQ, source, waiting, idleEvents, eaVars>>

\* The rest of op_status_exec.  If the job has lost its last reference
\* meanwhile, the main thread frees it and ends the activity it has made.
CreateActivity ==
  LET j == creating.of IN
  /\ mainPc = "creating"
  /\ activity' = [activity EXCEPT ![j] = "shown"]
  /\ mainPc' = "mainQ"
  /\ creating' = NULL
  /\ IF state[j] = 3
     THEN /\ freed' = freed \cup {j}
          /\ active' = (active \ {creating}) \cup {Msg("finish", j)}
          /\ idleEvents' = idleEvents \cup {Msg("finish", j)}
          /\ UNCHANGED state
     ELSE /\ active' = active \ {creating}
          /\ state' = [state EXCEPT ![j] = 2]
          /\ UNCHANGED <<freed, idleEvents>>
  /\ UNCHANGED <<jobVars, kick, cancelled, answered, errorVars, mainQ,
                 replyQ, source, waiting, eaVars>>

\* Mutant: do_call does not set the flag.
HandleCallSilently ==
  LET j == Head(mainQ).of IN
  /\ HeadIs({"call"})
  /\ mainQ' = Tail(mainQ)
  /\ UnrefCall(j)
  /\ UNCHANGED <<stage, kick, freed, failed, cancelled, answered, actVars,
                 errorVars, replyQ, source, mainVars, idleEvents, eaVars>>

\* do_call.
HandleCall ==
  LET j == Head(mainQ).of IN
  /\ HeadIs({"call"})
  /\ mainQ' = Tail(mainQ)
  /\ answered' = answered \cup {j}
  /\ UnrefCall(j)
  /\ UNCHANGED <<stage, kick, freed, failed, cancelled, actVars, errorVars,
                 replyQ, source, mainVars, idleEvents, eaVars>>

\* Mutant: the event stays in the list of its MailAsyncEvent.
RunEventKept(m) ==
  /\ active' = active \ {m}
  /\ IF m.kind = "finish"
     THEN /\ activity' = [activity EXCEPT ![m.of] = "complete"]
          /\ dialog' = IF m.of \in hasDialog
                       THEN [dialog EXCEPT ![Info[m.of]] = "offered"] ELSE dialog
     ELSE UNCHANGED <<activity, dialog>>
  /\ UNCHANGED tasks

\* do_async_event.  The event that ends a job is end_event_callback: it
\* completes the activity and offers the error dialogue in the task bar.
RunEvent(m) ==
  /\ active' = active \ {m}
  /\ IF m.kind = "finish"
     THEN /\ activity' = [activity EXCEPT ![m.of] = "complete"]
          /\ dialog' = IF m.of \in hasDialog
                       THEN [dialog EXCEPT ![Info[m.of]] = "offered"] ELSE dialog
     ELSE UNCHANGED <<activity, dialog>>
  /\ tasks' = tasks \ {m}

HandleEvent ==
  /\ HeadIs({"event", "finish"})
  /\ mainQ' = Tail(mainQ)
  /\ RunEvent(Head(mainQ))
  /\ UNCHANGED <<jobVars, kick, freed, cancelled, answered, state, hasDialog,
                 replyQ, source, mainVars, idleEvents, emitted, destroy>>

\* idle_async_event: an event that was emitted in the main thread.
HandleIdleEvent(m) ==
  /\ InLoop
  /\ m \in idleEvents
  /\ idleEvents' = idleEvents \ {m}
  /\ RunEvent(m)
  /\ UNCHANGED <<jobVars, kick, freed, cancelled, answered, state, hasDialog,
                 mainQ, replyQ, source, mainVars, emitted, destroy>>

\* mail_msg_idle_cb goes on to the replies.
MainQDrained ==
  /\ mainPc = "mainQ"
  /\ mainQ = <<>>
  /\ mainPc' = "replyQ"
  /\ UNCHANGED <<jobVars, kick, active, freed, cancelled, answered, actVars,
                 errorVars, mainQ, replyQ, source, creating, waiting,
                 idleEvents, eaVars>>

\* mail_msg_check_error.
CheckError(j) ==
  IF j \in failed \ cancelled /\ dialog[Info[j]] = "none"
  THEN IF j \in Cancelable
       THEN /\ dialog' = [dialog EXCEPT ![Info[j]] = "hidden"]
            /\ hasDialog' = hasDialog \cup {j}
       ELSE /\ dialog' = [dialog EXCEPT ![Info[j]] = "shown"]
            /\ UNCHANGED hasDialog
  ELSE UNCHANGED errorVars

\* Mutant: the reply queue keeps its reference.
HandleReplyLeaks ==
  LET j == Head(replyQ) IN
  /\ mainPc = "replyQ"
  /\ replyQ # <<>>
  /\ replyQ' = Tail(replyQ)
  /\ CheckError(j)
  /\ UNCHANGED <<jobVars, kick, active, freed, cancelled, answered, actVars,
                 mainQ, source, mainVars, idleEvents, eaVars>>

\* A reply: done, mail_msg_check_error and mail_msg_unref, which emits the end
\* of the activity as an idle event.
HandleReply ==
  LET j == Head(replyQ)
      finish == IF activity[j] = "none" THEN {} ELSE {Msg("finish", j)}
  IN
  /\ mainPc = "replyQ"
  /\ replyQ # <<>>
  /\ replyQ' = Tail(replyQ)
  /\ CheckError(j)
  /\ active' = (active \ {Msg("job", j)}) \cup finish
  /\ idleEvents' = idleEvents \cup finish
  /\ freed' = freed \cup {j}
  /\ UNCHANGED <<jobVars, kick, cancelled, answered, actVars, mainQ, source,
                 mainVars, eaVars>>

ReplyQDrained ==
  /\ mainPc = "replyQ"
  /\ replyQ = <<>>
  /\ mainPc' = "loop"
  /\ UNCHANGED <<jobVars, kick, active, freed, cancelled, answered, actVars,
                 errorVars, mainQ, replyQ, source, creating, waiting,
                 idleEvents, eaVars>>

\* mail_msg_wait returns.
WaitReturns ==
  /\ InLoop
  /\ waiting # NULL
  /\ waiting \notin active
  /\ waiting' = NULL
  /\ UNCHANGED <<jobVars, kick, active, freed, cancelled, answered, actVars,
                 errorVars, mainQ, replyQ, source, mainPc, creating,
                 idleEvents, eaVars>>

\* mail_async_event_destroy: the next task.  An event of the main thread
\* loses its idle source; then the task is waited for.
DestroyTask ==
  /\ destroy = "running"
  /\ mainPc = "loop"
  /\ waiting = NULL
  /\ \E m \in tasks :
       /\ idleEvents' = idleEvents \ {m}
       /\ waiting' = IF m \in active THEN m ELSE NULL
  /\ UNCHANGED <<jobVars, kick, active, freed, cancelled, answered, actVars,
                 errorVars, mainQ, replyQ, source, mainPc, creating, eaVars>>

DestroyReturn ==
  /\ destroy = "running"
  /\ mainPc = "loop"
  /\ waiting = NULL
  /\ tasks = {}
  /\ destroy' = "returned"
  /\ UNCHANGED <<jobVars, kick, active, freed, cancelled, answered, actVars,
                 errorVars, mainQ, replyQ, source, mainVars, idleEvents,
                 emitted, tasks>>

-----------------------------------------------------------------------------
(* The user, and the handlers of the user interface.                       *)

\* mail_msg_new and one of the mail_msg_*_push functions.
Submit(j) ==
  /\ stage[j] = "new"
  /\ stage' = [stage EXCEPT ![j] = "queued"]
  /\ active' = active \cup {Msg("job", j)}
  /\ UNCHANGED <<kick, freed, failed, cancelled, callRefs, answered, actVars,
                 errorVars, mainQ, replyQ, source, mainVars, idleEvents,
                 eaVars>>

\* mail_msg_cancel of one job (the button of its activity), or of all of them
\* (mail_cancel_all).
Cancel(js) ==
  /\ js # {}
  /\ \A j \in js : Msg("job", j) \in active
  /\ ~ js \subseteq cancelled
  /\ cancelled' = cancelled \cup js
  /\ UNCHANGED <<jobVars, kick, active, freed, answered, actVars, errorVars,
                 mainQ, replyQ, source, mainVars, idleEvents, eaVars>>

CancelSome ==
  LET all == {j \in Jobs : Msg("job", j) \in active}
  IN  Cancel(all) \/ \E j \in all : Cancel({j})

\* mail_msg_wait from a handler.
Wait(j) ==
  /\ InLoop
  /\ waiting = NULL
  /\ Msg("job", j) \in active
  /\ waiting' = Msg("job", j)
  /\ UNCHANGED <<jobVars, kick, active, freed, cancelled, answered, actVars,
                 errorVars, mainQ, replyQ, source, mainPc, creating,
                 idleEvents, eaVars>>

\* mail_async_event_emit (MAIL_ASYNC_GUI) in the main thread.
EmitInMain(e) ==
  /\ mainPc # "creating"
  /\ e \notin emitted
  /\ destroy = "no"
  /\ emitted' = emitted \cup {e}
  /\ tasks' = tasks \cup {Msg("event", e)}
  /\ active' = active \cup {Msg("event", e)}
  /\ idleEvents' = idleEvents \cup {Msg("event", e)}
  /\ UNCHANGED <<jobVars, kick, freed, cancelled, answered, actVars,
                 errorVars, mainQ, replyQ, source, mainVars, destroy>>

\* message_list_destroy, mail_session_finalize.  Nothing in them waits for the
\* events that the main thread emitted itself; DestroyPending allows for that.
Destroy ==
  /\ InLoop
  /\ waiting = NULL
  /\ destroy = "no"
  /\ DestroyPending \/ tasks \cap idleEvents = {}
  /\ destroy' = "running"
  /\ UNCHANGED <<jobVars, kick, active, freed, cancelled, answered, actVars,
                 errorVars, mainQ, replyQ, source, mainVars, idleEvents,
                 emitted, tasks>>

DialogTurns(i, from, to) ==
  /\ InLoop
  /\ dialog[i] = from
  /\ dialog' = [dialog EXCEPT ![i] = to]
  /\ UNCHANGED <<jobVars, kick, active, freed, cancelled, answered, actVars,
                 hasDialog, mainQ, replyQ, source, mainVars, idleEvents,
                 eaVars>>

\* alert_activity_clicked; alert_activity_timeout; error_response.
ErrorDialog(i) ==
  \/ DialogTurns(i, "offered", "shown")
  \/ DialogTurns(i, "offered", "expired")
  \/ DialogTurns(i, "shown", "none")

-----------------------------------------------------------------------------
\* What a worker does without waiting for anything but the main thread.
Work(j) == \/ Attach(j) \/ ReportStart(j) \/ ReportEnd(j) \/ Return(j)
           \/ Reply(j) \/ UnrefByWorker(j) \/ EmitFinish(j)

MainThread == \/ Dispatch \/ HandleStatus \/ CreateActivity \/ HandleCall
              \/ HandleEvent \/ (\E m \in idleEvents : HandleIdleEvent(m))
              \/ MainQDrained \/ HandleReply \/ ReplyQDrained
              \/ WaitReturns \/ DestroyTask \/ DestroyReturn

Next ==
  \/ \E j \in Jobs : \/ Begin(j) \/ Work(j) \/ Call(j) \/ EndExec(j)
                     \/ \E e \in Events : EmitFromWorker(j, e)
                     \/ Submit(j) \/ Wait(j)
  \/ MainThread
  \/ CancelSome
  \/ \E e \in Events : EmitInMain(e)
  \/ Destroy
  \/ \E i \in Infos : ErrorDialog(i)

Spec == Init /\ [][Next]_vars

\* The main loop goes round and a thread that has work to do gets to it.  The
\* code of a job need not come to an end, and nobody need submit one.
FairSpec ==
  /\ Spec
  /\ WF_vars(MainThread)
  /\ \A j \in Jobs : WF_vars(Work(j))
-----------------------------------------------------------------------------
(* Properties.                                                             *)

\* The type invariant.
TypeOK ==
  /\ stage \in [Jobs -> {"new", "queued", "replied", "gone"} \cup Running]
  /\ kick \subseteq Jobs
  /\ active \subseteq Messages
  /\ freed \subseteq Jobs
  /\ failed \subseteq Jobs
  /\ cancelled \subseteq Jobs
  /\ callRefs \in [Jobs -> 0..2]
  /\ answered \subseteq Jobs
  /\ state \in [Jobs -> 0..3]
  /\ activity \in [Jobs -> {"none", "shown", "complete"}]
  /\ hasDialog \subseteq Jobs
  /\ dialog \in [Infos -> {"none", "hidden", "offered", "expired", "shown"}]
  /\ mainQ \in Seq(Messages)
  /\ replyQ \in Seq(Jobs)
  /\ source \in BOOLEAN
  /\ mainPc \in {"loop", "mainQ", "creating", "replyQ"}
  /\ creating \in Messages \cup {NULL}
  /\ waiting \in Messages \cup {NULL}
  /\ idleEvents \subseteq Messages
  /\ emitted \subseteq Events
  /\ tasks \subseteq Messages
  /\ destroy \in {"no", "running", "returned"}

\* No message is left lying in a queue: whenever one is there, the idle source
\* is attached, or the thread that pushed last has yet to see to it, or the
\* main thread will come to that queue in the round it is in.  The id of the
\* source is reset, and the queues are drained, without a lock around both.
QueueServed ==
  /\ mainQ # <<>> => source \/ kick # {} \/ mainPc \in {"mainQ", "creating"}
  /\ replyQ # <<>> => source \/ kick # {} \/ mainPc # "loop"

\* Nobody uses a message that has been freed: the main thread while it creates
\* an activity without mail_msg_lock, whoever finds a job in the table of
\* active messages, the reply queue, and a caller of mail_call_main that reads
\* the result.
NoUseAfterFree ==
  /\ mainPc = "creating" => creating.of \notin freed
  /\ \A j \in freed : Msg("job", j) \notin active
  /\ \A n \in 1..Len(replyQ) : replyQ[n] \notin freed
  /\ \A j \in Jobs : stage[j] = "calling" => Msg("call", j) \in active

FinishPending(j) ==
  \/ stage[j] = "emitting"
  \/ Msg("finish", j) \in idleEvents
  \/ \E n \in 1..Len(mainQ) : mainQ[n] = Msg("finish", j)

\* The hand-over of the activity between op_status_exec and mail_msg_unref ("we
\* need to make sure we dont lose a reference here", mail-mt.c:204) loses none:
\* the activity of a job that is gone is about to be completed.
NoLostActivity ==
  \A j \in Jobs :
    activity[j] = "shown" /\ Msg("job", j) \notin active => FinishPending(j)

\* An error dialogue that is registered in active_errors, where it keeps later
\* errors of the same kind from being shown ("check to see if we have dialogue
\* already running for this operation", mail-mt.c:263), is shown, or is on its
\* way to the user.  No run has it: an early reply breaks it (README).
NoForgottenError ==
  \A i \in Infos : dialog[i] = "hidden" =>
    \E j \in hasDialog : Info[j] = i /\ (j \notin freed \/ FinishPending(j))

\* A worker gets out of mail_call_main, also while the main thread is in
\* mail_msg_wait or mail_async_event_destroy.
CallsReturn ==
  \A j \in Jobs : (stage[j] = "calling") ~> (stage[j] # "calling")

\* A handler gets out of mail_msg_wait once the code of the job it waits for
\* has come to its end.
WaitEnds ==
  \A j \in Jobs :
    (waiting = Msg("job", j) /\ stage[j] \in {"ending", "replying", "replied",
                                              "freeing", "gone"})
      ~> (waiting # Msg("job", j))

\* mail_async_event_destroy waits for all outstanding events to complete, and
\* they do (mail-mt.h:103).
DestroyReturns == (destroy = "running") ~> (destroy = "returned")
=============================================================================
