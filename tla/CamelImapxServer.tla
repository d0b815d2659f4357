--------------------------- MODULE CamelImapxServer ---------------------------
(***************************************************************************)
(* camel/providers/imapx/camel-imapx-server.c: one connection to an IMAP   *)
(* server.  Callers submit jobs; a job queues commands; the commands of    *)
(* the selected folder are sent without waiting for one another's answers, *)
(* and a command of another folder waits until the pipeline is empty and   *)
(* its folder is selected.  While nothing is queued a thread of its own    *)
(* issues IDLE.  The parser thread reads the answers.                      *)
(*                                                                         *)
(* The variable is stands for the CamelIMAPXServer.  A stay under          *)
(* QUEUE_LOCK is one action, and so is a stay under IDLE_LOCK.  The server *)
(* (external) reads a line when the parser thread reads the answer to it:  *)
(* what it does earlier than that no thread of the client can see.         *)
(*                                                                         *)
(* Not modelled: connecting and disposing, the data of the answers, writes *)
(* that fail (a lost connection is seen by the parser thread first).       *)
(***************************************************************************)
EXTENDS Integers, SequencesExt

CONSTANTS
  Jobs,          \* the jobs of the callers, each submitted by a thread of its own
  Async,         \* jobs that nobody waits for (noreply)
  Folders,
  NULL,
  Kind,          \* [Jobs -> "single", "append", "steps", "store"]; Async: "steps"
  FolderOf,      \* job->folder of a caller's job, NULL for LIST and the like
  Pri,           \* job->pri
  Parts,         \* how many commands the job issues
  MAX_COMMANDS,
  Growing,       \* bound: the folders new mail may come to
  Faults         \* rare events allowed: "earlyAnswer", "selectLost", "folderGone"

ASSUME ImapxAssumption ==
  /\ Jobs \cap Async = {}
  /\ NULL \notin Folders \cup Jobs \cup Async
  /\ Kind \in [Jobs -> {"single", "append", "steps", "store"}]
  /\ FolderOf \in [Jobs -> Folders \cup {NULL}]
  /\ Pri \in [Jobs -> Int]
  /\ Parts \in [Jobs -> Nat \ {0}]
  /\ \A j \in Jobs : Kind[j] \in {"single", "append"} => Parts[j] = 1
  /\ MAX_COMMANDS \in Nat \ {0}
  /\ Growing \subseteq Folders

VARIABLES
  is,          \* the CamelIMAPXServer with its queues, and what is on its stream
  job,         \* the CamelIMAPXJobs
  parser,      \* the parser thread: what it does, and the command in its hands
  idler,       \* the idle thread
  server,      \* the mail server: selected folder, command that waits for more
  news,        \* folders for which exists_on_server is above the summary's count
  ran          \* commands the server has carried out (history)

vars == <<is, job, parser, idler, server, news, ran>>

NoCommand == [op |-> "NONE"]
Select(f)  == [op |-> "SELECT", folder |-> f]
Idle       == [op |-> "IDLE"]
Command(j, n) == [op |-> "JOB", job |-> j, part |-> n]
More       == [op |-> "MORE"]     \* the rest of a literal, or DONE

JobKind(j) == IF j \in Async THEN "steps" ELSE Kind[j]
PartsOf(j) == IF j \in Async THEN 1 ELSE Parts[j]

\* ic->pri; later steps of a job have one less than the first.
PriOf(c) ==
  IF c.op # "JOB" THEN 0
  ELSE (IF c.job \in Async THEN 0 ELSE Pri[c.job])
         - (IF JobKind(c.job) = "steps" /\ c.part > 1 THEN 1 ELSE 0)

\* Commands that send a literal or are made to look as if they did.
Continues(c) == c.op = "IDLE" \/ (c.op = "JOB" /\ JobKind(c.job) = "append")

Init ==
  /\ is = [state |-> "INITIALISED", queue |-> <<>>, active |-> <<>>,
           literal |-> NoCommand, select_folder |-> NULL, select_pending |-> NULL,
           idle |-> "OFF", watch |-> FALSE, stream |-> <<>>]
  /\ job = [j \in Jobs \cup Async |->
              [at |-> "new", folder |-> IF j \in Jobs THEN FolderOf[j] ELSE NULL,
               issued |-> 0, commands |-> 0, error |-> FALSE, replies |-> 0]]
  /\ parser = [at |-> "read", ic |-> NoCommand, ok |-> TRUE]
  /\ idler = [at |-> "wait", folder |-> NULL, answer |-> "none"]
  /\ server = [selected |-> NULL, waiting |-> NoCommand]
  /\ news = {}
  /\ ran = {}

-----------------------------------------------------------------------------
(* Starting commands: functions of the server object, called with          *)
(* QUEUE_LOCK held.  jb is the jobs, for the folder of a command.          *)

SelectOf(c, jb) == IF c.op = "JOB" THEN jb[c.job].folder ELSE NULL

\* imapx_command_start
CommandStart(s, c) ==
  [s EXCEPT !.active = Append(@, c),
            !.stream = Append(@, c),
            !.literal = IF Continues(c) THEN c ELSE @]

\* imapx_stop_idle; DONE is sent only when the server has agreed to idle.
StopIdle(s) ==
  CASE s.idle = "ISSUED"  -> [s EXCEPT !.idle = "CANCEL"]
    [] s.idle = "STARTED" -> [s EXCEPT !.idle = "OFF", !.stream = Append(@, More)]
    [] s.idle = "PENDING" -> [s EXCEPT !.idle = "OFF"]
    [] OTHER              -> s

\* What imapx_stop_idle returns: the caller is not to send anything now.
IdleHasToStop(s) == s.idle \in {"ISSUED", "CANCEL", "STARTED"}

\* imapx_start_idle: wakes the idle thread, or makes it.
StartIdle(s) == [s EXCEPT !.idle = "PENDING", !.watch = TRUE]

\* duplicate_fetch_or_refresh, given the commands that are active.
DuplicateFetch(c, active, folder, jb) ==
  /\ JobKind(c.job) = "steps"
  /\ \E a \in active :
       a.op = "JOB" /\ JobKind(a.job) = "steps" /\ jb[a.job].folder = folder

\* Mutant: the new folder is taken for selected as soon as it is asked for.
SelectAtOnce(s, f) ==
  IF s.select_pending # NULL \/ s.select_folder = f \/ s.active # <<>>
  THEN s
  ELSE CommandStart([s EXCEPT !.select_pending = f,
                              !.select_folder = f,
                              !.state = "INITIALISED"],
                    Select(f))

\* imapx_select
SelectFolder(s, f) ==
  IF s.select_pending # NULL \/ s.select_folder = f \/ s.active # <<>>
  THEN s
  ELSE CommandStart([s EXCEPT !.select_pending = f,
                              !.select_folder = IF @ = NULL THEN f ELSE NULL,
                              !.state = "INITIALISED"],
                    Select(f))

\* What of a sequence is at the positions P, in its order.
Order(P) ==
  CHOOSE f \in [1..Cardinality(P) -> P] : \A i, k \in 1..Cardinality(P) : i < k => f[i] < f[k]
Keep(q, P) == LET order == Order(P) IN [n \in 1..Cardinality(P) |-> q[order[n]]]

\* The loop over the queue that imapx_command_start_next has in three forms:
\* the positions of the commands that it starts.  It ends at a command of a
\* priority below that of the last one started (strict: of the last one looked
\* at), at MAX_COMMANDS, or when a literal is due; it starts what needs no folder
\* or the folder f, given the commands started before.
Startable(s, jb, f, pri, strict) ==
  LET q == s.queue
      Before(i, S) == {k \in S : k < i}
      Eligible(c, T) ==
        \/ SelectOf(c, jb) = NULL
        \/ /\ SelectOf(c, jb) = f
           /\ ~DuplicateFetch(c, Range(s.active) \cup T, f, jb)
      Floor(k, S) == LET before == Before(k, IF strict THEN DOMAIN q ELSE S)
                     IN  IF before = {} THEN pri ELSE PriOf(q[Max(before)])
      Starts(i, S) ==
        /\ Eligible(q[i], {q[k] : k \in S})
        /\ Cardinality(S) < MAX_COMMANDS
        /\ \A k \in S : ~Continues(q[k])
        /\ \A k \in 1..i : PriOf(q[k]) >= Floor(k, S)
  IN  CHOOSE S \in SUBSET DOMAIN q : \A i \in DOMAIN q : i \in S <=> Starts(i, Before(i, S))

\* imapx_command_start for each of them, in the order of the queue.
StartAll(s, S) ==
  LET go  == Keep(s.queue, S)
      lit == {k \in S : Continues(s.queue[k])}
  IN  [s EXCEPT !.queue = Keep(@, DOMAIN @ \ S),
                !.active = @ \o go,
                !.stream = @ \o go,
                !.literal = IF lit = {} THEN @ ELSE s.queue[CHOOSE k \in lit : TRUE]]

\* While a SELECT is under way: commands that need no folder.
StartFolderless(s, jb) == StartAll(s, Startable(s, jb, NULL, -128, FALSE))

ActivePri(s) == Max({-128} \cup {PriOf(c) : c \in Range(s.active)})

\* Otherwise: the commands of the selected folder, or else the folder of the
\* first command, or else commands without a folder.
StartQueued(s, jb) ==
  LET f   == s.select_folder
      now == IF f = NULL THEN {} ELSE Startable(s, jb, f, ActivePri(s), TRUE)
  IN  IF s.queue = <<>> \/ (f # NULL /\ Len(s.active) > MAX_COMMANDS)
      THEN s
      ELSE IF now # {}
      THEN StartAll(s, now)
      ELSE IF SelectOf(s.queue[1], jb) # NULL
      THEN SelectFolder(s, SelectOf(s.queue[1], jb))
      ELSE StartAll(s, Startable(s, jb, f, PriOf(s.queue[1]), FALSE))

\* Mutant: a SELECT that is under way does not hold anything back.
CommandStartNextAhead(s, jb) ==
  IF s.literal # NoCommand
  THEN s
  ELSE IF s.state = "SELECTED" /\ s.queue # <<>> /\ IdleHasToStop(s)
  THEN StopIdle(s)
  ELSE IF s.state = "SELECTED" /\ s.queue = <<>> /\ s.active = <<>> /\ s.idle = "OFF"
  THEN StartIdle(s)
  ELSE StartQueued(IF s.state = "SELECTED" /\ s.queue # <<>> THEN StopIdle(s) ELSE s, jb)

\* imapx_command_start_next
CommandStartNext(s, jb) ==
  IF s.literal # NoCommand
  THEN s
  ELSE IF s.select_pending # NULL
  THEN StartFolderless(s, jb)
  ELSE IF s.state = "SELECTED" /\ s.queue # <<>> /\ IdleHasToStop(s)
  THEN StopIdle(s)
  ELSE IF s.state = "SELECTED" /\ s.queue = <<>> /\ s.active = <<>> /\ s.idle = "OFF"
  THEN StartIdle(s)
  ELSE StartQueued(IF s.state = "SELECTED" /\ s.queue # <<>> THEN StopIdle(s) ELSE s, jb)

\* The insertion of imapx_command_queue: in front of what has the same priority.
Enqueue(q, c) ==
  LET i == SelectInSeq(q, LAMBDA x : PriOf(c) >= PriOf(x))
  IN  IF i = 0 THEN Append(q, c) ELSE InsertAt(q, i, c)

\* (TLC evaluates the queue once when it is an element of a set.)
CommandQueue(s, jb, c) ==
  CHOOSE next \in {CommandStartNext(queued, jb) : queued \in {[s EXCEPT !.queue = Enqueue(@, c)]}} : TRUE

-----------------------------------------------------------------------------
(* Jobs.                                                                   *)

\* imapx_job_done: a job without a reply is freed, another one goes to the
\* reply port its caller waits at.
JobDone(jb, j) ==
  IF j \in Async
  THEN [jb EXCEPT ![j] = [at |-> "new", folder |-> NULL, issued |-> 0,
                          commands |-> 0, error |-> FALSE, replies |-> 0]]
  ELSE [jb EXCEPT ![j].replies = @ + 1]

\* The job is about to queue its next command.
WithNext(jb, j) == [jb EXCEPT ![j].issued = @ + 1, ![j].commands = @ + 1]

\* n commands of the job are done, failed: with an error.
Finish(jb, j, n, failed) ==
  LET less == [jb EXCEPT ![j].commands = @ - n, ![j].error = @ \/ failed]
  IN  IF less[j].commands = 0 THEN JobDone(less, j) ELSE less

\* Mutant: a step that fails is followed by the next one all the same.
CompleteStepsOn(s, jb, c, ok) ==
  LET j    == c.job
      next == [WithNext(jb, j) EXCEPT ![j].commands = @ - 1]
  IN  IF JobKind(j) = "steps" /\ jb[j].issued < PartsOf(j) /\ s.state # "SHUTDOWN"
      THEN [is |-> CommandQueue(s, next, Command(j, jb[j].issued + 1)), job |-> next]
      ELSE [is |-> s, job |-> Finish(jb, j, 1, FALSE)]

\* What the complete functions of the commands of jobs have in common: an
\* error goes to the job, a job of several steps queues the next one, and the
\* job is done when no command is outstanding.
JobComplete(s, jb, c, ok) ==
  LET j == c.job IN
  IF JobKind(j) = "steps" /\ ok /\ jb[j].issued < PartsOf(j)
  THEN IF s.state = "SHUTDOWN"
       THEN [is |-> s, job |-> Finish(jb, j, 1, TRUE)]
       ELSE LET next == [WithNext(jb, j) EXCEPT ![j].commands = @ - 1]
            IN  [is |-> CommandQueue(s, next, Command(j, jb[j].issued + 1)), job |-> next]
  ELSE [is |-> s, job |-> Finish(jb, j, 1, ~ok)]

\* Jobs that have queued some of their commands and not yet all: the count of
\* a job is not locked, and without the fault earlyAnswer no command completes
\* while there is such a job.
Half == {j \in Jobs : /\ Kind[j] = "store"
                      /\ \/ job[j].at = "check"
                         \/ job[j].at = "start" /\ job[j].issued > 0}

Registers == is.state \in {"INITIALISED", "SELECTED"}

\* imapx_register_job for a caller's job.
Submit(j) ==
  /\ job[j].at = "new"
  /\ job' = [job EXCEPT ![j].at = IF Registers THEN "start" ELSE "refused"]
  /\ UNCHANGED <<is, parser, idler, server, news, ran>>

\* How many commands the start function itself queues.
Starts(j) == IF Kind[j] = "store" THEN Parts[j] ELSE 1

\* job->start queues a command, or completes it with an error when the server
\* is shut down; other threads may run before it queues the next one.
StartJob(j) ==
  LET c == Command(j, job[j].issued + 1)
      at == IF c.part < Starts(j) THEN "start"
            ELSE IF Kind[j] = "store" THEN "check" ELSE "wait"
      jb == [WithNext(job, j) EXCEPT ![j].at = at]
  IN  /\ job[j].at = "start"
      /\ IF is.state = "SHUTDOWN"
         THEN /\ job' = JobComplete(is, jb, c, FALSE).job
              /\ UNCHANGED is
         ELSE /\ is' = CommandQueue(is, jb, c)
              /\ job' = jb
      /\ UNCHANGED <<parser, idler, server, news, ran>>

\* The end of imapx_job_sync_changes_start: nothing was to be stored, or all
\* of it has been answered already.
CheckStored(j) ==
  /\ job[j].at = "check"
  /\ job' = [IF job[j].commands = 0 THEN JobDone(job, j) ELSE job EXCEPT ![j].at = "wait"]
  /\ UNCHANGED <<is, parser, idler, server, news, ran>>

\* imapx_run_job takes the job from the reply port, and its caller frees it.
Return(j) ==
  /\ job[j].at = "wait"
  /\ job[j].replies > 0
  /\ job' = [job EXCEPT ![j].at = "returned"]
  /\ UNCHANGED <<is, parser, idler, server, news, ran>>

\* imapx_server_fetch_new_messages (..., async): what it does to server and
\* jobs.  Bound: as many at a time as Async has members.
FetchNewMessages(s, jb, f) ==
  LET free == {a \in Async : jb[a].at = "new"}
      a    == CHOOSE x \in free : TRUE
      with == WithNext([jb EXCEPT ![a].at = "wait", ![a].folder = f], a)
  IN  IF free = {} THEN [is |-> s, job |-> jb]
      ELSE [is |-> CommandQueue(s, with, Command(a, 1)), job |-> with]

-----------------------------------------------------------------------------
(* Completing a SELECT.                                                    *)

\* imapx_command_select_done, the folder is selected; grown: the folder has
\* messages the summary does not know of.
SelectOk(s, jb, grown) ==
  LET sel == [s EXCEPT !.select_folder = IF @ = NULL THEN s.select_pending ELSE @,
                       !.state = "SELECTED"]
      r   == IF grown THEN FetchNewMessages(sel, jb, s.select_pending)
             ELSE [is |-> sel, job |-> jb]
  IN  [r EXCEPT !.is.select_pending = NULL]

\* imapx_command_select_done, it is not: what is queued for the folder fails
\* with it.  The second of several failed commands has no status to make an
\* error from when the first was given the error of the SELECT itself.
SelectFailed(s, jb, byError) ==
  LET failed == {i \in DOMAIN s.queue : SelectOf(s.queue[i], jb) = s.select_pending}
      Of(j)  == {i \in failed : s.queue[i].job = j}
  IN  [is |-> [s EXCEPT !.queue = Keep(@, DOMAIN @ \ failed),
                        !.select_pending = NULL,
                        !.select_folder = NULL,
                        !.state = IF byError /\ Cardinality(failed) > 1
                                  THEN "CRASHED" ELSE "INITIALISED"],
       job |-> [j \in DOMAIN jb |-> IF Of(j) = {} THEN jb[j]
                                    ELSE Finish(jb, j, Cardinality(Of(j)), TRUE)[j]]]

-----------------------------------------------------------------------------
(* The parser thread.                                                      *)

\* imapx_completion up to the complete function: c is answered.
Answered(c, ok) ==
  /\ parser' = [at |-> "complete", ic |-> c, ok |-> ok]
  /\ ran' = IF ok /\ c.op = "JOB" /\ c.job \in Jobs THEN ran \cup {c} ELSE ran
  /\ news' = IF ok /\ c.op = "JOB" /\ JobKind(c.job) = "steps"
             THEN news \ {job[c.job].folder} ELSE news
  /\ UNCHANGED <<job, idler>>

Detached(c, stream) ==
  [is EXCEPT !.active = Keep(@, {k \in DOMAIN @ : @[k] # c}),
             !.literal = IF @ = c THEN NoCommand ELSE @,
             !.stream = stream]

\* A tagged answer to a command that the server has read whole.  The server
\* keeps the order around commands that change what the others mean.  One
\* that asks for more is refused with NO in its place.
ReadAnswer(ok) ==
  /\ parser.at = "read"
  /\ server.waiting = NoCommand
  /\ \E i \in DOMAIN is.stream :
       LET c == is.stream[i] IN
       /\ i = 1 \/ \A k \in 1..i : is.stream[k].op = "JOB" /\ ~Continues(is.stream[k])
       /\ c # More
       /\ Continues(c) => ~ok
       /\ is' = Detached(c, RemoveAt(is.stream, i))
       /\ server' = IF c.op = "SELECT"
                    THEN [server EXCEPT !.selected = IF ok THEN c.folder ELSE NULL]
                    ELSE server
       /\ Answered(c, ok)

\* The tagged answer to the literal, or to DONE.
ReadAnswerToMore(ok) ==
  /\ parser.at = "read"
  /\ server.waiting # NoCommand
  /\ is.stream # <<>>
  /\ is.stream[1] = More
  /\ is' = Detached(server.waiting, Tail(is.stream))
  /\ server' = [server EXCEPT !.waiting = NoCommand]
  /\ Answered(server.waiting, ok)

\* imapx_continuation: the server asks for more.
Continuation ==
  /\ parser.at = "read"
  /\ server.waiting = NoCommand
  /\ is.stream # <<>>
  /\ Continues(is.stream[1])
  /\ server' = [server EXCEPT !.waiting = is.stream[1]]
  /\ LET read == [is EXCEPT !.stream = Tail(@)]
         went == CASE read.idle = "ISSUED" -> [read EXCEPT !.idle = "STARTED"]
                   [] read.idle = "CANCEL" -> [read EXCEPT !.idle = "OFF",
                                                           !.stream = Append(@, More)]
                   [] read.idle = "OFF" /\ read.literal # NoCommand ->
                        [read EXCEPT !.stream = Append(@, More)]
                   [] OTHER -> read
     IN  \E next \in {[went EXCEPT !.literal = NoCommand]} : is' = CommandStartNext(next, job)
  /\ UNCHANGED <<job, parser, idler, news, ran>>

\* imapx_untagged, CLOSED: the SELECT under way has ended the old selection.
UntaggedClosed ==
  /\ parser.at = "read"
  /\ server.waiting = NoCommand
  /\ is.stream # <<>>
  /\ is.stream[1].op = "SELECT"
  /\ server.selected # NULL
  /\ server' = [server EXCEPT !.selected = NULL]
  /\ is' = IF is.select_pending # NULL /\ is.select_folder = NULL
           THEN [is EXCEPT !.select_folder = is.select_pending] ELSE is
  /\ UNCHANGED <<job, parser, idler, news, ran>>

\* imapx_untagged, EXISTS: new mail, which ends IDLE.
UntaggedExists ==
  /\ parser.at = "read"
  /\ server.selected \in Growing
  /\ is.select_folder # NULL
  /\ news' = news \cup {is.select_folder}
  /\ is' = StopIdle(is)
  /\ UNCHANGED <<job, parser, idler, server, ran>>

\* The rest of imapx_completion: the complete function of the command.
CompleteCommand ==
  LET c == parser.ic IN
  /\ parser.at = "complete"
  /\ Half # {} => "earlyAnswer" \in Faults
  /\ parser' = [parser EXCEPT !.at = "next", !.ic = NoCommand, !.ok = TRUE]
  /\ \/ /\ c.op = "JOB"
        /\ \E r \in {JobComplete(is, job, c, parser.ok)} : is' = r.is /\ job' = r.job
        /\ UNCHANGED idler
     \/ /\ c.op = "SELECT"
        /\ \E grown \in {FALSE} \cup {is.select_pending \in Growing} :
             \E r \in {IF parser.ok THEN SelectOk(is, job, grown)
                      ELSE SelectFailed(is, job, FALSE)} : is' = r.is /\ job' = r.job
        /\ UNCHANGED idler
     \/ /\ c.op = "IDLE"                       \* imapx_command_idle_done
        /\ is' = [is EXCEPT !.idle = "OFF"]
        /\ idler' = [idler EXCEPT !.answer = IF parser.ok THEN "ok" ELSE "error"]
        /\ UNCHANGED job
  /\ UNCHANGED <<server, news, ran>>

\* ... and imapx_command_start_next after it.
StartNextCommand ==
  /\ parser.at = "next"
  /\ parser' = [parser EXCEPT !.at = "read"]
  /\ is' = CommandStartNext(is, job)
  /\ UNCHANGED <<job, idler, server, news, ran>>

\* The connection is lost, the server says BYE, or the user cancels: the
\* parser thread leaves its loop.  Without the fault selectLost this does not
\* happen while a SELECT is under way, without earlyAnswer not while a job
\* queues several commands.
ConnectionLost ==
  /\ parser.at = "read"
  /\ is.select_pending # NULL => "selectLost" \in Faults
  /\ (\E j \in Jobs : Kind[j] = "store" /\ job[j].at \in {"start", "check"})
       => "earlyAnswer" \in Faults
  /\ is' = [is EXCEPT !.state = "SHUTDOWN"]
  /\ parser' = [parser EXCEPT !.at = "cancelActive"]
  /\ UNCHANGED <<job, idler, server, news, ran>>

\* cancel_all_jobs, first the commands that have been sent ...
CancelActive ==
  /\ parser.at = "cancelActive"
  /\ IF is.active = <<>>
     THEN parser' = [parser EXCEPT !.at = "cancelQueue"] /\ UNCHANGED <<is, job, idler>>
     ELSE LET c == Head(is.active)
              s == [is EXCEPT !.active = Tail(@)]
          IN  /\ \E r \in {CASE c.op = "JOB"    -> JobComplete(s, job, c, FALSE)
                            [] c.op = "SELECT" -> SelectFailed(s, job, TRUE)
                            [] c.op = "IDLE"   -> [is |-> [s EXCEPT !.idle = "OFF"],
                                                   job |-> job]} :
                   is' = r.is /\ job' = r.job
              /\ idler' = IF c.op = "IDLE" THEN [idler EXCEPT !.answer = "error"] ELSE idler
              /\ UNCHANGED parser
  /\ UNCHANGED <<server, news, ran>>

\* Mutant: commands that have not been sent are not cancelled.
CancelNoQueue ==
  /\ parser.at = "cancelQueue"
  /\ parser' = [parser EXCEPT !.at = "gone"]
  /\ UNCHANGED <<is, job, idler, server, news, ran>>

\* ... then the commands that wait.
CancelQueue ==
  /\ parser.at = "cancelQueue"
  /\ IF is.queue = <<>>
     THEN parser' = [parser EXCEPT !.at = "gone"] /\ UNCHANGED <<is, job>>
     ELSE /\ job' = JobComplete(is, job, Head(is.queue), FALSE).job
          /\ is' = [is EXCEPT !.queue = Tail(@)]
          /\ UNCHANGED parser
  /\ UNCHANGED <<idler, server, news, ran>>

-----------------------------------------------------------------------------
(* imapx_idle_thread.                                                      *)

IdleWake ==
  /\ idler.at = "wait"
  /\ is.watch
  /\ is' = [is EXCEPT !.watch = FALSE]
  /\ idler' = [idler EXCEPT !.at = "check"]
  /\ UNCHANGED <<job, parser, server, news, ran>>

\* Under IDLE_LOCK, once the dwell time is over; the job for IDLE is registered
\* right after, and when that is refused the thread looks again.
IdleCheck ==
  /\ idler.at = "check"
  /\ idler' = IF is.select_folder = NULL \/ is.idle # "PENDING"
              THEN [at |-> "wait", folder |-> NULL, answer |-> "none"]
              ELSE [at |-> IF Registers THEN "issue" ELSE "check",
                    folder |-> is.select_folder, answer |-> "none"]
  /\ UNCHANGED <<is, job, parser, server, news, ran>>

\* Mutant: what cancelled the IDLE meanwhile is not looked at.
IdleIssueLate ==
  /\ idler.at = "issue"
  /\ is' = CommandStart([is EXCEPT !.idle = "ISSUED"], Idle)
  /\ idler' = [idler EXCEPT !.at = "reply"]
  /\ UNCHANGED <<job, parser, server, news, ran>>

\* imapx_job_idle_start: not issued if it was cancelled already.
IdleIssue ==
  /\ idler.at = "issue"
  /\ IF is.idle = "PENDING"
     THEN /\ is' = CommandStart([is EXCEPT !.idle = "ISSUED"], Idle)
          /\ idler' = [idler EXCEPT !.at = "reply"]
     ELSE /\ idler' = [idler EXCEPT !.at = "reply", !.answer = "ok"]
          /\ UNCHANGED is
  /\ UNCHANGED <<job, parser, server, news, ran>>

\* The IDLE is over: is there new mail to fetch, and nothing else to do?
IdleReply ==
  /\ idler.at = "reply"
  /\ idler.answer # "none"
  /\ idler' = [idler EXCEPT !.at = IF /\ @ = "reply"
                                     /\ idler.answer = "ok"
                                     /\ idler.folder \in news
                                     /\ is.queue = <<>>
                                     /\ is.active = <<>>
                                  THEN "fetch" ELSE "check"]
  /\ UNCHANGED <<is, job, parser, server, news, ran>>

\* The folder to fetch from is the selected one, looked up without a lock.
\* Without the fault folderGone the thread looks while there is one.
IdleFetch ==
  /\ idler.at = "fetch"
  /\ is.select_folder = NULL => "folderGone" \in Faults
  /\ LET r == CASE is.select_folder = NULL -> [is |-> [is EXCEPT !.state = "CRASHED"], job |-> job]
                [] is.select_folder # NULL /\ Registers ->
                     FetchNewMessages(is, job, is.select_folder)
                [] OTHER -> [is |-> is, job |-> job]
     IN  is' = r.is /\ job' = r.job
  /\ idler' = [idler EXCEPT !.at = "check"]
  /\ UNCHANGED <<parser, server, news, ran>>

-----------------------------------------------------------------------------
Caller(j)    == StartJob(j) \/ CheckStored(j) \/ Return(j)
ServerSpeaks == \/ \E ok \in BOOLEAN : ReadAnswer(ok) \/ ReadAnswerToMore(ok)
                \/ Continuation
Parser       == CompleteCommand \/ StartNextCommand \/ CancelActive \/ CancelQueue
Idler        == IdleWake \/ IdleCheck \/ IdleIssue \/ IdleReply \/ IdleFetch

Next ==
  /\ is.state # "CRASHED"
  /\ \/ \E j \in Jobs : Submit(j) \/ Caller(j)
     \/ ServerSpeaks
     \/ UntaggedClosed
     \/ UntaggedExists
     \/ ConnectionLost
     \/ Parser
     \/ Idler

Spec == Init /\ [][Next]_vars

\* The callers' threads and the parser thread run, and the server goes on
\* answering or asking for more while the connection lasts.  Nothing says that
\* the idle thread runs, that mail comes, or that the connection is ever lost.
FairSpec ==
  /\ Spec
  /\ \A j \in Jobs : WF_vars(Caller(j))
  /\ WF_vars(ServerSpeaks)
  /\ WF_vars(Parser)

-----------------------------------------------------------------------------
(* Properties.                                                             *)

InHand(c) == c = parser.ic \/ c = server.waiting
Pending(j) ==
  {c \in Range(is.queue) \cup Range(is.active) \cup {parser.ic} : c.op = "JOB" /\ c.job = j}

\* A command reaches the server while the folder it is meant for, and no
\* other, is selected there: UIDs of one folder are never used in another
\* (imapx_select, imapx_command_start_next).
CommandRunsInItsFolder ==
  \A c \in Range(is.stream) \cup {server.waiting} :
    SelectOf(c, job) # NULL => server.selected = SelectOf(c, job)

\* When client and server both have a folder selected it is the same one:
\* an untagged EXPUNGE is never applied to the summary of another folder.
SelectionAgrees ==
  is.select_folder # NULL /\ server.selected # NULL => is.select_folder = server.selected

\* Nothing but the rest of the literal follows a literal command, nothing but
\* DONE follows IDLE once the server has asked to go on, and neither is sent
\* unasked (literal, imapx_stop_idle, imapx_continuation).
WireInStep ==
  /\ \A i \in DOMAIN is.stream :
       is.stream[i] = More => i = 1 /\ server.waiting # NoCommand
  /\ server.waiting # NoCommand /\ is.stream # <<>> => is.stream[1] = More

\* A job is answered once, when no command of it is queued, sent or being
\* completed, and without an error only if the server has carried out all of
\* them (imapx_job_done).
AnsweredWhenDone ==
  \A j \in Jobs :
    /\ job[j].replies <= 1
    /\ job[j].replies = 1 =>
         /\ Pending(j) = {}
         /\ job[j].at # "start"
         /\ ~job[j].error => \A n \in 1..Parts[j] : Command(j, n) \in ran

\* Nobody waits for an answer that nothing leads to: while a job is waited for, the
\* parser thread has something to do or the server something to answer
\* (imapx_command_start_next, imapx_stop_idle, cancel_all_jobs).
NoneForgotten ==
  is.state # "CRASHED" =>
    \A j \in Jobs :
      job[j].at = "wait" /\ job[j].replies = 0 =>
        \/ parser.at \in {"complete", "next", "cancelActive", "cancelQueue"}
        \/ parser.at = "read" /\ is.stream # <<>>

\* Every job that was accepted is answered in the end, in whatever order folders
\* have to be selected, through IDLE, and when the connection is lost (each job
\* of Jobs is submitted once at most).
JobsAnswered == <>[](\A j \in Jobs : job[j].at \in {"new", "refused", "returned"})
=============================================================================
