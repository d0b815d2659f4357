------------------------------ MODULE CamelNetUtils ------------------------------
(***************************************************************************)
(* camel/camel-net-utils.c: host name lookups that can be cancelled.  A    *)
(* thread registered with the operation starts a worker thread, waits for  *)
(* the worker's reply port or the cancel descriptor, whichever is readable *)
(* first, joins the worker and destroys the reply port.                    *)
(***************************************************************************)
EXTENDS CamelOperation

CONSTANT NULL  \* no reply port

ASSUME NetAssumption == NULL \notin PortType({"answer"})

VARIABLES
  worker,  \* the lookup thread: none, resolving, replying (past its look at
           \* msg->cancelled) or done
  gaveUp,  \* msg->cancelled
  reply    \* msg->reply_port

netVars == <<worker, gaveUp, reply>>
vars    == <<cancelled, port, io, worker, gaveUp, reply>>

NetStates == {"polling", "joinCancelled", "joinReplied"}

NetInit ==
  /\ Init
  /\ worker = [t \in Threads |-> "none"]
  /\ gaveUp = [t \in Threads |-> FALSE]
  /\ reply = [t \in Threads |-> NULL]

\* camel_getaddrinfo after its check, and cs_waitinfo up to the poll.
StartLookup(t) ==
  /\ io[t] = "checked"
  /\ port' = OpenPipe(port, "pipe")
  /\ reply' = [reply EXCEPT ![t] = OpenPipe(NewPort, "pipe")]
  /\ worker' = [worker EXCEPT ![t] = "resolving"]
  /\ gaveUp' = [gaveUp EXCEPT ![t] = FALSE]
  /\ io' = [io EXCEPT ![t] = "polling"]
  /\ UNCHANGED cancelled

\* g_thread_create fails: the reply port goes again, the lookup fails.
CannotStartLookup(t) ==
  /\ io[t] = "checked"
  /\ port' = OpenPipe(port, "pipe")
  /\ io' = [io EXCEPT ![t] = "idle"]
  /\ UNCHANGED <<cancelled, netVars>>

\* Mutant: cs_waitinfo leaves the worker behind instead of joining it.
PollCancelledLeaves(t) ==
  /\ io[t] = "polling"
  /\ Readable(port, "pipe")
  /\ gaveUp' = [gaveUp EXCEPT ![t] = TRUE]
  /\ reply' = [reply EXCEPT ![t] = NULL]
  /\ io' = [io EXCEPT ![t] = "interrupted"]
  /\ UNCHANGED <<cancelled, port, worker>>

\* The poll ends with the cancel descriptor, which goes before a reply.
PollCancelled(t) ==
  /\ io[t] = "polling"
  /\ Readable(port, "pipe")
  /\ gaveUp' = [gaveUp EXCEPT ![t] = TRUE]
  /\ io' = [io EXCEPT ![t] = "joinCancelled"]
  /\ UNCHANGED <<cancelled, port, worker, reply>>

\* The poll ends with a reply.
PollReplied(t) ==
  /\ io[t] = "polling"
  /\ ~Readable(port, "pipe")
  /\ Readable(reply[t], "pipe")
  /\ io' = [io EXCEPT ![t] = "joinReplied"]
  /\ UNCHANGED <<cancelled, port, netVars>>

\* g_thread_join returns, a reply is taken, the reply port is destroyed.
Join(t) ==
  /\ io[t] \in {"joinCancelled", "joinReplied"}
  /\ worker[t] = "done"
  /\ io[t] = "joinReplied" => IsEmpty(reply[t]) \/ PopReturns(reply[t])
  /\ io' = [io EXCEPT ![t] = IF @ = "joinCancelled" THEN "interrupted" ELSE "idle"]
  /\ worker' = [worker EXCEPT ![t] = "none"]
  /\ reply' = [reply EXCEPT ![t] = NULL]
  /\ UNCHANGED <<cancelled, port, gaveUp>>

\* Mutant: the worker returns without a reply (as the cs_getnameinfo of a build
\* without getaddrinfo does for an address that is not AF_INET).
WorkerResolvedMute(t) ==
  /\ worker[t] = "resolving"
  /\ worker' = [worker EXCEPT ![t] = "done"]
  /\ UNCHANGED <<opVars, gaveUp, reply>>

\* cs_getaddrinfo, cs_getnameinfo: the resolver has returned; the worker looks
\* once, without a lock, whether the lookup has been given up.
WorkerResolved(t) ==
  /\ worker[t] = "resolving"
  /\ worker' = [worker EXCEPT ![t] = IF gaveUp[t] THEN "done" ELSE "replying"]
  /\ UNCHANGED <<opVars, gaveUp, reply>>

\* camel_msgport_reply
WorkerReplies(t) ==
  /\ worker[t] = "replying"
  /\ reply' = [reply EXCEPT ![t] = Push(@, "answer")]
  /\ worker' = [worker EXCEPT ![t] = "done"]
  /\ UNCHANGED <<opVars, gaveUp>>

Lookup(t) ==
  \/ StartLookup(t)
  \/ CannotStartLookup(t)
  \/ PollCancelled(t)
  \/ PollReplied(t)
  \/ Join(t)

Worker(t) == WorkerResolved(t) \/ WorkerReplies(t)

NetNext ==
  \/ Control /\ UNCHANGED netVars
  \/ \E t \in Threads :
       \/ Read(t) /\ UNCHANGED netVars
       \/ Lookup(t)
       \/ Worker(t)

\* The resolver returns at some time, and nobody stops inside a function.
NetFairness ==
  \A t \in Threads :
    /\ WF_vars(Interrupt(t) /\ UNCHANGED netVars)
    /\ WF_vars(PollCancelled(t) \/ PollReplied(t) \/ Join(t))
    /\ WF_vars(Worker(t))

NetSpec == NetInit /\ [][NetNext]_vars /\ NetFairness

-----------------------------------------------------------------------------
(* Properties.                                                             *)

\* The type invariant.
TypeOK ==
  /\ cancelled \in BOOLEAN
  /\ port \in PortType({"cancel"})
  /\ io \in [Threads -> IoStates \cup NetStates]
  /\ worker \in [Threads -> {"none", "resolving", "replying", "done"}]
  /\ gaveUp \in [Threads -> BOOLEAN]
  /\ reply \in [Threads -> PortType({"answer"}) \cup {NULL}]

\* The bytes in the pipes are those of the messages in the queue.  With a byte
\* too few, msgport_sync_with_pipe would block inside operation_lock, and with
\* it the cancellation of every operation; with one too many, a select would
\* report a message that is not there.
PipesInStep ==
  /\ InStep(port)
  /\ \A t \in Threads : reply[t] # NULL => InStep(reply[t])

\* After camel_operation_uncancel no read and no lookup of the operation is
\* interrupted by the cancellation that is over.
UncancelSilences ==
  ~cancelled => IsEmpty(port) /\ \A p \in Pipes : ~Readable(port, p)

\* A lookup that was told of a reply finds it after joining the worker (the
\* g_warning of camel-net-utils.c:531 is never reached), and the worker never
\* replies to a port that has been destroyed.
LookupsMeet ==
  \A t \in Threads :
    /\ io[t] = "joinReplied" => ~IsEmpty(reply[t])
    /\ worker[t] # "none" => reply[t] # NULL

\* A thread that has the descriptor when the operation is cancelled leaves its
\* wait, unless the cancellation is taken back first.
CancelWakesDescriptor ==
  \A t \in Threads :
    (io[t] = "waiting" /\ cancelled /\ PipeOf[t] \in Head(port.queue).sync)
      ~> (io[t] # "waiting" \/ ~cancelled)

\* A lookup ends with an answer or a cancellation, whatever races with what.
LookupsEnd == \A t \in Threads : (io[t] \in NetStates) ~> (io[t] \notin NetStates)
=============================================================================
