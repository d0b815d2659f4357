----------------------------- MODULE CamelOperation -----------------------------
(***************************************************************************)
(* camel/camel-operation.c, the cancellation half: one CamelOperation, the *)
(* threads that are registered with it and do cancellable I/O, and whoever *)
(* cancels it.  The functions of the file run under operation_lock, so     *)
(* each is one action; between the check for cancellation and the wait for *)
(* input (camel-file-utils.c, camel-tcp-stream-raw.c) anything may happen. *)
(***************************************************************************)
EXTENDS CamelMsgPort

CONSTANTS Threads,      \* threads registered with the operation
          PipeOf,       \* the pipe each waits on: camel_read or NSPR streams
          MaxQueue      \* bound: messages in the cancel port

ASSUME OperationAssumption ==
  /\ IsFiniteSet(Threads)
  /\ PipeOf \in [Threads -> Pipes]
  /\ MaxQueue \in Nat \ {0}

VARIABLES
  cancelled,  \* cc->flags & CAMEL_OPERATION_CANCELLED
  port,       \* cc->cancel_port
  io          \* where each thread is in its cancellable read

opVars == <<cancelled, port, io>>

IoStates == {"idle", "checked", "waiting", "interrupted"}

\* camel_operation_new
Init ==
  /\ cancelled = FALSE
  /\ port = NewPort
  /\ io = [t \in Threads |-> "idle"]

-----------------------------------------------------------------------------
(* What others do to the operation.                                        *)

\* camel_operation_cancel of this operation.
Cancel ==
  /\ ~cancelled
  /\ cancelled' = TRUE
  /\ port' = Push(port, "cancel")
  /\ UNCHANGED io

\* camel_operation_cancel (NULL): every operation gets a message, also one
\* that is cancelled already.
CancelAll ==
  /\ Len(port.queue) < MaxQueue
  /\ cancelled' = TRUE
  /\ port' = Push(port, "cancel")
  /\ UNCHANGED io

\* Mutant: the messages stay in the port.
UncancelFlagOnly ==
  /\ cancelled' = FALSE
  /\ UNCHANGED <<port, io>>

\* camel_operation_uncancel
Uncancel ==
  /\ DrainReturns(port)
  /\ port' = Drain(port)
  /\ cancelled' = FALSE
  /\ UNCHANGED io

-----------------------------------------------------------------------------
(* A cancellable read.                                                     *)

\* camel_operation_cancel_check, which the reader calls before anything else.
\* Without the flag, messages in the port set it.
CancelCheck(t) ==
  LET found == cancelled \/ ~IsEmpty(port) IN
  /\ io[t] = "idle"
  /\ cancelled \/ DrainReturns(port)
  /\ port' = IF cancelled THEN port ELSE Drain(port)
  /\ cancelled' = found
  /\ io' = [io EXCEPT ![t] = IF found THEN "interrupted" ELSE "checked"]

\* camel_operation_cancel_fd or _prfd; then the thread enters select.
CancelFd(t) ==
  /\ io[t] = "checked"
  /\ port' = OpenPipe(port, PipeOf[t])
  /\ io' = [io EXCEPT ![t] = "waiting"]
  /\ UNCHANGED cancelled

\* select returns with the cancel descriptor set, which goes before data.
Interrupt(t) ==
  /\ io[t] = "waiting"
  /\ Readable(port, PipeOf[t])
  /\ io' = [io EXCEPT ![t] = "interrupted"]
  /\ UNCHANGED <<cancelled, port>>

\* select returns with data only, and the read delivers it; or, in camel_read
\* and the NSPR streams, it returns after IO_TIMEOUT and they give up.  The
\* Win32 socket functions then go round again.
Data(t) ==
  /\ io[t] = "waiting"
  /\ ~Readable(port, PipeOf[t])
  /\ io' = [io EXCEPT ![t] = "idle"]
  /\ UNCHANGED <<cancelled, port>>

\* The caller of the read handles the error.
Return(t) ==
  /\ io[t] = "interrupted"
  /\ io' = [io EXCEPT ![t] = "idle"]
  /\ UNCHANGED <<cancelled, port>>

Read(t) ==
  \/ CancelCheck(t)
  \/ CancelFd(t)
  \/ Interrupt(t)
  \/ Data(t)
  \/ Return(t)

Control == Cancel \/ CancelAll \/ Uncancel

Next == Control \/ \E t \in Threads : Read(t)

Spec == Init /\ [][Next]_opVars

\* A thread goes on with its read, and select returns when the cancel
\* descriptor is readable.  Data may never come.
FairSpec ==
  Spec /\ \A t \in Threads : WF_opVars(CancelFd(t)) /\ WF_opVars(Interrupt(t))

-----------------------------------------------------------------------------
(* Properties.                                                             *)

\* The descriptor of camel_operation_cancel_fd is one "that can be waited on to
\* asynchronously detect cancellation" (camel-operation.c:384-385): a thread
\* that waits on it does not wait on after the operation has been cancelled.
\* No run has it: the code breaks it before the first call (README).
CancelWakesWaiters ==
  \A t \in Threads :
    (io[t] = "waiting" /\ cancelled) ~> (io[t] # "waiting" \/ ~cancelled)
=============================================================================
