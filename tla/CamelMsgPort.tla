------------------------------ MODULE CamelMsgPort ------------------------------
(***************************************************************************)
(* camel/camel-msgport.c: a GAsyncQueue with up to two pipes (a Unix pipe  *)
(* or socket pair, and its NSPR twin) on which a reader can select for "a  *)
(* message is there".  Every function holds the lock of the queue, so each *)
(* is an operator from a port to a port.  Writes of one byte to a pipe     *)
(* that is open succeed: the ports of Camel never hold enough bytes to     *)
(* fill one.                                                               *)
(***************************************************************************)
EXTENDS Naturals, Sequences, FiniteSets

Pipes == {"pipe", "prpipe"}

\* camel_msgport_new: the pipes are made when somebody asks for one.
NewPort == [queue |-> <<>>, open |-> {}, bytes |-> [p \in Pipes |-> 0]]

\* camel_msgport_fd and camel_msgport_prfd.  Nothing is written for messages
\* that are in the queue already.
OpenPipe(port, p) == [port EXCEPT !.open = @ \cup {p}]

\* Mutant: the message does not remember that a byte was written for it.
PushForgets(port, m) ==
  [port EXCEPT
    !.queue = Append(@, [msg |-> m, sync |-> {}]),
    !.bytes = [p \in Pipes |-> IF p \in port.open THEN @[p] + 1 ELSE @[p]]]

\* Mutant: the byte is not written.
PushSilently(port, m) ==
  [port EXCEPT !.queue = Append(@, [msg |-> m, sync |-> port.open])]

\* camel_msgport_push: one byte to each open pipe; the message remembers to
\* which (MSG_FLAG_SYNC_WITH_PIPE, MSG_FLAG_SYNC_WITH_PR_PIPE).
Push(port, m) ==
  [port EXCEPT
    !.queue = Append(@, [msg |-> m, sync |-> port.open]),
    !.bytes = [p \in Pipes |-> IF p \in port.open THEN @[p] + 1 ELSE @[p]]]

IsEmpty(port) == port.queue = <<>>

\* Can a message be popped without blocking in msgport_sync_with_pipe?
PopReturns(port) == \A p \in Head(port.queue).sync : port.bytes[p] > 0

\* camel_msgport_try_pop, _pop and _timed_pop of a queue that is not empty.
Pop(port) ==
  [port EXCEPT
    !.queue = Tail(@),
    !.bytes = [p \in Pipes |->
                 IF p \in Head(port.queue).sync THEN @[p] - 1 ELSE @[p]]]

Synced(port, p) == {i \in DOMAIN port.queue : p \in port.queue[i].sync}

\* The loop that pops until the queue is empty: it returns if no read blocks.
DrainReturns(port) == \A p \in Pipes : Cardinality(Synced(port, p)) <= port.bytes[p]

Drain(port) ==
  [port EXCEPT
    !.queue = <<>>,
    !.bytes = [p \in Pipes |-> @[p] - Cardinality(Synced(port, p))]]

\* select() on the read end of pipe p finds it readable.
Readable(port, p) == p \in port.open /\ port.bytes[p] > 0

PortType(Msgs) ==
  [queue: Seq([msg: Msgs, sync: SUBSET Pipes]),
   open: SUBSET Pipes,
   bytes: [Pipes -> Nat]]

\* One byte in a pipe for each queued message that was announced on it.
InStep(port) == \A p \in Pipes : port.bytes[p] = Cardinality(Synced(port, p))
=============================================================================
