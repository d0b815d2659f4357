-------------------------- MODULE CamelNetUtilsProofs --------------------------
(***************************************************************************)
(* Theorems about CamelMsgPort, CamelOperation and CamelNetUtils for any   *)
(* number of threads, and any number of messages in a port.                *)
(***************************************************************************)
EXTENDS CamelNetUtils, FiniteSetTheorems, TLAPS

-----------------------------------------------------------------------------
(* Message ports.                                                          *)

\* The messages announced on a pipe can be counted.
LEMMA SyncedFinite ==
  ASSUME NEW Msgs, NEW pt \in PortType(Msgs), NEW p \in Pipes
  PROVE  /\ IsFiniteSet(Synced(pt, p)) /\ Cardinality(Synced(pt, p)) \in Nat
         /\ Synced(pt, p) \subseteq 1..Len(pt.queue)
<1>1. Synced(pt, p) \subseteq 1..Len(pt.queue)
  BY DEF Synced, PortType
<1>2. IsFiniteSet(1..Len(pt.queue))
  BY FS_Interval DEF PortType
<1>3. QED  BY <1>1, <1>2, FS_Subset, FS_CardinalityType

\* A port without messages has no bytes in its pipes, and none can be read.
LEMMA EmptyIsSilent ==
  ASSUME NEW Msgs, NEW pt \in PortType(Msgs), InStep(pt), IsEmpty(pt)
  PROVE  \A p \in Pipes : pt.bytes[p] = 0 /\ ~Readable(pt, p)
<1>1. \A p \in Pipes : Synced(pt, p) = {}
  BY DEF Synced, IsEmpty
<1>2. Cardinality({}) = 0
  BY FS_EmptySet
<1>3. QED  BY <1>1, <1>2 DEF InStep, Readable

\* A port with another queue and other bytes is one.
LEMMA PortUpdate ==
  ASSUME NEW Msgs, NEW pt \in PortType(Msgs),
         NEW q \in Seq([msg : Msgs, sync : SUBSET Pipes]), NEW b \in [Pipes -> Nat]
  PROVE  [pt EXCEPT !.queue = q, !.bytes = b] \in PortType(Msgs)
BY DEF PortType

\* A select that returns has a message to return for.
LEMMA ReadableHasMessage ==
  ASSUME NEW Msgs, NEW pt \in PortType(Msgs), InStep(pt), NEW p \in Pipes, Readable(pt, p)
  PROVE  ~IsEmpty(pt)
BY EmptyIsSilent DEF Readable, PortType

\* A new port, also with a pipe.
LEMMA NewPortInStep ==
  ASSUME NEW Msgs
  PROVE  NewPort \in PortType(Msgs) /\ InStep(NewPort) /\ IsEmpty(NewPort)
<1>1. NewPort \in PortType(Msgs)
  BY DEF NewPort, PortType
<1>2. \A p \in Pipes : Synced(NewPort, p) = {} /\ NewPort.bytes[p] = 0
  BY DEF NewPort, Synced
<1>3. QED  BY <1>1, <1>2, FS_EmptySet DEF InStep, IsEmpty, NewPort

LEMMA OpenPipeInStep ==
  ASSUME NEW Msgs, NEW pt \in PortType(Msgs), InStep(pt), NEW p \in Pipes
  PROVE  /\ OpenPipe(pt, p) \in PortType(Msgs) /\ InStep(OpenPipe(pt, p))
         /\ IsEmpty(OpenPipe(pt, p)) <=> IsEmpty(pt)
BY DEF OpenPipe, PortType, InStep, Synced, IsEmpty

\* camel_msgport_push announces the message on every pipe that is open.
LEMMA PushInStep ==
  ASSUME NEW Msgs, NEW pt \in PortType(Msgs), InStep(pt), NEW m \in Msgs
  PROVE  Push(pt, m) \in PortType(Msgs) /\ InStep(Push(pt, m)) /\ ~IsEmpty(Push(pt, m))
<1> DEFINE q  == pt.queue
           e  == [msg |-> m, sync |-> pt.open]
           pt2 == Push(pt, m)
<1>1. q \in Seq([msg : Msgs, sync : SUBSET Pipes]) /\ e \in [msg : Msgs, sync : SUBSET Pipes]
      /\ pt.bytes \in [Pipes -> Nat] /\ pt.open \in SUBSET Pipes
  BY DEF PortType
<1>2. pt2.queue = Append(q, e) /\ pt2.open = pt.open
      /\ pt2.bytes = [p \in Pipes |-> IF p \in pt.open THEN pt.bytes[p] + 1 ELSE pt.bytes[p]]
  BY DEF Push, PortType
<1>3. pt2 \in PortType(Msgs)
  <2>1. pt2 = [pt EXCEPT
                 !.queue = Append(q, e),
                 !.bytes = [p \in Pipes |-> IF p \in pt.open THEN pt.bytes[p] + 1 ELSE pt.bytes[p]]]
    BY DEF Push, PortType
  <2>2. Append(q, e) \in Seq([msg : Msgs, sync : SUBSET Pipes])
    BY <1>1
  <2>3. [p \in Pipes |-> IF p \in pt.open THEN pt.bytes[p] + 1 ELSE pt.bytes[p]] \in [Pipes -> Nat]
    BY <1>1
  <2> HIDE DEF q, e, pt2
  <2>4. QED  BY <1>1, <2>1, <2>2, <2>3, PortUpdate
<1>4. ASSUME NEW p \in Pipes
      PROVE  pt2.bytes[p] = Cardinality(Synced(pt2, p))
  <2>1. Len(q) \in Nat /\ DOMAIN q = 1..Len(q) /\ DOMAIN Append(q, e) = 1..(Len(q) + 1)
    BY <1>1
  <2>2. \A i \in 1..Len(q) : Append(q, e)[i] = q[i]
    BY <1>1
  <2>3. Append(q, e)[Len(q) + 1] = e
    BY <1>1
  <2>4. Synced(pt2, p) = IF p \in pt.open THEN Synced(pt, p) \cup {Len(q) + 1} ELSE Synced(pt, p)
    BY <1>2, <2>1, <2>2, <2>3 DEF Synced
  <2>5. Len(q) + 1 \notin Synced(pt, p) /\ IsFiniteSet(Synced(pt, p))
        /\ Cardinality(Synced(pt, p)) = pt.bytes[p]
    BY <2>1, SyncedFinite DEF InStep
  <2>6. Cardinality(Synced(pt, p) \cup {Len(q) + 1}) = pt.bytes[p] + 1
    BY <2>5, FS_AddElement
  <2>7. QED  BY <1>2, <2>4, <2>5, <2>6
<1>5. ~IsEmpty(pt2)
  BY <1>1, <1>2 DEF IsEmpty
<1>6. QED  BY <1>3, <1>4, <1>5 DEF InStep

\* A port that is drained returns, and leaves neither messages nor bytes.
LEMMA DrainInStep ==
  ASSUME NEW Msgs, NEW pt \in PortType(Msgs), InStep(pt)
  PROVE  /\ DrainReturns(pt)
         /\ Drain(pt) \in PortType(Msgs) /\ InStep(Drain(pt)) /\ IsEmpty(Drain(pt))
<1>1. \A p \in Pipes : Cardinality(Synced(pt, p)) \in Nat /\ pt.bytes[p] = Cardinality(Synced(pt, p))
  BY SyncedFinite DEF InStep
<1>2. DrainReturns(pt)
  BY <1>1 DEF DrainReturns
<1>3. Drain(pt).queue = <<>> /\ Drain(pt).open = pt.open /\ Drain(pt).bytes = [p \in Pipes |-> 0]
  BY <1>1 DEF Drain, PortType
<1>4. Drain(pt) \in PortType(Msgs)
  <2> DEFINE b == [p \in Pipes |-> pt.bytes[p] - Cardinality(Synced(pt, p))]
  <2>1. b \in [Pipes -> Nat]
    BY <1>1
  <2>2. <<>> \in Seq([msg : Msgs, sync : SUBSET Pipes])
    <3>1. ASSUME NEW S  PROVE <<>> \in Seq(S)
      OBVIOUS
    <3>2. QED  BY <3>1
  <2>3. [pt EXCEPT !.queue = <<>>, !.bytes = b] \in PortType(Msgs)
    <3> HIDE DEF b
    <3>1. QED  BY <2>1, <2>2, PortUpdate
  <2>4. Drain(pt) = [pt EXCEPT !.queue = <<>>, !.bytes = b]
    BY DEF Drain, PortType
  <2>5. QED  BY <2>3, <2>4, Zenon
<1>5. \A p \in Pipes : Synced(Drain(pt), p) = {}
  BY <1>3 DEF Synced
<1>6. Cardinality({}) = 0
  BY FS_EmptySet
<1>7. QED  BY <1>2, <1>3, <1>4, <1>5, <1>6 DEF InStep, IsEmpty

\* So does a single pop, and it finds its bytes.
LEMMA PopFindsBytes ==
  ASSUME NEW Msgs, NEW pt \in PortType(Msgs), InStep(pt), ~IsEmpty(pt)
  PROVE  PopReturns(pt)
<1>1. SUFFICES ASSUME NEW p \in Head(pt.queue).sync  PROVE pt.bytes[p] > 0
  BY DEF PopReturns
<1>2. pt.queue \in Seq([msg : Msgs, sync : SUBSET Pipes]) /\ pt.queue # <<>>
  BY DEF PortType, IsEmpty
<1>3. Head(pt.queue) = pt.queue[1] /\ 1 \in DOMAIN pt.queue /\ pt.queue[1] \in [msg : Msgs, sync : SUBSET Pipes]
  <2>1. ASSUME NEW S, NEW q \in Seq(S), q # <<>>
        PROVE  Head(q) = q[1] /\ 1 \in DOMAIN q /\ q[1] \in S
    BY <2>1
  <2>2. QED  BY <1>2, <2>1
<1>4. p \in Pipes /\ 1 \in Synced(pt, p)
  BY <1>1, <1>3 DEF Synced
<1>5. IsFiniteSet(Synced(pt, p)) /\ Cardinality(Synced(pt, p)) \in Nat
  BY <1>4, SyncedFinite
<1>6. Cardinality(Synced(pt, p)) # 0
  BY <1>4, <1>5, FS_EmptySet
<1>7. QED  BY <1>4, <1>5, <1>6 DEF InStep

-----------------------------------------------------------------------------
(* The operation and its lookups.                                          *)

\* Without the flag there is no message in the port.
FlagOfMessages == ~cancelled => IsEmpty(port)

\* A thread is inside a lookup only as long as it has a worker, ...
HasWorker == \A t \in Threads : io[t] \in NetStates => worker[t] # "none"

NetInv ==
  /\ TypeOK
  /\ PipesInStep
  /\ FlagOfMessages
  /\ HasWorker
  /\ LookupsMeet

LEMMA InitNetInv == NetInit => NetInv
<1> SUFFICES ASSUME NetInit PROVE NetInv
  OBVIOUS
<1> USE DEF NetInit, Init
<1>1. NewPort \in PortType({"cancel"}) /\ InStep(NewPort) /\ IsEmpty(NewPort)
  BY NewPortInStep
<1>2. TypeOK
  BY <1>1 DEF TypeOK, IoStates
<1>3. PipesInStep /\ FlagOfMessages
  BY <1>1 DEF PipesInStep, FlagOfMessages
<1>4. HasWorker /\ LookupsMeet
  BY DEF HasWorker, LookupsMeet, NetStates
<1>5. QED  BY <1>2, <1>3, <1>4 DEF NetInv

\* camel_operation_cancel and camel_operation_uncancel.
LEMMA ControlKeeps ==
  ASSUME NetInv, Control, UNCHANGED netVars
  PROVE  NetInv'
<1> USE DEF NetInv, netVars
<1>1. port \in PortType({"cancel"}) /\ InStep(port)
  BY DEF TypeOK, PipesInStep
<1>2. /\ port' \in PortType({"cancel"}) /\ InStep(port') /\ cancelled' \in BOOLEAN
      /\ ~cancelled' => IsEmpty(port')
      /\ UNCHANGED io
  <2>1. CASE Cancel \/ CancelAll
    BY <1>1, <2>1, PushInStep DEF Cancel, CancelAll
  <2>2. CASE Uncancel
    BY <1>1, <2>2, DrainInStep DEF Uncancel
  <2>3. QED  BY <2>1, <2>2 DEF Control
<1>3. TypeOK'
  BY <1>2 DEF TypeOK
<1>4. PipesInStep' /\ FlagOfMessages'
  BY <1>2 DEF PipesInStep, FlagOfMessages
<1>5. HasWorker' /\ LookupsMeet'
  BY <1>2 DEF HasWorker, LookupsMeet
<1>6. QED  BY <1>3, <1>4, <1>5

\* A read.
LEMMA ReadKeeps ==
  ASSUME OperationAssumption, NetInv, NEW t \in Threads, Read(t), UNCHANGED netVars
  PROVE  NetInv'
<1> USE DEF NetInv, netVars
<1>1. port \in PortType({"cancel"}) /\ InStep(port) /\ cancelled \in BOOLEAN
      /\ io \in [Threads -> IoStates \cup NetStates]
  BY DEF TypeOK, PipesInStep
<1>2. /\ port' \in PortType({"cancel"}) /\ InStep(port') /\ cancelled' \in BOOLEAN
      /\ ~cancelled' => IsEmpty(port')
      /\ \E s \in IoStates : io' = [io EXCEPT ![t] = s]
  <2>1. CASE CancelCheck(t)
    BY <1>1, <2>1, DrainInStep DEF CancelCheck, IoStates, FlagOfMessages
  <2>2. CASE CancelFd(t)
    BY <1>1, <2>2, OpenPipeInStep DEF CancelFd, IoStates, FlagOfMessages, OperationAssumption
  <2>3. CASE Interrupt(t) \/ Data(t) \/ Return(t)
    BY <1>1, <2>3 DEF Interrupt, Data, Return, IoStates, FlagOfMessages
  <2>4. QED  BY <2>1, <2>2, <2>3 DEF Read
<1>3. io' \in [Threads -> IoStates \cup NetStates] /\ io'[t] \in IoStates
      /\ \A u \in Threads : u # t => io'[u] = io[u]
  BY <1>1, <1>2
<1>4. TypeOK'
  BY <1>2, <1>3 DEF TypeOK
<1>5. PipesInStep' /\ FlagOfMessages'
  BY <1>2 DEF PipesInStep, FlagOfMessages
<1>6. HasWorker' /\ LookupsMeet'
  BY <1>3 DEF HasWorker, LookupsMeet, NetStates, IoStates
<1>7. QED  BY <1>4, <1>5, <1>6

\* A lookup, and its worker.
LEMMA LookupKeeps ==
  ASSUME NetAssumption, NetInv, NEW t \in Threads, Lookup(t) \/ Worker(t)
  PROVE  NetInv'
<1> USE DEF NetInv, netVars, opVars
<1>1. /\ port \in PortType({"cancel"}) /\ InStep(port) /\ cancelled \in BOOLEAN
      /\ io \in [Threads -> IoStates \cup NetStates]
      /\ worker \in [Threads -> {"none", "resolving", "replying", "done"}]
      /\ gaveUp \in [Threads -> BOOLEAN]
      /\ reply \in [Threads -> PortType({"answer"}) \cup {NULL}]
  BY DEF TypeOK, PipesInStep
<1>2. "pipe" \in Pipes
  BY DEF Pipes
<1>3. NULL \notin PortType({"answer"})
  BY DEF NetAssumption
<1>4. cancelled' = cancelled
  BY DEF Lookup, StartLookup, CannotStartLookup, PollCancelled, PollReplied, Join, Worker,
         WorkerResolved, WorkerReplies
<1>5. port' \in PortType({"cancel"}) /\ InStep(port') /\ (IsEmpty(port') <=> IsEmpty(port))
  <2>1. CASE StartLookup(t) \/ CannotStartLookup(t)
    BY <1>1, <1>2, <2>1, OpenPipeInStep DEF StartLookup, CannotStartLookup
  <2>2. CASE port' = port
    BY <1>1, <2>2
  <2>3. QED
    BY <2>1, <2>2 DEF Lookup, PollCancelled, PollReplied, Join, Worker, WorkerResolved, WorkerReplies
<1>6. ASSUME NEW s \in IoStates \cup NetStates, io' = [io EXCEPT ![t] = s],
             NEW w \in {"none", "resolving", "replying", "done"}, worker' = [worker EXCEPT ![t] = w],
             NEW g \in BOOLEAN, gaveUp' = [gaveUp EXCEPT ![t] = g],
             NEW r \in PortType({"answer"}) \cup {NULL}, reply' = [reply EXCEPT ![t] = r],
             r # NULL => InStep(r),
             s \in NetStates => w # "none",
             w # "none" => r # NULL,
             s = "joinReplied" => ~IsEmpty(r)
      PROVE  NetInv'
  <2>1. /\ io' \in [Threads -> IoStates \cup NetStates]
        /\ worker' \in [Threads -> {"none", "resolving", "replying", "done"}]
        /\ gaveUp' \in [Threads -> BOOLEAN]
        /\ reply' \in [Threads -> PortType({"answer"}) \cup {NULL}]
        /\ io'[t] = s /\ worker'[t] = w /\ reply'[t] = r
        /\ \A u \in Threads : u # t => io'[u] = io[u] /\ worker'[u] = worker[u] /\ reply'[u] = reply[u]
    BY <1>1, <1>6
  <2>2. TypeOK'
    BY <1>1, <1>4, <1>5, <2>1 DEF TypeOK
  <2>3. PipesInStep' /\ FlagOfMessages'
    BY <1>4, <1>5, <1>6, <2>1 DEF PipesInStep, FlagOfMessages
  <2>4. HasWorker' /\ LookupsMeet'
    BY <1>6, <2>1 DEF HasWorker, LookupsMeet
  <2>5. QED  BY <2>2, <2>3, <2>4
<1>7. /\ io' = [io EXCEPT ![t] = io'[t]] /\ io'[t] \in IoStates \cup NetStates
      /\ worker' = [worker EXCEPT ![t] = worker'[t]]
      /\ worker'[t] \in {"none", "resolving", "replying", "done"}
      /\ gaveUp' = [gaveUp EXCEPT ![t] = gaveUp'[t]] /\ gaveUp'[t] \in BOOLEAN
  BY <1>1 DEF Lookup, StartLookup, CannotStartLookup, PollCancelled, PollReplied, Join, Worker,
              WorkerResolved, WorkerReplies, IoStates, NetStates
<1>8. reply[t] # NULL => InStep(reply[t]) /\ reply[t] \in PortType({"answer"})
  BY <1>1 DEF PipesInStep
<1>9. /\ io[t] \in NetStates => worker[t] # "none"
      /\ worker[t] # "none" => reply[t] # NULL
      /\ io[t] = "joinReplied" => ~IsEmpty(reply[t])
  BY DEF HasWorker, LookupsMeet
<1>10. CASE StartLookup(t)
  <2> DEFINE r == OpenPipe(NewPort, "pipe")
  <2>1. r \in PortType({"answer"}) /\ InStep(r)
    BY <1>2, NewPortInStep, OpenPipeInStep
  <2>2. reply' = [reply EXCEPT ![t] = r] /\ io'[t] = "polling" /\ worker'[t] = "resolving"
    BY <1>1, <1>10 DEF StartLookup
  <2> HIDE DEF r
  <2>3. QED  BY <1>3, <1>6, <1>7, <2>1, <2>2
<1>11. CASE CannotStartLookup(t)
  <2>1. io'[t] = "idle" /\ worker'[t] = worker[t] /\ reply' = [reply EXCEPT ![t] = reply[t]]
    BY <1>1, <1>11 DEF CannotStartLookup
  <2>2. QED  BY <1>1, <1>6, <1>7, <1>8, <1>9, <2>1 DEF NetStates
<1>12. CASE PollCancelled(t) \/ PollReplied(t)
  <2>1. io[t] = "polling" /\ io'[t] \in {"joinCancelled", "joinReplied"} /\ worker'[t] = worker[t]
        /\ reply' = [reply EXCEPT ![t] = reply[t]]
        /\ (io'[t] = "joinReplied" => Readable(reply[t], "pipe"))
    BY <1>1, <1>12 DEF PollCancelled, PollReplied
  <2>2. reply[t] # NULL /\ worker[t] # "none"
    BY <1>9, <2>1 DEF NetStates
  <2>3. io'[t] = "joinReplied" => ~IsEmpty(reply[t])
    BY <1>2, <1>8, <2>1, <2>2, ReadableHasMessage
  <2>4. QED  BY <1>1, <1>6, <1>7, <1>8, <2>1, <2>2, <2>3
<1>13. CASE Join(t)
  <2>1. io'[t] \in {"interrupted", "idle"} /\ worker'[t] = "none" /\ reply' = [reply EXCEPT ![t] = NULL]
    BY <1>1, <1>13 DEF Join
  <2>2. QED  BY <1>6, <1>7, <2>1 DEF NetStates
<1>14. CASE WorkerResolved(t)
  <2>1. io'[t] = io[t] /\ worker[t] # "none" /\ worker'[t] # "none" /\ reply' = [reply EXCEPT ![t] = reply[t]]
    BY <1>1, <1>14 DEF WorkerResolved
  <2>2. QED  BY <1>1, <1>6, <1>7, <1>8, <1>9, <2>1
<1>15. CASE WorkerReplies(t)
  <2> DEFINE r == Push(reply[t], "answer")
  <2>1. io'[t] = io[t] /\ worker[t] # "none" /\ worker'[t] = "done" /\ reply' = [reply EXCEPT ![t] = r]
    BY <1>1, <1>15 DEF WorkerReplies
  <2>2. r \in PortType({"answer"}) /\ InStep(r) /\ ~IsEmpty(r)
    BY <1>8, <1>9, <2>1, PushInStep
  <2> HIDE DEF r
  <2>3. QED  BY <1>3, <1>6, <1>7, <2>1, <2>2
<1>16. QED  BY <1>10, <1>11, <1>12, <1>13, <1>14, <1>15 DEF Lookup, Worker

LEMMA NetInvariant == NetSpec => []NetInv
<1>1. NetInv /\ [NetNext]_vars => NetInv'
  <2> SUFFICES ASSUME NetInv, [NetNext]_vars PROVE NetInv'
    OBVIOUS
  <2>1. CASE UNCHANGED vars
    BY <2>1 DEF vars, NetInv, TypeOK, PipesInStep, FlagOfMessages, HasWorker, LookupsMeet
  <2>2. QED
    BY <2>1, OperationAssumption, NetAssumption, ControlKeeps, ReadKeeps, LookupKeeps DEF NetNext
<1>2. QED  BY <1>1, InitNetInv, PTL DEF NetSpec

\* The variables of an operation and its lookups keep their types.
THEOREM TypeCorrect == NetSpec => []TypeOK
<1>1. NetInv => TypeOK
  BY DEF NetInv
<1>2. QED  BY <1>1, NetInvariant, PTL

\* The bytes in the pipes of the cancel port and of the reply ports are those
\* of the messages in their queues (msgport_sync_with_pipe).
THEOREM PipesCountMessages == NetSpec => []PipesInStep
<1>1. NetInv => PipesInStep
  BY DEF NetInv
<1>2. QED  BY <1>1, NetInvariant, PTL

\* After camel_operation_uncancel nothing of the cancellation is left in the
\* port, for any number of cancellations and of registered threads.
THEOREM UncancelIsSilent == NetSpec => []UncancelSilences
<1>1. NetInv => UncancelSilences
  BY EmptyIsSilent DEF NetInv, UncancelSilences, FlagOfMessages, PipesInStep, TypeOK
<1>2. QED  BY <1>1, NetInvariant, PTL

\* A lookup that was told of a reply finds it, and no worker replies to a port
\* that is gone (cs_waitinfo).
THEOREM RepliesAreFound == NetSpec => []LookupsMeet
<1>1. NetInv => LookupsMeet
  BY DEF NetInv
<1>2. QED  BY <1>1, NetInvariant, PTL

\* No function of the port ever blocks in msgport_sync_with_pipe, with the lock
\* of the queue and, in camel_operation_uncancel, operation_lock in its hand.
NeverBlocks ==
  /\ DrainReturns(port)
  /\ \A t \in Threads : io[t] = "joinReplied" => PopReturns(reply[t])

THEOREM PortsNeverBlock == NetSpec => []NeverBlocks
<1>1. NetInv => NeverBlocks
  <2> SUFFICES ASSUME NetInv PROVE NeverBlocks
    OBVIOUS
  <2>1. DrainReturns(port)
    BY DrainInStep DEF NetInv, TypeOK, PipesInStep
  <2>2. ASSUME NEW t \in Threads, io[t] = "joinReplied"  PROVE PopReturns(reply[t])
    <3>1. reply[t] # NULL /\ ~IsEmpty(reply[t])
      BY <2>2 DEF NetInv, HasWorker, LookupsMeet, NetStates
    <3>2. reply[t] \in PortType({"answer"}) /\ InStep(reply[t])
      BY <3>1 DEF NetInv, TypeOK, PipesInStep
    <3>3. QED  BY <3>1, <3>2, PopFindsBytes
  <2>3. QED  BY <2>1, <2>2 DEF NeverBlocks
<1>2. QED  BY <1>1, NetInvariant, PTL
=============================================================================
