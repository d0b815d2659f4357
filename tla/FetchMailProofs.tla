---------------------------- MODULE FetchMailProofs ----------------------------
(***************************************************************************)
(* Theorems about FetchMail, with the POP3 engine it is built on, for any  *)
(* number of messages, any window and any number of crashes.               *)
(***************************************************************************)
EXTENDS FetchMail, FiniteSetTheorems, SequenceTheorems, WellFoundedInduction, TLAPS

Commands == [op : {"RETR", "DELE"}, uid : Uids] \cup {Quit}
Lines    == [kind : {"ok", "err", "body", "end"}, uid : 0 .. Messages]
Files    == [mark : {"", "*", "#"}, lines : Seq(0 .. Messages)]

\* The phases in which the new messages are retrieved and filed.
Getting == {"get", "await", "retrieve", "file"}

StreamTypes ==
  /\ toServer \in Seq(Commands) /\ wire \in Seq(Lines)
  /\ sent \in Seq(Commands) /\ queue \in Seq(Commands) /\ sentlen \in Nat

EngineTypes ==
  /\ drop \subseteq Uids /\ marked \subseteq Uids
  /\ up \in BOOLEAN /\ pipe \in BOOLEAN
  /\ reading \in {"line", "data", "rest"}
  /\ ioerror \in BOOLEAN /\ cancelled \in BOOLEAN
  /\ cache \in [Uids -> Files] /\ err \in [Uids -> BOOLEAN]

JobTypes ==
  /\ at \in Getting \cup {"idle", "save", "sync", "dispose", "quit"}
  /\ delete \in BOOLEAN /\ failed \in BOOLEAN
  /\ view \subseteq Uids /\ todo \subseteq Uids /\ keep \subseteq Uids
  /\ cmd \in [Uids -> {"", "RETR", "DELE"}]
  /\ arrived \in 0 .. Messages
  /\ inbox \in [Uids -> Nat] /\ saved \subseteq Uids /\ crashes \in Nat

TypeOK == StreamTypes /\ EngineTypes /\ JobTypes

\* The length that is counted is never less than what is outstanding.
Counted == Len(sent) <= sentlen

\* Between fetches nothing is on its way.
Quiet ==
  at = "idle" =>
    /\ sent = <<>> /\ queue = <<>> /\ toServer = <<>> /\ wire = <<>>
    /\ reading = "line" /\ ~up /\ ~ioerror /\ ~cancelled

\* Only the reply to a retrieval has data.
ReadsData ==
  /\ sent = <<>> => reading = "line"
  /\ reading # "line" => sent # <<>> /\ sent[1].op = "RETR"

\* An error of the engine empties it, and is seen by whoever waits.
ErrorsSeen ==
  /\ ioerror => sent = <<>> /\ queue = <<>> /\ at \in {"await", "retrieve", "sync", "dispose", "quit"}
  /\ ioerror /\ at \in {"sync", "dispose"} => todo # {}
  /\ cancelled => at \in Getting \cup {"save"}

\* The loops are over messages.
LoopsGoOn ==
  /\ at \in Getting => todo # {} /\ ~failed
  /\ at = "idle" => ~failed

EngineInv == TypeOK /\ Counted /\ SendWindow /\ Quiet /\ ReadsData /\ ErrorsSeen /\ LoopsGoOn

-----------------------------------------------------------------------------
(* The stream.                                                             *)

\* The commands that are not answered.
Asked == ToSet(sent) \cup ToSet(queue)

\* The last line of the reply to command c.
Final(l, c) == l.kind \in {"err", "end"} \/ (l.kind = "ok" /\ c.op # "RETR")

\* Line i of the wire w belongs to command of[i] of s, and the lines come as
\* replies do.
Replies(of, w, s) ==
  /\ \A i \in 1 .. Len(w) :
       /\ w[i].uid = s[of[i]].uid
       /\ w[i].kind \in {"body", "end"} => s[of[i]].op = "RETR"
  /\ \A i, j \in 1 .. Len(w) : i <= j => of[i] <= of[j]
  /\ \A i \in 1 .. Len(w) - 1 :
       /\ Final(w[i], s[of[i]]) => of[i + 1] = of[i] + 1 /\ w[i + 1].kind \in {"ok", "err"}
       /\ ~Final(w[i], s[of[i]]) =>
            /\ of[i + 1] = of[i]
            /\ <<w[i].kind, w[i + 1].kind>> \in {<<"ok", "body">>, <<"body", "end">>}

\* The engine, whose file has the lines ls so far, reads on where the first line
\* belongs.
ReadsOn(of, w, s, r, ls) ==
  w # <<>> =>
    /\ of[1] = 1
    /\ r = "line" => w[1].kind \in {"ok", "err"}
    /\ r = "rest" => w[1].kind \in {"body", "end"}
    /\ r = "data" => \/ w[1].kind = "body" /\ ls = <<>>
                     \/ w[1].kind = "end" /\ ls = <<s[1].uid>>

\* The commands t on their way to the server are those of s after the k-th.
After(t, s, k) == Len(t) = Len(s) - k /\ \A i \in 1 .. Len(t) : t[i] = s[k + i]

\* What the server has yet to answer comes after what it has answered.
Outstanding(of, w, s, r, on, t) ==
  IF on
  THEN IF w = <<>>
       THEN r = "line" /\ After(t, s, 0)
       ELSE Final(w[Len(w)], s[of[Len(w)]]) /\ After(t, s, of[Len(w)])
  ELSE t = <<>>

AlignedTo(w, s, r, ls, on, t) ==
  \E of \in [1 .. Len(w) -> 1 .. Len(s)] :
    Replies(of, w, s) /\ ReadsOn(of, w, s, r, ls) /\ Outstanding(of, w, s, r, on, t)

Aligned == AlignedTo(wire, sent, reading, cache[sent[1].uid].lines, up, toServer)

\* After an error, lines may be left that nobody asked for; then nothing more
\* is retrieved.
Spoiled ==
  /\ at \in {"await", "retrieve", "save", "sync", "dispose", "quit"}
  /\ reading = "line"
  /\ \A c \in Asked : c.op # "RETR"
  /\ at \in {"await", "retrieve"} => sent = <<>> /\ queue = <<>> /\ (ioerror \/ err[uid])

\* No command is there twice while messages are retrieved, and what is asked for
\* has no success yet.
Distinct(s) == \A i, j \in 1 .. Len(s) : s[i] = s[j] => i = j
Retrieving ==
  at \in Getting =>
    /\ \A c \in Asked : c.op = "RETR" /\ err[c.uid]
    /\ Distinct(sent) /\ Distinct(queue) /\ ToSet(sent) \cap ToSet(queue) = {}

\* A message whose retrieval is under way has a command, as long as its file may
\* be made anew.
Known(u) ==
  \/ cmd[u] = "RETR"
  \/ at = "retrieve" /\ u = uid
  \/ at = "sync" /\ u \notin todo
  \/ at = "save" /\ failed
  \/ at \in {"dispose", "quit"}
CommandsKnown == \A u \in Uids : Retr(u) \in Asked => Known(u)

FileReady == at = "file" => cache[uid].mark = "#"

CacheInv == (Aligned \/ Spoiled) /\ Retrieving /\ CommandsKnown /\ CachedIsOwn /\ FileReady

-----------------------------------------------------------------------------
(* Filing.                                                                 *)

\* The commands that the server may still get.
Coming == ToSet(queue) \cup ToSet(toServer)

QuitLast == at # "quit" => Quit \notin Coming

\* What the program knows of has arrived.
Arrivals ==
  /\ drop \subseteq 1 .. arrived /\ view \subseteq 1 .. arrived
  /\ saved \subseteq 1 .. arrived /\ keep \subseteq 1 .. arrived
  /\ todo \subseteq view

\* The messages that are done are not done again.
Filing == at \in Getting => todo \cap keep = {} /\ view \subseteq drop

\* The uid is in the UID cache, or will be, or the message has gone.
Remembered(u) ==
  \/ u <= arrived /\ u \notin drop
  \/ at \in Getting \cup {"save"} /\ u \in keep
  \/ at \notin Getting \cup {"save"} /\ u \in saved

Excused == \A u \in Uids : inbox[u] <= crashes \/ (Remembered(u) /\ inbox[u] <= 1 + crashes)

OnceInv == QuitLast /\ Arrivals /\ Filing /\ Excused

Filed(u) == inbox[u] > 0

\* What is remembered, deleted or about to be deleted is in the local inbox.
KeptFiled    == \A u \in saved \cup keep \cup marked : Filed(u)
DeletesFiled == \A u \in Uids : Dele(u) \in Coming => Filed(u)

\* Every message of the folder is filed before one is deleted.
FiledFirst ==
  /\ at \in Getting => view \subseteq keep \cup todo
  /\ at = "save" /\ ~failed => view \subseteq keep
  /\ at = "sync" => todo \subseteq view /\ \A u \in view : Filed(u)

LostInv == NoMailLost /\ KeptFiled /\ DeletesFiled /\ FiledFirst

-----------------------------------------------------------------------------
(* Numbers, sets and sequences.                                            *)

\* A set of numbers has a smallest one.
LEMMA MinIs ==
  ASSUME NEW S \in SUBSET Nat, S # {}
  PROVE  Min(S) \in S /\ \A x \in S : Min(S) <= x
<1> DEFINE R == {ss \in Nat \X Nat : ss[1] < ss[2]}
<1>1. IsWellFoundedOn(R, Nat)
  BY NatLessThanWellFounded, Zenon DEF OpToRel
<1>2. PICK x \in S : \A y \in S : <<y, x>> \notin R
  BY <1>1, WFMin
<1>3. ASSUME NEW y \in S  PROVE x <= y
  <2>1. <<y, x>> \in Nat \X Nat /\ <<y, x>> \notin R /\ x \in Nat /\ y \in Nat
    BY <1>2
  <2>2. ~(y < x)
    BY <2>1
  <2>3. QED  BY <2>1, <2>2
<1>4. QED  BY <1>3 DEF Min

SortedSeq(S, s) == /\ s \in [1 .. Cardinality(S) -> S]
                   /\ \A i, j \in 1 .. Cardinality(S) : i < j => s[i] < s[j]

LEMMA UidsFinite ==
  \A S \in SUBSET Uids : IsFiniteSet(S) /\ Cardinality(S) \in Nat
<1>1. IsFiniteSet(Uids)
  BY FS_Interval, PopAssumption DEF Uids
<1>2. QED  BY <1>1, FS_Subset, FS_CardinalityType

\* A set of messages can be sorted: the first one goes before the others.
LEMMA SortedExists == \A S \in SUBSET Uids : \E s : SortedSeq(S, s)
<1> DEFINE Sizes == {n \in Nat : \E S \in SUBSET Uids : Cardinality(S) = n /\ ~ \E s : SortedSeq(S, s)}
<1>1. SUFFICES Sizes = {}
  BY UidsFinite
<1>2. SUFFICES ASSUME Sizes # {}  PROVE FALSE
  OBVIOUS
<1>3. PICK n \in Sizes : \A m \in Sizes : n <= m
  BY <1>2, MinIs
<1>4. PICK S \in SUBSET Uids : Cardinality(S) = n /\ ~ \E s : SortedSeq(S, s)
  BY <1>3
<1>5. CASE S = {}
  <2>1. Cardinality(S) = 0
    BY <1>5, FS_EmptySet
  <2>2. SortedSeq(S, [i \in 1 .. 0 |-> 0])
    BY <2>1 DEF SortedSeq
  <2>3. QED  BY <1>4, <2>2
<1>6. CASE S # {}
  <2>1. S \in SUBSET Nat
    BY DEF Uids
  <2> DEFINE u == Min(S)
             T == S \ {u}
  <2>2. u \in S /\ \A x \in S : u <= x
    BY <1>6, <2>1, MinIs
  <2> HIDE DEF u
  <2>3. Cardinality(T) = n - 1 /\ Cardinality(T) \in Nat /\ n \in Nat
    BY <1>4, <2>2, UidsFinite, FS_RemoveElement
  <2>4. n - 1 \notin Sizes
    BY <1>3, <2>3
  <2>5. PICK t : SortedSeq(T, t)
    BY <2>3, <2>4
  <2> DEFINE s == [i \in 1 .. n |-> IF i = 1 THEN u ELSE t[i - 1]]
  <2>6. \A i \in 2 .. n : i - 1 \in 1 .. Cardinality(T) /\ t[i - 1] \in S /\ u < t[i - 1]
    <3>1. \A i \in 2 .. n : i - 1 \in 1 .. Cardinality(T)
      BY <2>3
    <3>2. \A i \in 2 .. n : t[i - 1] \in T
      BY <2>5, <3>1 DEF SortedSeq
    <3>3. ASSUME NEW i \in 2 .. n  PROVE t[i - 1] \in S /\ u < t[i - 1]
      <4>1. t[i - 1] \in S /\ t[i - 1] # u
        BY <3>2
      <4>2. u <= t[i - 1] /\ u \in Nat /\ t[i - 1] \in Nat
        BY <2>1, <2>2, <4>1
      <4>3. QED  BY <4>1, <4>2
    <3>4. QED  BY <3>1, <3>3
  <2>7. s \in [1 .. n -> S]
    BY <2>2, <2>3, <2>6
  <2>8. ASSUME NEW i \in 1 .. n, NEW j \in 1 .. n, i < j  PROVE s[i] < s[j]
    <3>1. j \in 2 .. n /\ s[j] = t[j - 1]
      BY <2>3, <2>8
    <3>2. CASE i = 1
      BY <2>6, <3>1, <3>2
    <3>3. CASE i # 1
      <4>1. i \in 2 .. n /\ s[i] = t[i - 1] /\ i - 1 < j - 1
        BY <2>3, <2>8, <3>3
      <4>2. QED  BY <2>5, <2>6, <3>1, <4>1 DEF SortedSeq
    <3>4. QED  BY <3>2, <3>3
  <2>9. SortedSeq(S, s)
    BY <1>4, <2>7, <2>8 DEF SortedSeq
  <2>10. QED  BY <1>4, <2>9
<1>7. QED  BY <1>5, <1>6

LEMMA SortedIs ==
  ASSUME NEW S \in SUBSET Uids
  PROVE  /\ Sorted(S) \in [1 .. Cardinality(S) -> S] /\ Cardinality(S) \in Nat
         /\ \A i, j \in 1 .. Cardinality(S) : Sorted(S)[i] = Sorted(S)[j] => i = j
<1>1. PICK s : SortedSeq(S, s)
  BY SortedExists
<1>2. s \in [1 .. Cardinality(S) -> S] /\ \A i, j \in DOMAIN s : i < j => s[i] < s[j]
  BY <1>1 DEF SortedSeq
<1>3. Sorted(S) \in [1 .. Cardinality(S) -> S] /\ \A i, j \in DOMAIN Sorted(S) : i < j => Sorted(S)[i] < Sorted(S)[j]
  BY <1>2 DEF Sorted
<1>4. Cardinality(S) \in Nat /\ S \subseteq Nat
  BY UidsFinite, PopAssumption DEF Uids
<1>5. ASSUME NEW i \in 1 .. Cardinality(S), NEW j \in 1 .. Cardinality(S), Sorted(S)[i] = Sorted(S)[j]  PROVE i = j
  <2>1. DOMAIN Sorted(S) = 1 .. Cardinality(S) /\ Sorted(S)[i] \in Nat
    BY <1>3, <1>4
  <2>2. ~(i < j) /\ ~(j < i)
    BY <1>3, <1>5, <2>1
  <2>3. QED  BY <1>4, <2>2
<1>6. QED  BY <1>3, <1>4, <1>5

\* A sequence goes on with the first elements of another.
LEMMA Extended ==
  ASSUME NEW S, NEW s \in Seq(S), NEW cs \in Seq(S), NEW n \in 0 .. Len(cs)
  PROVE  /\ s \o SubSeq(cs, 1, n) \in Seq(S) /\ Len(s \o SubSeq(cs, 1, n)) = Len(s) + n
         /\ Len(s) \in Nat
         /\ \A i \in 1 .. Len(s) : (s \o SubSeq(cs, 1, n))[i] = s[i]
         /\ \A i \in 1 .. n : (s \o SubSeq(cs, 1, n))[Len(s) + i] = cs[i]
<1>1. Len(s) \in Nat /\ Len(cs) \in Nat /\ n \in Nat
  OBVIOUS
<1>2. SubSeq(cs, 1, n) \in Seq(S) /\ Len(SubSeq(cs, 1, n)) = n /\ \A i \in 1 .. n : SubSeq(cs, 1, n)[i] = cs[i]
  BY <1>1
<1> DEFINE t == SubSeq(cs, 1, n)
<1>3. s \o t \in Seq(S) /\ Len(s \o t) = Len(s) + Len(t)
  BY <1>2
<1>4. \A i \in 1 .. Len(s) + Len(t) : (s \o t)[i] = IF i <= Len(s) THEN s[i] ELSE t[i - Len(s)]
  BY <1>2
<1>5. \A i \in 1 .. n : (s \o t)[Len(s) + i] = t[i]
  <2>1. SUFFICES ASSUME NEW i \in 1 .. n  PROVE (s \o t)[Len(s) + i] = t[i]
    OBVIOUS
  <2>2. Len(s) + i \in 1 .. Len(s) + Len(t) /\ ~(Len(s) + i <= Len(s)) /\ Len(s) + i - Len(s) = i
    BY <1>1, <1>2
  <2>3. QED  BY <1>4, <2>2
<1>6. QED  BY <1>1, <1>2, <1>3, <1>4, <1>5

LEMMA Dropped ==
  ASSUME NEW S, NEW cs \in Seq(S), NEW n \in 0 .. Len(cs)
  PROVE  /\ SubSeq(cs, n + 1, Len(cs)) \in Seq(S) /\ Len(SubSeq(cs, n + 1, Len(cs))) = Len(cs) - n
         /\ Len(cs) \in Nat
         /\ \A i \in 1 .. Len(cs) - n : SubSeq(cs, n + 1, Len(cs))[i] = cs[n + i]
OBVIOUS

\* The first element of a sequence goes.
LEMMA Tailed ==
  ASSUME NEW S, NEW s \in Seq(S), s # <<>>
  PROVE  /\ Tail(s) \in Seq(S) /\ Len(Tail(s)) = Len(s) - 1 /\ Len(s) \in Nat \ {0}
         /\ \A i \in 1 .. Len(s) - 1 : Tail(s)[i] = s[i + 1]
         /\ Head(s) = s[1] /\ s[1] \in S /\ (Tail(s) = <<>> <=> Len(s) = 1)
<1>1. Len(s) \in Nat /\ Len(s) # 0
  OBVIOUS
<1>2. Tail(s) \in Seq(S) /\ Len(Tail(s)) = Len(s) - 1
  OBVIOUS
<1>3. \A i \in 1 .. Len(s) - 1 : Tail(s)[i] = s[i + 1]
  OBVIOUS
<1>4. Head(s) = s[1] /\ s[1] \in S
  BY <1>1
<1>5. \A t \in Seq(S) : t = <<>> <=> Len(t) = 0
  BY EmptySeq
<1>6. Tail(s) = <<>> <=> Len(s) = 1
  <2>1. Tail(s) = <<>> <=> Len(Tail(s)) = 0
    BY <1>2, <1>5, Zenon
  <2>2. Len(Tail(s)) = 0 <=> Len(s) = 1
    BY <1>1, <1>2
  <2>3. QED  BY <2>1, <2>2, Zenon
<1>7. QED  BY <1>1, <1>2, <1>3, <1>4, <1>6

\* Sequences are joined.
LEMMA Joined ==
  ASSUME NEW S, NEW a \in Seq(S), NEW b \in Seq(S)
  PROVE  /\ a \o b \in Seq(S) /\ Len(a \o b) = Len(a) + Len(b) /\ Len(a) \in Nat /\ Len(b) \in Nat
         /\ \A i \in 1 .. Len(a) + Len(b) : (a \o b)[i] = IF i <= Len(a) THEN a[i] ELSE b[i - Len(a)]
OBVIOUS

Without(s, k) == SubSeq(s, 1, k - 1) \o SubSeq(s, k + 1, Len(s))

LEMMA WithoutOne ==
  ASSUME NEW S, NEW s \in Seq(S), NEW k \in 1 .. Len(s)
  PROVE  /\ Without(s, k) \in Seq(S) /\ Len(Without(s, k)) = Len(s) - 1 /\ Len(s) \in Nat
         /\ \A i \in 1 .. Len(s) - 1 : Without(s, k)[i] = IF i < k THEN s[i] ELSE s[i + 1]
<1> DEFINE a == SubSeq(s, 1, k - 1)
           b == SubSeq(s, k + 1, Len(s))
<1>1. Len(s) \in Nat /\ k \in Nat /\ 1 <= k /\ k <= Len(s)
  OBVIOUS
<1>2. a \in Seq(S) /\ Len(a) = k - 1 /\ \A i \in 1 .. k - 1 : a[i] = s[i]
  BY <1>1
<1>3. b \in Seq(S) /\ Len(b) = Len(s) - k /\ \A i \in 1 .. Len(s) - k : b[i] = s[k + i]
  BY <1>1
<1>4. Without(s, k) = a \o b
  BY DEF Without
<1> HIDE DEF a, b
<1>5. a \o b \in Seq(S) /\ Len(a \o b) = Len(a) + Len(b)
  BY <1>2, <1>3, Joined
<1>6. \A i \in 1 .. Len(a) + Len(b) : (a \o b)[i] = IF i <= Len(a) THEN a[i] ELSE b[i - Len(a)]
  BY <1>2, <1>3, Joined
<1>7. ASSUME NEW i \in 1 .. Len(s) - 1  PROVE (a \o b)[i] = IF i < k THEN s[i] ELSE s[i + 1]
  <2>1. i \in 1 .. Len(a) + Len(b) /\ i \in Nat /\ 1 <= i /\ i <= Len(s) - 1
    BY <1>1, <1>2, <1>3
  <2>2. CASE i < k
    <3>1. i <= Len(a) /\ i \in 1 .. k - 1
      BY <1>1, <1>2, <2>1, <2>2
    <3>2. QED  BY <1>2, <1>6, <2>1, <2>2, <3>1
  <2>3. CASE ~(i < k)
    <3>1. ~(i <= Len(a)) /\ i - Len(a) \in 1 .. Len(s) - k /\ k + (i - Len(a)) = i + 1
      BY <1>1, <1>2, <2>1, <2>3
    <3>2. QED  BY <1>3, <1>6, <2>1, <2>3, <3>1
  <2>4. QED  BY <2>2, <2>3
<1>8. QED  BY <1>1, <1>2, <1>3, <1>4, <1>5, <1>7

\* A command is taken out of the queue.
LEMMA RemovedFirst ==
  ASSUME NEW S, NEW s \in Seq(S), NEW e, NEW r, r = RemoveFirst(s, e)
  PROVE  /\ r \in Seq(S)
         /\ ToSet(r) \subseteq ToSet(s)
         /\ Distinct(s) => Distinct(r) /\ e \notin ToSet(r)
         /\ s = <<>> => r = <<>>
<1>1. CASE ~ \E i \in 1 .. Len(s) : s[i] = e
  <2>1. r = s
    BY <1>1 DEF RemoveFirst
  <2>2. QED  BY <1>1, <2>1 DEF ToSet
<1>2. CASE \E i \in 1 .. Len(s) : s[i] = e
  <2> DEFINE I == {i \in 1 .. Len(s) : s[i] = e}
             k == SelectInSeq(s, LAMBDA x : x = e)
  <2>1. I \in SUBSET Nat /\ I # {}
    BY <1>2
  <2>2. r = Without(s, k) /\ k = Min(I)
    BY <1>2, <2>1 DEF RemoveFirst, RemoveAt, SelectInSeq, Without
  <2> HIDE DEF I
  <2>3. k \in I
    BY <2>1, <2>2, MinIs
  <2> HIDE DEF k
  <2>4. k \in 1 .. Len(s) /\ s[k] = e
    BY <2>3 DEF I
  <2>5. /\ r \in Seq(S) /\ Len(r) = Len(s) - 1 /\ Len(s) \in Nat
        /\ \A i \in 1 .. Len(s) - 1 : r[i] = IF i < k THEN s[i] ELSE s[i + 1]
    BY <2>2, <2>4, WithoutOne
  <2> DEFINE Of(i) == IF i < k THEN i ELSE i + 1
  <2>6. \A i \in 1 .. Len(r) : Of(i) \in 1 .. Len(s) /\ r[i] = s[Of(i)] /\ Of(i) # k
    BY <2>4, <2>5
  <2>7. \A i, j \in 1 .. Len(r) : Of(i) = Of(j) => i = j
    BY <2>4, <2>5
  <2> HIDE DEF Of
  <2>8. ASSUME Distinct(s)  PROVE Distinct(r) /\ \A i \in 1 .. Len(r) : r[i] # e
    <3>1. \A i, j \in 1 .. Len(s) : s[i] = s[j] => i = j
      BY <2>8, Zenon DEF Distinct
    <3>2. ASSUME NEW i \in 1 .. Len(r), NEW j \in 1 .. Len(r), r[i] = r[j]  PROVE i = j
      <4>1. s[Of(i)] = s[Of(j)] /\ Of(i) \in 1 .. Len(s) /\ Of(j) \in 1 .. Len(s)
        BY <2>6, <3>2
      <4>2. Of(i) = Of(j)
        BY <3>1, <4>1
      <4>3. QED  BY <2>7, <4>2
    <3>3. ASSUME NEW i \in 1 .. Len(r), r[i] = e  PROVE FALSE
      <4>1. s[Of(i)] = s[k] /\ Of(i) \in 1 .. Len(s) /\ Of(i) # k
        BY <2>4, <2>6, <3>3
      <4>2. QED  BY <2>4, <3>1, <4>1
    <3>4. QED  BY <3>2, <3>3 DEF Distinct
  <2>9. s # <<>>
    BY <2>4
  <2>10. ToSet(r) \subseteq ToSet(s) /\ ((\A i \in 1 .. Len(r) : r[i] # e) => e \notin ToSet(r))
    BY <2>5, <2>6 DEF ToSet
  <2>11. QED  BY <2>5, <2>8, <2>9, <2>10
<1>3. QED  BY <1>1, <1>2

-----------------------------------------------------------------------------
(* What the functions of the engine do.                                    *)

\* n of the commands in cs follow those in s.
Sends(s, cs, n) ==
  /\ n \in 0 .. Len(cs)
  /\ sent' = s \o SubSeq(cs, 1, n)
  /\ toServer' = IF up THEN toServer \o SubSeq(cs, 1, n) ELSE toServer
  /\ n > 0 => ~cancelled

\* That many fit when len is the length of what is outstanding.
Fits(s, len, n) == n > 0 => (pipe /\ len + n <= Limit) \/ (s = <<>> /\ n = 1)

LEMMA WindowFits ==
  ASSUME NEW S, NEW s \in Seq(S), NEW len \in Nat, NEW cs \in Seq(S), pipe \in BOOLEAN
  PROVE  /\ Fitting(s, len, cs) \in 0 .. Len(cs)
         /\ Fits(s, len, Fitting(s, len, cs))
         /\ s = <<>> /\ cs # <<>> => Fitting(s, len, cs) > 0
<1>1. Len(cs) \in Nat /\ (cs # <<>> => Len(cs) > 0)
  BY EmptySeq
<1>2. Limit \in Nat \ {0}
  BY PopAssumption
<1>3. CASE pipe /\ len < Limit
  <2>1. Window(s, len) = Limit - len /\ Window(s, len) \in Nat \ {0}
    BY <1>2, <1>3 DEF Window
  <2>2. CASE Limit - len < Len(cs)
    <3>1. Fitting(s, len, cs) = Limit - len
      BY <2>1, <2>2 DEF Fitting
    <3>2. QED  BY <1>1, <1>2, <1>3, <2>1, <2>2, <3>1 DEF Fits
  <2>3. CASE ~(Limit - len < Len(cs))
    <3>1. Fitting(s, len, cs) = Len(cs)
      BY <2>1, <2>3 DEF Fitting
    <3>2. QED  BY <1>1, <1>2, <1>3, <2>1, <2>3, <3>1 DEF Fits
  <2>4. QED  BY <2>2, <2>3
<1>4. CASE ~(pipe /\ len < Limit) /\ s = <<>>
  <2>1. Window(s, len) = 1
    BY <1>4 DEF Window
  <2>2. CASE cs = <<>>
    <3>1. Fitting(s, len, cs) = 0 /\ Len(cs) = 0
      BY <2>1, <2>2 DEF Fitting
    <3>2. QED  BY <2>2, <3>1 DEF Fits
  <2>3. CASE cs # <<>>
    <3>1. Len(cs) \in Nat /\ Len(cs) > 0
      BY <1>1, <2>3
    <3>2. Fitting(s, len, cs) = IF 1 < Len(cs) THEN 1 ELSE Len(cs)
      BY <2>1 DEF Fitting
    <3>3. Fitting(s, len, cs) = 1
      <4>1. \A m \in Nat : m > 0 => 1 < m \/ m = 1
        OBVIOUS
      <4>2. 1 < Len(cs) \/ Len(cs) = 1
        BY <3>1, <4>1, Zenon
      <4>3. QED  BY <3>2, <4>2
    <3>4. QED  BY <1>4, <3>1, <3>3 DEF Fits
  <2>4. QED  BY <2>2, <2>3
<1>5. CASE ~(pipe /\ len < Limit) /\ s # <<>>
  <2>1. Window(s, len) = 0
    BY <1>5 DEF Window
  <2>2. QED  BY <1>1, <1>5, <2>1 DEF Fitting, Fits
<1>6. QED  BY <1>3, <1>4, <1>5

\* n of the commands are sent at once, the others are queued.
IssueSends(cs, n) ==
  /\ Sends(sent, cs, n) /\ Fits(sent, sentlen, n)
  /\ queue' = queue \o SubSeq(cs, n + 1, Len(cs)) /\ sentlen' = sentlen + n

LEMMA IssueDoes ==
  ASSUME TypeOK, NEW cs \in Seq(Commands), Issue(cs)
  PROVE  \E n \in 0 .. Len(cs) : IssueSends(cs, n)
<1>1. PICK ok \in WriteOutcomes :
        LET n == IF ok THEN Fitting(sent, sentlen, cs) ELSE 0 IN
        /\ sent' = sent \o SubSeq(cs, 1, n)
        /\ queue' = queue \o SubSeq(cs, n + 1, Len(cs))
        /\ sentlen' = sentlen + n
        /\ toServer' = IF up THEN toServer \o SubSeq(cs, 1, n) ELSE toServer
  BY DEF Issue
<1> DEFINE n == IF ok THEN Fitting(sent, sentlen, cs) ELSE 0
<1>2. sent \in Seq(Commands) /\ sentlen \in Nat /\ pipe \in BOOLEAN
  BY DEF TypeOK, StreamTypes, EngineTypes
<1>3. Len(cs) \in Nat
  OBVIOUS
<1>4. n \in 0 .. Len(cs) /\ Fits(sent, sentlen, n) /\ (n > 0 => ~cancelled)
  <2>1. CASE ok
    <3>1. ~cancelled
      BY <2>1 DEF WriteOutcomes
    <3>2. QED  BY <1>2, <2>1, <3>1, WindowFits
  <2>2. CASE ~ok
    <3>1. n = 0
      BY <2>2
    <3>2. QED  BY <1>3, <3>1 DEF Fits
  <2>3. QED  BY <2>1, <2>2
<1>5. /\ sent' = sent \o SubSeq(cs, 1, n)
      /\ queue' = queue \o SubSeq(cs, n + 1, Len(cs))
      /\ sentlen' = sentlen + n
      /\ toServer' = IF up THEN toServer \o SubSeq(cs, 1, n) ELSE toServer
  BY <1>1
<1> HIDE DEF n
<1>6. IssueSends(cs, n)
  BY <1>4, <1>5 DEF Sends, IssueSends
<1>7. QED  BY <1>4, <1>6

\* The next command becomes current, and n of those that wait are sent.
NextSends(n) ==
  /\ Sends(Tail(sent), queue, n) /\ Fits(Tail(sent), sentlen - 1, n)
  /\ queue' = SubSeq(queue, n + 1, Len(queue)) /\ sentlen' = sentlen - 1 + n
  /\ reading' = "line" /\ ioerror' = ioerror
  /\ Tail(sent) = <<>> /\ queue # <<>> => n > 0

LEMMA NextDoes ==
  ASSUME TypeOK, Counted, sent # <<>>, NextCurrent
  PROVE  \/ \E n \in 0 .. Len(queue) : NextSends(n)
         \/ FailAll /\ sentlen' = sentlen - 1 /\ toServer' = toServer
<1> DEFINE rest == Tail(sent)
           n == Fitting(rest, sentlen - 1, queue)
<1>1. sent \in Seq(Commands) /\ queue \in Seq(Commands) /\ sentlen \in Nat /\ pipe \in BOOLEAN
  BY DEF TypeOK, StreamTypes, EngineTypes
<1>2. rest \in Seq(Commands) /\ Len(sent) \in Nat \ {0}
  BY <1>1, Tailed
<1>3. sentlen - 1 \in Nat
  BY <1>1, <1>2 DEF Counted
<1>4. n \in 0 .. Len(queue) /\ Fits(rest, sentlen - 1, n) /\ (rest = <<>> /\ queue # <<>> => n > 0)
  BY <1>1, <1>2, <1>3, WindowFits
<1>5. PICK ok \in IF n = 0 THEN {TRUE} ELSE WriteOutcomes :
         IF ok
         THEN /\ sent' = rest \o SubSeq(queue, 1, n)
              /\ queue' = SubSeq(queue, n + 1, Len(queue))
              /\ sentlen' = sentlen - 1 + n
              /\ toServer' = IF up THEN toServer \o SubSeq(queue, 1, n) ELSE toServer
              /\ reading' = "line"
              /\ UNCHANGED ioerror
         ELSE /\ FailAll
              /\ sentlen' = sentlen - 1
              /\ UNCHANGED toServer
  BY DEF NextCurrent
<1> HIDE DEF n
<1>6. CASE ok
  <2>1. n > 0 => ~cancelled
    <3>1. CASE cancelled /\ n > 0
      <4>1. n # 0 /\ WriteOutcomes = {FALSE}
        BY <1>4, <3>1 DEF WriteOutcomes
      <4>2. ok \in {FALSE}
        BY <4>1
      <4>3. QED  BY <1>6, <4>2
    <3>2. QED  BY <3>1
  <2>2. NextSends(n)
    BY <1>4, <1>5, <1>6, <2>1 DEF Sends, NextSends
  <2>3. QED  BY <1>4, <2>2
<1>7. CASE ~ok
  BY <1>5, <1>7
<1>8. QED  BY <1>6, <1>7

\* The types and the window.
EngineTyped ==
  /\ toServer \in Seq(Commands) /\ sent \in Seq(Commands) /\ queue \in Seq(Commands)
  /\ sentlen \in Nat /\ Counted /\ SendWindow

\* What is sent goes behind what is there.
LEMMA SendsTyped ==
  ASSUME NEW s \in Seq(Commands), NEW cs \in Seq(Commands), NEW n, Sends(s, cs, n),
         toServer \in Seq(Commands)
  PROVE  /\ sent' \in Seq(Commands) /\ Len(sent') = Len(s) + n /\ Len(s) \in Nat /\ n \in Nat
         /\ \A i \in 1 .. Len(s) : sent'[i] = s[i]
         /\ \A i \in 1 .. n : sent'[Len(s) + i] = cs[i]
         /\ toServer' \in Seq(Commands)
<1>1. n \in 0 .. Len(cs) /\ Len(cs) \in Nat /\ n \in Nat
  BY DEF Sends
<1> DEFINE t == s \o SubSeq(cs, 1, n)
<1>2. sent' = t /\ (toServer' = toServer \o SubSeq(cs, 1, n) \/ toServer' = toServer)
  BY DEF Sends
<1>3. /\ t \in Seq(Commands) /\ Len(t) = Len(s) + n /\ Len(s) \in Nat
      /\ \A i \in 1 .. Len(s) : t[i] = s[i]
      /\ \A i \in 1 .. n : t[Len(s) + i] = cs[i]
  BY <1>1, Extended
<1>4. toServer \o SubSeq(cs, 1, n) \in Seq(Commands)
  BY <1>1, Extended
<1> HIDE DEF t
<1>5. toServer' \in Seq(Commands)
  BY <1>2, <1>4
<1>6. QED  BY <1>1, <1>2, <1>3, <1>5

LEMMA WindowKeeps ==
  ASSUME NEW s \in Seq(Commands), NEW cs \in Seq(Commands), NEW n, Sends(s, cs, n),
         NEW len \in Nat, Fits(s, len, n), sentlen' = len + n, pipe' = pipe, pipe \in BOOLEAN,
         toServer \in Seq(Commands), Len(s) <= len, Len(s) <= IF pipe THEN Limit ELSE 1
  PROVE  sentlen' \in Nat /\ Counted' /\ SendWindow'
<1>1. /\ sent' \in Seq(Commands) /\ Len(sent') = Len(s) + n /\ Len(s) \in Nat /\ n \in Nat
      /\ Limit \in Nat \ {0} /\ (s = <<>> => Len(s) = 0)
  BY SendsTyped, PopAssumption
<1>2. sentlen' \in Nat /\ Len(sent') <= sentlen'
  BY <1>1
<1>3. CASE n = 0
  BY <1>1, <1>2, <1>3 DEF Counted, SendWindow
<1>4. CASE n > 0
  <2>1. CASE pipe /\ len + n <= Limit
    BY <1>1, <1>2, <2>1 DEF Counted, SendWindow
  <2>2. CASE s = <<>> /\ n = 1
    BY <1>1, <1>2, <2>2 DEF Counted, SendWindow
  <2>3. QED  BY <1>4, <2>1, <2>2 DEF Fits
<1>5. QED  BY <1>1, <1>3, <1>4

LEMMA IssueTyped ==
  ASSUME TypeOK, Counted, SendWindow, NEW cs \in Seq(Commands), Issue(cs), pipe' = pipe
  PROVE  EngineTyped' /\ (sent' = <<>> => sent = <<>>) /\ (sent # <<>> => sent'[1] = sent[1])
<1>1. PICK n \in 0 .. Len(cs) : IssueSends(cs, n)
  BY IssueDoes
<1>2. /\ sent \in Seq(Commands) /\ queue \in Seq(Commands) /\ toServer \in Seq(Commands)
      /\ sentlen \in Nat /\ pipe \in BOOLEAN
  BY DEF TypeOK, StreamTypes, EngineTypes
<1>3. /\ Sends(sent, cs, n) /\ Fits(sent, sentlen, n) /\ sentlen' = sentlen + n
      /\ queue' = queue \o SubSeq(cs, n + 1, Len(cs))
  BY <1>1 DEF IssueSends
<1>4. /\ sent' \in Seq(Commands) /\ Len(sent') = Len(sent) + n /\ Len(sent) \in Nat /\ n \in Nat
      /\ \A i \in 1 .. Len(sent) : sent'[i] = sent[i]
      /\ toServer' \in Seq(Commands)
  BY <1>2, <1>3, SendsTyped
<1>5. queue' \in Seq(Commands)
  BY <1>2, <1>3, Dropped, Joined
<1>6. sentlen' \in Nat /\ Counted' /\ SendWindow'
  BY <1>2, <1>3, WindowKeeps DEF Counted, SendWindow
<1>7. sent' = <<>> => sent = <<>>
  BY <1>2, <1>4, EmptySeq
<1>8. sent # <<>> => sent'[1] = sent[1]
  BY <1>2, <1>4, EmptySeq
<1>9. QED  BY <1>4, <1>5, <1>6, <1>7, <1>8 DEF EngineTyped

LEMMA NextTyped ==
  ASSUME TypeOK, Counted, SendWindow, sent # <<>>, NextCurrent, pipe' = pipe
  PROVE  EngineTyped' /\ reading' = "line" /\ (ioerror' /\ ~ioerror => sent' = <<>> /\ queue' = <<>>)
         /\ ioerror' \in BOOLEAN
<1>1. /\ sent \in Seq(Commands) /\ queue \in Seq(Commands) /\ toServer \in Seq(Commands)
      /\ sentlen \in Nat /\ pipe \in BOOLEAN /\ ioerror \in BOOLEAN
  BY DEF TypeOK, StreamTypes, EngineTypes
<1>2. Tail(sent) \in Seq(Commands) /\ Len(Tail(sent)) = Len(sent) - 1 /\ Len(sent) \in Nat \ {0}
  BY <1>1, Tailed
<1>3. sentlen - 1 \in Nat /\ Len(Tail(sent)) <= sentlen - 1
  BY <1>1, <1>2 DEF Counted
<1>4. CASE FailAll /\ sentlen' = sentlen - 1 /\ toServer' = toServer
  <2>1. sent' = <<>> /\ queue' = <<>> /\ ioerror' = TRUE /\ reading' = "line"
    BY <1>4 DEF FailAll
  <2>2. sent' \in Seq(Commands) /\ queue' \in Seq(Commands) /\ Len(sent') = 0
    BY <2>1
  <2>3. Counted' /\ SendWindow'
    BY <1>1, <1>3, <1>4, <2>2, PopAssumption DEF Counted, SendWindow
  <2>4. QED  BY <1>1, <1>3, <1>4, <2>1, <2>2, <2>3 DEF EngineTyped
<1>5. CASE \E n \in 0 .. Len(queue) : NextSends(n)
  <2>1. PICK n \in 0 .. Len(queue) : NextSends(n)
    BY <1>5
  <2>2. /\ Sends(Tail(sent), queue, n) /\ Fits(Tail(sent), sentlen - 1, n)
        /\ queue' = SubSeq(queue, n + 1, Len(queue)) /\ sentlen' = sentlen - 1 + n
        /\ reading' = "line" /\ ioerror' = ioerror
    BY <2>1 DEF NextSends
  <2>3. sent' \in Seq(Commands) /\ toServer' \in Seq(Commands)
    BY <1>1, <1>2, <2>2, SendsTyped
  <2>4. queue' \in Seq(Commands)
    BY <1>1, <2>2, Dropped
  <2>5. Len(Tail(sent)) <= IF pipe THEN Limit ELSE 1
    BY <1>1, <1>2, PopAssumption DEF SendWindow
  <2>6. sentlen' \in Nat /\ Counted' /\ SendWindow'
    BY <1>1, <1>2, <1>3, <2>2, <2>5, WindowKeeps
  <2>7. QED  BY <1>1, <2>2, <2>3, <2>4, <2>6 DEF EngineTyped
<1>6. QED  BY <1>4, <1>5, NextDoes

\* The smallest message of a set.
LEMMA UidIs ==
  ASSUME TypeOK, todo # {}
  PROVE  uid \in todo /\ uid \in Uids /\ \A u \in todo : uid <= u
<1>1. todo \subseteq Uids
  BY DEF TypeOK, JobTypes
<1>2. todo \in SUBSET Nat /\ todo \subseteq Uids
  BY <1>1 DEF Uids
<1>3. QED  BY <1>2, MinIs DEF uid

\* The commands that retrieve a set of messages.
Retrievals(S) == [i \in DOMAIN Sorted(S) |-> Retr(Sorted(S)[i])]

LEMMA RetrievalsAre ==
  ASSUME NEW S \in SUBSET Uids
  PROVE  /\ Retrievals(S) \in Seq(Commands)
         /\ \A c \in ToSet(Retrievals(S)) : \E u \in S : c = Retr(u)
         /\ Distinct(Retrievals(S))
<1> DEFINE s == Sorted(S)
           n == Cardinality(S)
<1>1. s \in [1 .. n -> S] /\ n \in Nat /\ \A i, j \in 1 .. n : s[i] = s[j] => i = j
  BY SortedIs
<1> HIDE DEF s, n
<1> DEFINE cs == [i \in 1 .. n |-> Retr(s[i])]
<1>2. \A u \in S : Retr(u) \in Commands
  BY DEF Retr, Commands
<1>3. cs \in Seq(Commands) /\ Len(cs) = n
  BY <1>1, <1>2
<1>4. \A i \in 1 .. n : s[i] \in S /\ cs[i] = Retr(s[i])
  BY <1>1
<1>5. Retrievals(S) = cs
  BY <1>1 DEF Retrievals, s
<1> HIDE DEF cs
<1>6. \A i, j \in 1 .. n : cs[i] = cs[j] => s[i] = s[j]
  <2>1. \A u, v \in S : Retr(u) = Retr(v) => u = v
    BY DEF Retr
  <2>2. QED  BY <1>4, <2>1
<1>7. Distinct(cs)
  BY <1>1, <1>3, <1>6 DEF Distinct
<1>8. \A i \in 1 .. Len(cs) : \E u \in S : cs[i] = Retr(u)
  BY <1>3, <1>4
<1>9. \A c \in ToSet(cs) : \E u \in S : c = Retr(u)
  BY <1>3, <1>8 DEF ToSet
<1>10. QED  BY <1>3, <1>5, <1>7, <1>9

\* What reading a line does to the types, the window and the errors.
LEMMA ReadKeeps ==
  ASSUME TypeOK, Counted, SendWindow, ReadsData, ~ioerror, Read
  PROVE  /\ StreamTypes' /\ EngineTypes' /\ Counted' /\ SendWindow' /\ ReadsData'
         /\ cancelled' = cancelled
         /\ ioerror' => sent' = <<>> /\ queue' = <<>>
<1> DEFINE c == Head(sent)
<1>1. /\ sent \in Seq(Commands) /\ wire \in Seq(Lines) /\ queue \in Seq(Commands) /\ sent # <<>>
      /\ toServer \in Seq(Commands) /\ sentlen \in Nat
  BY DEF TypeOK, StreamTypes, Read
<1>2. c = sent[1] /\ c \in Commands
  BY <1>1, Tailed
<1>3. wire # <<>> => Tail(wire) \in Seq(Lines) /\ Head(wire) \in Lines
  BY <1>1, Tailed
<1>4. EngineTypes
  BY DEF TypeOK
<1>5. ASSUME reading # "line"  PROVE c.op = "RETR" /\ c.uid \in Uids
  <2>1. c.op = "RETR"
    BY <1>2, <1>5 DEF ReadsData
  <2>2. c.uid \in Uids
    BY <1>2, <2>1 DEF Commands, Quit
  <2>3. QED  BY <2>1, <2>2
<1>6. ASSUME NextCurrent, pipe' = pipe, cancelled' = cancelled, wire' \in Seq(Lines),
             up' = up, drop' = drop, marked' = marked,
             cache' \in [Uids -> Files], err' \in [Uids -> BOOLEAN]
      PROVE  /\ StreamTypes' /\ EngineTypes' /\ Counted' /\ SendWindow' /\ ReadsData'
             /\ ioerror' => sent' = <<>> /\ queue' = <<>>
  <2>1. /\ EngineTyped' /\ reading' = "line" /\ (ioerror' /\ ~ioerror => sent' = <<>> /\ queue' = <<>>)
        /\ ioerror' \in BOOLEAN
    BY <1>1, <1>6, NextTyped
  <2>2. StreamTypes' /\ Counted' /\ SendWindow'
    BY <1>6, <2>1 DEF EngineTyped, StreamTypes
  <2>3. EngineTypes'
    BY <1>4, <1>6, <2>1 DEF EngineTypes
  <2>4. QED  BY <2>1, <2>2, <2>3 DEF ReadsData
<1>7. ASSUME UNCHANGED <<sent, queue, sentlen, toServer, ioerror, up, pipe, drop, marked, cancelled>>,
             wire' \in Seq(Lines), reading' \in {"line", "data", "rest"},
             cache' \in [Uids -> Files], err' \in [Uids -> BOOLEAN],
             reading' = "line" \/ c.op = "RETR"
      PROVE  /\ StreamTypes' /\ EngineTypes' /\ Counted' /\ SendWindow' /\ ReadsData'
             /\ ioerror' => sent' = <<>> /\ queue' = <<>>
  <2>1. StreamTypes' /\ Counted' /\ SendWindow'
    BY <1>1, <1>7 DEF StreamTypes, Counted, SendWindow
  <2>2. EngineTypes'
    BY <1>4, <1>7 DEF EngineTypes
  <2>3. ReadsData'
    BY <1>1, <1>2, <1>7 DEF ReadsData
  <2>4. QED  BY <1>7, <2>1, <2>2, <2>3
<1>8. cache \in [Uids -> Files] /\ err \in [Uids -> BOOLEAN]
  BY <1>4 DEF EngineTypes
<1>9. \A u \in Uids, m \in {"", "*", "#"}, l \in Seq(0 .. Messages) :
         File(u, m, l) => cache' \in [Uids -> Files]
  <2>1. \A m \in {"", "*", "#"}, l \in Seq(0 .. Messages) : [mark |-> m, lines |-> l] \in Files
    BY DEF Files
  <2>2. QED  BY <1>8, <2>1 DEF File
<1>10. CASE ReadReply
  <2>1. wire' \in Seq(Lines) /\ UNCHANGED <<drop, marked, up, pipe, cancelled, err>>
    BY <1>3, <1>10 DEF ReadReply
  <2>2. CASE NextCurrent /\ UNCHANGED cache
    BY <1>6, <1>8, <2>1, <2>2
  <2>3. CASE /\ c.op = "RETR"
             /\ \/ ~cancelled /\ File(c.uid, "*", <<>>) /\ reading' = "data"
                \/ reading' = "rest" /\ UNCHANGED cache
             /\ UNCHANGED <<sent, queue, sentlen, toServer, ioerror>>
    <3>1. c.uid \in Uids /\ <<>> \in Seq(0 .. Messages)
      BY <1>2, <2>3 DEF Commands, Quit
    <3>2. cache' \in [Uids -> Files]
      BY <1>8, <1>9, <2>3, <3>1
    <3>3. QED  BY <1>7, <1>8, <2>1, <2>3, <3>2
  <2>4. QED  BY <1>10, <2>2, <2>3 DEF ReadReply
<1>11. CASE ReadNoReply
  <2>1. sent' = <<>> /\ queue' = <<>> /\ reading' = "line" /\ ioerror' = TRUE
        /\ UNCHANGED <<netVars, sentlen, cancelled, cache, err>>
    BY <1>11 DEF ReadNoReply, FailAll
  <2>2. sent' \in Seq(Commands) /\ queue' \in Seq(Commands) /\ Len(sent') = 0
    BY <2>1
  <2>3. StreamTypes'
    BY <1>1, <2>1, <2>2 DEF StreamTypes, netVars
  <2>4. EngineTypes'
    BY <1>4, <2>1 DEF EngineTypes, netVars
  <2>5. Counted' /\ SendWindow' /\ ReadsData'
    BY <1>1, <1>4, <2>1, <2>2, PopAssumption DEF Counted, SendWindow, ReadsData, EngineTypes
  <2>6. QED  BY <2>1, <2>3, <2>4, <2>5
<1>12. CASE ReadBody
  <2>1. wire' \in Seq(Lines) /\ UNCHANGED <<drop, marked, up, pipe, cancelled>> /\ reading = "data"
        /\ Head(wire) \in Lines
    BY <1>3, <1>12 DEF ReadBody
  <2>2. c.op = "RETR" /\ c.uid \in Uids
    BY <1>5, <2>1
  <2>3. cache[c.uid].lines \in Seq(0 .. Messages)
    BY <1>8, <2>2 DEF Files
  <2>4. CASE /\ NextCurrent
             /\ \/ /\ ~cancelled
                   /\ File(c.uid, "#", cache[c.uid].lines)
                   /\ err' = [err EXCEPT ![c.uid] = FALSE]
                \/ UNCHANGED <<cache, err>>
    <3>1. cache' \in [Uids -> Files] /\ err' \in [Uids -> BOOLEAN]
      BY <1>8, <1>9, <2>2, <2>3, <2>4
    <3>2. QED  BY <1>6, <2>1, <2>4, <3>1
  <2>5. CASE /\ \/ /\ ~cancelled
                   /\ File(c.uid, "*", Append(cache[c.uid].lines, Head(wire).uid))
                   /\ UNCHANGED reading
                \/ reading' = "rest" /\ UNCHANGED cache
             /\ UNCHANGED <<sent, queue, sentlen, toServer, ioerror, err>>
    <3>1. Head(wire).uid \in 0 .. Messages
      BY <2>1 DEF Lines
    <3>2. Append(cache[c.uid].lines, Head(wire).uid) \in Seq(0 .. Messages)
      BY <2>3, <3>1
    <3>3. cache' \in [Uids -> Files] /\ err' \in [Uids -> BOOLEAN]
      BY <1>8, <1>9, <2>2, <3>2, <2>5
    <3>4. reading' \in {"line", "data", "rest"}
      BY <2>1, <2>5
    <3>5. QED  BY <1>7, <2>1, <2>2, <2>5, <3>3, <3>4
  <2>6. QED  BY <1>12, <2>4, <2>5 DEF ReadBody
<1>13. CASE ReadRest
  <2>1. wire' \in Seq(Lines) /\ UNCHANGED <<drop, marked, up, pipe, cancelled, cache, err>> /\ reading = "rest"
    BY <1>3, <1>13 DEF ReadRest
  <2>2. c.op = "RETR"
    BY <1>5, <2>1
  <2>3. CASE NextCurrent
    BY <1>6, <1>8, <2>1, <2>3
  <2>4. CASE UNCHANGED <<sent, queue, sentlen, toServer, reading, ioerror>>
    BY <1>7, <1>8, <2>1, <2>2, <2>4
  <2>5. QED  BY <1>13, <2>3, <2>4 DEF ReadRest
<1>14. CASE ReadNoData
  <2>1. NextCurrent /\ UNCHANGED <<drop, marked, up, wire, pipe, cancelled, cache, err>>
    BY <1>14 DEF ReadNoData
  <2>2. QED  BY <1>1, <1>6, <1>8, <2>1
<1>15. cancelled' = cancelled
  BY DEF Read, ReadReply, ReadNoReply, ReadBody, ReadRest, ReadNoData
<1>16. QED  BY <1>10, <1>11, <1>12, <1>13, <1>14, <1>15 DEF Read

-----------------------------------------------------------------------------
(* The types, the window and the errors are kept by every step.            *)

StreamInv == StreamTypes /\ Counted /\ SendWindow /\ ReadsData
PhaseInv  == Quiet /\ ErrorsSeen /\ LoopsGoOn

LEMMA EngineParts == EngineInv <=> StreamInv /\ EngineTypes /\ JobTypes /\ PhaseInv
BY DEF EngineInv, StreamInv, PhaseInv, TypeOK

LEMMA StreamKept ==
  ASSUME StreamInv, UNCHANGED <<toServer, sent, queue, sentlen, pipe, reading>>, wire' \in Seq(Lines)
  PROVE  StreamInv'
BY DEF StreamInv, StreamTypes, Counted, SendWindow, ReadsData

LEMMA InitEngine == Init => EngineInv
<1> SUFFICES ASSUME Init  PROVE EngineInv
  OBVIOUS
<1>1. sent = <<>> /\ queue = <<>> /\ toServer = <<>> /\ wire = <<>> /\ sentlen = 0 /\ reading = "line" /\ pipe = FALSE
  BY DEF Init, PopInit
<1>2. StreamTypes
  BY <1>1 DEF StreamTypes
<1>3. Len(sent) = 0
  BY <1>1
<1>4. StreamInv
  BY <1>1, <1>2, <1>3 DEF StreamInv, Counted, SendWindow, ReadsData
<1>5. NoFile \in Files
  BY DEF NoFile, Files
<1>6. EngineTypes
  BY <1>5 DEF Init, PopInit, EngineTypes
<1>7. JobTypes
  <2>1. NoCommands \in [Uids -> {"", "RETR", "DELE"}] /\ [u \in Uids |-> 0] \in [Uids -> Nat] /\ 0 \in 0 .. Messages
    BY PopAssumption DEF NoCommands
  <2>2. QED  BY <2>1 DEF Init, JobTypes
<1>8. PhaseInv
  BY DEF Init, PopInit, PhaseInv, Quiet, ErrorsSeen, LoopsGoOn, Getting
<1>9. QED  BY <1>4, <1>6, <1>7, <1>8, EngineParts

\* What the program does not do.
LEMMA WorldKeeps ==
  ASSUME EngineInv, NewMail \/ Cancel \/ Lost \/ Server
  PROVE  EngineInv'
<1>1. StreamInv /\ EngineTypes /\ JobTypes /\ PhaseInv
  BY EngineParts
<1>2. CASE NewMail
  <2>1. StreamInv'
    BY <1>1, <1>2, StreamKept DEF NewMail, engineVars, StreamInv, StreamTypes
  <2>2. arrived + 1 \in Uids /\ arrived + 1 \in 0 .. Messages
    <3>1. arrived \in 0 .. Messages /\ arrived < Messages
      BY <1>1, <1>2 DEF NewMail, JobTypes
    <3>2. QED  BY <3>1, PopAssumption DEF Uids
  <2>3. EngineTypes'
    BY <1>1, <1>2, <2>2 DEF NewMail, EngineTypes, engineVars
  <2>4. JobTypes'
    BY <1>1, <1>2, <2>2 DEF NewMail, JobTypes, jobVars, diskVars
  <2>5. PhaseInv'
    BY <1>1, <1>2 DEF NewMail, PhaseInv, Quiet, ErrorsSeen, LoopsGoOn, engineVars, jobVars
  <2>6. QED  BY <2>1, <2>3, <2>4, <2>5 DEF EngineInv, StreamInv, PhaseInv, TypeOK
<1>3. CASE Cancel
  <2>1. StreamInv'
    BY <1>1, <1>3, StreamKept DEF Cancel, netVars, StreamInv, StreamTypes
  <2>2. EngineTypes'
    BY <1>1, <1>3 DEF Cancel, EngineTypes, netVars
  <2>3. JobTypes'
    BY <1>1, <1>3 DEF Cancel, JobTypes, jobVars, diskVars
  <2>4. PhaseInv'
    BY <1>1, <1>3 DEF Cancel, PhaseInv, Quiet, ErrorsSeen, LoopsGoOn, netVars, jobVars, Getting
  <2>5. QED  BY <2>1, <2>2, <2>3, <2>4 DEF EngineInv, StreamInv, PhaseInv, TypeOK
<1>4. CASE Lost
  <2>1. wire \in Seq(Lines)
    BY <1>1 DEF StreamInv, StreamTypes
  <2>2. PICK n \in 0 .. Len(wire) : wire' = SubSeq(wire, 1, n)
    BY <1>4 DEF Lost, ConnectionLost
  <2>3. wire' \in Seq(Lines)
    BY <2>1, <2>2
  <2>4. /\ toServer' = <<>> /\ up' = FALSE /\ marked' = {} /\ UNCHANGED <<drop, pipe, cache, err>>
        /\ UNCHANGED <<sent, queue, sentlen, reading, ioerror, cancelled>>
        /\ UNCHANGED <<jobVars, diskVars, arrived>>
    BY <1>4 DEF Lost, ConnectionLost, engineVars
  <2>5. StreamInv'
    BY <1>1, <2>3, <2>4 DEF StreamInv, StreamTypes, Counted, SendWindow, ReadsData
  <2>6. EngineTypes'
    BY <1>1, <2>4 DEF EngineTypes
  <2>7. JobTypes'
    BY <1>1, <2>4 DEF JobTypes, jobVars, diskVars
  <2>8. PhaseInv'
    <3>1. up
      BY <1>4 DEF Lost, ConnectionLost
    <3>2. at # "idle"
      BY <1>1, <3>1 DEF PhaseInv, Quiet
    <3>3. QED  BY <1>1, <2>4, <3>2 DEF PhaseInv, Quiet, ErrorsSeen, LoopsGoOn, jobVars
  <2>9. QED  BY <2>5, <2>6, <2>7, <2>8 DEF EngineInv, StreamInv, PhaseInv, TypeOK
<1>5. CASE Server
  <2>1. /\ toServer # <<>> /\ toServer' = Tail(toServer)
        /\ UNCHANGED <<up, pipe, sent, queue, sentlen, reading, ioerror, cancelled, cache, err>>
        /\ UNCHANGED <<jobVars, diskVars, arrived>>
    BY <1>5 DEF Server, ServerAnswers, engineVars
  <2>2. toServer \in Seq(Commands) /\ wire \in Seq(Lines)
    BY <1>1 DEF StreamInv, StreamTypes
  <2> DEFINE c == Head(toServer)
  <2>3. Tail(toServer) \in Seq(Commands) /\ c \in Commands
    BY <2>1, <2>2, Tailed
  <2>4. /\ c.op \in {"RETR", "DELE", "QUIT"} /\ c.uid \in 0 .. Messages
        /\ c.op # "QUIT" => c.uid \in Uids
    BY <2>3, PopAssumption DEF Commands, Quit, Uids
  <2>5. \A k \in {"ok", "err", "body", "end"}, u \in 0 .. Messages : Line(k, u) \in Lines
    BY DEF Line, Lines
  <2>6. /\ wire' \in Seq(Lines) /\ drop' \subseteq Uids /\ marked' \subseteq Uids
    <3> HIDE DEF c
    <3>1. CASE c.op = "RETR"
      <4>1. /\ wire' = wire \o <<Line("err", c.uid)>> \/
               wire' = wire \o <<Line("ok", c.uid), Line("body", c.uid), Line("end", c.uid)>>
            /\ UNCHANGED <<drop, marked>>
        BY <1>5, <3>1 DEF Server, ServerAnswers, c
      <4>2. /\ <<Line("err", c.uid)>> \in Seq(Lines)
            /\ <<Line("ok", c.uid), Line("body", c.uid), Line("end", c.uid)>> \in Seq(Lines)
        BY <2>4, <2>5
      <4>3. wire' \in Seq(Lines)
        BY <2>2, <4>1, <4>2, Joined
      <4>4. QED  BY <1>1, <4>1, <4>3 DEF EngineTypes
    <3>2. CASE c.op = "DELE"
      <4>1. marked' = marked \cup {c.uid} /\ wire' = wire \o <<Line("ok", c.uid)>> /\ UNCHANGED drop
        BY <1>5, <3>2 DEF Server, ServerAnswers, c
      <4>2. <<Line("ok", c.uid)>> \in Seq(Lines)
        BY <2>4, <2>5
      <4>3. wire' \in Seq(Lines)
        BY <2>2, <4>1, <4>2, Joined
      <4>4. c.uid \in Uids
        BY <2>4, <3>2
      <4>5. QED  BY <1>1, <4>1, <4>3, <4>4 DEF EngineTypes
    <3>3. CASE c.op = "QUIT"
      <4>1. drop' = drop \ marked /\ marked' = {} /\ wire' = wire \o <<Line("ok", 0)>>
        BY <1>5, <3>3 DEF Server, ServerAnswers, c
      <4>2. <<Line("ok", 0)>> \in Seq(Lines)
        BY <2>5, PopAssumption
      <4>3. wire' \in Seq(Lines)
        BY <2>2, <4>1, <4>2, Joined
      <4>4. QED  BY <1>1, <4>1, <4>3 DEF EngineTypes
    <3>4. QED  BY <2>4, <3>1, <3>2, <3>3
  <2>7. StreamInv'
    BY <1>1, <2>1, <2>3, <2>6 DEF StreamInv, StreamTypes, Counted, SendWindow, ReadsData
  <2>8. EngineTypes'
    BY <1>1, <2>1, <2>6 DEF EngineTypes
  <2>9. JobTypes'
    BY <1>1, <2>1 DEF JobTypes, jobVars, diskVars
  <2>10. PhaseInv'
    <3>1. at # "idle"
      BY <1>1, <2>1 DEF PhaseInv, Quiet
    <3>2. QED  BY <1>1, <2>1, <3>1 DEF PhaseInv, Quiet, ErrorsSeen, LoopsGoOn, jobVars
  <2>11. QED  BY <2>7, <2>8, <2>9, <2>10 DEF EngineInv, StreamInv, PhaseInv, TypeOK
<1>6. QED  BY <1>2, <1>3, <1>4, <1>5

LEMMA DisconnectedKeeps ==
  ASSUME EngineInv, Disconnected, UNCHANGED <<drop, cache, inbox, saved, arrived>>, crashes' \in Nat
  PROVE  EngineInv'
<1>1. StreamInv /\ EngineTypes /\ JobTypes /\ PhaseInv
  BY EngineParts
<1>2. sent' = <<>> /\ queue' = <<>> /\ toServer' = <<>> /\ wire' = <<>> /\ sentlen' = 0 /\ reading' = "line" /\ pipe' = FALSE
  BY DEF Disconnected
<1>3. StreamTypes'
  BY <1>2 DEF StreamTypes
<1>4. Len(sent') = 0
  BY <1>2
<1>5. StreamInv'
  BY <1>2, <1>3, <1>4 DEF StreamInv, Counted, SendWindow, ReadsData
<1>6. EngineTypes'
  BY <1>1 DEF Disconnected, EngineTypes
<1>7. JobTypes'
  BY <1>1 DEF Disconnected, JobTypes, NoCommands
<1>8. PhaseInv'
  BY DEF Disconnected, PhaseInv, Quiet, ErrorsSeen, LoopsGoOn, Getting
<1>9. QED  BY <1>5, <1>6, <1>7, <1>8 DEF EngineInv, StreamInv, PhaseInv, TypeOK

LEMMA IssueKeeps ==
  ASSUME EngineInv, NEW cs \in Seq(Commands), Issue(cs), UNCHANGED <<pipe, wire, reading>>
  PROVE  StreamInv'
<1>1. EngineTyped' /\ (sent' = <<>> => sent = <<>>) /\ (sent # <<>> => sent'[1] = sent[1])
  BY IssueTyped DEF EngineInv
<1>2. StreamTypes'
  BY <1>1 DEF EngineInv, TypeOK, StreamTypes, EngineTyped
<1>3. QED  BY <1>1, <1>2 DEF EngineInv, StreamInv, EngineTyped, ReadsData

LEMMA EmptiedTyped ==
  ASSUME EngineInv, NEW us, Emptied(us)
  PROVE  cache' \in [Uids -> Files]
<1>1. NoFile \in Files
  BY DEF NoFile, Files
<1>2. cache \in [Uids -> Files]
  BY DEF EngineInv, TypeOK, EngineTypes
<1>3. QED  BY <1>1, <1>2 DEF Emptied

\* pop3_get_message begins to retrieve the messages in S.
RetrievesAll(S) ==
  /\ Emptied(S) /\ uid \in S /\ \A u \in S \ {uid} : cmd[u] = ""
  /\ err' = [u \in Uids |-> u \in S \/ err[u]]
  /\ cmd' = [u \in Uids |-> IF u \in S \ {uid} THEN "RETR" ELSE IF u = uid THEN "" ELSE cmd[u]]
  /\ Issue(Retrievals(S))
  /\ at' = "retrieve" /\ UNCHANGED failed

LEMMA RetrieveDoes ==
  ASSUME EngineInv, Retrieve, todo # {}
  PROVE  \E S \in SUBSET Uids : RetrievesAll(S)
<1> DEFINE place(u) == Cardinality({v \in view : v < u})
           ahead == {u \in view : place(u) \in place(uid) + 1 .. place(uid) + Ahead /\ cmd[u] = ""}
<1>1. /\ Emptied({uid} \cup ahead)
      /\ err' = [u \in Uids |-> u \in {uid} \cup ahead \/ err[u]]
      /\ cmd' = [u \in Uids |-> IF u \in ahead THEN "RETR" ELSE IF u = uid THEN "" ELSE cmd[u]]
      /\ Issue(Retrievals({uid} \cup ahead))
      /\ at' = "retrieve" /\ UNCHANGED failed
  BY DEF Retrieve, Retrievals
<1>2. ahead \subseteq view /\ view \subseteq Uids /\ \A u \in ahead : cmd[u] = ""
  BY DEF EngineInv, TypeOK, JobTypes
<1>3. place(uid) \in Nat
  <2>1. {v \in view : v < uid} \in SUBSET Uids
    BY <1>2
  <2>2. QED  BY <2>1, UidsFinite
<1>4. uid \notin ahead
  <2> HIDE DEF place
  <2>1. place(uid) \notin place(uid) + 1 .. place(uid) + Ahead
    BY <1>3, FetchAssumption
  <2>2. QED  BY <2>1
<1> HIDE DEF ahead
<1> DEFINE S == {uid} \cup ahead
<1>5. uid \in Uids
  BY UidIs DEF EngineInv
<1>6. S \in SUBSET Uids /\ uid \in S /\ S \ {uid} = ahead
  BY <1>2, <1>4, <1>5
<1>7. RetrievesAll(S)
  BY <1>1, <1>2, <1>6 DEF RetrievesAll
<1>8. QED  BY <1>6, <1>7

\* camel_data_cache_get, or the retrieval or the failure that follows it.
LEMMA FromCacheKeeps ==
  ASSUME EngineInv, FromCache, todo # {}, UNCHANGED <<pipe, wire, reading>>
  PROVE  /\ StreamInv'
         /\ \/ at' \in {"file", "retrieve"} /\ failed' = failed
            \/ at' = "save" /\ failed' = TRUE
         /\ cache' \in [Uids -> Files] /\ err' \in [Uids -> BOOLEAN]
         /\ cmd' \in [Uids -> {"", "RETR", "DELE"}]
<1>1. StreamInv /\ EngineTypes /\ JobTypes /\ PhaseInv
  BY EngineParts
<1>2. uid \in Uids
  BY UidIs DEF EngineInv
<1>3. cmd \in [Uids -> {"", "RETR", "DELE"}] /\ cache \in [Uids -> Files] /\ err \in [Uids -> BOOLEAN]
  BY <1>1 DEF JobTypes, EngineTypes
<1>4. wire' \in Seq(Lines)
  BY <1>1 DEF StreamInv, StreamTypes
<1>5. CASE /\ \/ at' = "file" /\ failed' = failed
              \/ at' = "save" /\ failed' = TRUE
           /\ cmd' = [cmd EXCEPT ![uid] = ""]
           /\ UNCHANGED <<sent, queue, sentlen, toServer, cache, err>>
  <2>1. StreamInv'
    BY <1>1, <1>4, <1>5, StreamKept
  <2>2. cmd' \in [Uids -> {"", "RETR", "DELE"}]
    BY <1>2, <1>3, <1>5
  <2>3. QED  BY <1>3, <1>5, <2>1, <2>2
<1>6. CASE Retrieve
  <2>1. PICK S \in SUBSET Uids : RetrievesAll(S)
    BY <1>6, RetrieveDoes
  <2>2. Retrievals(S) \in Seq(Commands)
    BY RetrievalsAre
  <2>3. StreamInv'
    BY <2>1, <2>2, IssueKeeps DEF RetrievesAll
  <2>4. cache' \in [Uids -> Files]
    BY <2>1, EmptiedTyped DEF RetrievesAll
  <2>5. err' \in [Uids -> BOOLEAN]
    BY <1>3, <2>1 DEF RetrievesAll
  <2>6. cmd' \in [Uids -> {"", "RETR", "DELE"}]
    BY <1>3, <2>1 DEF RetrievesAll
  <2>7. QED  BY <2>1, <2>3, <2>4, <2>5, <2>6 DEF RetrievesAll
<1>7. CASE Fail
  BY <1>5, <1>7 DEF Fail
<1>8. QED  BY <1>5, <1>6, <1>7 DEF FromCache

\* The messages are retrieved and filed.
LEMMA GettingKeeps ==
  ASSUME EngineInv, GetInbox \/ GetMessage \/ Awaited \/ Retrieved \/ FileMessage
  PROVE  EngineInv'
<1>1. StreamInv /\ EngineTypes /\ JobTypes /\ PhaseInv
  BY EngineParts
<1>2. wire \in Seq(Lines)
  BY <1>1 DEF StreamInv, StreamTypes
<1>3. at \in Getting => todo # {} /\ ~failed
  BY <1>1 DEF PhaseInv, LoopsGoOn
<1>4. CASE GetInbox
  <2>1. StreamInv'
    <3>1. Quiet /\ at = "idle"
      BY <1>1, <1>4 DEF GetInbox, PhaseInv
    <3>2. sent = <<>> /\ UNCHANGED <<toServer, wire, sent, queue, sentlen, reading>> /\ pipe' \in BOOLEAN
      BY <1>4, <3>1 DEF GetInbox, engineVars, Quiet
    <3>3. Len(sent') = 0 /\ Limit \in Nat
      BY <3>2, PopAssumption
    <3>4. QED  BY <1>1, <3>2, <3>3 DEF StreamInv, StreamTypes, Counted, SendWindow, ReadsData
  <2>2. EngineTypes'
    BY <1>1, <1>4 DEF GetInbox, EngineTypes, engineVars
  <2>3. view' \subseteq Uids
    BY <1>1, <1>4 DEF GetInbox, EngineTypes
  <2>4. JobTypes'
    BY <1>1, <1>4, <2>3 DEF GetInbox, JobTypes, diskVars, Getting
  <2>5. PhaseInv'
    BY <1>1, <1>4 DEF GetInbox, PhaseInv, Quiet, ErrorsSeen, LoopsGoOn, engineVars, Getting
  <2>6. QED  BY <2>1, <2>2, <2>4, <2>5 DEF EngineInv, StreamInv, PhaseInv, TypeOK
<1>5. CASE GetMessage
  <2>1. at = "get" /\ todo # {} /\ ~ioerror /\ ~failed
        /\ UNCHANGED <<drop, marked, up, wire, pipe, reading, ioerror, cancelled,
                       delete, view, todo, keep, diskVars, arrived>>
    BY <1>1, <1>3, <1>5 DEF GetMessage, PhaseInv, ErrorsSeen, Getting
  <2>2. /\ StreamInv' /\ failed' \in BOOLEAN
        /\ (at' \in Getting /\ failed' = failed) \/ (at' = "save" /\ failed' = TRUE)
        /\ cache' \in [Uids -> Files] /\ err' \in [Uids -> BOOLEAN]
        /\ cmd' \in [Uids -> {"", "RETR", "DELE"}]
    <3>1. CASE at' = "await" /\ UNCHANGED <<sent, queue, sentlen, toServer, cache, err, cmd, failed>>
      <4>1. StreamInv'
        BY <1>1, <1>2, <2>1, <3>1, StreamKept
      <4>2. QED  BY <1>1, <3>1, <4>1 DEF JobTypes, EngineTypes, Getting
    <3>2. CASE FromCache
      <4>1. failed \in BOOLEAN
        BY <1>1 DEF JobTypes
      <4>2. QED  BY <2>1, <3>2, <4>1, FromCacheKeeps DEF Getting
    <3>3. QED  BY <1>5, <3>1, <3>2 DEF GetMessage
  <2>3. EngineTypes'
    BY <1>1, <2>1, <2>2 DEF EngineTypes
  <2>4. JobTypes'
    BY <1>1, <2>1, <2>2 DEF JobTypes, diskVars, Getting
  <2>5. PhaseInv'
    BY <1>1, <2>1, <2>2 DEF PhaseInv, Quiet, ErrorsSeen, LoopsGoOn, Getting
  <2>6. QED  BY <2>2, <2>3, <2>4, <2>5 DEF EngineInv, StreamInv, PhaseInv, TypeOK
<1>6. CASE Awaited
  <2>1. at = "await" /\ todo # {} /\ ioerror' = FALSE /\ ~failed
        /\ UNCHANGED <<drop, marked, up, wire, pipe, reading, cancelled,
                       delete, view, todo, keep, diskVars, arrived>>
    BY <1>1, <1>3, <1>6 DEF Awaited, Getting
  <2>2. /\ StreamInv' /\ failed' \in BOOLEAN
        /\ (at' \in {"file", "retrieve"} /\ failed' = failed) \/ at' = "save"
        /\ cache' \in [Uids -> Files] /\ err' \in [Uids -> BOOLEAN]
        /\ cmd' \in [Uids -> {"", "RETR", "DELE"}]
    <3>1. CASE Fail
      <4>1. StreamInv'
        BY <1>1, <1>2, <2>1, <3>1, StreamKept DEF Fail
      <4>2. QED  BY <1>1, <3>1, <4>1 DEF Fail, JobTypes, EngineTypes
    <3>2. CASE FromCache
      <4>1. failed \in BOOLEAN
        BY <1>1 DEF JobTypes
      <4>2. QED  BY <2>1, <3>2, <4>1, FromCacheKeeps
    <3>3. QED  BY <1>6, <3>1, <3>2 DEF Awaited
  <2>3. EngineTypes'
    BY <1>1, <2>1, <2>2 DEF EngineTypes
  <2>4. JobTypes'
    BY <1>1, <2>1, <2>2 DEF JobTypes, diskVars, Getting
  <2>5. PhaseInv'
    BY <1>1, <2>1, <2>2 DEF PhaseInv, Quiet, ErrorsSeen, LoopsGoOn, Getting
  <2>6. QED  BY <2>2, <2>3, <2>4, <2>5 DEF EngineInv, StreamInv, PhaseInv, TypeOK
<1>7. CASE Retrieved
  <2>1. /\ at = "retrieve" /\ ioerror' = FALSE /\ todo # {} /\ ~failed
        /\ queue' = RemoveFirst(queue, Retr(uid))
        /\ UNCHANGED <<netVars, sent, sentlen, reading, cancelled, cache, err,
                       delete, view, cmd, todo, keep, diskVars, arrived>>
        /\ (at' = "save" /\ failed' = TRUE) \/ (at' = "file" /\ UNCHANGED failed)
    BY <1>3, <1>7 DEF Retrieved, Getting
  <2>2. queue' \in Seq(Commands)
    BY <1>1, <2>1, RemovedFirst DEF StreamInv, StreamTypes
  <2>3. StreamInv'
    BY <1>1, <2>1, <2>2 DEF StreamInv, StreamTypes, Counted, SendWindow, ReadsData, netVars
  <2>4. EngineTypes'
    BY <1>1, <2>1 DEF EngineTypes, netVars
  <2>5. JobTypes'
    BY <1>1, <2>1 DEF JobTypes, diskVars, Getting
  <2>6. PhaseInv'
    BY <1>1, <2>1 DEF PhaseInv, Quiet, ErrorsSeen, LoopsGoOn, Getting
  <2>7. QED  BY <2>3, <2>4, <2>5, <2>6 DEF EngineInv, StreamInv, PhaseInv, TypeOK
<1>8. CASE FileMessage
  <2>1. /\ at = "file" /\ todo # {} /\ ~failed /\ ~ioerror
        /\ keep' = keep \cup {uid} /\ todo' = todo \ {uid}
        /\ at' = IF todo' = {} THEN "save" ELSE "get"
        /\ UNCHANGED <<popVars, delete, view, cmd, failed, saved, crashes, arrived>>
    BY <1>1, <1>3, <1>8 DEF FileMessage, Getting, PhaseInv, ErrorsSeen
  <2>2. uid \in Uids
    BY <2>1, UidIs DEF EngineInv
  <2>3. inbox' \in [Uids -> Nat]
    <3>1. inbox \in [Uids -> Nat]
      BY <1>1 DEF JobTypes
    <3> DEFINE filed == [u \in Uids |-> IF Contains(cache[uid].lines, u) THEN inbox[u] + 1 ELSE inbox[u]]
    <3>2. filed \in [Uids -> Nat]
      BY <3>1
    <3>3. inbox' = filed \/ inbox' = inbox
      BY <1>8 DEF FileMessage
    <3>4. QED  BY <3>1, <3>2, <3>3
  <2>4. StreamInv'
    BY <1>1, <1>2, <2>1, StreamKept DEF popVars, netVars, engineVars
  <2>5. EngineTypes'
    BY <1>1, <2>1 DEF EngineTypes, popVars, netVars, engineVars
  <2>6. JobTypes'
    BY <1>1, <2>1, <2>2, <2>3 DEF JobTypes, Getting
  <2>7. PhaseInv'
    BY <1>1, <2>1 DEF PhaseInv, Quiet, ErrorsSeen, LoopsGoOn, Getting, popVars, engineVars
  <2>8. QED  BY <2>4, <2>5, <2>6, <2>7 DEF EngineInv, StreamInv, PhaseInv, TypeOK
<1>9. QED  BY <1>4, <1>5, <1>6, <1>7, <1>8

\* The uids are saved, the messages deleted and the folder disposed of.
LEMMA EndingKeeps ==
  ASSUME EngineInv, SaveUids \/ DeleteMessage \/ Settle \/ FreeCommand \/ SendQuit
  PROVE  EngineInv'
<1>1. StreamInv /\ EngineTypes /\ JobTypes /\ PhaseInv
  BY EngineParts
<1>2. wire \in Seq(Lines) /\ queue \in Seq(Commands)
  BY <1>1 DEF StreamInv, StreamTypes
<1>3. cmd \in [Uids -> {"", "RETR", "DELE"}] /\ view \subseteq Uids
  BY <1>1 DEF JobTypes
<1>4. \A u \in Uids : Dele(u) \in Commands
  BY DEF Dele, Commands
<1>5. Quit \in Commands
  BY DEF Commands
<1>6. WithCommand \subseteq view
  BY DEF WithCommand
<1>7. \A c \in Commands : <<c>> \in Seq(Commands)
  OBVIOUS
<1>8. CASE SaveUids
  <2>1. /\ at = "save" /\ cancelled' = FALSE
        /\ (at' = "dispose" /\ todo' = WithCommand) \/ (at' = "sync" /\ todo' = view)
        /\ UNCHANGED <<netVars, sent, queue, sentlen, reading, ioerror, cache, err,
                       delete, view, cmd, keep, failed, inbox, arrived>>
    BY <1>8 DEF SaveUids, AfterSave
  <2>2. saved' \subseteq Uids /\ crashes' \in Nat
    <3>1. saved \subseteq Uids /\ keep \subseteq Uids /\ crashes \in Nat
      BY <1>1 DEF JobTypes
    <3>2. (saved' = keep /\ crashes' = crashes) \/ (saved' = saved /\ crashes' = crashes + 1)
      BY <1>8 DEF SaveUids
    <3>3. QED  BY <3>1, <3>2
  <2>3. StreamInv'
    BY <1>1, <1>2, <2>1, StreamKept DEF netVars
  <2>4. EngineTypes'
    BY <1>1, <2>1 DEF EngineTypes, netVars
  <2>5. JobTypes'
    BY <1>1, <1>3, <1>6, <2>1, <2>2 DEF JobTypes
  <2>6. PhaseInv'
    BY <1>1, <2>1 DEF PhaseInv, Quiet, ErrorsSeen, LoopsGoOn, Getting, netVars
  <2>7. QED  BY <2>3, <2>4, <2>5, <2>6 DEF EngineInv, StreamInv, PhaseInv, TypeOK
<1>9. CASE DeleteMessage
  <2>1. /\ at = "sync" /\ todo # {} /\ Issue(<<Dele(uid)>>) /\ ioerror' = FALSE
        /\ cmd' = [cmd EXCEPT ![uid] = "DELE"] /\ Emptied({uid}) /\ todo' = todo \ {uid}
        /\ UNCHANGED <<drop, marked, up, wire, pipe, reading, cancelled, err,
                       at, delete, view, keep, failed, diskVars, arrived>>
    BY <1>9 DEF DeleteMessage
  <2>2. uid \in Uids
    BY <2>1, UidIs DEF EngineInv
  <2>3. StreamInv'
    <3>1. <<Dele(uid)>> \in Seq(Commands)
      BY <1>4, <1>7, <2>2
    <3>2. QED  BY <2>1, <3>1, IssueKeeps
  <2>4. EngineTypes'
    <3>1. cache' \in [Uids -> Files]
      BY <2>1, EmptiedTyped
    <3>2. QED  BY <1>1, <2>1, <3>1 DEF EngineTypes
  <2>5. JobTypes'
    <3>1. cmd' \in [Uids -> {"", "RETR", "DELE"}]
      BY <1>3, <2>1, <2>2
    <3>2. QED  BY <1>1, <2>1, <3>1 DEF JobTypes, diskVars
  <2>6. PhaseInv'
    BY <1>1, <2>1 DEF PhaseInv, Quiet, ErrorsSeen, LoopsGoOn, Getting
  <2>7. QED  BY <2>3, <2>4, <2>5, <2>6 DEF EngineInv, StreamInv, PhaseInv, TypeOK
<1>10. CASE Settle
  <2>1. /\ at = "sync" /\ todo = {} /\ at' = "dispose" /\ todo' = WithCommand
        /\ UNCHANGED <<popVars, delete, view, cmd, keep, failed, diskVars, arrived>>
    BY <1>10 DEF Settle
  <2>2. StreamInv'
    BY <1>1, <1>2, <2>1, StreamKept DEF popVars, netVars, engineVars
  <2>3. EngineTypes'
    BY <1>1, <2>1 DEF EngineTypes, popVars, netVars, engineVars
  <2>4. JobTypes'
    BY <1>1, <1>3, <1>6, <2>1 DEF JobTypes, diskVars
  <2>5. PhaseInv'
    BY <1>1, <2>1 DEF PhaseInv, Quiet, ErrorsSeen, LoopsGoOn, Getting, popVars, engineVars
  <2>6. QED  BY <2>2, <2>3, <2>4, <2>5 DEF EngineInv, StreamInv, PhaseInv, TypeOK
<1>11. CASE FreeCommand
  <2>1. /\ at = "dispose" /\ todo # {} /\ ioerror' = FALSE
        /\ cmd' = [cmd EXCEPT ![uid] = ""] /\ todo' = todo \ {uid}
        /\ queue' = RemoveFirst(queue, IF cmd[uid] = "RETR" THEN Retr(uid) ELSE Dele(uid))
        /\ UNCHANGED <<netVars, sent, sentlen, reading, cancelled, cache, err,
                       at, delete, view, keep, failed, diskVars, arrived>>
    BY <1>11 DEF FreeCommand
  <2>2. uid \in Uids
    BY <2>1, UidIs DEF EngineInv
  <2>3. queue' \in Seq(Commands)
    BY <1>2, <2>1, RemovedFirst
  <2>4. StreamInv'
    BY <1>1, <2>1, <2>3 DEF StreamInv, StreamTypes, Counted, SendWindow, ReadsData, netVars
  <2>5. EngineTypes'
    BY <1>1, <2>1 DEF EngineTypes, netVars
  <2>6. JobTypes'
    <3>1. cmd' \in [Uids -> {"", "RETR", "DELE"}]
      BY <1>3, <2>1, <2>2
    <3>2. QED  BY <1>1, <2>1, <3>1 DEF JobTypes, diskVars
  <2>7. PhaseInv'
    BY <1>1, <2>1 DEF PhaseInv, Quiet, ErrorsSeen, LoopsGoOn, Getting
  <2>8. QED  BY <2>4, <2>5, <2>6, <2>7 DEF EngineInv, StreamInv, PhaseInv, TypeOK
<1>12. CASE SendQuit
  <2>1. /\ at = "dispose" /\ todo = {} /\ Issue(<<Quit>>) /\ at' = "quit"
        /\ UNCHANGED <<drop, marked, up, wire, pipe, reading, ioerror, cancelled, cache, err,
                       delete, view, cmd, todo, keep, failed, diskVars, arrived>>
    BY <1>12 DEF SendQuit
  <2>2. StreamInv'
    BY <1>5, <1>7, <2>1, IssueKeeps
  <2>3. EngineTypes'
    BY <1>1, <2>1 DEF EngineTypes
  <2>4. JobTypes'
    BY <1>1, <2>1 DEF JobTypes, diskVars
  <2>5. PhaseInv'
    BY <1>1, <2>1 DEF PhaseInv, Quiet, ErrorsSeen, LoopsGoOn, Getting
  <2>6. QED  BY <2>2, <2>3, <2>4, <2>5 DEF EngineInv, StreamInv, PhaseInv, TypeOK
<1>13. QED  BY <1>8, <1>9, <1>10, <1>11, <1>12

LEMMA IterateKeeps == ASSUME EngineInv, Iterate  PROVE EngineInv'
<1>1. StreamInv /\ EngineTypes /\ JobTypes /\ PhaseInv
  BY EngineParts
<1>2. /\ ~ioerror /\ at \in {"await", "retrieve", "sync", "dispose", "quit"}
      /\ at \in {"sync", "dispose"} => todo # {}
      /\ Read /\ UNCHANGED <<jobVars, diskVars, arrived>>
  BY DEF Iterate, Iterates
<1>3. /\ StreamTypes' /\ EngineTypes' /\ Counted' /\ SendWindow' /\ ReadsData'
      /\ cancelled' = cancelled
      /\ ioerror' => sent' = <<>> /\ queue' = <<>>
  BY <1>1, <1>2, ReadKeeps DEF EngineInv
<1>4. JobTypes'
  BY <1>1, <1>2 DEF JobTypes, jobVars, diskVars
<1>5. PhaseInv'
  BY <1>1, <1>2, <1>3 DEF PhaseInv, Quiet, ErrorsSeen, LoopsGoOn, jobVars, Getting
<1>6. QED  BY <1>3, <1>4, <1>5 DEF EngineInv, PhaseInv, TypeOK

LEMMA EngineStep == EngineInv /\ [Next]_vars => EngineInv'
<1> SUFFICES ASSUME EngineInv, [Next]_vars  PROVE EngineInv'
  OBVIOUS
<1>1. CASE Crash
  <2>1. crashes \in Nat /\ crashes' = crashes + 1
    BY <1>1 DEF Crash, EngineInv, TypeOK, JobTypes
  <2>2. crashes' \in Nat
    BY <2>1
  <2>3. QED  BY <1>1, <2>2, DisconnectedKeeps DEF Crash
<1>2. CASE Disconnect
  <2>1. crashes' \in Nat
    BY <1>2 DEF Disconnect, EngineInv, TypeOK, JobTypes, diskVars
  <2>2. QED  BY <1>2, <2>1, DisconnectedKeeps DEF Disconnect, diskVars
<1>3. CASE UNCHANGED vars
  <2>1. UNCHANGED <<drop, marked, up, toServer, wire, pipe, sent, queue, sentlen, reading, ioerror,
                    cancelled, cache, err, at, delete, view, cmd, todo, keep, failed, arrived,
                    inbox, saved, crashes>>
    BY <1>3 DEF vars, popVars, netVars, engineVars, jobVars, diskVars
  <2>2. QED  BY <2>1, ZenonT(60) DEF EngineInv, TypeOK, StreamTypes, EngineTypes, JobTypes, Counted, SendWindow,
                    Quiet, ReadsData, ErrorsSeen, LoopsGoOn
<1>4. CASE NewMail \/ Cancel \/ Lost \/ Server
  BY <1>4, WorldKeeps
<1>5. CASE GetInbox \/ GetMessage \/ Awaited \/ Retrieved \/ FileMessage
  BY <1>5, GettingKeeps
<1>6. CASE SaveUids \/ DeleteMessage \/ Settle \/ FreeCommand \/ SendQuit
  BY <1>6, EndingKeeps
<1>7. CASE Iterate
  BY <1>7, IterateKeeps
<1>8. QED  BY <1>1, <1>2, <1>3, <1>4, <1>5, <1>6, <1>7 DEF Next, Job

THEOREM EngineIsSound == Spec => []EngineInv
BY InitEngine, EngineStep, PTL DEF Spec

\* The variables have their types.
THEOREM TypeCorrect == Spec => []TypeOK
<1>1. EngineInv => TypeOK
  BY DEF EngineInv
<1>2. QED  BY <1>1, EngineIsSound, PTL

\* No more is sent than the server answers before it must be read from
\* (CAMEL_POP3_SEND_LIMIT of camel-pop3-engine.c).
THEOREM WindowIsKept == Spec => []SendWindow
<1>1. EngineInv => SendWindow
  BY DEF EngineInv
<1>2. QED  BY <1>1, EngineIsSound, PTL

-----------------------------------------------------------------------------
(* The lines stay with their commands.                                     *)

\* Nothing is on the wire.
LEMMA AlignedWhenEmpty ==
  ASSUME NEW s \in Seq(Commands), NEW r, NEW ls, NEW on \in BOOLEAN, NEW t,
         IF on THEN r = "line" /\ After(t, s, 0) ELSE t = <<>>
  PROVE  AlignedTo(<<>>, s, r, ls, on, t)
<1> DEFINE of == [i \in 1 .. 0 |-> 1]
<1>1. Len(<<>>) = 0 /\ of \in [1 .. 0 -> 1 .. Len(s)]
  OBVIOUS
<1>2. Replies(of, <<>>, s)
  BY <1>1 DEF Replies
<1>3. ReadsOn(of, <<>>, s, r, ls) /\ Outstanding(of, <<>>, s, r, on, t)
  BY DEF ReadsOn, Outstanding
<1>4. QED  BY <1>1, <1>2, <1>3 DEF AlignedTo

\* The connection is lost and some of the lines arrive.
LEMMA AlignedWhenCut ==
  ASSUME NEW w \in Seq(Lines), NEW s \in Seq(Commands), NEW r, NEW ls, NEW on, NEW t,
         AlignedTo(w, s, r, ls, on, t), NEW n \in 0 .. Len(w)
  PROVE  AlignedTo(SubSeq(w, 1, n), s, r, ls, FALSE, <<>>)
<1>1. PICK of \in [1 .. Len(w) -> 1 .. Len(s)] : Replies(of, w, s) /\ ReadsOn(of, w, s, r, ls)
  BY DEF AlignedTo
<1> DEFINE v == SubSeq(w, 1, n)
           o == [i \in 1 .. n |-> of[i]]
<1>2. Len(w) \in Nat /\ n \in Nat /\ n <= Len(w)
  OBVIOUS
<1>3. v \in Seq(Lines) /\ Len(v) = n /\ \A i \in 1 .. n : v[i] = w[i]
  BY <1>2
<1>4. o \in [1 .. n -> 1 .. Len(s)] /\ \A i \in 1 .. n : o[i] = of[i] /\ i \in 1 .. Len(w)
  BY <1>2
<1> HIDE DEF v, o
<1>5. Replies(o, v, s)
  <2>1. ASSUME NEW i \in 1 .. n
        PROVE  v[i].uid = s[o[i]].uid /\ (v[i].kind \in {"body", "end"} => s[o[i]].op = "RETR")
    BY <1>1, <1>3, <1>4 DEF Replies
  <2>2. ASSUME NEW i \in 1 .. n, NEW j \in 1 .. n, i <= j  PROVE o[i] <= o[j]
    BY <1>1, <1>4, <2>2 DEF Replies
  <2>3. ASSUME NEW i \in 1 .. n - 1
        PROVE  /\ Final(v[i], s[o[i]]) => o[i + 1] = o[i] + 1 /\ v[i + 1].kind \in {"ok", "err"}
               /\ ~Final(v[i], s[o[i]]) =>
                    /\ o[i + 1] = o[i]
                    /\ <<v[i].kind, v[i + 1].kind>> \in {<<"ok", "body">>, <<"body", "end">>}
    <3>1. i \in 1 .. Len(w) - 1 /\ i \in 1 .. n /\ i + 1 \in 1 .. n
      BY <1>2
    <3>2. QED  BY <1>1, <1>3, <1>4, <3>1 DEF Replies
  <2>4. QED  BY <1>3, <2>1, <2>2, <2>3 DEF Replies
<1>6. ReadsOn(o, v, s, r, ls)
  <2>1. SUFFICES ASSUME v # <<>>
                 PROVE  /\ o[1] = 1
                        /\ r = "line" => v[1].kind \in {"ok", "err"}
                        /\ r = "rest" => v[1].kind \in {"body", "end"}
                        /\ r = "data" => \/ v[1].kind = "body" /\ ls = <<>>
                                         \/ v[1].kind = "end" /\ ls = <<s[1].uid>>
    BY DEF ReadsOn
  <2>2. n # 0 /\ w # <<>>
    BY <1>2, <1>3, <2>1, EmptySeq
  <2>3. 1 \in 1 .. n
    BY <1>2, <2>2
  <2>4. QED  BY <1>1, <1>3, <1>4, <2>2, <2>3 DEF ReadsOn
<1>7. Outstanding(o, v, s, r, FALSE, <<>>)
  BY DEF Outstanding
<1>8. QED  BY <1>3, <1>4, <1>5, <1>6, <1>7 DEF AlignedTo, v

\* More commands are sent.
LEMMA AlignedWhenSent ==
  ASSUME NEW w \in Seq(Lines), NEW s \in Seq(Commands), NEW r, NEW ls, NEW on, NEW t \in Seq(Commands),
         AlignedTo(w, s, r, ls, on, t), NEW cs \in Seq(Commands), NEW n \in 0 .. Len(cs), NEW ls2,
         r = "data" /\ w # <<>> => ls2 = ls
  PROVE  AlignedTo(w, s \o SubSeq(cs, 1, n), r, ls2, on, IF on THEN t \o SubSeq(cs, 1, n) ELSE t)
<1>1. PICK of \in [1 .. Len(w) -> 1 .. Len(s)] :
        Replies(of, w, s) /\ ReadsOn(of, w, s, r, ls) /\ Outstanding(of, w, s, r, on, t)
  BY DEF AlignedTo
<1> DEFINE s2 == s \o SubSeq(cs, 1, n)
           t2 == t \o SubSeq(cs, 1, n)
<1>2. /\ s2 \in Seq(Commands) /\ Len(s2) = Len(s) + n /\ Len(s) \in Nat /\ n \in Nat
      /\ \A i \in 1 .. Len(s) : s2[i] = s[i]
      /\ \A i \in 1 .. n : s2[Len(s) + i] = cs[i]
  BY Extended
<1>3. /\ t2 \in Seq(Commands) /\ Len(t2) = Len(t) + n /\ Len(t) \in Nat
      /\ \A i \in 1 .. Len(t) : t2[i] = t[i]
      /\ \A i \in 1 .. n : t2[Len(t) + i] = cs[i]
  BY Extended
<1> HIDE DEF s2, t2
<1>4. Len(w) \in Nat /\ (w # <<>> => Len(w) \in 1 .. Len(w) /\ 1 \in 1 .. Len(w))
  <2>1. Len(w) \in Nat /\ (w # <<>> => Len(w) # 0)
    BY EmptySeq
  <2>2. QED  BY <2>1
<1>5. of \in [1 .. Len(w) -> 1 .. Len(s2)] /\ \A i \in 1 .. Len(w) : of[i] \in 1 .. Len(s) /\ s2[of[i]] = s[of[i]]
  <2>1. 1 .. Len(s) \subseteq 1 .. Len(s2)
    BY <1>2
  <2>2. \A i \in 1 .. Len(w) : of[i] \in 1 .. Len(s)
    OBVIOUS
  <2>3. QED  BY <1>2, <2>1, <2>2
<1>6. Replies(of, w, s2)
  <2>1. \A i \in 1 .. Len(w) - 1 : i \in 1 .. Len(w)
    BY <1>4
  <2>2. QED  BY <1>1, <1>5, <2>1 DEF Replies
<1>7. ReadsOn(of, w, s2, r, ls2)
  BY <1>1, <1>4, <1>5 DEF ReadsOn
<1>8. ASSUME NEW k \in 0 .. Len(s), After(t, s, k)  PROVE After(t2, s2, k)
  <2>1. Len(t) = Len(s) - k /\ \A i \in 1 .. Len(t) : t[i] = s[k + i]
    BY <1>8 DEF After
  <2>2. Len(t2) = Len(s2) - k
    BY <1>2, <1>3, <2>1
  <2>3. ASSUME NEW i \in 1 .. Len(t2)  PROVE t2[i] = s2[k + i]
    <3>1. CASE i <= Len(t)
      <4>1. i \in 1 .. Len(t) /\ k + i \in 1 .. Len(s)
        BY <1>2, <1>3, <2>1, <3>1
      <4>2. QED  BY <1>2, <1>3, <2>1, <4>1
    <3>2. CASE ~(i <= Len(t))
      <4> DEFINE m == i - Len(t)
      <4>1. m \in 1 .. n /\ i = Len(t) + m /\ k + i = Len(s) + m
        BY <1>2, <1>3, <2>1, <3>2
      <4> HIDE DEF m
      <4>2. t2[i] = cs[m] /\ s2[k + i] = cs[m]
        BY <1>2, <1>3, <4>1
      <4>3. QED  BY <4>2
    <3>3. QED  BY <3>1, <3>2
  <2>4. QED  BY <2>2, <2>3 DEF After
<1>9. Outstanding(of, w, s2, r, on, IF on THEN t2 ELSE t)
  <2>1. CASE on /\ w = <<>>
    <3>1. r = "line" /\ After(t, s, 0) /\ 0 \in 0 .. Len(s)
      BY <1>1, <1>2, <2>1 DEF Outstanding
    <3>2. QED  BY <1>8, <2>1, <3>1 DEF Outstanding
  <2>2. CASE on /\ w # <<>>
    <3>1. Final(w[Len(w)], s[of[Len(w)]]) /\ After(t, s, of[Len(w)])
      BY <1>1, <2>2 DEF Outstanding
    <3>2. of[Len(w)] \in 0 .. Len(s) /\ s2[of[Len(w)]] = s[of[Len(w)]]
      BY <1>2, <1>4, <1>5, <2>2
    <3>3. QED  BY <1>8, <2>2, <3>1, <3>2 DEF Outstanding
  <2>3. CASE ~on
    BY <1>1, <2>3 DEF Outstanding
  <2>4. QED  BY <2>1, <2>2, <2>3
<1>10. QED  BY <1>5, <1>6, <1>7, <1>9 DEF AlignedTo, s2, t2

\* A line is read that is not the last of its reply.
LEMMA AlignedWhenRead ==
  ASSUME NEW w \in Seq(Lines), w # <<>>, NEW s \in Seq(Commands), NEW r, NEW ls, NEW on, NEW t,
         AlignedTo(w, s, r, ls, on, t), ~Final(w[1], s[1]), NEW r2 \in {"data", "rest"}, NEW ls2,
         r2 = "data" => ls2 = IF w[1].kind = "ok" THEN <<>> ELSE <<s[1].uid>>
  PROVE  AlignedTo(Tail(w), s, r2, ls2, on, t)
<1>1. PICK of \in [1 .. Len(w) -> 1 .. Len(s)] :
        Replies(of, w, s) /\ ReadsOn(of, w, s, r, ls) /\ Outstanding(of, w, s, r, on, t)
  BY DEF AlignedTo
<1> DEFINE v == Tail(w)
           n == Len(w) - 1
           o == [i \in 1 .. n |-> of[i + 1]]
<1>2. /\ v \in Seq(Lines) /\ Len(v) = n /\ n \in Nat /\ Len(w) = n + 1
      /\ \A i \in 1 .. n : v[i] = w[i + 1]
  BY Tailed
<1>3. \A i \in 1 .. n : i + 1 \in 1 .. Len(w)
  BY <1>2
<1>4. o \in [1 .. n -> 1 .. Len(s)] /\ \A i \in 1 .. n : o[i] = of[i + 1]
  BY <1>3
<1>5. v = <<>> <=> n = 0
  BY <1>2, EmptySeq
<1> HIDE DEF v, o, n
<1>6. of[1] = 1
  BY <1>1 DEF ReadsOn
<1>7. Replies(o, v, s)
  <2>1. ASSUME NEW i \in 1 .. n
        PROVE  v[i].uid = s[o[i]].uid /\ (v[i].kind \in {"body", "end"} => s[o[i]].op = "RETR")
    <3> DEFINE k == i + 1
    <3>1. k \in 1 .. Len(w) /\ v[i] = w[k] /\ o[i] = of[k]
      BY <1>2, <1>3, <1>4
    <3> HIDE DEF k
    <3>2. QED  BY <1>1, <3>1 DEF Replies
  <2>2. ASSUME NEW i \in 1 .. n, NEW j \in 1 .. n, i <= j  PROVE o[i] <= o[j]
    <3>1. i + 1 \in 1 .. Len(w) /\ j + 1 \in 1 .. Len(w)
      BY <1>3
    <3>2. i + 1 <= j + 1
      BY <1>2, <2>2
    <3>3. QED  BY <1>1, <1>4, <3>1, <3>2 DEF Replies
  <2>3. ASSUME NEW i \in 1 .. n - 1
        PROVE  /\ Final(v[i], s[o[i]]) => o[i + 1] = o[i] + 1 /\ v[i + 1].kind \in {"ok", "err"}
               /\ ~Final(v[i], s[o[i]]) =>
                    /\ o[i + 1] = o[i]
                    /\ <<v[i].kind, v[i + 1].kind>> \in {<<"ok", "body">>, <<"body", "end">>}
    <3>1. i + 1 \in 1 .. Len(w) - 1 /\ i \in 1 .. n /\ i + 1 \in 1 .. n
      BY <1>2
    <3> DEFINE k == i + 1
    <3>2. k \in 1 .. Len(w) - 1 /\ v[i] = w[k] /\ o[i] = of[k] /\ v[i + 1] = w[k + 1] /\ o[i + 1] = of[k + 1]
      BY <1>2, <1>4, <3>1
    <3> HIDE DEF k
    <3>3. QED  BY <1>1, <3>2 DEF Replies
  <2>4. QED  BY <1>2, <2>1, <2>2, <2>3 DEF Replies
<1>8. ReadsOn(o, v, s, r2, ls2)
  <2>1. SUFFICES ASSUME v # <<>>
                 PROVE  /\ o[1] = 1
                        /\ r2 = "line" => v[1].kind \in {"ok", "err"}
                        /\ r2 = "rest" => v[1].kind \in {"body", "end"}
                        /\ r2 = "data" => \/ v[1].kind = "body" /\ ls2 = <<>>
                                          \/ v[1].kind = "end" /\ ls2 = <<s[1].uid>>
    BY DEF ReadsOn
  <2>2. 1 \in 1 .. Len(w) - 1 /\ 1 \in 1 .. n
    BY <1>2, <1>5, <2>1
  <2>3. ~Final(w[1], s[of[1]])
    BY <1>6
  <2>4. of[1 + 1] = of[1] /\ <<w[1].kind, w[1 + 1].kind>> \in {<<"ok", "body">>, <<"body", "end">>}
    BY <1>1, <2>2, <2>3 DEF Replies
  <2>5. o[1] = of[1 + 1] /\ v[1] = w[1 + 1]
    BY <1>2, <1>4, <2>2
  <2>6. QED  BY <1>6, <2>4, <2>5
<1>9. Outstanding(o, v, s, r2, on, t)
  <2>1. CASE on
    <3>1. Final(w[Len(w)], s[of[Len(w)]]) /\ After(t, s, of[Len(w)])
      BY <1>1, <2>1 DEF Outstanding
    <3>2. n # 0
      BY <1>2, <1>6, <3>1
    <3>3. n \in 1 .. n /\ v[n] = w[Len(w)] /\ o[n] = of[Len(w)]
      BY <1>2, <1>4, <3>2
    <3>4. QED  BY <1>2, <1>5, <2>1, <3>1, <3>2, <3>3 DEF Outstanding
  <2>2. CASE ~on
    BY <1>1, <2>2 DEF Outstanding
  <2>3. QED  BY <2>1, <2>2
<1>10. QED  BY <1>2, <1>4, <1>7, <1>8, <1>9 DEF AlignedTo, v

\* The last line of a reply is read.
LEMMA AlignedWhenDone ==
  ASSUME NEW w \in Seq(Lines), w # <<>>, NEW s \in Seq(Commands), NEW r, NEW ls, NEW on, NEW t,
         AlignedTo(w, s, r, ls, on, t), Final(w[1], s[1]), NEW ls2
  PROVE  AlignedTo(Tail(w), Tail(s), "line", ls2, on, t)
<1>1. PICK of \in [1 .. Len(w) -> 1 .. Len(s)] :
        Replies(of, w, s) /\ ReadsOn(of, w, s, r, ls) /\ Outstanding(of, w, s, r, on, t)
  BY DEF AlignedTo
<1> DEFINE v == Tail(w)
           z == Tail(s)
           n == Len(w) - 1
           m == Len(s) - 1
           o == [i \in 1 .. n |-> of[i + 1] - 1]
<1>2. /\ v \in Seq(Lines) /\ Len(v) = n /\ n \in Nat /\ Len(w) = n + 1
      /\ \A i \in 1 .. n : v[i] = w[i + 1]
  BY Tailed
<1>3. \A i \in 1 .. n : i + 1 \in 1 .. Len(w)
  BY <1>2
<1>4. v = <<>> <=> n = 0
  BY <1>2, EmptySeq
<1>5. of[1] = 1 /\ 1 \in 1 .. Len(w)
  BY <1>1, <1>2 DEF ReadsOn
<1>6. s # <<>>
  <2>1. of[1] \in 1 .. Len(s)
    BY <1>5
  <2>2. QED  BY <2>1, EmptySeq
<1>7. /\ z \in Seq(Commands) /\ Len(z) = m /\ m \in Nat /\ Len(s) = m + 1
      /\ \A i \in 1 .. m : z[i] = s[i + 1]
  BY <1>6, Tailed
<1> HIDE DEF v, z, n, m
<1>8. \A i \in 1 .. n : of[i + 1] \in 2 .. m + 1
  <2>1. SUFFICES ASSUME NEW i \in 1 .. n  PROVE of[i + 1] \in 2 .. m + 1
    OBVIOUS
  <2>2. 1 \in 1 .. Len(w) - 1 /\ 1 + 1 \in 1 .. Len(w) /\ i + 1 \in 1 .. Len(w) /\ 1 + 1 <= i + 1
    BY <1>2
  <2>3. Final(w[1], s[of[1]])
    BY <1>5
  <2>4. of[1 + 1] = of[1] + 1
    BY <1>1, <2>2, <2>3 DEF Replies
  <2>5. of[1 + 1] <= of[i + 1]
    BY <1>1, <2>2 DEF Replies
  <2>6. of[i + 1] \in 1 .. Len(s) /\ of[1 + 1] \in 1 .. Len(s)
    BY <2>2
  <2>7. QED  BY <1>5, <1>7, <2>4, <2>5, <2>6
<1>9. \A i \in 1 .. n : /\ o[i] = of[i + 1] - 1 /\ o[i] \in 1 .. m /\ of[i + 1] = o[i] + 1
                        /\ z[o[i]] = s[of[i + 1]]
  <2>1. SUFFICES ASSUME NEW i \in 1 .. n
                 PROVE  /\ o[i] = of[i + 1] - 1 /\ o[i] \in 1 .. m /\ of[i + 1] = o[i] + 1
                        /\ z[o[i]] = s[of[i + 1]]
    OBVIOUS
  <2>2. o[i] = of[i + 1] - 1 /\ of[i + 1] \in 2 .. m + 1
    BY <1>8
  <2>3. o[i] \in 1 .. m /\ of[i + 1] = o[i] + 1
    BY <1>7, <2>2
  <2>4. QED  BY <1>7, <2>2, <2>3
<1>10. o \in [1 .. n -> 1 .. m]
  <2>1. \A i \in 1 .. n : of[i + 1] - 1 \in 1 .. m
    BY <1>9
  <2>2. QED  BY <2>1
<1> HIDE DEF o
<1>11. Replies(o, v, z)
  <2>1. ASSUME NEW i \in 1 .. n
        PROVE  v[i].uid = z[o[i]].uid /\ (v[i].kind \in {"body", "end"} => z[o[i]].op = "RETR")
    <3> DEFINE k == i + 1
    <3>1. k \in 1 .. Len(w) /\ v[i] = w[k] /\ z[o[i]] = s[of[k]]
      BY <1>2, <1>3, <1>9
    <3> HIDE DEF k
    <3>2. QED  BY <1>1, <3>1 DEF Replies
  <2>2. ASSUME NEW i \in 1 .. n, NEW j \in 1 .. n, i <= j  PROVE o[i] <= o[j]
    <3>1. i + 1 \in 1 .. Len(w) /\ j + 1 \in 1 .. Len(w) /\ i + 1 <= j + 1
      BY <1>2, <2>2
    <3>2. of[i + 1] <= of[j + 1]
      BY <1>1, <3>1 DEF Replies
    <3>3. o[i] \in 1 .. m /\ o[j] \in 1 .. m /\ of[i + 1] = o[i] + 1 /\ of[j + 1] = o[j] + 1
      BY <1>9
    <3>4. QED  BY <1>7, <3>2, <3>3
  <2>3. ASSUME NEW i \in 1 .. n - 1
        PROVE  /\ Final(v[i], z[o[i]]) => o[i + 1] = o[i] + 1 /\ v[i + 1].kind \in {"ok", "err"}
               /\ ~Final(v[i], z[o[i]]) =>
                    /\ o[i + 1] = o[i]
                    /\ <<v[i].kind, v[i + 1].kind>> \in {<<"ok", "body">>, <<"body", "end">>}
    <3>1. i + 1 \in 1 .. Len(w) - 1 /\ i \in 1 .. n /\ i + 1 \in 1 .. n
      BY <1>2
    <3> DEFINE k == i + 1
    <3>2. k \in 1 .. Len(w) - 1 /\ v[i] = w[k] /\ z[o[i]] = s[of[k]] /\ v[k] = w[k + 1]
      BY <1>2, <1>9, <3>1
    <3>3. o[i] \in 1 .. m /\ o[k] \in 1 .. m /\ of[k] = o[i] + 1 /\ of[k + 1] = o[k] + 1
      BY <1>9, <3>1
    <3> HIDE DEF k
    <3>4. /\ Final(w[k], s[of[k]]) => of[k + 1] = of[k] + 1 /\ w[k + 1].kind \in {"ok", "err"}
          /\ ~Final(w[k], s[of[k]]) =>
               /\ of[k + 1] = of[k]
               /\ <<w[k].kind, w[k + 1].kind>> \in {<<"ok", "body">>, <<"body", "end">>}
      BY <1>1, <3>2 DEF Replies
    <3>5. of[k + 1] = of[k] + 1 <=> o[k] = o[i] + 1
      BY <1>7, <3>3
    <3>6. of[k + 1] = of[k] <=> o[k] = o[i]
      BY <1>7, <3>3
    <3>7. QED  BY <3>2, <3>4, <3>5, <3>6 DEF k
  <2>4. QED  BY <1>2, <2>1, <2>2, <2>3 DEF Replies
<1>12. ReadsOn(o, v, z, "line", ls2)
  <2>1. SUFFICES ASSUME v # <<>>  PROVE o[1] = 1 /\ v[1].kind \in {"ok", "err"}
    BY DEF ReadsOn
  <2>2. 1 \in 1 .. Len(w) - 1 /\ 1 \in 1 .. n
    BY <1>2, <1>4, <2>1
  <2>3. Final(w[1], s[of[1]])
    BY <1>5
  <2>4. of[1 + 1] = of[1] + 1 /\ w[1 + 1].kind \in {"ok", "err"}
    BY <1>1, <2>2, <2>3 DEF Replies
  <2>5. of[1 + 1] = o[1] + 1 /\ o[1] \in 1 .. m /\ v[1] = w[1 + 1]
    BY <1>2, <1>9, <2>2
  <2>6. QED  BY <1>5, <1>7, <2>4, <2>5
<1>13. Outstanding(o, v, z, "line", on, t)
  <2>1. CASE on
    <3>1. Final(w[Len(w)], s[of[Len(w)]]) /\ After(t, s, of[Len(w)])
      BY <1>1, <2>1 DEF Outstanding
    <3>2. ASSUME NEW k \in 1 .. m + 1, After(t, s, k)  PROVE After(t, z, k - 1)
      <4>1. Len(t) = Len(s) - k /\ \A i \in 1 .. Len(t) : t[i] = s[k + i]
        BY <3>2 DEF After
      <4>2. Len(t) = m - (k - 1) /\ Len(t) \in Nat /\ k \in Nat
        BY <1>7, <4>1
      <4>3. ASSUME NEW i \in 1 .. Len(t)  PROVE t[i] = z[k - 1 + i]
        <5>1. k - 1 + i \in 1 .. m /\ (k - 1 + i) + 1 = k + i
          BY <1>7, <4>2
        <5>2. z[k - 1 + i] = s[k + i]
          BY <1>7, <5>1
        <5>3. QED  BY <4>1, <5>2
      <4>4. QED  BY <1>7, <4>2, <4>3 DEF After
    <3>3. CASE n = 0
      <4>1. After(t, s, 1) /\ 1 \in 1 .. m + 1 /\ 1 - 1 = 0
        BY <1>2, <1>5, <1>7, <3>1, <3>3
      <4>2. After(t, z, 0)
        BY <3>2, <4>1
      <4>3. QED  BY <1>4, <2>1, <3>3, <4>2 DEF Outstanding
    <3>4. CASE n # 0
      <4>1. n \in 1 .. n /\ v[n] = w[Len(w)]
        BY <1>2, <3>4
      <4>2. of[Len(w)] = o[n] + 1 /\ o[n] \in 1 .. m /\ z[o[n]] = s[of[Len(w)]]
        BY <1>2, <1>9, <4>1
      <4>3. of[Len(w)] \in 1 .. m + 1 /\ of[Len(w)] - 1 = o[n]
        BY <1>7, <4>2
      <4>4. After(t, z, o[n])
        BY <3>1, <3>2, <4>3
      <4>5. QED  BY <1>2, <1>4, <2>1, <3>1, <3>4, <4>1, <4>2, <4>4 DEF Outstanding
    <3>5. QED  BY <3>3, <3>4
  <2>2. CASE ~on
    BY <1>1, <2>2 DEF Outstanding
  <2>3. QED  BY <2>1, <2>2
<1>14. QED  BY <1>2, <1>7, <1>10, <1>11, <1>12, <1>13 DEF AlignedTo, v, z

\* The lines q are a reply to the command c.
AnswerTo(q, c) ==
  /\ \A i \in 1 .. Len(q) : q[i].uid = c.uid /\ (q[i].kind \in {"body", "end"} => c.op = "RETR")
  /\ Len(q) > 0 /\ q[1].kind \in {"ok", "err"} /\ Final(q[Len(q)], c)
  /\ \A i \in 1 .. Len(q) - 1 :
       /\ ~Final(q[i], c)
       /\ <<q[i].kind, q[i + 1].kind>> \in {<<"ok", "body">>, <<"body", "end">>}

\* The server answers the next command.
LEMMA AlignedWhenAnswered ==
  ASSUME NEW w \in Seq(Lines), NEW s \in Seq(Commands), NEW r, NEW ls, NEW t \in Seq(Commands),
         t # <<>>, AlignedTo(w, s, r, ls, TRUE, t), NEW q \in Seq(Lines), AnswerTo(q, t[1])
  PROVE  AlignedTo(w \o q, s, r, ls, TRUE, Tail(t))
<1>1. PICK of \in [1 .. Len(w) -> 1 .. Len(s)] :
        Replies(of, w, s) /\ ReadsOn(of, w, s, r, ls) /\ Outstanding(of, w, s, r, TRUE, t)
  BY DEF AlignedTo
<1> DEFINE v == w \o q
           n == Len(w)
           m == Len(q)
           k == IF w = <<>> THEN 1 ELSE of[n] + 1
           o == [i \in 1 .. n + m |-> IF i <= n THEN of[i] ELSE k]
<1>2. /\ v \in Seq(Lines) /\ Len(v) = n + m /\ n \in Nat /\ m \in Nat
      /\ \A i \in 1 .. n + m : v[i] = IF i <= n THEN w[i] ELSE q[i - n]
  BY Joined
<1>3. /\ Tail(t) \in Seq(Commands) /\ Len(Tail(t)) = Len(t) - 1 /\ Len(t) \in Nat \ {0}
      /\ \A i \in 1 .. Len(t) - 1 : Tail(t)[i] = t[i + 1]
  BY Tailed
<1>4. w = <<>> <=> n = 0
  BY EmptySeq
<1>5. Len(s) \in Nat
  OBVIOUS
<1> HIDE DEF v, n, m
<1>6. m > 0
  BY DEF AnswerTo, m
<1>7. k \in Nat /\ k >= 1 /\ After(t, s, k - 1) /\ (n > 0 => k = of[n] + 1 /\ of[n] \in 1 .. Len(s))
      /\ (n > 0 => Final(w[n], s[of[n]]))
  <2>1. CASE w = <<>>
    <3>1. k = 1 /\ n = 0 /\ After(t, s, 0)
      BY <1>1, <1>4, <2>1 DEF Outstanding
    <3>2. QED  BY <3>1
  <2>2. CASE w # <<>>
    <3>1. k = of[n] + 1 /\ n > 0 /\ After(t, s, of[n]) /\ Final(w[n], s[of[n]])
      BY <1>1, <1>2, <1>4, <2>2 DEF Outstanding, n
    <3>2. n \in 1 .. Len(w)
      BY <1>2, <3>1 DEF n
    <3>3. of[n] \in 1 .. Len(s)
      BY <3>2
    <3>4. k \in Nat /\ k >= 1 /\ k - 1 = of[n]
      BY <1>5, <3>1, <3>3
    <3>5. QED  BY <3>1, <3>3, <3>4
  <2>3. QED  BY <2>1, <2>2
<1> HIDE DEF k
<1>8. Len(t) = Len(s) - (k - 1) /\ \A i \in 1 .. Len(t) : t[i] = s[k - 1 + i]
  BY <1>7 DEF After
<1>9. k \in 1 .. Len(s) /\ t[1] = s[k]
  <2>1. 1 \in 1 .. Len(t) /\ k - 1 + 1 = k
    BY <1>3, <1>7
  <2>2. k \in 1 .. Len(s)
    BY <1>3, <1>5, <1>7, <1>8
  <2>3. QED  BY <1>8, <2>1, <2>2
<1>10. After(Tail(t), s, k)
  <2>1. Len(Tail(t)) = Len(s) - k
    BY <1>3, <1>5, <1>7, <1>8
  <2>2. ASSUME NEW i \in 1 .. Len(Tail(t))  PROVE Tail(t)[i] = s[k + i]
    <3>1. i \in 1 .. Len(t) - 1 /\ i + 1 \in 1 .. Len(t) /\ k - 1 + (i + 1) = k + i
      BY <1>3, <1>7
    <3>2. Tail(t)[i] = t[i + 1] /\ t[i + 1] = s[k - 1 + (i + 1)]
      BY <1>3, <1>8, <3>1
    <3>3. QED  BY <3>1, <3>2
  <2>3. QED  BY <2>1, <2>2 DEF After
<1>11. \A i \in 1 .. n : /\ i \in 1 .. n + m /\ o[i] = of[i] /\ v[i] = w[i] /\ i \in 1 .. Len(w)
                         /\ of[i] \in 1 .. Len(s) /\ of[i] <= k
  <2>1. SUFFICES ASSUME NEW i \in 1 .. n
                 PROVE  /\ i \in 1 .. n + m /\ o[i] = of[i] /\ v[i] = w[i] /\ i \in 1 .. Len(w)
                        /\ of[i] \in 1 .. Len(s) /\ of[i] <= k
    OBVIOUS
  <2>2. i \in 1 .. n + m /\ i <= n /\ i \in 1 .. Len(w) /\ n \in 1 .. Len(w) /\ n > 0
    BY <1>2 DEF n
  <2>3. o[i] = of[i] /\ v[i] = w[i]
    BY <1>2, <2>2
  <2>4. of[i] <= of[n] /\ of[i] \in 1 .. Len(s)
    BY <1>1, <2>2 DEF Replies
  <2>5. QED  BY <1>5, <1>7, <2>2, <2>3, <2>4
<1>12. \A i \in n + 1 .. n + m : i \in 1 .. n + m /\ o[i] = k /\ v[i] = q[i - n] /\ i - n \in 1 .. m
  <2>1. SUFFICES ASSUME NEW i \in n + 1 .. n + m
                 PROVE  i \in 1 .. n + m /\ o[i] = k /\ v[i] = q[i - n] /\ i - n \in 1 .. m
    OBVIOUS
  <2>2. i \in 1 .. n + m /\ ~(i <= n) /\ i - n \in 1 .. m
    BY <1>2
  <2>3. QED  BY <1>2, <2>2
<1>13. o \in [1 .. n + m -> 1 .. Len(s)]
  <2>1. ASSUME NEW i \in 1 .. n + m, i <= n  PROVE of[i] \in 1 .. Len(s)
    <3>1. i \in 1 .. Len(w)
      BY <1>2, <2>1 DEF n
    <3>2. QED  BY <3>1
  <2>2. QED  BY <1>9, <2>1
<1>14. \A j \in 1 .. m : o[n + j] = k /\ v[n + j] = q[j]
  <2>1. SUFFICES ASSUME NEW j \in 1 .. m  PROVE o[n + j] = k /\ v[n + j] = q[j]
    OBVIOUS
  <2> DEFINE i == n + j
  <2>2. i \in n + 1 .. n + m /\ i - n = j
    BY <1>2
  <2> HIDE DEF i
  <2>3. o[i] = k /\ v[i] = q[i - n]
    BY <1>12, <2>2
  <2>4. QED  BY <2>2, <2>3 DEF i
<1>15. \A i \in 1 .. n + m : i \in 1 .. n \/ i \in n + 1 .. n + m
  BY <1>2
<1> HIDE DEF o
<1>16. Replies(o, v, s)
  <2>1. ASSUME NEW i \in 1 .. n + m
        PROVE  v[i].uid = s[o[i]].uid /\ (v[i].kind \in {"body", "end"} => s[o[i]].op = "RETR")
    <3>1. CASE i \in 1 .. n
      BY <1>1, <1>11, <3>1 DEF Replies
    <3>2. CASE i \in n + 1 .. n + m
      <4> DEFINE j == i - n
      <4>1. j \in 1 .. Len(q) /\ v[i] = q[j] /\ o[i] = k
        BY <1>12, <3>2 DEF m
      <4> HIDE DEF j
      <4>2. QED  BY <1>9, <4>1 DEF AnswerTo
    <3>3. QED  BY <1>15, <3>1, <3>2
  <2>2. ASSUME NEW i \in 1 .. n + m, NEW j \in 1 .. n + m, i <= j  PROVE o[i] <= o[j]
    <3>1. CASE j \in 1 .. n
      <4>1. i \in 1 .. n
        BY <1>2, <2>2, <3>1
      <4>2. o[i] = of[i] /\ o[j] = of[j] /\ i \in 1 .. Len(w) /\ j \in 1 .. Len(w)
        BY <1>11, <3>1, <4>1
      <4>3. QED  BY <1>1, <2>2, <4>2 DEF Replies
    <3>2. CASE j \in n + 1 .. n + m
      <4>1. o[j] = k /\ (o[i] = k \/ o[i] <= k)
        BY <1>11, <1>12, <1>15, <3>2
      <4>2. QED  BY <1>7, <4>1
    <3>3. QED  BY <1>15, <3>1, <3>2
  <2>3. ASSUME NEW i \in 1 .. n + m - 1
        PROVE  /\ Final(v[i], s[o[i]]) => o[i + 1] = o[i] + 1 /\ v[i + 1].kind \in {"ok", "err"}
               /\ ~Final(v[i], s[o[i]]) =>
                    /\ o[i + 1] = o[i]
                    /\ <<v[i].kind, v[i + 1].kind>> \in {<<"ok", "body">>, <<"body", "end">>}
    <3>1. i \in 1 .. n - 1 \/ i = n \/ i \in n + 1 .. n + m - 1
      BY <1>2
    <3>2. CASE i \in 1 .. n - 1
      <4>1. i \in 1 .. Len(w) - 1 /\ i \in 1 .. n /\ i + 1 \in 1 .. n
        BY <1>2, <3>2 DEF n
      <4>2. o[i] = of[i] /\ o[i + 1] = of[i + 1] /\ v[i] = w[i] /\ v[i + 1] = w[i + 1]
        BY <1>11, <4>1
      <4>3. QED  BY <1>1, <4>1, <4>2 DEF Replies
    <3>3. CASE i = n
      <4>1. n \in 1 .. n /\ n > 0 /\ 1 \in 1 .. m
        BY <1>2, <1>6, <3>3
      <4>2. o[n] = of[n] /\ v[n] = w[n] /\ o[n + 1] = k /\ v[n + 1] = q[1]
        BY <1>11, <1>14, <4>1
      <4>3. Final(v[n], s[o[n]]) /\ o[n + 1] = o[n] + 1 /\ v[n + 1].kind \in {"ok", "err"}
        BY <1>7, <4>1, <4>2 DEF AnswerTo
      <4>4. QED  BY <3>3, <4>3
    <3>4. CASE i \in n + 1 .. n + m - 1
      <4> DEFINE j == i - n
      <4>1. /\ j \in 1 .. m /\ j + 1 \in 1 .. m /\ j \in 1 .. m - 1
            /\ i = n + j /\ i + 1 = n + (j + 1)
        BY <1>2, <3>4
      <4> HIDE DEF j
      <4>2. o[i] = k /\ o[i + 1] = k /\ v[i] = q[j] /\ v[i + 1] = q[j + 1] /\ j \in 1 .. Len(q) - 1
        BY <1>14, <4>1 DEF m
      <4>3. QED  BY <1>9, <4>2 DEF AnswerTo
    <3>5. QED  BY <3>1, <3>2, <3>3, <3>4
  <2>4. QED  BY <1>2, <2>1, <2>2, <2>3 DEF Replies
<1>17. ReadsOn(o, v, s, r, ls)
  <2>1. SUFFICES /\ o[1] = 1
                 /\ r = "line" => v[1].kind \in {"ok", "err"}
                 /\ r = "rest" => v[1].kind \in {"body", "end"}
                 /\ r = "data" => \/ v[1].kind = "body" /\ ls = <<>>
                                  \/ v[1].kind = "end" /\ ls = <<s[1].uid>>
    BY DEF ReadsOn
  <2>2. CASE w = <<>>
    <3>1. r = "line" /\ k = 1 /\ 1 \in n + 1 .. n + m /\ 1 - n = 1
      BY <1>1, <1>2, <1>4, <1>6, <2>2 DEF Outstanding, k
    <3>2. o[1] = 1 /\ v[1] = q[1]
      BY <1>12, <3>1
    <3>3. QED  BY <3>1, <3>2 DEF AnswerTo
  <2>3. CASE w # <<>>
    <3>1. 1 \in 1 .. n
      BY <1>2, <1>4, <2>3
    <3>2. o[1] = of[1] /\ v[1] = w[1]
      BY <1>11, <3>1
    <3>3. QED  BY <1>1, <2>3, <3>2 DEF ReadsOn
  <2>4. QED  BY <2>2, <2>3
<1>18. Outstanding(o, v, s, r, TRUE, Tail(t))
  <2>1. m \in 1 .. m /\ n + m # 0
    BY <1>2, <1>6
  <2>2. o[n + m] = k /\ v[n + m] = q[m]
    BY <1>14, <2>1
  <2>3. Final(v[n + m], s[o[n + m]])
    BY <1>9, <2>2 DEF AnswerTo, m
  <2>4. v # <<>>
    BY <1>2, <2>1, EmptySeq
  <2>5. QED  BY <1>2, <1>10, <2>2, <2>3, <2>4 DEF Outstanding
<1>19. QED  BY <1>2, <1>13, <1>16, <1>17, <1>18 DEF AlignedTo, v

-----------------------------------------------------------------------------
(* What is asked for.                                                      *)

LEMMA ItemsAre ==
  ASSUME NEW S, NEW s \in Seq(S)
  PROVE  ToSet(s) = {s[i] : i \in 1 .. Len(s)}
<1>1. DOMAIN s = 1 .. Len(s)
  OBVIOUS
<1>2. QED  BY <1>1 DEF ToSet

\* The items of a sequence that is joined from two.
LEMMA JoinedItems ==
  ASSUME NEW S, NEW a \in Seq(S), NEW b \in Seq(S)
  PROVE  /\ ToSet(a \o b) = ToSet(a) \cup ToSet(b)
         /\ Distinct(a) /\ Distinct(b) /\ ToSet(a) \cap ToSet(b) = {} => Distinct(a \o b)
<1> DEFINE c == a \o b
           n == Len(a)
           m == Len(b)
<1>1. /\ c \in Seq(S) /\ Len(c) = n + m /\ n \in Nat /\ m \in Nat
      /\ \A i \in 1 .. n + m : c[i] = IF i <= n THEN a[i] ELSE b[i - n]
  BY Joined
<1> HIDE DEF c
<1>2. ToSet(a) = {a[i] : i \in 1 .. n} /\ ToSet(b) = {b[i] : i \in 1 .. m} /\ ToSet(c) = {c[i] : i \in 1 .. n + m}
  BY <1>1, ItemsAre
<1> HIDE DEF n, m
<1>3. \A i \in 1 .. n : i \in 1 .. n + m /\ c[i] = a[i]
  BY <1>1
<1>4. \A i \in 1 .. m : n + i \in 1 .. n + m /\ c[n + i] = b[i]
  <2>1. SUFFICES ASSUME NEW i \in 1 .. m  PROVE n + i \in 1 .. n + m /\ c[n + i] = b[i]
    OBVIOUS
  <2>2. n + i \in 1 .. n + m /\ ~(n + i <= n) /\ n + i - n = i
    BY <1>1
  <2>3. QED  BY <1>1, <2>2
<1>5. \A i \in 1 .. n + m : i \in 1 .. n \/ (i - n \in 1 .. m /\ i = n + (i - n))
  BY <1>1
<1>6. ToSet(c) = ToSet(a) \cup ToSet(b)
  <2>1. ASSUME NEW x \in ToSet(c)  PROVE x \in ToSet(a) \cup ToSet(b)
    <3>1. PICK i \in 1 .. n + m : x = c[i]
      BY <1>2
    <3>2. QED  BY <1>2, <1>3, <1>4, <1>5, <3>1
  <2>2. ASSUME NEW x \in ToSet(a)  PROVE x \in ToSet(c)
    BY <1>2, <1>3
  <2>3. ASSUME NEW x \in ToSet(b)  PROVE x \in ToSet(c)
    BY <1>2, <1>4
  <2>4. QED  BY <2>1, <2>2, <2>3
<1>7. ASSUME Distinct(a), Distinct(b), ToSet(a) \cap ToSet(b) = {}  PROVE Distinct(c)
  <2>1. \A i, j \in 1 .. n : a[i] = a[j] => i = j
    BY <1>7 DEF Distinct, n
  <2>2. \A i, j \in 1 .. m : b[i] = b[j] => i = j
    BY <1>7 DEF Distinct, m
  <2>3. \A i \in 1 .. n, j \in 1 .. m : a[i] # b[j]
    BY <1>2, <1>7
  <2>4. ASSUME NEW i \in 1 .. n + m, NEW j \in 1 .. n + m, c[i] = c[j]  PROVE i = j
    <3>1. CASE i \in 1 .. n /\ j \in 1 .. n
      BY <1>3, <2>1, <2>4, <3>1
    <3>2. CASE i \in 1 .. n /\ j \notin 1 .. n
      <4>1. PICK k \in 1 .. m : j = n + k
        BY <1>5, <3>2
      <4>2. QED  BY <1>3, <1>4, <2>3, <2>4, <3>2, <4>1
    <3>3. CASE i \notin 1 .. n /\ j \in 1 .. n
      <4>1. PICK k \in 1 .. m : i = n + k
        BY <1>5, <3>3
      <4>2. QED  BY <1>3, <1>4, <2>3, <2>4, <3>3, <4>1
    <3>4. CASE i \notin 1 .. n /\ j \notin 1 .. n
      <4>1. PICK k \in 1 .. m : i = n + k
        BY <1>5, <3>4
      <4>2. PICK l \in 1 .. m : j = n + l
        BY <1>5, <3>4
      <4>3. QED  BY <1>4, <2>2, <2>4, <4>1, <4>2
    <3>5. QED  BY <3>1, <3>2, <3>3, <3>4
  <2>5. QED  BY <1>1, <2>4 DEF Distinct
<1>8. QED  BY <1>6, <1>7 DEF c

\* The items of the two parts of a sequence.
FirstOf(cs, n) == SubSeq(cs, 1, n)
RestOf(cs, n)  == SubSeq(cs, n + 1, Len(cs))

LEMMA SplitItems ==
  ASSUME NEW S, NEW cs \in Seq(S), NEW n \in 0 .. Len(cs)
  PROVE  /\ FirstOf(cs, n) \in Seq(S) /\ RestOf(cs, n) \in Seq(S)
         /\ ToSet(FirstOf(cs, n)) \subseteq ToSet(cs) /\ ToSet(RestOf(cs, n)) \subseteq ToSet(cs)
         /\ Distinct(cs) => /\ Distinct(FirstOf(cs, n)) /\ Distinct(RestOf(cs, n))
                            /\ ToSet(FirstOf(cs, n)) \cap ToSet(RestOf(cs, n)) = {}
<1> DEFINE a == FirstOf(cs, n)
           b == RestOf(cs, n)
<1>1. Len(cs) \in Nat /\ n \in Nat /\ n <= Len(cs)
  OBVIOUS
<1>2. a \in Seq(S) /\ Len(a) = n /\ \A i \in 1 .. n : a[i] = cs[i]
  BY <1>1 DEF FirstOf
<1>3. b \in Seq(S) /\ Len(b) = Len(cs) - n /\ \A i \in 1 .. Len(cs) - n : b[i] = cs[n + i]
  BY Dropped DEF RestOf
<1> HIDE DEF a, b
<1> DEFINE m == Len(cs) - n
<1>4. \A i \in 1 .. n : i \in 1 .. Len(cs)
  BY <1>1
<1>5. \A i \in 1 .. m : n + i \in 1 .. Len(cs) /\ n + i > n
  BY <1>1
<1>6. ToSet(a) = {a[i] : i \in 1 .. n} /\ ToSet(b) = {b[i] : i \in 1 .. m} /\ ToSet(cs) = {cs[i] : i \in 1 .. Len(cs)}
  <2>1. ToSet(a) = {a[i] : i \in 1 .. n}
    BY <1>2, ItemsAre
  <2>2. ToSet(b) = {b[i] : i \in 1 .. m}
    BY <1>3, ItemsAre
  <2>3. ToSet(cs) = {cs[i] : i \in 1 .. Len(cs)}
    BY ItemsAre
  <2>4. QED  BY <2>1, <2>2, <2>3
<1>7. ToSet(a) \subseteq ToSet(cs)
  BY <1>2, <1>4, <1>6
<1>8. ToSet(b) \subseteq ToSet(cs)
  BY <1>3, <1>5, <1>6
<1>9. ASSUME Distinct(cs)  PROVE Distinct(a) /\ Distinct(b) /\ ToSet(a) \cap ToSet(b) = {}
  <2>1. \A i, j \in 1 .. Len(cs) : cs[i] = cs[j] => i = j
    BY <1>9 DEF Distinct
  <2>2. Distinct(a)
    BY <1>2, <1>4, <2>1 DEF Distinct
  <2>3. Distinct(b)
    <3>1. ASSUME NEW i \in 1 .. m, NEW j \in 1 .. m, b[i] = b[j]  PROVE i = j
      <4>1. n + i = n + j
        BY <1>3, <1>5, <2>1, <3>1
      <4>2. QED  BY <1>1, <4>1
    <3>2. QED  BY <1>3, <3>1 DEF Distinct
  <2>4. \A i \in 1 .. n, j \in 1 .. m : a[i] # b[j]
    <3>1. SUFFICES ASSUME NEW i \in 1 .. n, NEW j \in 1 .. m, a[i] = b[j]  PROVE FALSE
      OBVIOUS
    <3>2. i = n + j
      BY <1>2, <1>3, <1>4, <1>5, <2>1, <3>1
    <3>3. QED  BY <1>1, <3>2
  <2>5. QED  BY <1>6, <2>2, <2>3, <2>4
<1>10. QED  BY <1>2, <1>3, <1>7, <1>8, <1>9 DEF a, b

LEMMA TailItems ==
  ASSUME NEW S, NEW s \in Seq(S), s # <<>>
  PROVE  /\ ToSet(Tail(s)) \subseteq ToSet(s) /\ s[1] \in ToSet(s)
         /\ Distinct(s) => Distinct(Tail(s)) /\ s[1] \notin ToSet(Tail(s))
<1> DEFINE t == Tail(s)
           n == Len(s) - 1
<1>1. /\ t \in Seq(S) /\ Len(t) = n /\ Len(s) \in Nat \ {0}
      /\ \A i \in 1 .. n : t[i] = s[i + 1]
  BY Tailed
<1>2. \A i \in 1 .. n : i + 1 \in 1 .. Len(s) /\ i + 1 # 1
  BY <1>1
<1>3. 1 \in 1 .. Len(s)
  BY <1>1
<1> HIDE DEF t
<1>4. ToSet(t) = {t[i] : i \in 1 .. n} /\ ToSet(s) = {s[i] : i \in 1 .. Len(s)}
  BY <1>1 DEF ToSet
<1>5. ToSet(t) \subseteq ToSet(s) /\ s[1] \in ToSet(s)
  BY <1>1, <1>2, <1>3, <1>4
<1>6. ASSUME Distinct(s)  PROVE Distinct(t) /\ s[1] \notin ToSet(t)
  <2>1. \A i, j \in 1 .. Len(s) : s[i] = s[j] => i = j
    BY <1>6 DEF Distinct
  <2>2. ASSUME NEW i \in 1 .. n, NEW j \in 1 .. n, t[i] = t[j]  PROVE i = j
    <3>1. i + 1 = j + 1
      BY <1>1, <1>2, <2>1, <2>2
    <3>2. QED  BY <1>1, <3>1
  <2>3. \A i \in 1 .. n : t[i] # s[1]
    BY <1>1, <1>2, <1>3, <2>1
  <2>4. QED  BY <1>1, <1>4, <2>2, <2>3 DEF Distinct
<1>7. QED  BY <1>5, <1>6 DEF t

\* Nothing is asked for that was not, when commands are issued ...
LEMMA IssueAsks ==
  ASSUME EngineInv, NEW cs \in Seq(Commands), Issue(cs)
  PROVE  /\ Asked' \subseteq Asked \cup ToSet(cs)
         /\ ToSet(queue') \subseteq ToSet(queue) \cup ToSet(cs)
         /\ ToSet(toServer') \subseteq ToSet(toServer) \cup ToSet(cs)
         /\ ToSet(cs) \cap Asked = {} /\ Distinct(cs) /\ Distinct(sent) /\ Distinct(queue)
            /\ ToSet(sent) \cap ToSet(queue) = {}
              => Distinct(sent') /\ Distinct(queue') /\ ToSet(sent') \cap ToSet(queue') = {}
<1>1. PICK n \in 0 .. Len(cs) : IssueSends(cs, n)
  BY IssueDoes DEF EngineInv
<1>2. sent \in Seq(Commands) /\ queue \in Seq(Commands) /\ toServer \in Seq(Commands)
  BY DEF EngineInv, TypeOK, StreamTypes
<1> DEFINE a == FirstOf(cs, n)
           b == RestOf(cs, n)
<1>3. sent' = sent \o a /\ queue' = queue \o b /\ (toServer' = toServer \o a \/ toServer' = toServer)
  BY <1>1 DEF IssueSends, Sends, FirstOf, RestOf
<1>4. /\ a \in Seq(Commands) /\ b \in Seq(Commands)
      /\ ToSet(a) \subseteq ToSet(cs) /\ ToSet(b) \subseteq ToSet(cs)
      /\ Distinct(cs) => Distinct(a) /\ Distinct(b) /\ ToSet(a) \cap ToSet(b) = {}
  BY SplitItems
<1> HIDE DEF a, b
<1>5. /\ ToSet(sent') = ToSet(sent) \cup ToSet(a)
      /\ Distinct(sent) /\ Distinct(a) /\ ToSet(sent) \cap ToSet(a) = {} => Distinct(sent')
  BY <1>2, <1>3, <1>4, JoinedItems
<1>6. /\ ToSet(queue') = ToSet(queue) \cup ToSet(b)
      /\ Distinct(queue) /\ Distinct(b) /\ ToSet(queue) \cap ToSet(b) = {} => Distinct(queue')
  BY <1>2, <1>3, <1>4, JoinedItems
<1>7. ToSet(toServer') \subseteq ToSet(toServer) \cup ToSet(a)
  <2>1. ToSet(toServer \o a) = ToSet(toServer) \cup ToSet(a)
    BY <1>2, <1>4, JoinedItems
  <2>2. QED  BY <1>3, <2>1
<1>8. QED  BY <1>4, <1>5, <1>6, <1>7 DEF Asked

\* ... or when the next command becomes current.
LEMMA NextAsks ==
  ASSUME EngineInv, sent # <<>>, NextCurrent
  PROVE  /\ Asked' \subseteq Asked /\ ToSet(queue') \subseteq ToSet(queue)
         /\ ToSet(toServer') \subseteq ToSet(toServer) \cup ToSet(queue)
         /\ Distinct(sent) /\ Distinct(queue) /\ ToSet(sent) \cap ToSet(queue) = {}
              => /\ Distinct(sent') /\ Distinct(queue') /\ ToSet(sent') \cap ToSet(queue') = {}
                 /\ sent[1] \notin Asked'
<1>1. sent \in Seq(Commands) /\ queue \in Seq(Commands) /\ toServer \in Seq(Commands)
  BY DEF EngineInv, TypeOK, StreamTypes
<1>2. CASE FailAll /\ sentlen' = sentlen - 1 /\ toServer' = toServer
  <2>1. sent' = <<>> /\ queue' = <<>> /\ toServer' = toServer
    BY <1>2 DEF FailAll
  <2>2. ToSet(sent') = {} /\ ToSet(queue') = {} /\ Distinct(sent') /\ Distinct(queue')
    BY <2>1 DEF ToSet, Distinct
  <2>3. QED  BY <2>1, <2>2 DEF Asked
<1>3. CASE \E n \in 0 .. Len(queue) : NextSends(n)
  <2>1. PICK n \in 0 .. Len(queue) : NextSends(n)
    BY <1>3
  <2> DEFINE a == FirstOf(queue, n)
             b == RestOf(queue, n)
             t == Tail(sent)
  <2>2. sent' = t \o a /\ queue' = b /\ (toServer' = toServer \o a \/ toServer' = toServer)
    BY <2>1 DEF NextSends, Sends, FirstOf, RestOf
  <2>3. /\ a \in Seq(Commands) /\ b \in Seq(Commands)
        /\ ToSet(a) \subseteq ToSet(queue) /\ ToSet(b) \subseteq ToSet(queue)
        /\ Distinct(queue) => Distinct(a) /\ Distinct(b) /\ ToSet(a) \cap ToSet(b) = {}
    BY <1>1, SplitItems
  <2>4. /\ t \in Seq(Commands) /\ ToSet(t) \subseteq ToSet(sent) /\ sent[1] \in ToSet(sent)
        /\ Distinct(sent) => Distinct(t) /\ sent[1] \notin ToSet(t)
    BY <1>1, Tailed, TailItems
  <2> HIDE DEF a, b, t
  <2>5. /\ ToSet(sent') = ToSet(t) \cup ToSet(a)
        /\ Distinct(t) /\ Distinct(a) /\ ToSet(t) \cap ToSet(a) = {} => Distinct(sent')
    BY <2>2, <2>3, <2>4, JoinedItems
  <2>6. ToSet(toServer') \subseteq ToSet(toServer) \cup ToSet(a)
    <3>1. ToSet(toServer \o a) = ToSet(toServer) \cup ToSet(a)
      BY <1>1, <2>3, JoinedItems
    <3>2. QED  BY <2>2, <3>1
  <2>7. QED  BY <2>2, <2>3, <2>4, <2>5, <2>6 DEF Asked
<1>4. QED  BY <1>2, <1>3, NextDoes DEF EngineInv

-----------------------------------------------------------------------------
(* A file that is marked as complete is complete.                          *)

LEMMA RetrIs ==
  ASSUME NEW c \in Commands, c.op = "RETR"
  PROVE  c.uid \in Uids /\ c = Retr(c.uid)
BY DEF Commands, Quit, Retr

LEMMA AlignedKept ==
  ASSUME Aligned, UNCHANGED <<wire, sent, reading, up, toServer>>,
         reading = "data" => cache'[sent[1].uid].lines = cache[sent[1].uid].lines
  PROVE  Aligned'
<1> DEFINE ls == cache[sent[1].uid].lines
           ls2 == cache'[sent[1].uid].lines
<1>1. PICK of \in [1 .. Len(wire) -> 1 .. Len(sent)] :
        Replies(of, wire, sent) /\ ReadsOn(of, wire, sent, reading, ls)
        /\ Outstanding(of, wire, sent, reading, up, toServer)
  BY DEF Aligned, AlignedTo
<1>2. reading = "data" => ls2 = ls
  OBVIOUS
<1> HIDE DEF ls, ls2
<1>3. ReadsOn(of, wire, sent, reading, ls2)
  BY <1>1, <1>2 DEF ReadsOn
<1>4. AlignedTo(wire, sent, reading, ls2, up, toServer)
  BY <1>1, <1>3 DEF AlignedTo
<1>5. QED  BY <1>4 DEF Aligned, ls2

LEMMA FileUntouched ==
  ASSUME EngineInv, reading = "data", NEW S \in SUBSET Uids, Emptied(S),
         \A u \in S : Retr(u) \notin ToSet(sent)
  PROVE  cache'[sent[1].uid].lines = cache[sent[1].uid].lines
<1>1. sent # <<>> /\ sent[1].op = "RETR" /\ sent \in Seq(Commands)
  BY DEF EngineInv, ReadsData, TypeOK, StreamTypes
<1>2. sent[1] \in Commands /\ sent[1] \in ToSet(sent)
  BY <1>1, Tailed, TailItems
<1>3. sent[1].uid \in Uids /\ sent[1].uid \notin S
  BY <1>1, <1>2, RetrIs
<1>4. QED  BY <1>3 DEF Emptied

LEMMA IssueAligned ==
  ASSUME EngineInv, Aligned, NEW cs \in Seq(Commands), Issue(cs), UNCHANGED <<wire, reading, up>>,
         reading = "data" => cache'[sent[1].uid].lines = cache[sent[1].uid].lines
  PROVE  Aligned'
<1> DEFINE ls == cache[sent[1].uid].lines
           ls2 == cache'[sent'[1].uid].lines
<1>1. PICK n \in 0 .. Len(cs) : IssueSends(cs, n)
  BY IssueDoes DEF EngineInv
<1>2. /\ sent \in Seq(Commands) /\ toServer \in Seq(Commands) /\ wire \in Seq(Lines)
  BY DEF EngineInv, TypeOK, StreamTypes
<1>3. /\ sent' = sent \o SubSeq(cs, 1, n)
      /\ toServer' = IF up THEN toServer \o SubSeq(cs, 1, n) ELSE toServer
  BY <1>1 DEF IssueSends, Sends
<1>4. sent # <<>> => sent'[1] = sent[1]
  <2>1. Len(sent) \in Nat /\ \A i \in 1 .. Len(sent) : sent'[i] = sent[i]
    BY <1>2, <1>3, Extended
  <2>2. QED  BY <1>2, <2>1, EmptySeq
<1>5. reading = "data" => ls2 = ls
  BY <1>4 DEF EngineInv, ReadsData
<1>6. AlignedTo(wire, sent, reading, ls, up, toServer)
  BY DEF Aligned
<1> HIDE DEF ls, ls2
<1>7. AlignedTo(wire, sent', reading, ls2, up, toServer')
  BY <1>2, <1>3, <1>5, <1>6, AlignedWhenSent
<1>8. QED  BY <1>7 DEF Aligned, ls2

\* After the last line of a reply the next command becomes current, or all fail.
LEMMA NextAligned ==
  ASSUME EngineInv, Aligned, sent # <<>>, wire # <<>>, Final(wire[1], sent[1]), NextCurrent,
         wire' = Tail(wire), up' = up
  PROVE  Aligned' \/ FailAll
<1> DEFINE ls2 == cache'[sent'[1].uid].lines
<1>1. sent \in Seq(Commands) /\ toServer \in Seq(Commands) /\ wire \in Seq(Lines) /\ queue \in Seq(Commands)
  BY DEF EngineInv, TypeOK, StreamTypes
<1>2. Tail(wire) \in Seq(Lines) /\ Tail(sent) \in Seq(Commands)
  BY <1>1, Tailed
<1>3. AlignedTo(wire, sent, reading, cache[sent[1].uid].lines, up, toServer)
  BY DEF Aligned
<1> HIDE DEF ls2
<1>4. AlignedTo(Tail(wire), Tail(sent), "line", ls2, up, toServer)
  BY <1>1, <1>3, AlignedWhenDone
<1>5. CASE \E n \in 0 .. Len(queue) : NextSends(n)
  <2>1. PICK n \in 0 .. Len(queue) : NextSends(n)
    BY <1>5
  <2>2. /\ sent' = Tail(sent) \o SubSeq(queue, 1, n)
        /\ toServer' = IF up THEN toServer \o SubSeq(queue, 1, n) ELSE toServer
        /\ reading' = "line"
    BY <2>1 DEF NextSends, Sends
  <2> DEFINE v == Tail(wire)
             z == Tail(sent)
  <2> HIDE DEF v, z
  <2>3. AlignedTo(v, z \o SubSeq(queue, 1, n), "line", ls2, up,
                  IF up THEN toServer \o SubSeq(queue, 1, n) ELSE toServer)
    BY <1>1, <1>2, <1>4, AlignedWhenSent DEF v, z
  <2>4. AlignedTo(wire', sent', reading', ls2, up', toServer')
    BY <2>2, <2>3 DEF v, z
  <2>5. QED  BY <2>4 DEF Aligned, ls2
<1>6. QED  BY <1>5, NextDoes DEF EngineInv

\* Everything failed.
LEMMA FailedSpoils ==
  ASSUME FailAll, at \in {"await", "retrieve", "sync", "dispose", "quit"}, at' = at
  PROVE  Spoiled'
<1>1. sent' = <<>> /\ queue' = <<>> /\ ioerror' = TRUE /\ reading' = "line"
  BY DEF FailAll
<1>2. ToSet(sent') = {} /\ ToSet(queue') = {}
  BY <1>1 DEF ToSet
<1>3. QED  BY <1>1, <1>2 DEF Spoiled, Asked

LEMMA SpoiledReads ==
  ASSUME EngineInv, Spoiled, Read, UNCHANGED jobVars,
         at \in {"await", "retrieve", "sync", "dispose", "quit"}
  PROVE  Spoiled' /\ UNCHANGED <<cache, err>> /\ Asked' \subseteq Asked
<1>1. reading = "line" /\ sent # <<>> /\ sent \in Seq(Commands) /\ at' = at
  BY DEF Spoiled, Read, jobVars, EngineInv, TypeOK, StreamTypes
<1>2. Head(sent) \in Asked
  BY <1>1, Tailed, TailItems DEF Asked
<1>3. Head(sent).op # "RETR" /\ at \notin {"await", "retrieve"}
  BY <1>1, <1>2 DEF Spoiled
<1>4. CASE ReadReply
  <2>1. NextCurrent /\ UNCHANGED <<cache, err>>
    BY <1>3, <1>4 DEF ReadReply
  <2>2. Asked' \subseteq Asked
    BY <1>1, <2>1, NextAsks
  <2>3. reading' = "line"
    BY <1>1, <2>1, NextTyped DEF EngineInv, NextCurrent, FailAll
  <2>4. QED  BY <1>1, <1>3, <2>1, <2>2, <2>3 DEF Spoiled
<1>5. CASE ReadNoReply
  <2>1. FailAll /\ UNCHANGED <<cache, err>>
    BY <1>5 DEF ReadNoReply
  <2>2. Asked' = {}
    BY <2>1 DEF FailAll, Asked, ToSet
  <2>3. QED  BY <1>1, <2>1, <2>2, FailedSpoils
<1>6. QED  BY <1>1, <1>4, <1>5 DEF Read, ReadBody, ReadRest, ReadNoData

LEMMA FirstLine ==
  ASSUME Aligned, wire # <<>>, wire \in Seq(Lines)
  PROVE  /\ wire[1].uid = sent[1].uid
         /\ reading = "line" => wire[1].kind \in {"ok", "err"}
         /\ reading = "rest" => wire[1].kind \in {"body", "end"}
         /\ reading = "data" => \/ wire[1].kind = "body" /\ cache[sent[1].uid].lines = <<>>
                                \/ wire[1].kind = "end" /\ cache[sent[1].uid].lines = <<sent[1].uid>>
<1>1. PICK of \in [1 .. Len(wire) -> 1 .. Len(sent)] :
        Replies(of, wire, sent) /\ ReadsOn(of, wire, sent, reading, cache[sent[1].uid].lines)
  BY DEF Aligned, AlignedTo
<1>2. of[1] = 1
  BY <1>1 DEF ReadsOn
<1>3. 1 \in 1 .. Len(wire)
  <2>1. Len(wire) \in Nat \ {0}
    BY Tailed
  <2>2. QED  BY <2>1
<1>4. QED  BY <1>1, <1>2, <1>3 DEF Replies, ReadsOn

LEMMA NoLineLeft == ASSUME Aligned, ~up  PROVE toServer = <<>>
BY DEF Aligned, AlignedTo, Outstanding

\* A line read in step leaves the engine in step, or spoils it.
LEMMA ReadAligned ==
  ASSUME EngineInv, Aligned, Retrieving, Read, UNCHANGED jobVars, "shift" \notin Faults,
         at \in {"await", "retrieve", "sync", "dispose", "quit"},
         at \in {"await", "retrieve"} => Retr(uid) \in Asked
  PROVE  (Aligned \/ Spoiled)'
<1>1. /\ sent # <<>> /\ sent \in Seq(Commands) /\ wire \in Seq(Lines) /\ queue \in Seq(Commands)
      /\ toServer \in Seq(Commands) /\ up \in BOOLEAN /\ at' = at
      /\ cache \in [Uids -> Files]
  BY DEF Read, jobVars, EngineInv, TypeOK, StreamTypes, EngineTypes
<1>2. /\ Head(sent) = sent[1] /\ sent[1] \in Commands
      /\ wire # <<>> => Head(wire) = wire[1] /\ wire[1] \in Lines /\ Tail(wire) \in Seq(Lines)
  BY <1>1, Tailed
<1>3. wire # <<>> =>
         /\ wire[1].uid = sent[1].uid
         /\ reading = "line" => wire[1].kind \in {"ok", "err"}
         /\ reading = "rest" => wire[1].kind \in {"body", "end"}
         /\ reading = "data" => \/ wire[1].kind = "body" /\ cache[sent[1].uid].lines = <<>>
                                \/ wire[1].kind = "end" /\ cache[sent[1].uid].lines = <<sent[1].uid>>
  BY <1>1, FirstLine
<1>4. ASSUME FailAll  PROVE Spoiled'
  BY <1>1, <1>4, FailedSpoils
<1>5. ASSUME wire # <<>>, Final(wire[1], sent[1]), NextCurrent, wire' = Tail(wire), up' = up
      PROVE  Aligned' \/ Spoiled'
  BY <1>1, <1>4, <1>5, NextAligned
<1>6. ASSUME wire # <<>>, ~Final(wire[1], sent[1]), wire' = Tail(wire), UNCHANGED <<sent, toServer, up>>,
             reading' \in {"data", "rest"},
             reading' = "data" =>
               cache'[sent[1].uid].lines = IF wire[1].kind = "ok" THEN <<>> ELSE <<sent[1].uid>>
      PROVE  Aligned'
  <2> DEFINE ls == cache[sent[1].uid].lines
             ls2 == cache'[sent[1].uid].lines
  <2>1. AlignedTo(wire, sent, reading, ls, up, toServer)
    BY DEF Aligned
  <2>2. reading' = "data" => ls2 = IF wire[1].kind = "ok" THEN <<>> ELSE <<sent[1].uid>>
    BY <1>6
  <2> HIDE DEF ls, ls2
  <2>3. AlignedTo(Tail(wire), sent, reading', ls2, up, toServer)
    BY <1>1, <1>6, <2>1, <2>2, AlignedWhenRead
  <2>4. QED  BY <1>6, <2>3 DEF Aligned, ls2
<1>7. CASE ReadReply
  <2>1. reading = "line" /\ wire # <<>> /\ wire' = Tail(wire) /\ up' = up
    BY <1>7 DEF ReadReply
  <2>2. CASE wire[1].kind = "ok" /\ sent[1].op = "RETR"
    <3>1. /\ \/ File(sent[1].uid, "*", <<>>) /\ reading' = "data"
             \/ reading' = "rest"
          /\ UNCHANGED <<sent, toServer>>
      BY <1>2, <1>7, <2>1, <2>2 DEF ReadReply
    <3>2. sent[1].uid \in Uids
      BY <1>2, <2>2, RetrIs
    <3>3. reading' = "data" => cache'[sent[1].uid].lines = <<>>
      BY <1>1, <3>1, <3>2 DEF File
    <3>4. ~Final(wire[1], sent[1])
      BY <2>2 DEF Final
    <3>5. QED  BY <1>6, <2>1, <2>2, <3>1, <3>3, <3>4
  <2>3. CASE ~(wire[1].kind = "ok" /\ sent[1].op = "RETR")
    <3>1. NextCurrent
      BY <1>2, <1>7, <2>1, <2>3 DEF ReadReply
    <3>2. Final(wire[1], sent[1])
      BY <1>3, <2>1, <2>3 DEF Final
    <3>3. QED  BY <1>5, <2>1, <3>1, <3>2
  <2>4. QED  BY <2>2, <2>3
<1>8. CASE ReadNoReply
  BY <1>4, <1>8 DEF ReadNoReply
<1>9. CASE ReadBody
  <2>1. reading = "data" /\ wire # <<>> /\ wire' = Tail(wire) /\ up' = up
    BY <1>9 DEF ReadBody
  <2>2. CASE wire[1].kind = "end"
    <3>1. NextCurrent
      BY <1>2, <1>9, <2>1, <2>2 DEF ReadBody
    <3>2. QED  BY <1>5, <2>1, <2>2, <3>1 DEF Final
  <2>3. CASE wire[1].kind # "end"
    <3>1. wire[1].kind = "body" /\ cache[sent[1].uid].lines = <<>> /\ wire[1].uid = sent[1].uid
      BY <1>3, <2>1, <2>3
    <3>2. /\ \/ /\ File(sent[1].uid, "*", Append(cache[sent[1].uid].lines, wire[1].uid))
                /\ UNCHANGED reading
             \/ reading' = "rest"
          /\ UNCHANGED <<sent, toServer>>
      BY <1>2, <1>9, <2>1, <2>3 DEF ReadBody
    <3>3. sent[1].uid \in Uids
      <4>1. sent[1].op = "RETR"
        BY <2>1 DEF EngineInv, ReadsData
      <4>2. QED  BY <1>2, <4>1, RetrIs
    <3>4. Append(<<>>, sent[1].uid) = <<sent[1].uid>>
      OBVIOUS
    <3>5. reading' = "data" => cache'[sent[1].uid].lines = <<sent[1].uid>>
      BY <1>1, <3>1, <3>2, <3>3, <3>4 DEF File
    <3>6. ~Final(wire[1], sent[1])
      BY <3>1 DEF Final
    <3>7. QED  BY <1>6, <2>1, <3>1, <3>2, <3>5, <3>6
  <2>4. QED  BY <2>2, <2>3
<1>10. CASE ReadRest
  <2>1. reading = "rest" /\ wire # <<>> /\ wire' = Tail(wire) /\ up' = up
    BY <1>10 DEF ReadRest
  <2>2. CASE wire[1].kind = "end"
    <3>1. NextCurrent
      BY <1>2, <1>10, <2>1, <2>2 DEF ReadRest
    <3>2. QED  BY <1>5, <2>1, <2>2, <3>1 DEF Final
  <2>3. CASE wire[1].kind # "end"
    <3>1. UNCHANGED <<sent, toServer, reading>>
      BY <1>2, <1>10, <2>1, <2>3 DEF ReadRest
    <3>2. wire[1].kind = "body"
      BY <1>3, <2>1, <2>3
    <3>3. ~Final(wire[1], sent[1])
      BY <3>2 DEF Final
    <3>4. QED  BY <1>6, <2>1, <3>1, <3>3
  <2>4. QED  BY <2>2, <2>3
<1>11. CASE ReadNoData
  <2>1. NextCurrent /\ UNCHANGED <<up, wire, err>> /\ FillFails
        /\ (Len(sent) > 1 => ~up /\ wire = <<>>)
    BY <1>11 DEF ReadNoData
  <2>2. CASE FailAll
    BY <1>4, <2>2
  <2>3. CASE \E n \in 0 .. Len(queue) : NextSends(n)
    <3>1. PICK n \in 0 .. Len(queue) : NextSends(n)
      BY <2>3
    <3>2. /\ sent' = Tail(sent) \o SubSeq(queue, 1, n)
          /\ toServer' = IF up THEN toServer \o SubSeq(queue, 1, n) ELSE toServer
          /\ queue' = SubSeq(queue, n + 1, Len(queue))
          /\ reading' = "line" /\ (n > 0 => ~cancelled) /\ (Tail(sent) = <<>> /\ queue # <<>> => n > 0)
      BY <3>1 DEF NextSends, Sends
    <3>3. CASE ~up /\ wire = <<>>
      <4>1. wire' = <<>> /\ up' = FALSE /\ toServer' = <<>>
        BY <1>1, <2>1, <3>2, <3>3, NoLineLeft
      <4>2. sent' \in Seq(Commands)
        <5>1. pipe' = pipe
          BY <1>11 DEF ReadNoData
        <5>2. QED  BY <1>1, <2>1, <5>1, NextTyped DEF EngineInv, EngineTyped
      <4>3. AlignedTo(<<>>, sent', reading', cache'[sent'[1].uid].lines, FALSE, <<>>)
        BY <4>2, AlignedWhenEmpty
      <4>4. Aligned'
        BY <4>1, <4>3 DEF Aligned
      <4>5. QED  BY <4>4
    <3>4. CASE ~(~up /\ wire = <<>>)
      <4>1. cancelled /\ ~(Len(sent) > 1)
        BY <2>1, <3>4 DEF FillFails
      <4>2. Tail(sent) = <<>>
        BY <1>1, <4>1, Tailed
      <4>3. n = 0 /\ queue = <<>>
        BY <1>1, <3>2, <4>1, <4>2
      <4>4. sent' = <<>> /\ queue' = <<>>
        BY <3>2, <4>2, <4>3
      <4>5. ToSet(sent') = {} /\ ToSet(queue') = {}
        BY <4>4 DEF ToSet
      <4>6. at \in {"await", "retrieve"} => err[uid]
        BY DEF Retrieving, Getting, Retr
      <4>7. uid' = uid
        BY DEF uid, jobVars
      <4>8. Spoiled'
        BY <1>1, <2>1, <3>2, <4>4, <4>5, <4>6, <4>7 DEF Spoiled, Asked
      <4>9. QED  BY <4>8
    <3>5. QED  BY <3>3, <3>4
  <2>4. QED  BY <1>1, <2>1, <2>2, <2>3, NextDoes DEF EngineInv
<1>12. QED  BY <1>7, <1>8, <1>9, <1>10, <1>11 DEF Read

\* cmd_tocache writes to the file of u.
Writes(u) ==
  \/ \E ls : File(u, "*", ls)
  \/ File(u, "#", <<u>>)

\* What reading does to the commands, the errors and the files.
LEMMA ReadDoes ==
  ASSUME EngineInv, Aligned, Read
  PROVE  /\ UNCHANGED <<sent, queue>> \/ (sent' = <<>> /\ queue' = <<>>) \/ NextCurrent
         /\ \/ err' = err
            \/ NextCurrent /\ sent[1].op = "RETR" /\ err' = [err EXCEPT ![sent[1].uid] = FALSE]
         /\ \/ cache' = cache
            \/ sent[1].op = "RETR" /\ Writes(sent[1].uid)
<1>1. sent # <<>> /\ sent \in Seq(Commands) /\ wire \in Seq(Lines)
  BY DEF Read, EngineInv, TypeOK, StreamTypes
<1>2. Head(sent) = sent[1] /\ (wire # <<>> => Head(wire) = wire[1])
  BY <1>1, Tailed
<1>3. CASE ReadReply
  <2>1. err' = err
    BY <1>3 DEF ReadReply
  <2>2. CASE Head(wire).kind = "ok" /\ Head(sent).op = "RETR"
    BY <1>2, <1>3, <2>1, <2>2 DEF ReadReply, Writes
  <2>3. CASE ~(Head(wire).kind = "ok" /\ Head(sent).op = "RETR")
    BY <1>3, <2>1, <2>3 DEF ReadReply
  <2>4. QED  BY <2>2, <2>3
<1>4. CASE ReadNoReply
  BY <1>4 DEF ReadNoReply, FailAll
<1>5. CASE ReadBody
  <2>1. wire # <<>> /\ reading = "data" /\ sent[1].op = "RETR"
    BY <1>5 DEF ReadBody, EngineInv, ReadsData
  <2>2. wire[1].kind = "end" => cache[sent[1].uid].lines = <<sent[1].uid>>
    BY <1>1, <2>1, FirstLine
  <2>3. CASE wire[1].kind = "end"
    BY <1>2, <1>5, <2>1, <2>2, <2>3 DEF ReadBody, Writes
  <2>4. CASE wire[1].kind # "end"
    <3>1. /\ \/ File(sent[1].uid, "*", Append(cache[sent[1].uid].lines, wire[1].uid))
             \/ UNCHANGED cache
          /\ UNCHANGED <<sent, queue, err>>
      BY <1>2, <1>5, <2>1, <2>4 DEF ReadBody
    <3>2. QED  BY <2>1, <3>1 DEF Writes
  <2>5. QED  BY <2>3, <2>4
<1>6. CASE ReadRest
  BY <1>6 DEF ReadRest
<1>7. CASE ReadNoData
  BY <1>7 DEF ReadNoData
<1>8. QED  BY <1>3, <1>4, <1>5, <1>6, <1>7 DEF Read

LEMMA ContainsIs ==
  ASSUME NEW S, NEW s \in Seq(S), NEW e
  PROVE  Contains(s, e) <=> e \in ToSet(s)
BY ItemsAre DEF Contains

LEMMA FilesStayOwn ==
  ASSUME CachedIsOwn, cache \in [Uids -> Files], NEW u \in Uids, Writes(u)
  PROVE  CachedIsOwn'
BY DEF CachedIsOwn, Writes, File

\* camel_pop3_engine_iterate.
LEMMA IterateCached ==
  ASSUME EngineInv, CacheInv, Iterate, "shift" \notin Faults
  PROVE  CacheInv'
<1>1. Read /\ UNCHANGED jobVars /\ at \in {"await", "retrieve", "sync", "dispose", "quit"}
  BY DEF Iterate
<1>2. uid' = uid /\ at' = at /\ cmd' = cmd /\ todo' = todo /\ failed' = failed
  BY <1>1 DEF uid, jobVars
<1>3. sent \in Seq(Commands) /\ queue \in Seq(Commands) /\ sent # <<>>
      /\ cache \in [Uids -> Files] /\ err \in [Uids -> BOOLEAN]
  BY <1>1 DEF Read, EngineInv, TypeOK, StreamTypes, EngineTypes
<1>4. at \in {"await", "retrieve"} => Retr(uid) \in Asked
  <2>1. at \in {"await", "retrieve"} => Pending(Retr(uid))
    BY DEF Iterate, Iterates, Retr, Quit
  <2>2. QED  BY <1>3, <2>1, ContainsIs DEF Pending, Asked
<1>5. CASE Spoiled
  <2>1. Spoiled' /\ UNCHANGED <<cache, err>> /\ Asked' \subseteq Asked
    BY <1>1, <1>5, SpoiledReads
  <2>2. at \notin Getting
    BY <1>1, <1>3, <1>5 DEF Spoiled, Getting
  <2>3. Retrieving' /\ FileReady'
    BY <1>1, <1>2, <2>2 DEF Retrieving, FileReady
  <2>4. CommandsKnown'
    BY <1>2, <2>1 DEF CacheInv, CommandsKnown, Known
  <2>5. CachedIsOwn'
    BY <2>1 DEF CacheInv, CachedIsOwn
  <2>6. QED  BY <2>1, <2>3, <2>4, <2>5 DEF CacheInv
<1>6. CASE Aligned
  <2>1. (Aligned \/ Spoiled)'
    BY <1>1, <1>4, <1>6, ReadAligned DEF CacheInv
  <2>2. /\ UNCHANGED <<sent, queue>> \/ (sent' = <<>> /\ queue' = <<>>) \/ NextCurrent
        /\ \/ err' = err
           \/ NextCurrent /\ sent[1].op = "RETR" /\ err' = [err EXCEPT ![sent[1].uid] = FALSE]
        /\ \/ cache' = cache
           \/ sent[1].op = "RETR" /\ Writes(sent[1].uid)
    BY <1>1, <1>6, ReadDoes
  <2>3. sent[1].op = "RETR" => sent[1].uid \in Uids /\ sent[1] = Retr(sent[1].uid)
    <3>1. sent[1] \in Commands
      BY <1>3, Tailed
    <3>2. QED  BY <3>1, RetrIs
  <2>4. Asked' \subseteq Asked
    <3>1. CASE sent' = <<>> /\ queue' = <<>>
      BY <3>1 DEF Asked, ToSet
    <3>2. CASE NextCurrent
      BY <1>3, <3>2, NextAsks
    <3>3. QED  BY <2>2, <3>1, <3>2 DEF Asked
  <2>5. CommandsKnown'
    BY <1>2, <2>4 DEF CacheInv, CommandsKnown, Known
  <2>6. CachedIsOwn'
    <3>1. CASE cache' = cache
      BY <3>1 DEF CacheInv, CachedIsOwn
    <3>2. CASE sent[1].op = "RETR" /\ Writes(sent[1].uid)
      BY <1>3, <2>3, <3>2, FilesStayOwn DEF CacheInv
    <3>3. QED  BY <2>2, <3>1, <3>2
  <2>7. FileReady'
    BY <1>1, <1>2 DEF FileReady
  <2>8. Retrieving'
    <3> SUFFICES ASSUME at \in Getting  PROVE Retrieving'
      BY <1>2 DEF Retrieving
    <3>1. /\ \A c \in Asked : c.op = "RETR" /\ err[c.uid]
          /\ Distinct(sent) /\ Distinct(queue) /\ ToSet(sent) \cap ToSet(queue) = {}
      BY DEF CacheInv, Retrieving
    <3>2. Distinct(sent') /\ Distinct(queue') /\ ToSet(sent') \cap ToSet(queue') = {}
      <4>1. CASE sent' = <<>> /\ queue' = <<>>
        BY <4>1 DEF Distinct, ToSet
      <4>2. CASE NextCurrent
        BY <1>3, <3>1, <4>2, NextAsks
      <4>3. QED  BY <2>2, <3>1, <4>1, <4>2
    <3>3. ASSUME NEW c \in Asked'  PROVE c.op = "RETR" /\ err'[c.uid]
      <4>1. c \in Asked /\ c.op = "RETR" /\ err[c.uid]
        BY <2>4, <3>1, <3>3
      <4>2. c \in Commands
        BY <1>3, <4>1, ItemsAre DEF Asked
      <4>3. c = Retr(c.uid) /\ c.uid \in Uids
        BY <4>1, <4>2, RetrIs
      <4>4. CASE err' = err
        BY <4>1, <4>4
      <4>5. CASE NextCurrent /\ sent[1].op = "RETR" /\ err' = [err EXCEPT ![sent[1].uid] = FALSE]
        <5>1. sent[1] \notin Asked'
          BY <1>3, <3>1, <4>5, NextAsks
        <5>2. c.uid # sent[1].uid
          BY <2>3, <3>3, <4>3, <4>5, <5>1
        <5>3. QED  BY <1>3, <4>1, <4>3, <4>5, <5>2
      <4>6. QED  BY <2>2, <4>4, <4>5
    <3>4. QED  BY <3>2, <3>3 DEF Retrieving
  <2>9. QED  BY <2>1, <2>5, <2>6, <2>7, <2>8 DEF CacheInv
<1>7. QED  BY <1>5, <1>6 DEF CacheInv

\* Nothing but the connection changes.
LEMMA JobCached ==
  ASSUME CacheInv, UNCHANGED <<sent, queue, reading, ioerror, err, cache, at, cmd, todo, failed>>,
         Aligned => Aligned'
  PROVE  CacheInv'
<1>1. uid' = uid /\ Asked' = Asked
  BY DEF uid, Asked
<1>2. (Aligned \/ Spoiled)'
  BY <1>1 DEF CacheInv, Spoiled
<1>3. Retrieving'
  BY <1>1 DEF CacheInv, Retrieving
<1>4. CommandsKnown'
  BY <1>1 DEF CacheInv, CommandsKnown, Known
<1>5. CachedIsOwn' /\ FileReady'
  BY <1>1 DEF CacheInv, CachedIsOwn, FileReady
<1>6. QED  BY <1>2, <1>3, <1>4, <1>5 DEF CacheInv

\* Nothing is asked for.
LEMMA NothingAsked ==
  ASSUME CacheInv, cache' = cache, sent' = <<>>, queue' = <<>>, toServer' = <<>>, wire' = <<>>,
         reading' = "line", up' \in BOOLEAN, at' # "file"
  PROVE  CacheInv'
<1>1. sent' \in Seq(Commands) /\ Len(sent') = 0 /\ Len(toServer') = 0
  OBVIOUS
<1>2. After(toServer', sent', 0)
  BY <1>1 DEF After
<1>3. AlignedTo(<<>>, sent', "line", cache'[sent'[1].uid].lines, up', toServer')
  BY <1>1, <1>2, AlignedWhenEmpty
<1>4. Aligned'
  BY <1>3 DEF Aligned
<1>5. Asked' = {} /\ ToSet(sent') = {} /\ ToSet(queue') = {} /\ Distinct(sent') /\ Distinct(queue')
  BY DEF Asked, ToSet, Distinct
<1>6. Retrieving' /\ CommandsKnown'
  BY <1>5 DEF Retrieving, CommandsKnown
<1>7. CachedIsOwn' /\ FileReady'
  BY DEF CacheInv, CachedIsOwn, FileReady
<1>8. QED  BY <1>4, <1>6, <1>7 DEF CacheInv

\* The server's answers are replies.
LEMMA ServerAnswered ==
  ASSUME EngineInv, Server
  PROVE  \E q \in Seq(Lines) : wire' = wire \o q /\ AnswerTo(q, toServer[1])
<1> DEFINE c == toServer[1]
<1>1. toServer # <<>> /\ toServer \in Seq(Commands)
  BY DEF Server, ServerAnswers, EngineInv, TypeOK, StreamTypes
<1>2. Head(toServer) = c /\ c \in Commands
  BY <1>1, Tailed
<1>3. CASE c.op = "RETR"
  <2>1. c.uid \in Uids /\ c.uid \in 0 .. Messages
    BY <1>2, <1>3, RetrIs, PopAssumption DEF Uids
  <2> DEFINE e == <<Line("err", c.uid)>>
             g == <<Line("ok", c.uid), Line("body", c.uid), Line("end", c.uid)>>
  <2>2. wire' = wire \o e \/ wire' = wire \o g
    BY <1>2, <1>3 DEF Server, ServerAnswers
  <2>3. e \in Seq(Lines) /\ AnswerTo(e, c)
    BY <2>1 DEF Lines, Line, AnswerTo, Final
  <2>4. g \in Seq(Lines) /\ AnswerTo(g, c)
    BY <1>3, <2>1 DEF Lines, Line, AnswerTo, Final
  <2>5. QED  BY <2>2, <2>3, <2>4
<1>4. CASE c.op # "RETR"
  <2>1. wire' = wire \o <<Line("ok", c.uid)>>
    <3>1. CASE c.op = "DELE"
      BY <1>2, <3>1 DEF Server, ServerAnswers
    <3>2. CASE c.op = "QUIT"
      <4>1. c.uid = 0
        BY <1>2, <3>2 DEF Commands, Quit
      <4>2. wire' = wire \o <<Line("ok", 0)>>
        BY <1>2, <3>2 DEF Server, ServerAnswers
      <4>3. QED  BY <4>1, <4>2
    <3>3. c.op \in {"DELE", "QUIT"}
      BY <1>2, <1>4 DEF Commands, Quit
    <3>4. QED  BY <3>1, <3>2, <3>3
  <2>2. c.uid \in 0 .. Messages
    BY <1>2, PopAssumption DEF Commands, Quit, Uids
  <2>3. <<Line("ok", c.uid)>> \in Seq(Lines) /\ AnswerTo(<<Line("ok", c.uid)>>, c)
    BY <1>4, <2>2 DEF Lines, Line, AnswerTo, Final
  <2>4. QED  BY <2>1, <2>3
<1>5. QED  BY <1>3, <1>4

\* What the program does not do, and the beginning and the end of a fetch.
LEMMA WorldCached ==
  ASSUME EngineInv, CacheInv, NewMail \/ Cancel \/ Lost \/ Server \/ Crash \/ Disconnect \/ GetInbox
  PROVE  CacheInv'
<1>1. wire \in Seq(Lines) /\ sent \in Seq(Commands) /\ toServer \in Seq(Commands) /\ up \in BOOLEAN
  BY DEF EngineInv, TypeOK, StreamTypes, EngineTypes
<1>2. CASE NewMail \/ Cancel
  <2>1. UNCHANGED <<sent, queue, reading, ioerror, err, cache, at, cmd, todo, failed, wire, up, toServer>>
    BY <1>2 DEF NewMail, Cancel, engineVars, netVars, jobVars
  <2>2. Aligned => Aligned'
    BY <2>1, AlignedKept
  <2>3. QED  BY <2>1, <2>2, JobCached
<1>3. CASE Lost
  <2>1. /\ UNCHANGED <<sent, queue, reading, ioerror, err, cache, at, cmd, todo, failed>>
        /\ up' = FALSE /\ toServer' = <<>> /\ \E n \in 0 .. Len(wire) : wire' = SubSeq(wire, 1, n)
    BY <1>3 DEF Lost, ConnectionLost, engineVars, jobVars
  <2>2. ASSUME Aligned  PROVE Aligned'
    <3> DEFINE ls == cache[sent[1].uid].lines
    <3>1. PICK n \in 0 .. Len(wire) : wire' = SubSeq(wire, 1, n)
      BY <2>1
    <3>2. AlignedTo(wire, sent, reading, ls, up, toServer)
      BY <2>2 DEF Aligned
    <3> HIDE DEF ls
    <3>3. AlignedTo(SubSeq(wire, 1, n), sent, reading, ls, FALSE, <<>>)
      BY <1>1, <3>2, AlignedWhenCut
    <3>4. QED  BY <2>1, <3>1, <3>3 DEF Aligned, ls
  <2>3. QED  BY <2>1, <2>2, JobCached
<1>4. CASE Server
  <2>1. /\ UNCHANGED <<sent, queue, reading, ioerror, err, cache, at, cmd, todo, failed, up>>
        /\ toServer # <<>> /\ toServer' = Tail(toServer)
    BY <1>4 DEF Server, ServerAnswers, engineVars, jobVars
  <2>2. PICK q \in Seq(Lines) : wire' = wire \o q /\ AnswerTo(q, toServer[1])
    BY <1>4, ServerAnswered
  <2>3. ASSUME Aligned  PROVE Aligned'
    <3> DEFINE ls == cache[sent[1].uid].lines
    <3>1. up = TRUE
      BY <1>1, <2>1, <2>3, NoLineLeft
    <3>2. AlignedTo(wire, sent, reading, ls, TRUE, toServer)
      BY <2>3, <3>1 DEF Aligned
    <3> HIDE DEF ls
    <3>3. AlignedTo(wire \o q, sent, reading, ls, TRUE, Tail(toServer))
      BY <1>1, <2>1, <2>2, <3>2, AlignedWhenAnswered
    <3>4. QED  BY <2>1, <2>2, <3>1, <3>3 DEF Aligned, ls
  <2>4. QED  BY <2>1, <2>3, JobCached
<1>5. CASE Crash \/ Disconnect
  <2>1. Disconnected /\ cache' = cache
    BY <1>5 DEF Crash, Disconnect
  <2>2. QED  BY <2>1, NothingAsked DEF Disconnected
<1>6. CASE GetInbox
  <2>1. /\ UNCHANGED <<cache, sent, queue, toServer, wire, reading>> /\ at = "idle"
        /\ up' = TRUE /\ at' \in {"save", "get"}
    BY <1>6 DEF GetInbox, engineVars
  <2>2. sent = <<>> /\ queue = <<>> /\ toServer = <<>> /\ wire = <<>> /\ reading = "line"
    BY <2>1 DEF EngineInv, Quiet
  <2>3. QED  BY <2>1, <2>2, NothingAsked
<1>7. QED  BY <1>2, <1>3, <1>4, <1>5, <1>6

\* pop3_get_message begins to retrieve a message that is not asked for.
LEMMA RetrieveCached ==
  ASSUME EngineInv, CacheInv, Retrieve, Aligned, todo # {}, at \in {"get", "await"},
         Retr(uid) \notin Asked, UNCHANGED <<wire, reading, up, todo>>
  PROVE  CacheInv'
<1>1. PICK S \in SUBSET Uids : RetrievesAll(S)
  BY RetrieveDoes
<1> DEFINE cs == Retrievals(S)
<1>2. cs \in Seq(Commands) /\ Distinct(cs) /\ \A c \in ToSet(cs) : \E u \in S : c = Retr(u)
  BY RetrievalsAre
<1>3. Issue(cs) /\ Emptied(S) /\ at' = "retrieve" /\ uid \in S /\ \A u \in S \ {uid} : cmd[u] = ""
  BY <1>1 DEF RetrievesAll
<1> HIDE DEF cs
<1>4. \A u \in Uids : Retr(u) \in Asked => cmd[u] = "RETR"
  BY DEF CacheInv, CommandsKnown, Known
<1>5. \A u \in S : Retr(u) \notin Asked
  BY <1>3, <1>4
<1>6. reading = "data" => cache'[sent[1].uid].lines = cache[sent[1].uid].lines
  BY <1>3, <1>5, FileUntouched DEF Asked
<1>7. Aligned'
  BY <1>2, <1>3, <1>6, IssueAligned
<1>8. ToSet(cs) \cap Asked = {}
  BY <1>2, <1>5
<1>9. /\ \A c \in Asked : c.op = "RETR" /\ err[c.uid]
      /\ Distinct(sent) /\ Distinct(queue) /\ ToSet(sent) \cap ToSet(queue) = {}
  BY DEF CacheInv, Retrieving, Getting
<1>10. /\ Asked' \subseteq Asked \cup ToSet(cs)
       /\ Distinct(sent') /\ Distinct(queue') /\ ToSet(sent') \cap ToSet(queue') = {}
  BY <1>2, <1>3, <1>8, <1>9, IssueAsks
<1>11. sent \in Seq(Commands) /\ queue \in Seq(Commands)
  BY DEF EngineInv, TypeOK, StreamTypes
<1>12. err' = [u \in Uids |-> u \in S \/ err[u]]
  BY <1>1 DEF RetrievesAll
<1>13. ASSUME NEW c \in Asked'  PROVE c.op = "RETR" /\ err'[c.uid]
  <2>1. CASE c \in Asked
    <3>1. c \in Commands
      BY <1>11, <2>1, ItemsAre DEF Asked
    <3>2. c.uid \in Uids
      BY <1>9, <2>1, <3>1, RetrIs
    <3>3. QED  BY <1>9, <1>12, <2>1, <3>2
  <2>2. CASE c \in ToSet(cs)
    <3>1. PICK u \in S : c = Retr(u)
      BY <1>2, <2>2
    <3>2. c.op = "RETR" /\ c.uid = u /\ u \in Uids
      BY <3>1 DEF Retr
    <3>3. QED  BY <1>12, <3>2
  <2>3. QED  BY <1>10, <1>13, <2>1, <2>2
<1>14. Retrieving'
  BY <1>10, <1>13 DEF Retrieving
<1>15. CommandsKnown'
  <2>1. uid' = uid
    BY DEF uid
  <2>2. cmd' = [u \in Uids |-> IF u \in S \ {uid} THEN "RETR" ELSE IF u = uid THEN "" ELSE cmd[u]]
    BY <1>1 DEF RetrievesAll
  <2>3. ASSUME NEW u \in Uids, Retr(u) \in Asked'  PROVE u = uid \/ cmd'[u] = "RETR"
    <3>1. CASE Retr(u) \in Asked
      BY <1>4, <2>2, <3>1
    <3>2. CASE Retr(u) \in ToSet(cs)
      <4>1. u \in S
        BY <1>2, <3>2 DEF Retr
      <4>2. QED  BY <2>2, <4>1
    <3>3. QED  BY <1>10, <2>3, <3>1, <3>2
  <2>4. QED  BY <1>3, <2>1, <2>3 DEF CommandsKnown, Known
<1>16. CachedIsOwn'
  BY <1>3 DEF CacheInv, CachedIsOwn, Emptied, NoFile
<1>17. FileReady'
  BY <1>3 DEF FileReady
<1>18. QED  BY <1>7, <1>14, <1>15, <1>16, <1>17 DEF CacheInv

\* After an error what is asked for may be anything.
LEMMA FailedCached ==
  ASSUME CacheInv, at \in {"get", "await", "retrieve"}, at' = "save", failed' = TRUE, Asked' \subseteq Asked,
         UNCHANGED <<wire, sent, reading, up, toServer, cache>>
  PROVE  CacheInv'
<1>1. Aligned => Aligned'
  BY AlignedKept
<1>2. Spoiled => Spoiled'
  BY DEF Spoiled
<1>3. Retrieving' /\ CommandsKnown' /\ FileReady'
  BY DEF Retrieving, Getting, CommandsKnown, Known, FileReady
<1>4. CachedIsOwn'
  BY DEF CacheInv, CachedIsOwn
<1>5. QED  BY <1>1, <1>2, <1>3, <1>4 DEF CacheInv

\* camel_data_cache_get finds the file, or it is retrieved.
LEMMA FromCacheCached ==
  ASSUME EngineInv, CacheInv, FromCache, Aligned, todo # {}, at \in {"get", "await"},
         Retr(uid) \notin Asked, UNCHANGED <<wire, reading, up, todo>>
  PROVE  CacheInv'
<1>1. CASE /\ cache[uid].mark = "#" /\ at' = "file" /\ cmd' = [cmd EXCEPT ![uid] = ""]
           /\ UNCHANGED <<sent, queue, sentlen, toServer, cache, err, failed>>
  <2>1. /\ at' = "file" /\ cmd' = [cmd EXCEPT ![uid] = ""]
        /\ UNCHANGED <<sent, queue, sentlen, toServer, cache, err, failed>>
    BY <1>1
  <2>2. uid' = uid /\ Asked' = Asked
    BY <2>1 DEF uid, Asked
  <2>3. Aligned'
    BY <2>1, AlignedKept
  <2>4. Retrieving'
    BY <2>1, <2>2 DEF CacheInv, Retrieving, Getting
  <2>5. CommandsKnown'
    <3>1. \A u \in Uids : Retr(u) \in Asked => cmd[u] = "RETR" /\ u # uid
      BY DEF CacheInv, CommandsKnown, Known
    <3>2. cmd \in [Uids -> {"", "RETR", "DELE"}]
      BY DEF EngineInv, TypeOK, JobTypes
    <3>3. QED  BY <2>1, <2>2, <3>1, <3>2 DEF CommandsKnown, Known
  <2>6. CachedIsOwn' /\ FileReady'
    BY <1>1, <2>1, <2>2 DEF CacheInv, CachedIsOwn, FileReady
  <2>7. QED  BY <2>3, <2>4, <2>5, <2>6 DEF CacheInv
<1>2. CASE Fail
  <2>1. at' = "save" /\ failed' = TRUE /\ UNCHANGED <<sent, queue, toServer, cache>>
    BY <1>2 DEF Fail
  <2>2. Asked' \subseteq Asked
    BY <2>1 DEF Asked
  <2>3. QED  BY <2>1, <2>2, FailedCached
<1>3. CASE Retrieve
  BY <1>3, RetrieveCached
<1>4. QED  BY <1>1, <1>2, <1>3 DEF FromCache

\* The messages are retrieved and filed.
LEMMA GettingCached ==
  ASSUME EngineInv, CacheInv, GetMessage \/ Awaited \/ Retrieved \/ FileMessage
  PROVE  CacheInv'
<1>1. at \in Getting /\ todo # {} /\ uid \in Uids
  <2>1. at \in Getting
    BY DEF GetMessage, Awaited, Retrieved, FileMessage, Getting
  <2>2. todo # {}
    BY <2>1 DEF EngineInv, LoopsGoOn
  <2>3. QED  BY <2>1, <2>2, UidIs DEF EngineInv
<1>2. at \in {"get", "file"} => Aligned /\ \A u \in Uids : Retr(u) \in Asked => cmd[u] = "RETR"
  BY DEF CacheInv, Spoiled, CommandsKnown, Known
<1>3. ~err[uid] => Retr(uid) \notin Asked
  BY <1>1 DEF CacheInv, Retrieving, Retr
<1>4. CASE GetMessage
  <2>1. at = "get" /\ UNCHANGED <<wire, reading, up, todo>>
    BY <1>4 DEF GetMessage
  <2>2. CASE cmd[uid] = ""
    <3>1. FromCache
      BY <1>4, <2>2 DEF GetMessage
    <3>2. Retr(uid) \notin Asked
      BY <1>1, <1>2, <2>1, <2>2
    <3>3. QED  BY <1>1, <1>2, <2>1, <3>1, <3>2, FromCacheCached
  <2>3. CASE cmd[uid] # ""
    <3>1. at' = "await" /\ UNCHANGED <<sent, queue, toServer, cache, err, cmd>>
      BY <1>4, <2>3 DEF GetMessage
    <3>2. Aligned'
      BY <1>2, <2>1, <3>1, AlignedKept
    <3>3. uid' = uid /\ Asked' = Asked
      BY <2>1, <3>1 DEF uid, Asked
    <3>4. Retrieving' /\ FileReady'
      BY <1>1, <3>1, <3>3 DEF CacheInv, Retrieving, FileReady
    <3>5. CommandsKnown'
      BY <1>2, <2>1, <3>1, <3>3 DEF CommandsKnown, Known
    <3>6. CachedIsOwn'
      BY <3>1 DEF CacheInv, CachedIsOwn
    <3>7. QED  BY <3>2, <3>4, <3>5, <3>6 DEF CacheInv
  <2>4. QED  BY <2>2, <2>3
<1>5. CASE Awaited
  <2>1. at = "await" /\ UNCHANGED <<wire, reading, up, todo>>
    BY <1>5 DEF Awaited
  <2>2. CASE ioerror \/ err[uid]
    <3>1. at' = "save" /\ failed' = TRUE /\ UNCHANGED <<sent, queue, toServer, cache>>
      BY <1>5, <2>2 DEF Awaited, Fail
    <3>2. Asked' \subseteq Asked
      BY <3>1 DEF Asked
    <3>3. QED  BY <2>1, <3>1, <3>2, FailedCached
  <2>3. CASE ~(ioerror \/ err[uid])
    <3>1. FromCache
      BY <1>5, <2>3 DEF Awaited
    <3>2. Aligned
      BY <2>1, <2>3 DEF CacheInv, Spoiled
    <3>3. QED  BY <1>1, <1>3, <2>1, <2>3, <3>1, <3>2, FromCacheCached
  <2>4. QED  BY <2>2, <2>3
<1>6. CASE Retrieved
  <2>1. /\ at = "retrieve" /\ queue' = RemoveFirst(queue, Retr(uid))
        /\ UNCHANGED <<wire, sent, reading, up, toServer, cache, err, cmd, todo>>
    BY <1>6 DEF Retrieved, netVars
  <2>2. queue \in Seq(Commands)
    BY DEF EngineInv, TypeOK, StreamTypes
  <2>3. ToSet(queue') \subseteq ToSet(queue) /\ (Distinct(queue) => Distinct(queue'))
    BY <2>1, <2>2, RemovedFirst
  <2>4. Asked' \subseteq Asked
    BY <2>1, <2>3 DEF Asked
  <2>5. CASE failed' = TRUE /\ at' = "save"
    BY <2>1, <2>4, <2>5, FailedCached
  <2>6. CASE at' = "file" /\ ~(ioerror \/ err[uid] \/ cache[uid].mark # "#")
    <3>1. at' = "file" /\ uid' = uid
      BY <2>1, <2>6 DEF uid
    <3>2. Aligned
      BY <2>1, <2>6 DEF CacheInv, Spoiled
    <3>3. Aligned'
      BY <2>1, <3>2, AlignedKept
    <3>4. Retrieving'
      BY <1>1, <2>1, <2>3, <2>4, <3>1 DEF CacheInv, Retrieving
    <3>5. CommandsKnown'
      BY <1>3, <2>1, <2>4, <2>6, <3>1 DEF CacheInv, CommandsKnown, Known
    <3>6. CachedIsOwn' /\ FileReady'
      BY <2>1, <2>6, <3>1 DEF CacheInv, CachedIsOwn, FileReady
    <3>7. QED  BY <3>3, <3>4, <3>5, <3>6 DEF CacheInv
  <2>7. QED  BY <1>6, <2>5, <2>6 DEF Retrieved
<1>7. CASE FileMessage
  <2>1. /\ at = "file" /\ at' \in {"get", "save"}
        /\ UNCHANGED <<wire, sent, queue, reading, up, toServer, cache, err, cmd>>
    BY <1>7 DEF FileMessage, popVars, netVars, engineVars
  <2>2. Asked' = Asked
    BY <2>1 DEF Asked
  <2>3. Aligned'
    BY <1>2, <2>1, AlignedKept
  <2>4. Retrieving' /\ FileReady'
    BY <1>1, <2>1, <2>2 DEF CacheInv, Retrieving, FileReady
  <2>5. CommandsKnown'
    BY <1>2, <2>1, <2>2 DEF CommandsKnown, Known
  <2>6. CachedIsOwn'
    BY <2>1 DEF CacheInv, CachedIsOwn
  <2>7. QED  BY <2>3, <2>4, <2>5, <2>6 DEF CacheInv
<1>8. QED  BY <1>4, <1>5, <1>6, <1>7

\* A command that is not a retrieval is issued at the end.
LEMMA IssueCached ==
  ASSUME EngineInv, CacheInv, NEW c \in Commands, c.op # "RETR", Issue(<<c>>),
         UNCHANGED <<wire, reading, up>>, at \in {"sync", "dispose"}, at' \in {"sync", "quit"},
         reading = "data" => cache'[sent[1].uid].lines = cache[sent[1].uid].lines
  PROVE  (Aligned \/ Spoiled)' /\ Retrieving' /\ FileReady' /\ \A u \in Uids : Retr(u) \in Asked' => Retr(u) \in Asked
<1>1. <<c>> \in Seq(Commands) /\ ToSet(<<c>>) = {c}
  BY DEF ToSet
<1>2. Aligned => Aligned'
  BY <1>1, IssueAligned
<1>3. Asked' \subseteq Asked \cup {c}
  BY <1>1, IssueAsks
<1>4. Spoiled => Spoiled'
  BY <1>3 DEF Spoiled
<1>5. Retrieving' /\ FileReady'
  BY DEF Retrieving, Getting, FileReady
<1>6. \A u \in Uids : Retr(u).op = "RETR"
  BY DEF Retr
<1>7. QED  BY <1>2, <1>3, <1>4, <1>5, <1>6 DEF CacheInv

\* The messages are deleted, the folder and the store go.
LEMMA EndingCached ==
  ASSUME EngineInv, CacheInv, SaveUids \/ DeleteMessage \/ Settle \/ FreeCommand \/ SendQuit
  PROVE  CacheInv'
<1>1. sent \in Seq(Commands) /\ queue \in Seq(Commands) /\ cmd \in [Uids -> {"", "RETR", "DELE"}]
  BY DEF EngineInv, TypeOK, StreamTypes, JobTypes
<1>2. CASE SaveUids \/ Settle \/ FreeCommand
  <2>1. UNCHANGED <<wire, sent, reading, up, toServer, cache>>
    BY <1>2 DEF SaveUids, AfterSave, Settle, FreeCommand, popVars, netVars, engineVars
  <2>2. ToSet(queue') \subseteq ToSet(queue)
    <3>1. CASE SaveUids \/ Settle
      BY <3>1 DEF SaveUids, AfterSave, Settle, popVars, engineVars
    <3>2. CASE FreeCommand
      <4>1. \E c : queue' = RemoveFirst(queue, c)
        BY <3>2 DEF FreeCommand
      <4>2. QED  BY <1>1, <4>1, RemovedFirst
    <3>3. QED  BY <1>2, <3>1, <3>2
  <2>3. Asked' \subseteq Asked
    BY <2>1, <2>2 DEF Asked
  <2>4. at \in {"save", "sync", "dispose"} /\ at' \in {"sync", "dispose"}
    BY <1>2 DEF SaveUids, AfterSave, Settle, FreeCommand
  <2>5. Aligned => Aligned'
    BY <2>1, AlignedKept
  <2>6. Spoiled => Spoiled'
    BY <2>1, <2>3, <2>4 DEF Spoiled
  <2>7. Retrieving' /\ FileReady'
    BY <2>4 DEF Retrieving, Getting, FileReady
  <2>8. CommandsKnown'
    <3>1. at' = "sync" => at = "save" /\ ~failed /\ cmd' = cmd
      BY <1>2 DEF SaveUids, AfterSave, Settle, FreeCommand
    <3>2. QED  BY <2>3, <2>4, <3>1 DEF CacheInv, CommandsKnown, Known
  <2>9. CachedIsOwn'
    BY <2>1 DEF CacheInv, CachedIsOwn
  <2>10. QED  BY <2>5, <2>6, <2>7, <2>8, <2>9 DEF CacheInv
<1>3. CASE DeleteMessage
  <2>1. /\ at = "sync" /\ at' = "sync" /\ todo # {} /\ todo' = todo \ {uid}
        /\ (cmd[uid] = "RETR" => ~Iterates(Retr(uid)))
        /\ Issue(<<Dele(uid)>>) /\ cmd' = [cmd EXCEPT ![uid] = "DELE"] /\ Emptied({uid})
        /\ UNCHANGED <<wire, reading, up>>
    BY <1>3 DEF DeleteMessage
  <2>2. uid \in Uids /\ uid \in todo
    BY <2>1, UidIs DEF EngineInv
  <2>3. reading = "data" => Retr(uid) \notin ToSet(sent)
    <3> SUFFICES ASSUME reading = "data"  PROVE Retr(uid) \notin ToSet(sent)
      OBVIOUS
    <3>1. sent # <<>> /\ ~ioerror
      BY DEF EngineInv, ReadsData, ErrorsSeen
    <3>2. CASE cmd[uid] = "RETR"
      <4>1. ~Contains(sent, Retr(uid))
        BY <2>1, <3>1, <3>2 DEF Iterates, Pending
      <4>2. QED  BY <1>1, <4>1, ContainsIs
    <3>3. CASE cmd[uid] # "RETR"
      BY <2>1, <2>2, <3>3 DEF CacheInv, CommandsKnown, Known, Asked
    <3>4. QED  BY <3>2, <3>3
  <2>4. reading = "data" => cache'[sent[1].uid].lines = cache[sent[1].uid].lines
    BY <2>1, <2>2, <2>3, FileUntouched
  <2>5. Dele(uid) \in Commands /\ Dele(uid).op # "RETR"
    BY <2>2 DEF Commands, Dele
  <2>6. (Aligned \/ Spoiled)' /\ Retrieving' /\ FileReady' /\ \A u \in Uids : Retr(u) \in Asked' => Retr(u) \in Asked
    BY <2>1, <2>4, <2>5, IssueCached
  <2>7. CommandsKnown'
    BY <1>1, <2>1, <2>2, <2>6 DEF CacheInv, CommandsKnown, Known
  <2>8. CachedIsOwn'
    BY <2>1 DEF CacheInv, CachedIsOwn, Emptied, NoFile
  <2>9. QED  BY <2>6, <2>7, <2>8 DEF CacheInv
<1>4. CASE SendQuit
  <2>1. at = "dispose" /\ at' = "quit" /\ Issue(<<Quit>>) /\ UNCHANGED <<wire, reading, up, cache>>
    BY <1>4 DEF SendQuit
  <2>2. Quit \in Commands /\ Quit.op # "RETR"
    BY DEF Commands, Quit
  <2>3. (Aligned \/ Spoiled)' /\ Retrieving' /\ FileReady'
    BY <2>1, <2>2, IssueCached
  <2>4. CommandsKnown' /\ CachedIsOwn'
    BY <2>1 DEF CacheInv, CommandsKnown, Known, CachedIsOwn
  <2>5. QED  BY <2>3, <2>4 DEF CacheInv
<1>5. QED  BY <1>2, <1>3, <1>4

LEMMA CacheStep ==
  "shift" \notin Faults => (EngineInv /\ CacheInv /\ [Next]_vars => CacheInv')
<1> SUFFICES ASSUME "shift" \notin Faults, EngineInv, CacheInv, [Next]_vars  PROVE CacheInv'
  OBVIOUS
<1>1. CASE UNCHANGED vars
  <2>1. UNCHANGED <<sent, queue, reading, ioerror, err, cache, at, cmd, todo, failed, wire, up, toServer>>
    BY <1>1 DEF vars, popVars, netVars, engineVars, jobVars
  <2>2. Aligned => Aligned'
    BY <2>1, AlignedKept
  <2>3. QED  BY <2>1, <2>2, JobCached
<1>2. CASE NewMail \/ Cancel \/ Lost \/ Server \/ Crash \/ Disconnect \/ GetInbox
  BY <1>2, WorldCached
<1>3. CASE GetMessage \/ Awaited \/ Retrieved \/ FileMessage
  BY <1>3, GettingCached
<1>4. CASE SaveUids \/ DeleteMessage \/ Settle \/ FreeCommand \/ SendQuit
  BY <1>4, EndingCached
<1>5. CASE Iterate
  BY <1>5, IterateCached
<1>6. QED  BY <1>1, <1>2, <1>3, <1>4, <1>5 DEF Next, Job

LEMMA InitCache == Init => CacheInv
<1> SUFFICES ASSUME Init  PROVE CacheInv
  OBVIOUS
<1>1. /\ sent = <<>> /\ queue = <<>> /\ toServer = <<>> /\ wire = <<>> /\ reading = "line"
      /\ up = FALSE /\ at = "idle" /\ cache = [u \in Uids |-> NoFile]
  BY DEF Init, PopInit
<1>2. sent \in Seq(Commands) /\ up \in BOOLEAN
  BY InitEngine DEF EngineInv, TypeOK, StreamTypes, EngineTypes
<1>3. AlignedTo(<<>>, sent, "line", cache[sent[1].uid].lines, up, <<>>)
  BY <1>1, <1>2, AlignedWhenEmpty
<1>4. Aligned
  BY <1>1, <1>3 DEF Aligned
<1>5. Asked = {}
  BY <1>1 DEF Asked, ToSet
<1>6. Retrieving /\ CommandsKnown /\ FileReady
  BY <1>1, <1>5 DEF Retrieving, Getting, CommandsKnown, FileReady
<1>7. CachedIsOwn
  BY <1>1 DEF CachedIsOwn, NoFile
<1>8. QED  BY <1>4, <1>6, <1>7 DEF CacheInv

\* Without the fault "shift" the lines that are read are those of the command
\* they are read for, and nothing is asked for that nobody waits for.
THEOREM StreamInStep == "shift" \notin Faults => (Spec => []CacheInv)
<1> SUFFICES ASSUME "shift" \notin Faults  PROVE Spec => []CacheInv
  OBVIOUS
<1>1. EngineInv /\ CacheInv /\ [Next]_vars => CacheInv'
  BY CacheStep
<1>2. QED  BY <1>1, InitCache, EngineIsSound, PTL DEF Spec

\* A file of the data cache that is marked as complete holds its own message and
\* all of it (camel-pop3-folder.c), unless a cancelled read shifts the stream.
THEOREM CachedFilesAreOwn == "shift" \notin Faults => (Spec => []CachedIsOwn)
<1> SUFFICES ASSUME "shift" \notin Faults  PROVE Spec => []CachedIsOwn
  OBVIOUS
<1>1. Spec => []CacheInv
  BY StreamInStep
<1>2. CacheInv => CachedIsOwn
  BY DEF CacheInv
<1>3. QED  BY <1>1, <1>2, PTL

-----------------------------------------------------------------------------
(* A message is filed once.                                                *)

LEMMA ReadComing ==
  ASSUME EngineInv, Read
  PROVE  Coming' \subseteq Coming /\ UNCHANGED <<drop, marked>>
<1>1. sent # <<>>
  BY DEF Read
<1>2. UNCHANGED <<drop, marked>>
  BY DEF Read, ReadReply, ReadNoReply, ReadBody, ReadRest, ReadNoData, netVars
<1>3. NextCurrent \/ (FailAll /\ toServer' = toServer) \/ UNCHANGED <<queue, toServer>>
  BY DEF Read, ReadReply, ReadNoReply, ReadBody, ReadRest, ReadNoData, netVars
<1>4. CASE NextCurrent
  BY <1>1, <1>2, <1>4, NextAsks DEF Coming
<1>5. CASE FailAll /\ toServer' = toServer
  <2>1. ToSet(queue') = {}
    BY <1>5 DEF FailAll, ToSet
  <2>2. QED  BY <1>2, <1>5, <2>1 DEF Coming
<1>6. CASE UNCHANGED <<queue, toServer>>
  BY <1>2, <1>6 DEF Coming
<1>7. QED  BY <1>3, <1>4, <1>5, <1>6

\* What the program sends.
LEMMA ComingKept ==
  ASSUME EngineInv, Next, NEW c \in Coming', c \notin Coming
  PROVE  \/ c.op = "RETR"
         \/ DeleteMessage /\ c = Dele(uid)
         \/ SendQuit /\ c = Quit
<1>1. queue \in Seq(Commands) /\ toServer \in Seq(Commands)
  BY DEF EngineInv, TypeOK, StreamTypes
<1>2. ASSUME NEW cs \in Seq(Commands), Issue(cs)  PROVE c \in ToSet(cs)
  BY <1>2, IssueAsks DEF Coming
<1>3. CASE NewMail \/ Cancel \/ GetInbox \/ FileMessage \/ SaveUids \/ Settle
  <2>1. UNCHANGED <<queue, toServer>>
    BY <1>3 DEF NewMail, Cancel, GetInbox, FileMessage, SaveUids, AfterSave, Settle, popVars,
                netVars, engineVars
  <2>2. QED  BY <2>1 DEF Coming
<1>4. CASE Crash \/ Disconnect \/ Lost
  <2>1. toServer' = <<>> /\ (queue' = <<>> \/ queue' = queue)
    BY <1>4 DEF Crash, Disconnect, Disconnected, Lost, ConnectionLost, engineVars
  <2>2. QED  BY <2>1 DEF Coming, ToSet
<1>5. CASE Server
  <2>1. queue' = queue /\ toServer # <<>> /\ toServer' = Tail(toServer)
    BY <1>5 DEF Server, ServerAnswers, engineVars
  <2>2. QED  BY <1>1, <2>1, TailItems DEF Coming
<1>6. CASE Retrieved \/ FreeCommand
  <2>1. toServer' = toServer /\ \E d : queue' = RemoveFirst(queue, d)
    BY <1>6 DEF Retrieved, FreeCommand, netVars
  <2>2. QED  BY <1>1, <2>1, RemovedFirst DEF Coming
<1>7. CASE GetMessage \/ Awaited
  <2>1. todo # {}
    BY <1>7 DEF GetMessage, Awaited, EngineInv, LoopsGoOn, Getting
  <2>2. CASE UNCHANGED <<queue, toServer>>
    BY <2>2 DEF Coming
  <2>3. CASE Retrieve
    <3>1. PICK S \in SUBSET Uids : RetrievesAll(S)
      BY <2>1, <2>3, RetrieveDoes
    <3>2. /\ Retrievals(S) \in Seq(Commands)
          /\ \A d \in ToSet(Retrievals(S)) : \E u \in S : d = Retr(u)
      BY RetrievalsAre
    <3>3. c \in ToSet(Retrievals(S))
      BY <1>2, <3>1, <3>2 DEF RetrievesAll
    <3>4. QED  BY <3>2, <3>3 DEF Retr
  <2>4. QED  BY <1>7, <2>2, <2>3 DEF GetMessage, Awaited, FromCache, Fail
<1>8. CASE DeleteMessage
  <2>1. todo # {} /\ Issue(<<Dele(uid)>>)
    BY <1>8 DEF DeleteMessage
  <2>2. Dele(uid) \in Commands
    BY <2>1, UidIs DEF EngineInv, Commands, Dele
  <2>3. <<Dele(uid)>> \in Seq(Commands) /\ ToSet(<<Dele(uid)>>) = {Dele(uid)}
    BY <2>2 DEF ToSet
  <2>4. QED  BY <1>2, <1>8, <2>1, <2>3
<1>9. CASE SendQuit
  <2>1. Issue(<<Quit>>)
    BY <1>9 DEF SendQuit
  <2>2. <<Quit>> \in Seq(Commands) /\ ToSet(<<Quit>>) = {Quit}
    BY DEF ToSet, Commands
  <2>3. QED  BY <1>2, <1>9, <2>1, <2>2
<1>10. CASE Iterate
  BY <1>10, ReadComing DEF Iterate
<1>11. QED  BY <1>3, <1>4, <1>5, <1>6, <1>7, <1>8, <1>9, <1>10 DEF Next, Job

LEMMA QuitStaysLast ==
  ASSUME EngineInv, QuitLast, Next
  PROVE  QuitLast'
<1> SUFFICES ASSUME at' # "quit"  PROVE Quit \notin Coming'
  BY DEF QuitLast
<1>1. CASE Crash \/ Disconnect
  BY <1>1 DEF Crash, Disconnect, Disconnected, Coming, ToSet
<1>2. CASE ~(Crash \/ Disconnect)
  <2>1. at # "quit"
    BY <1>2 DEF Next, Job, NewMail, Cancel, Lost, Server, GetInbox, GetMessage, Awaited, Retrieved,
                FileMessage, SaveUids, DeleteMessage, Settle, FreeCommand, SendQuit, Iterate, jobVars
  <2>2. ~SendQuit
    BY DEF SendQuit
  <2>3. Quit.op # "RETR" /\ Quit # Dele(uid)
    BY DEF Quit, Dele
  <2>4. QED  BY <2>1, <2>2, <2>3, ComingKept DEF QuitLast
<1>3. QED  BY <1>1, <1>2

\* Only at the end the server forgets messages.
LEMMA ServerForgets ==
  ASSUME EngineInv, Server
  PROVE  /\ UNCHANGED <<jobVars, diskVars, arrived>>
         /\ \/ drop' = drop /\ marked' = marked
            \/ \E u \in Uids : Dele(u) \in Coming /\ drop' = drop /\ marked' = marked \cup {u}
            \/ Quit \in Coming /\ drop' = drop \ marked /\ marked' = {}
<1>1. toServer # <<>> /\ toServer \in Seq(Commands)
  BY DEF Server, ServerAnswers, EngineInv, TypeOK, StreamTypes
<1> DEFINE c == Head(toServer)
<1>2. c \in Commands /\ c \in Coming
  BY <1>1, Tailed, TailItems DEF Coming
<1>3. UNCHANGED <<jobVars, diskVars, arrived>>
  BY DEF Server
<1>4. CASE c.op = "RETR"
  <2>1. UNCHANGED <<drop, marked>>
    BY <1>4 DEF Server, ServerAnswers
  <2>2. QED  BY <1>3, <2>1
<1>5. CASE c.op = "DELE"
  <2>1. drop' = drop /\ marked' = marked \cup {c.uid}
    BY <1>5 DEF Server, ServerAnswers
  <2>2. c.uid \in Uids /\ c = Dele(c.uid)
    BY <1>2, <1>5 DEF Commands, Quit, Dele
  <2>3. QED  BY <1>2, <1>3, <2>1, <2>2
<1>6. CASE c.op = "QUIT"
  <2>1. drop' = drop \ marked /\ marked' = {}
    BY <1>6 DEF Server, ServerAnswers
  <2>2. c = Quit
    BY <1>2, <1>6 DEF Commands, Quit
  <2>3. QED  BY <1>2, <1>3, <2>1, <2>2
<1>7. c.op \in {"RETR", "DELE", "QUIT"}
  BY <1>2 DEF Commands, Quit
<1>8. QED  BY <1>4, <1>5, <1>6, <1>7

\* Nothing is filed, saved or forgotten.
LEMMA OnceOtherwise ==
  ASSUME OnceInv, QuitLast', UNCHANGED <<drop, arrived, view, saved, keep, inbox, crashes>>,
         todo' \subseteq todo \cup view,
         at \in Getting \cup {"save"} <=> at' \in Getting \cup {"save"},
         at' \in Getting => at \in Getting /\ todo' \subseteq todo
  PROVE  OnceInv'
<1>1. Arrivals' /\ Filing'
  BY DEF OnceInv, Arrivals, Filing
<1>2. Excused'
  BY DEF OnceInv, Excused, Remembered
<1>3. QED  BY <1>1, <1>2 DEF OnceInv

LEMMA OnceByJob ==
  ASSUME EngineInv, OnceInv, QuitLast',
         \/ Cancel \/ Lost \/ GetMessage \/ Awaited \/ Retrieved
         \/ DeleteMessage \/ Settle \/ FreeCommand \/ SendQuit \/ Iterate
  PROVE  OnceInv'
<1>1. CASE Cancel \/ Lost \/ Iterate
  <2>1. UNCHANGED <<drop, arrived, view, saved, keep, inbox, crashes, todo, at>>
    BY <1>1, ReadComing DEF Cancel, Lost, ConnectionLost, Iterate, netVars, jobVars, diskVars
  <2>2. QED  BY <2>1, OnceOtherwise
<1>2. CASE GetMessage \/ Awaited \/ Retrieved
  <2>1. UNCHANGED <<drop, arrived, view, saved, keep, inbox, crashes, todo>>
    BY <1>2 DEF GetMessage, Awaited, Retrieved, netVars, diskVars
  <2>2. at \in Getting
    BY <1>2 DEF GetMessage, Awaited, Retrieved, Getting
  <2>3. at' \in Getting \cup {"save"}
    BY <1>2 DEF GetMessage, Awaited, Retrieved, FromCache, Retrieve, Fail, Getting
  <2>4. QED  BY <2>1, <2>2, <2>3, OnceOtherwise
<1>3. CASE DeleteMessage \/ Settle \/ FreeCommand \/ SendQuit
  <2>1. UNCHANGED <<drop, arrived, view, saved, keep, inbox, crashes>>
    BY <1>3 DEF DeleteMessage, Settle, FreeCommand, SendQuit, popVars, netVars, diskVars
  <2>2. todo' \subseteq todo \cup view
    BY <1>3 DEF DeleteMessage, Settle, FreeCommand, SendQuit, WithCommand
  <2>3. at \in {"sync", "dispose"} /\ at' \in {"sync", "dispose", "quit"}
    BY <1>3 DEF DeleteMessage, Settle, FreeCommand, SendQuit
  <2>4. at \notin Getting \cup {"save"} /\ at' \notin Getting \cup {"save"}
    BY <2>3 DEF Getting
  <2>5. QED  BY <2>1, <2>2, <2>4, OnceOtherwise
<1>4. QED  BY <1>1, <1>2, <1>3

\* New mail comes, and the server forgets messages.
LEMMA OnceByServer ==
  ASSUME EngineInv, OnceInv, QuitLast', NewMail \/ Server
  PROVE  OnceInv'
<1>1. /\ drop \subseteq 1 .. arrived /\ view \subseteq 1 .. arrived
      /\ saved \subseteq 1 .. arrived /\ keep \subseteq 1 .. arrived /\ todo \subseteq view
      /\ arrived \in 0 .. Messages
  BY DEF OnceInv, Arrivals, EngineInv, TypeOK, JobTypes
<1>2. CASE NewMail
  <2>1. /\ arrived' = arrived + 1 /\ drop' = drop \cup {arrived + 1}
        /\ UNCHANGED <<view, saved, keep, todo, at, inbox, crashes>>
    BY <1>2 DEF NewMail, jobVars, diskVars
  <2>2. 1 .. arrived \subseteq 1 .. arrived + 1 /\ arrived + 1 \in 1 .. arrived + 1
    BY <1>1
  <2>3. Arrivals' /\ Filing'
    BY <1>1, <2>1, <2>2 DEF OnceInv, Arrivals, Filing
  <2>4. ASSUME NEW u \in Uids, Remembered(u)  PROVE Remembered(u)'
    <3>1. u <= arrived /\ u \notin drop => u <= arrived + 1 /\ u \notin drop \cup {arrived + 1}
      BY <1>1 DEF Uids
    <3>2. QED  BY <2>1, <2>4, <3>1 DEF Remembered
  <2>5. Excused'
    BY <2>1, <2>4 DEF OnceInv, Excused
  <2>6. QED  BY <2>3, <2>5 DEF OnceInv
<1>3. CASE Server
  <2>1. UNCHANGED <<view, saved, keep, todo, at, inbox, crashes, arrived>>
    BY <1>3, ServerForgets DEF jobVars, diskVars
  <2>2. drop' \subseteq drop /\ (drop' = drop \/ Quit \in Coming)
    BY <1>3, ServerForgets
  <2>3. at \in Getting => drop' = drop
    BY <2>2 DEF OnceInv, QuitLast, Getting
  <2>4. Arrivals' /\ Filing'
    BY <1>1, <2>1, <2>2, <2>3 DEF OnceInv, Arrivals, Filing
  <2>5. \A u \in Uids : Remembered(u) => Remembered(u)'
    BY <2>1, <2>2 DEF Remembered
  <2>6. Excused'
    BY <2>1, <2>5 DEF OnceInv, Excused
  <2>7. QED  BY <2>4, <2>6 DEF OnceInv
<1>4. QED  BY <1>2, <1>3

\* The message that is filed is the one whose turn it is.
LEMMA FilesOne ==
  ASSUME EngineInv, CacheInv, FileMessage
  PROVE  /\ todo # {} /\ uid \in todo /\ uid \in Uids
         /\ \/ inbox' = [inbox EXCEPT ![uid] = @ + 1]
            \/ "append" \in Faults /\ inbox' = inbox
<1>1. at = "file"
  BY DEF FileMessage
<1>2. todo # {}
  BY <1>1 DEF EngineInv, LoopsGoOn, Getting
<1>3. uid \in todo /\ uid \in Uids
  BY <1>2, UidIs DEF EngineInv
<1>4. cache[uid].lines = <<uid>>
  BY <1>1, <1>3 DEF CacheInv, FileReady, CachedIsOwn
<1>5. \A u \in Uids : Contains(cache[uid].lines, u) <=> u = uid
  <2>1. \A i \in 1 .. Len(<<uid>>) : <<uid>>[i] = uid
    OBVIOUS
  <2>2. 1 \in 1 .. Len(<<uid>>) /\ <<uid>>[1] = uid
    OBVIOUS
  <2>3. QED  BY <1>4, <2>1, <2>2 DEF Contains
<1>6. inbox \in [Uids -> Nat]
  BY DEF EngineInv, TypeOK, JobTypes
<1>7. CASE inbox' = [u \in Uids |-> IF Contains(cache[uid].lines, u) THEN inbox[u] + 1 ELSE inbox[u]]
  <2>1. inbox' = [u \in Uids |-> IF u = uid THEN inbox[u] + 1 ELSE inbox[u]]
    BY <1>5, <1>7
  <2>2. inbox' = [inbox EXCEPT ![uid] = @ + 1]
    BY <1>6, <2>1
  <2>3. QED  BY <1>2, <1>3, <2>2
<1>8. QED  BY <1>2, <1>3, <1>7 DEF FileMessage

\* The job begins, files, saves, and ends or is killed.
LEMMA OnceByDisk ==
  ASSUME EngineInv, CacheInv, OnceInv, QuitLast', "refused" \notin Faults,
         Crash \/ Disconnect \/ GetInbox \/ FileMessage \/ SaveUids
  PROVE  OnceInv'
<1>1. /\ drop \subseteq 1 .. arrived /\ view \subseteq 1 .. arrived
      /\ saved \subseteq 1 .. arrived /\ keep \subseteq 1 .. arrived /\ todo \subseteq view
      /\ arrived \in 0 .. Messages /\ inbox \in [Uids -> Nat] /\ crashes \in Nat
  BY DEF OnceInv, Arrivals, EngineInv, TypeOK, JobTypes
<1>2. CASE Crash
  <2>1. /\ UNCHANGED <<drop, saved, inbox, arrived>> /\ crashes' = crashes + 1
        /\ at' = "idle" /\ view' = {} /\ keep' = {} /\ todo' = {}
    BY <1>2 DEF Crash, Disconnected
  <2>2. Arrivals' /\ Filing'
    BY <1>1, <2>1 DEF Arrivals, Filing, Getting
  <2>3. \A u \in Uids : inbox[u] \in Nat /\ (inbox[u] <= crashes \/ inbox[u] <= 1 + crashes)
    BY <1>1 DEF OnceInv, Excused
  <2>4. \A u \in Uids : inbox[u] <= crashes + 1
    BY <1>1, <2>3
  <2>5. Excused'
    BY <2>1, <2>4 DEF Excused
  <2>6. QED  BY <2>2, <2>5 DEF OnceInv
<1>3. CASE Disconnect
  <2>1. /\ UNCHANGED <<drop, saved, inbox, arrived, crashes>>
        /\ at = "quit" /\ at' = "idle" /\ view' = {} /\ keep' = {} /\ todo' = {}
    BY <1>3 DEF Disconnect, Disconnected, diskVars
  <2>2. Arrivals' /\ Filing'
    BY <1>1, <2>1 DEF Arrivals, Filing, Getting
  <2>3. \A u \in Uids : Remembered(u) => Remembered(u)'
    BY <2>1 DEF Remembered, Getting
  <2>4. Excused'
    BY <2>1, <2>3 DEF OnceInv, Excused
  <2>5. QED  BY <2>2, <2>4 DEF OnceInv
<1>4. CASE GetInbox
  <2>1. /\ UNCHANGED <<drop, saved, inbox, arrived, crashes>>
        /\ at = "idle" /\ view' = drop /\ keep' = saved \cap view' /\ todo' = view' \ saved
        /\ at' \in {"save", "get"}
    BY <1>4 DEF GetInbox, diskVars
  <2>2. Arrivals' /\ Filing'
    BY <1>1, <2>1 DEF Arrivals, Filing
  <2>3. ASSUME NEW u \in Uids, Remembered(u)  PROVE Remembered(u)'
    <3>1. u \in saved => u \in 1 .. arrived /\ u <= arrived
      BY <1>1
    <3>2. QED  BY <2>1, <2>3, <3>1 DEF Remembered, Getting
  <2>4. Excused'
    BY <2>1, <2>3 DEF OnceInv, Excused
  <2>5. QED  BY <2>2, <2>4 DEF OnceInv
<1>5. CASE FileMessage
  <2>1. PICK v : v = uid
    OBVIOUS
  <2>2. /\ UNCHANGED <<drop, view, saved, arrived, crashes>>
        /\ at = "file" /\ keep' = keep \cup {v} /\ todo' = todo \ {v} /\ at' \in {"save", "get"}
    BY <1>5, <2>1 DEF FileMessage, popVars, netVars
  <2>3. /\ v \in todo /\ v \in Uids
        /\ inbox' = [inbox EXCEPT ![v] = @ + 1] \/ inbox' = inbox
    BY <1>5, <2>1, FilesOne
  <2>4. v \notin keep /\ v \in view /\ v \in drop /\ todo \cap keep = {} /\ view \subseteq drop
    BY <1>1, <2>2, <2>3 DEF OnceInv, Filing, Getting
  <2>5. Arrivals' /\ Filing'
    BY <1>1, <2>2, <2>4 DEF Arrivals, Filing
  <2>6. inbox[v] <= crashes
    BY <2>2, <2>3, <2>4 DEF OnceInv, Excused, Remembered, Getting
  <2>7. inbox'[v] <= 1 + crashes
    BY <1>1, <2>3, <2>6
  <2>8. ASSUME NEW u \in Uids
        PROVE  inbox'[u] <= crashes' \/ (Remembered(u)' /\ inbox'[u] <= 1 + crashes')
    <3>1. CASE u = v
      <4>1. Remembered(u)'
        BY <2>2, <3>1 DEF Remembered, Getting
      <4>2. QED  BY <2>2, <2>7, <3>1, <4>1
    <3>2. CASE u # v
      <4>1. inbox'[u] = inbox[u]
        BY <1>1, <2>3, <3>2
      <4>2. Remembered(u) => Remembered(u)'
        BY <2>2 DEF Remembered, Getting
      <4>3. QED  BY <2>2, <4>1, <4>2 DEF OnceInv, Excused
    <3>3. QED  BY <3>1, <3>2
  <2>9. Excused'
    BY <2>8 DEF Excused
  <2>10. QED  BY <2>5, <2>9 DEF OnceInv
<1>6. CASE SaveUids
  <2>1. /\ UNCHANGED <<drop, view, inbox, arrived, keep>>
        /\ at = "save" /\ at' \in {"dispose", "sync"} /\ todo' \subseteq view
    BY <1>6 DEF SaveUids, AfterSave, netVars, WithCommand
  <2>2. (saved' = keep /\ crashes' = crashes) \/ (saved' = saved /\ crashes' = crashes + 1)
    BY <1>6 DEF SaveUids
  <2>3. Arrivals' /\ Filing'
    BY <1>1, <2>1, <2>2 DEF Arrivals, Filing, Getting
  <2>4. CASE saved' = keep /\ crashes' = crashes
    <3>1. \A u \in Uids : Remembered(u) => Remembered(u)'
      BY <2>1, <2>4 DEF Remembered, Getting
    <3>2. Excused'
      BY <2>1, <2>4, <3>1 DEF OnceInv, Excused
    <3>3. QED  BY <2>3, <3>2 DEF OnceInv
  <2>5. CASE crashes' = crashes + 1
    <3>1. \A u \in Uids : inbox[u] \in Nat /\ (inbox[u] <= crashes \/ inbox[u] <= 1 + crashes)
      BY <1>1 DEF OnceInv, Excused
    <3>2. \A u \in Uids : inbox[u] <= crashes + 1
      BY <1>1, <3>1
    <3>3. Excused'
      BY <2>1, <2>5, <3>2 DEF Excused
    <3>4. QED  BY <2>3, <3>3 DEF OnceInv
  <2>6. QED  BY <2>2, <2>4, <2>5
<1>7. QED  BY <1>2, <1>3, <1>4, <1>5, <1>6

LEMMA OnceStep ==
  "refused" \notin Faults => (EngineInv /\ CacheInv /\ OnceInv /\ [Next]_vars => OnceInv')
<1> SUFFICES ASSUME "refused" \notin Faults, EngineInv, CacheInv, OnceInv, [Next]_vars  PROVE OnceInv'
  OBVIOUS
<1>1. CASE UNCHANGED vars
  <2>1. UNCHANGED <<drop, arrived, view, saved, keep, inbox, crashes, todo, at, queue, toServer>>
    BY <1>1 DEF vars, popVars, netVars, engineVars, jobVars, diskVars
  <2>2. QuitLast'
    BY <2>1 DEF OnceInv, QuitLast, Coming
  <2>3. QED  BY <2>1, <2>2, OnceOtherwise
<1>2. CASE Next
  <2>1. QuitLast'
    BY <1>2, QuitStaysLast DEF OnceInv
  <2>2. QED  BY <1>2, <2>1, OnceByJob, OnceByServer, OnceByDisk DEF Next, Job
<1>3. QED  BY <1>1, <1>2

LEMMA InitOnce == Init => OnceInv
<1> SUFFICES ASSUME Init  PROVE OnceInv
  OBVIOUS
<1>1. QuitLast
  BY DEF Init, PopInit, QuitLast, Coming, ToSet
<1>2. Arrivals /\ Filing
  BY DEF Init, PopInit, Arrivals, Filing
<1>3. Excused
  BY DEF Init, PopInit, Excused
<1>4. QED  BY <1>1, <1>2, <1>3 DEF OnceInv

\* A message is filed once, and once more for each time the job is killed or
\* cannot save the UID cache (camel_uid_cache_save), unless a cancelled read
\* shifts the stream or the server refuses to list the maildrop.
THEOREM MessagesFiledOnce ==
  "shift" \notin Faults /\ "refused" \notin Faults => (Spec => []FiledOnce)
<1> SUFFICES ASSUME "shift" \notin Faults, "refused" \notin Faults  PROVE Spec => []FiledOnce
  OBVIOUS
<1>1. Spec => []CacheInv
  BY StreamInStep
<1>2. EngineInv /\ CacheInv /\ OnceInv /\ [Next]_vars => OnceInv'
  BY OnceStep
<1>3. EngineInv /\ OnceInv => FiledOnce
  <2>1. SUFFICES ASSUME EngineInv, OnceInv, NEW u \in Uids  PROVE inbox[u] <= 1 + crashes
    BY DEF FiledOnce
  <2>2. inbox[u] \in Nat /\ crashes \in Nat
    BY <2>1 DEF EngineInv, TypeOK, JobTypes
  <2>3. inbox[u] <= crashes \/ inbox[u] <= 1 + crashes
    BY <2>1 DEF OnceInv, Excused
  <2>4. QED  BY <2>2, <2>3
<1>4. QED  BY <1>1, <1>2, <1>3, InitOnce, EngineIsSound, PTL DEF Spec

-----------------------------------------------------------------------------
(* No message is lost.                                                     *)

\* What is in the local inbox stays there.
LEMMA InboxKept ==
  ASSUME EngineInv, CacheInv, Next, NEW u \in Uids, Filed(u)
  PROVE  Filed(u)'
<1>1. CASE FileMessage
  <2>1. PICK v : v = uid
    OBVIOUS
  <2>2. inbox' = [inbox EXCEPT ![v] = @ + 1] \/ inbox' = inbox
    BY <1>1, <2>1, FilesOne
  <2>3. inbox \in [Uids -> Nat]
    BY DEF EngineInv, TypeOK, JobTypes
  <2>4. QED  BY <2>2, <2>3 DEF Filed
<1>2. CASE ~FileMessage
  <2>1. inbox' = inbox
    BY <1>2 DEF Next, Job, NewMail, Crash, Cancel, Lost, Server, GetInbox, GetMessage, Awaited, Retrieved,
                SaveUids, AfterSave, DeleteMessage, Settle, FreeCommand, SendQuit, Disconnect, Iterate,
                diskVars
  <2>2. QED  BY <2>1 DEF Filed
<1>3. QED  BY <1>1, <1>2

\* The program deletes what is filed.
LEMMA DeletesStayFiled ==
  ASSUME EngineInv, CacheInv, LostInv, Next
  PROVE  DeletesFiled'
<1> SUFFICES ASSUME NEW u \in Uids, Dele(u) \in Coming'  PROVE Filed(u)
  BY InboxKept DEF DeletesFiled
<1>1. CASE Dele(u) \in Coming
  BY <1>1 DEF LostInv, DeletesFiled
<1>2. CASE DeleteMessage /\ Dele(u) = Dele(uid)
  <2>1. u = uid /\ at = "sync" /\ todo # {}
    BY <1>2 DEF DeleteMessage, Dele
  <2>2. uid \in todo
    BY <2>1, UidIs DEF EngineInv
  <2>3. QED  BY <2>1, <2>2 DEF LostInv, FiledFirst
<1>3. Dele(u).op # "RETR" /\ Dele(u) # Quit
  BY DEF Dele, Quit
<1>4. QED  BY <1>1, <1>2, <1>3, ComingKept

\* Nothing comes, is filed or is saved, and no message goes.
LEMMA LostOtherwise ==
  ASSUME LostInv, DeletesFiled', UNCHANGED <<drop, marked, arrived, view, saved, keep, inbox>>,
         todo' \subseteq todo,
         at' \in Getting => at \in Getting /\ todo' = todo,
         at' = "save" => failed' \/ (at = "save" /\ ~failed),
         at' = "sync" => at = "sync"
  PROVE  LostInv'
<1>1. NoMailLost' /\ KeptFiled'
  BY DEF LostInv, NoMailLost, KeptFiled, Filed
<1>2. FiledFirst'
  BY DEF LostInv, FiledFirst, Filed
<1>3. QED  BY <1>1, <1>2 DEF LostInv

LEMMA LostByJob ==
  ASSUME EngineInv, LostInv, DeletesFiled',
         Cancel \/ GetMessage \/ Awaited \/ Retrieved \/ DeleteMessage \/ Iterate
  PROVE  LostInv'
<1>1. CASE Cancel \/ Iterate
  <2>1. UNCHANGED <<drop, marked, arrived, view, saved, keep, inbox, todo, at, failed>>
    BY <1>1, ReadComing DEF Cancel, Iterate, netVars, jobVars, diskVars
  <2>2. QED  BY <2>1, LostOtherwise
<1>2. CASE GetMessage \/ Awaited \/ Retrieved
  <2>1. UNCHANGED <<drop, marked, arrived, view, saved, keep, inbox, todo>>
    BY <1>2 DEF GetMessage, Awaited, Retrieved, netVars, diskVars
  <2>2. at \in Getting
    BY <1>2 DEF GetMessage, Awaited, Retrieved, Getting
  <2>3. at' # "sync" /\ (at' = "save" => failed')
    BY <1>2 DEF GetMessage, Awaited, Retrieved, FromCache, Retrieve, Fail
  <2>4. QED  BY <2>1, <2>2, <2>3, LostOtherwise
<1>3. CASE DeleteMessage
  <2>1. UNCHANGED <<drop, marked, arrived, view, saved, keep, inbox>> /\ todo' \subseteq todo
        /\ at = "sync" /\ at' = "sync"
    BY <1>3 DEF DeleteMessage, diskVars
  <2>2. QED  BY <2>1, LostOtherwise DEF Getting
<1>4. QED  BY <1>1, <1>2, <1>3

\* The end of the job.
LEMMA LostAtEnd ==
  ASSUME EngineInv, LostInv, DeletesFiled',
         Settle \/ FreeCommand \/ SendQuit \/ Disconnect \/ Crash \/ Lost
  PROVE  LostInv'
<1>1. CASE Settle \/ FreeCommand \/ SendQuit
  <2>1. UNCHANGED <<drop, marked, arrived, view, saved, keep, inbox>> /\ at' \in {"dispose", "quit"}
    BY <1>1 DEF Settle, FreeCommand, SendQuit, popVars, netVars, diskVars
  <2>2. NoMailLost' /\ KeptFiled' /\ FiledFirst'
    BY <2>1 DEF LostInv, NoMailLost, KeptFiled, FiledFirst, Filed, Getting
  <2>3. QED  BY <2>2 DEF LostInv
<1>2. CASE Disconnect \/ Crash
  <2>1. UNCHANGED <<drop, arrived, saved, inbox>> /\ at' = "idle" /\ marked' = {} /\ keep' = {}
    BY <1>2 DEF Disconnect, Crash, Disconnected, diskVars
  <2>2. NoMailLost' /\ KeptFiled' /\ FiledFirst'
    BY <2>1 DEF LostInv, NoMailLost, KeptFiled, FiledFirst, Filed, Getting
  <2>3. QED  BY <2>2 DEF LostInv
<1>3. CASE Lost
  <2>1. UNCHANGED <<drop, arrived, saved, inbox, keep, view, todo, at, failed>> /\ marked' = {}
    BY <1>3 DEF Lost, ConnectionLost, jobVars, diskVars
  <2>2. NoMailLost' /\ KeptFiled' /\ FiledFirst'
    BY <2>1 DEF LostInv, NoMailLost, KeptFiled, FiledFirst, Filed
  <2>3. QED  BY <2>2 DEF LostInv
<1>4. QED  BY <1>1, <1>2, <1>3

\* New mail comes, and the server forgets messages.
LEMMA LostByServer ==
  ASSUME EngineInv, LostInv, DeletesFiled', NewMail \/ Server
  PROVE  LostInv'
<1>1. CASE NewMail
  <2>1. /\ arrived' = arrived + 1 /\ drop' = drop \cup {arrived + 1}
        /\ UNCHANGED <<marked, view, saved, keep, todo, at, failed, inbox>>
    BY <1>1 DEF NewMail, jobVars, diskVars
  <2>2. arrived \in Nat
    <3>1. arrived \in 0 .. Messages
      BY DEF EngineInv, TypeOK, JobTypes
    <3>2. QED  BY <3>1
  <2>3. NoMailLost'
    <3>1. \A u \in 1 .. arrived + 1 : u \in 1 .. arrived \/ u = arrived + 1
      BY <2>2
    <3>2. QED  BY <2>1, <3>1 DEF LostInv, NoMailLost
  <2>4. KeptFiled' /\ FiledFirst'
    BY <2>1 DEF LostInv, KeptFiled, FiledFirst, Filed
  <2>5. QED  BY <2>3, <2>4 DEF LostInv
<1>2. CASE Server
  <2>1. UNCHANGED <<view, saved, keep, todo, at, failed, inbox, arrived>>
    BY <1>2, ServerForgets DEF jobVars, diskVars
  <2>2. \/ drop' = drop /\ marked' = marked
        \/ \E u \in Uids : Dele(u) \in Coming /\ drop' = drop /\ marked' = marked \cup {u}
        \/ drop' = drop \ marked /\ marked' = {}
    BY <1>2, ServerForgets
  <2>3. NoMailLost'
    BY <2>1, <2>2 DEF LostInv, NoMailLost, KeptFiled, Filed
  <2>4. KeptFiled'
    BY <2>1, <2>2 DEF LostInv, KeptFiled, DeletesFiled, Filed
  <2>5. FiledFirst'
    BY <2>1 DEF LostInv, FiledFirst, Filed
  <2>6. QED  BY <2>3, <2>4, <2>5 DEF LostInv
<1>3. QED  BY <1>1, <1>2

\* The folder is opened, a message is filed, and the uids are saved.
LEMMA LostByFiling ==
  ASSUME EngineInv, CacheInv, LostInv, DeletesFiled', "append" \notin Faults,
         GetInbox \/ FileMessage \/ SaveUids
  PROVE  LostInv'
<1>1. CASE GetInbox
  <2>1. /\ UNCHANGED <<drop, marked, saved, inbox, arrived>> /\ keep' = saved \cap view'
        /\ todo' = view' \ saved /\ at' = IF todo' = {} THEN "save" ELSE "get"
    BY <1>1 DEF GetInbox, diskVars
  <2>2. NoMailLost' /\ KeptFiled'
    BY <2>1 DEF LostInv, NoMailLost, KeptFiled, Filed
  <2>3. view' \subseteq keep' \cup todo' /\ (at' = "save" => view' \subseteq keep') /\ at' # "sync"
    BY <2>1
  <2>4. FiledFirst'
    BY <2>3 DEF FiledFirst
  <2>5. QED  BY <2>2, <2>4 DEF LostInv
<1>2. CASE FileMessage
  <2>1. PICK v : v = uid
    OBVIOUS
  <2>2. /\ UNCHANGED <<drop, marked, view, saved, arrived>> /\ at = "file"
        /\ keep' = keep \cup {v} /\ todo' = todo \ {v} /\ at' = IF todo' = {} THEN "save" ELSE "get"
    BY <1>2, <2>1 DEF FileMessage, popVars, netVars
  <2>3. v \in todo /\ v \in Uids /\ inbox' = [inbox EXCEPT ![v] = @ + 1]
    BY <1>2, <2>1, FilesOne
  <2>4. inbox \in [Uids -> Nat]
    BY DEF EngineInv, TypeOK, JobTypes
  <2>5. inbox'[v] > 0 /\ \A u : inbox[u] > 0 => inbox'[u] > 0
    BY <2>3, <2>4
  <2>6. NoMailLost' /\ KeptFiled'
    BY <2>2, <2>5 DEF LostInv, NoMailLost, KeptFiled, Filed
  <2>7. view' \subseteq keep' \cup todo' /\ (at' = "save" => view' \subseteq keep') /\ at' # "sync"
    BY <2>2, <2>3 DEF LostInv, FiledFirst, Getting
  <2>8. FiledFirst'
    BY <2>7 DEF FiledFirst
  <2>9. QED  BY <2>6, <2>8 DEF LostInv
<1>3. CASE SaveUids
  <2>1. /\ UNCHANGED <<drop, marked, view, inbox, arrived, keep>> /\ at = "save"
        /\ at' \in {"dispose", "sync"} /\ (at' = "sync" => ~failed /\ todo' = view)
        /\ saved' \in {keep, saved}
    BY <1>3 DEF SaveUids, AfterSave, netVars
  <2>2. NoMailLost' /\ KeptFiled'
    BY <2>1 DEF LostInv, NoMailLost, KeptFiled, Filed
  <2>3. FiledFirst'
    BY <2>1 DEF LostInv, KeptFiled, FiledFirst, Filed, Getting
  <2>4. QED  BY <2>2, <2>3 DEF LostInv
<1>4. QED  BY <1>1, <1>2, <1>3

LEMMA LostStep ==
  "append" \notin Faults => (EngineInv /\ CacheInv /\ LostInv /\ [Next]_vars => LostInv')
<1> SUFFICES ASSUME "append" \notin Faults, EngineInv, CacheInv, LostInv, [Next]_vars  PROVE LostInv'
  OBVIOUS
<1>1. CASE UNCHANGED vars
  <2>1. UNCHANGED <<drop, marked, arrived, view, saved, keep, inbox, todo, at, failed, queue, toServer>>
    BY <1>1 DEF vars, popVars, netVars, engineVars, jobVars, diskVars
  <2>2. DeletesFiled'
    BY <2>1 DEF LostInv, DeletesFiled, Coming, Filed
  <2>3. QED  BY <2>1, <2>2, LostOtherwise
<1>2. CASE Next
  <2>1. DeletesFiled'
    BY <1>2, DeletesStayFiled
  <2>2. QED  BY <1>2, <2>1, LostByJob, LostAtEnd, LostByServer, LostByFiling DEF Next, Job
<1>3. QED  BY <1>1, <1>2

LEMMA InitLost == Init => LostInv
<1> SUFFICES ASSUME Init  PROVE LostInv
  OBVIOUS
<1>1. NoMailLost /\ KeptFiled /\ FiledFirst
  BY DEF Init, PopInit, NoMailLost, KeptFiled, FiledFirst, Getting
<1>2. DeletesFiled
  BY DEF Init, PopInit, DeletesFiled, Coming, ToSet
<1>3. QED  BY <1>1, <1>2 DEF LostInv

\* A message that has come is in the maildrop or in the local inbox: what
\* fetch_mail_exec deletes it has filed, unless an append may fail unnoticed or
\* a cancelled read shifts the stream.
THEOREM NoMailIsLost ==
  "shift" \notin Faults /\ "append" \notin Faults => (Spec => []NoMailLost)
<1> SUFFICES ASSUME "shift" \notin Faults, "append" \notin Faults  PROVE Spec => []NoMailLost
  OBVIOUS
<1>1. Spec => []CacheInv
  BY StreamInStep
<1>2. EngineInv /\ CacheInv /\ LostInv /\ [Next]_vars => LostInv'
  BY LostStep
<1>3. LostInv => NoMailLost
  BY DEF LostInv
<1>4. QED  BY <1>1, <1>2, <1>3, InitLost, EngineIsSound, PTL DEF Spec
=============================================================================
