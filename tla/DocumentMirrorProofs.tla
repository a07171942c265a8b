------------------------- MODULE DocumentMirrorProofs -------------------------
(***************************************************************************)
(* Theorems about DocumentMirror, for any number of writes and faults.     *)
(*                                                                         *)
(* The argument.  What is under way on the main socket is in Foundry's     *)
(* order, so the last write on it that sets a field sets it to what        *)
(* Foundry has, and an answer on it is what Foundry has but for the writes *)
(* behind it (Ordered).  Once a connection has fed the store, a field that *)
(* no write under way sets is what Foundry has, or a read is owed that     *)
(* restores it (Mirrored).  Nothing under way is newer than what Foundry   *)
(* has (Behind), so a seed that nothing overtook is not older than the     *)
(* store (Seeding).  What browsers saw is the store, or the baseline that  *)
(* was taken of it (Seen).                                                 *)
(***************************************************************************)
EXTENDS DocumentMirror, SequenceTheorems, TLAPS

-----------------------------------------------------------------------------
(* The invariant                                                           *)

Kinds == {"create", "update", "delete", "autosave"}
Answers == {"read", "seed"}

WriteMessages == [kind : Kinds, field : Fields, write : Writes, user : BOOLEAN]
AnswerMessages == [kind : Answers, content : Docs]
RefreshType == [pc : {"idle", "asked", "sent", "lost"}, via : {"main", "user"}, as : {"create", "update"},
                dirty : BOOLEAN, required : BOOLEAN, observed : BOOLEAN,
                tries : 0..MaxRootRefreshAttempts, answer : Docs]
RunType == [kind : {"none", "bootstrap", "recovery"}, pc : {"idle", "waiting", "asked", "sent", "seeded"},
            touched : BOOLEAN, base : Docs]
BaselineType == [taken : BOOLEAN, content : Docs]

\* TypeOK, the types by their names.
Types ==
    /\ truth \in Docs /\ doc \in Docs /\ shown \in Docs
    /\ born \in BOOLEAN /\ ready \in BOOLEAN /\ online \in BOOLEAN
    /\ prepared \in BOOLEAN /\ gate \in {"open", "refreshing", "closed"} /\ missed \in BOOLEAN
    /\ clock \in 0..MaxWrites /\ faults \in 0..MaxFaults
    /\ wire \in Seq(Messages) /\ acks \subseteq Messages
    /\ refresh \in RefreshType /\ run \in RunType /\ baseline \in BaselineType
    /\ gaps \subseteq {"late", "report", "unread"}
    /\ baseline.taken \/ gate # "closed" => prepared

\* A connection that has fed the store.
Fed == online /\ (gate # "closed" \/ run.pc = "seeded")

\* Which of the lifecycle's states go together.
Linked ==
    /\ ~online => wire = <<>> /\ run = NoRun
    /\ run # NoRun => gate = "closed" /\ run.kind # "none"
    /\ run.kind = "recovery" => prepared
    /\ prepared \/ run.pc = "seeded" => ready
    /\ online /\ gate # "closed" => ~baseline.taken

\* A message of a kind is in w.
Has(w, kind) == \E i \in DOMAIN w : w[i].kind = kind

\* No kind of answer is in w twice.
OneOfEach(w) == \A i, j \in DOMAIN w : w[i].kind \in Answers /\ w[j].kind = w[i].kind => i = j

\* Each answer under way has the one who waits for it.
Awaited ==
    /\ OneOfEach(wire)
    /\ Has(wire, "read") => refresh.pc = "sent" /\ refresh.via = "main"
    /\ Has(wire, "seed") => run.pc = "sent"
    /\ refresh.pc \in {"asked", "sent"} /\ refresh.via = "main" => online

\* Foundry does not use an id again, and nobody hears of a document that never was.
Unborn ==
    \/ born
    \/ /\ truth = Absent /\ acks = {} /\ refresh.pc = "idle"
       /\ \A kind \in Kinds : ~Has(wire, kind)

\* No write of w sets field f.
Silent(w, f) == \A i \in DOMAIN w : ~Sets(w[i], f)

\* The last write of w that sets a field sets what t has.
LastWrites(w, t) ==
    \A f \in Fields :
        \/ Silent(w, f)
        \/ \E i \in DOMAIN w : Sets(w[i], f) /\ Brings(w[i]) = t[f] /\ \A j \in DOMAIN w : j > i => ~Sets(w[j], f)

\* An answer in w is what t has, but for the writes behind it.
Snapshots(w, t) ==
    \A i \in DOMAIN w : w[i].kind \in Answers =>
        \A f \in Fields : w[i].content[f] = t[f] \/ \E j \in DOMAIN w : j > i /\ Sets(w[j], f)

\* A read that found nothing found a document that was deleted.
FoundNothing(w, t) == \A i \in DOMAIN w : w[i].kind = "read" /\ w[i].content = Absent => t = Absent

Nothing ==
    /\ refresh.pc = "sent" /\ refresh.via = "user" /\ refresh.answer = Absent => truth = Absent
    /\ FoundNothing(wire, truth)

Ordered == LastWrites(wire, truth) /\ Snapshots(wire, truth) /\ Nothing

\* A document that is gone is gone from the store, or its deletion is under way.
Gone == truth = Absent => doc = Absent \/ Has(wire, "delete")

\* A field that nothing under way sets is what Foundry has, or a read is owed, or the answer
\* to one is under way: beside the main socket, the answer itself has what the store lacks.
Restored ==
    \A f \in Fields : Silent(wire, f) =>
        /\ refresh.pc = "idle" => doc[f] = truth[f]
        /\ refresh.pc = "sent" /\ refresh.via = "user" /\ ~refresh.dirty => doc[f] = truth[f] \/ refresh.answer[f] = truth[f]

Mirrored == Fed /\ gaps = {} => Gone /\ Restored

\* Nothing in w is newer than write c, or than what t has.
Written(w, c) ==
    \A i \in DOMAIN w :
        /\ w[i].kind \in Kinds => w[i].write <= c
        /\ w[i].kind \in Answers => \A f \in Fields : w[i].content[f] <= c

Known(w, t) ==
    \A i \in DOMAIN w, f \in Fields :
        /\ Sets(w[i], f) => w[i].write <= t[f]
        /\ w[i].kind \in Answers => w[i].content[f] <= t[f]

\* Nothing is newer than the last write.
Past ==
    /\ Written(wire, clock) /\ \A m \in acks : m.kind \in Kinds /\ m.write <= clock
    /\ \A f \in Fields : truth[f] <= clock /\ doc[f] <= clock /\ refresh.answer[f] <= clock

\* Nothing is newer than what Foundry has of a document that is there.
NotAhead ==
    truth # Absent =>
        /\ Known(wire, truth)
        /\ \A m \in acks, f \in Fields : Sets(m, f) => m.write <= truth[f]
        /\ \A f \in Fields : doc[f] <= truth[f] /\ refresh.answer[f] <= truth[f]

Behind == Past /\ NotAhead

\* A seed under way that no result overtook is not older than the store.
NotOlder(w, d) ==
    \A i \in DOMAIN w : w[i].kind = "seed" => w[i].content = Absent \/ \A f \in Fields : d[f] <= w[i].content[f]

Seeding == run.pc = "sent" /\ ~run.touched => NotOlder(wire, doc)

\* Browsers saw the store, or the baseline that was taken of it.
Seen == prepared /\ ~missed => shown = IF baseline.taken THEN baseline.content ELSE doc

IInv == Types /\ Linked /\ Awaited /\ Unborn /\ Ordered /\ Mirrored /\ Behind /\ Seeding /\ Seen

-----------------------------------------------------------------------------
(* Messages and what is under way                                          *)

\* What w is after the message at k left it.
Without(w, k) == [j \in 1..(Len(w) - 1) |-> w[IF j < k THEN j ELSE j + 1]]

\* Messages are writes or answers.
LEMMA MessageKinds == Messages = WriteMessages \cup AnswerMessages
BY DEF Messages, WriteMessages, AnswerMessages, Kinds, Answers

\* An answer sets no field: only writes do.
LEMMA OnlyWritesSet ==
    ASSUME NEW m \in Messages, NEW f \in Fields, Sets(m, f)
    PROVE  m \in WriteMessages /\ m.kind \in Kinds /\ m.write \in Writes
BY MessageKinds DEF Sets, WriteMessages, AnswerMessages, Kinds, Answers

\* A message of one of the kinds of answers is an answer.
LEMMA OnlyAnswersTell ==
    ASSUME NEW m \in Messages, m.kind \in Answers
    PROVE  m \in AnswerMessages /\ m.content \in Docs
BY MessageKinds DEF WriteMessages, AnswerMessages, Kinds, Answers

\* The absent document is a document, and a document with a field is not it.
LEMMA AbsentDoc ==
    /\ Absent \in Docs
    /\ \A d \in Docs : d = Absent <=> \A f \in Fields : d[f] = 0
    /\ \A d \in Docs, f \in Fields : d[f] \in Nat /\ d[f] <= MaxWrites
    /\ \A f \in Fields : Absent[f] = 0
BY BoundsAreNat DEF Docs, Absent

\* What a queue is after a message joined it.
LEMMA Appended ==
    ASSUME NEW w \in Seq(Messages), NEW m \in Messages
    PROVE  /\ Append(w, m) \in Seq(Messages)
           /\ DOMAIN w = 1..Len(w) /\ Len(w) \in Nat
           /\ DOMAIN Append(w, m) = 1..(Len(w) + 1)
           /\ \A i \in 1..Len(w) : Append(w, m)[i] = w[i]
           /\ Append(w, m)[Len(w) + 1] = m
OBVIOUS

\* What a queue is after a message left it.
LEMMA Removed ==
    ASSUME NEW w \in Seq(Messages), NEW k \in DOMAIN w
    PROVE  /\ Without(w, k) \in Seq(Messages)
           /\ DOMAIN w = 1..Len(w) /\ Len(w) \in Nat /\ w[k] \in Messages
           /\ DOMAIN Without(w, k) = 1..(Len(w) - 1)
           /\ \A i \in 1..(Len(w) - 1) : Without(w, k)[i] = w[IF i < k THEN i ELSE i + 1]
<1>1. DOMAIN w = 1..Len(w) /\ Len(w) \in Nat /\ w[k] \in Messages /\ k \in 1..Len(w)
  OBVIOUS
<1>2. \A i \in 1..(Len(w) - 1) : (IF i < k THEN i ELSE i + 1) \in 1..Len(w)
  BY <1>1
<1>3. Len(w) - 1 \in Nat
  BY <1>1
<1>4. \A i \in 1..(Len(w) - 1) : w[IF i < k THEN i ELSE i + 1] \in Messages
  BY <1>1, <1>2
<1>5. Without(w, k) \in [1..(Len(w) - 1) -> Messages]
  BY <1>4 DEF Without
<1>6. Without(w, k) \in Seq(Messages)
  BY <1>3, <1>5
<1> QED
  BY <1>1, <1>5, <1>6 DEF Without

\* Taking the head leaves the queue without its first message.
LEMMA TailIsWithout ==
    ASSUME NEW w \in Seq(Messages), w # <<>>
    PROVE  /\ 1 \in DOMAIN w /\ Head(w) = w[1] /\ Head(w) \in Messages
           /\ Tail(w) = Without(w, 1)
<1>1. 1 \in DOMAIN w /\ Head(w) = w[1] /\ Head(w) \in Messages /\ Len(w) \in Nat \ {0}
  OBVIOUS
<1> DEFINE v == Tail(w)
           u == Without(w, 1)
<1>2. v \in Seq(Messages) /\ Len(v) = Len(w) - 1 /\ \A i \in 1..Len(v) : v[i] = w[i + 1]
  BY <1>1
<1>3. u \in Seq(Messages) /\ DOMAIN u = 1..(Len(w) - 1) /\ \A i \in 1..(Len(w) - 1) : u[i] = w[i + 1]
  BY <1>1, Removed
<1> HIDE DEF u, v
<1>4. Len(u) = Len(w) - 1
  BY <1>1, <1>3, LenProperties
<1>5. v = u
  BY <1>2, <1>3, <1>4, SeqEqual
<1> QED
  BY <1>1, <1>5 DEF u, v

\* Discarding an answer removes one of its kind, if there is one.
LEMMA DiscardedIsWithout ==
    ASSUME NEW kind
    PROVE  \/ Discarded(kind) = wire /\ \A i \in DOMAIN wire : wire[i].kind # kind
           \/ \E k \in DOMAIN wire : wire[k].kind = kind /\ Discarded(kind) = Without(wire, k)
<1> DEFINE Stray == {i \in DOMAIN wire : wire[i].kind = kind}
           at    == CHOOSE i \in Stray : TRUE
<1>1. CASE Stray = {}
  BY <1>1 DEF Discarded
<1>2. CASE Stray # {}
  <2>1. at \in Stray
    BY <1>2
  <2>2. Discarded(kind) = Without(wire, at)
    BY <1>2 DEF Discarded, Without
  <2> QED
    BY <2>1, <2>2
<1> QED
  BY <1>1, <1>2

-----------------------------------------------------------------------------
(* The order of the main socket                                            *)

\* A write joins the queue as Foundry applies it.
LEMMA WriteJoins ==
    ASSUME NEW w \in Seq(Messages), NEW m \in WriteMessages, NEW t \in Docs, NEW t2 \in Docs,
           \A f \in Fields : t2[f] = IF Sets(m, f) THEN Brings(m) ELSE t[f],
           LastWrites(w, t), Snapshots(w, t)
    PROVE  LastWrites(Append(w, m), t2) /\ Snapshots(Append(w, m), t2)
<1> DEFINE v == Append(w, m)
           n == Len(w) + 1
<1>0. m \in Messages /\ m.kind \in Kinds
  BY MessageKinds DEF WriteMessages
<1>1. /\ Len(w) \in Nat /\ DOMAIN w = 1..Len(w) /\ DOMAIN v = 1..n
      /\ \A i \in 1..Len(w) : v[i] = w[i]
      /\ v[n] = m
  BY <1>0, Appended
<1> HIDE DEF v
<1>2. LastWrites(v, t2)
  <2> SUFFICES ASSUME NEW f \in Fields
               PROVE  \/ Silent(v, f)
                      \/ \E i \in DOMAIN v : Sets(v[i], f) /\ Brings(v[i]) = t2[f] /\ \A j \in DOMAIN v : j > i => ~Sets(v[j], f)
    BY DEF LastWrites
  <2>1. CASE Sets(m, f)
    BY <1>1, <2>1
  <2>2. CASE ~Sets(m, f) /\ Silent(w, f)
    BY <1>1, <2>2 DEF Silent
  <2>3. CASE ~Sets(m, f) /\ ~Silent(w, f)
    <3>1. PICK i \in DOMAIN w : Sets(w[i], f) /\ Brings(w[i]) = t[f] /\ \A j \in DOMAIN w : j > i => ~Sets(w[j], f)
      BY <2>3 DEF LastWrites
    <3>2. i \in DOMAIN v /\ Sets(v[i], f) /\ Brings(v[i]) = t2[f]
      BY <1>1, <2>3, <3>1
    <3>3. \A j \in DOMAIN v : j > i => ~Sets(v[j], f)
      BY <1>1, <2>3, <3>1
    <3> QED
      BY <3>2, <3>3
  <2> QED
    BY <2>1, <2>2, <2>3
<1>3. Snapshots(v, t2)
  <2> SUFFICES ASSUME NEW i \in DOMAIN v, v[i].kind \in Answers, NEW f \in Fields
               PROVE  v[i].content[f] = t2[f] \/ \E j \in DOMAIN v : j > i /\ Sets(v[j], f)
    BY DEF Snapshots
  <2>1. i # n /\ i \in DOMAIN w /\ v[i] = w[i]
    BY <1>0, <1>1 DEF Kinds, Answers
  <2>2. w[i].content[f] = t[f] \/ \E j \in DOMAIN w : j > i /\ Sets(w[j], f)
    BY <2>1 DEF Snapshots
  <2>3. CASE Sets(m, f)
    BY <1>1, <2>1, <2>3
  <2>4. CASE ~Sets(m, f)
    BY <1>1, <2>1, <2>2, <2>4
  <2> QED
    BY <2>3, <2>4
<1> QED
  BY <1>2, <1>3 DEF v

\* An answer joins the queue as what Foundry has.
LEMMA AnswerJoins ==
    ASSUME NEW w \in Seq(Messages), NEW m \in AnswerMessages, NEW t \in Docs, m.content = t,
           LastWrites(w, t), Snapshots(w, t)
    PROVE  LastWrites(Append(w, m), t) /\ Snapshots(Append(w, m), t)
<1> DEFINE v == Append(w, m)
           n == Len(w) + 1
<1>0. m \in Messages /\ \A f \in Fields : ~Sets(m, f)
  BY MessageKinds DEF AnswerMessages, Answers, Sets
<1>1. /\ Len(w) \in Nat /\ DOMAIN w = 1..Len(w) /\ DOMAIN v = 1..n
      /\ \A i \in 1..Len(w) : v[i] = w[i]
      /\ v[n] = m
  BY <1>0, Appended
<1> HIDE DEF v
<1>2. LastWrites(v, t)
  <2> SUFFICES ASSUME NEW f \in Fields
               PROVE  \/ Silent(v, f)
                      \/ \E i \in DOMAIN v : Sets(v[i], f) /\ Brings(v[i]) = t[f] /\ \A j \in DOMAIN v : j > i => ~Sets(v[j], f)
    BY DEF LastWrites
  <2>1. CASE Silent(w, f)
    BY <1>0, <1>1, <2>1 DEF Silent
  <2>2. CASE ~Silent(w, f)
    <3>1. PICK i \in DOMAIN w : Sets(w[i], f) /\ Brings(w[i]) = t[f] /\ \A j \in DOMAIN w : j > i => ~Sets(w[j], f)
      BY <2>2 DEF LastWrites
    <3>2. i \in DOMAIN v /\ Sets(v[i], f) /\ Brings(v[i]) = t[f]
      BY <1>1, <3>1
    <3>3. \A j \in DOMAIN v : j > i => ~Sets(v[j], f)
      BY <1>0, <1>1, <3>1
    <3> QED
      BY <3>2, <3>3
  <2> QED
    BY <2>1, <2>2
<1>3. Snapshots(v, t)
  <2> SUFFICES ASSUME NEW i \in DOMAIN v, v[i].kind \in Answers, NEW f \in Fields
               PROVE  v[i].content[f] = t[f] \/ \E j \in DOMAIN v : j > i /\ Sets(v[j], f)
    BY DEF Snapshots
  <2>1. CASE i = n
    BY <1>1, <2>1
  <2>2. CASE i # n
    <3>1. i \in DOMAIN w /\ v[i] = w[i]
      BY <1>1, <2>2
    <3>2. w[i].content[f] = t[f] \/ \E j \in DOMAIN w : j > i /\ Sets(w[j], f)
      BY <3>1 DEF Snapshots
    <3> QED
      BY <1>1, <3>1, <3>2
  <2> QED
    BY <2>1, <2>2
<1> QED
  BY <1>2, <1>3 DEF v

\* The first message leaves, or an answer does.
LEMMA Leaves ==
    ASSUME NEW w \in Seq(Messages), NEW t \in Docs, NEW k \in DOMAIN w,
           k = 1 \/ \A f \in Fields : ~Sets(w[k], f),
           LastWrites(w, t), Snapshots(w, t)
    PROVE  LastWrites(Without(w, k), t) /\ Snapshots(Without(w, k), t)
<1> DEFINE v == Without(w, k)
           Old(i) == IF i < k THEN i ELSE i + 1
           New(i) == IF i < k THEN i ELSE i - 1
<1>1. /\ Len(w) \in Nat /\ DOMAIN w = 1..Len(w) /\ DOMAIN v = 1..(Len(w) - 1)
      /\ \A i \in 1..(Len(w) - 1) : v[i] = w[Old(i)]
  BY Removed
<1>2. \A i \in DOMAIN v : Old(i) \in DOMAIN w /\ v[i] = w[Old(i)]
  BY <1>1
<1>3. \A i \in DOMAIN w : i # k => New(i) \in DOMAIN v /\ v[New(i)] = w[i] /\ Old(New(i)) = i
  <2> SUFFICES ASSUME NEW i \in DOMAIN w, i # k
               PROVE  New(i) \in DOMAIN v /\ v[New(i)] = w[i] /\ Old(New(i)) = i
    OBVIOUS
  <2>1. New(i) \in 1..(Len(w) - 1) /\ Old(New(i)) = i
    BY <1>1
  <2> QED
    BY <1>1, <2>1
<1>4. \A i, j \in DOMAIN v : j > i <=> Old(j) > Old(i)
  BY <1>1
<1> HIDE DEF v, Old, New
<1>5. LastWrites(v, t)
  <2> SUFFICES ASSUME NEW f \in Fields
               PROVE  \/ Silent(v, f)
                      \/ \E i \in DOMAIN v : Sets(v[i], f) /\ Brings(v[i]) = t[f] /\ \A j \in DOMAIN v : j > i => ~Sets(v[j], f)
    BY DEF LastWrites
  <2>1. CASE Silent(w, f)
    BY <1>2, <2>1 DEF Silent
  <2>2. CASE ~Silent(w, f)
    <3>1. PICK i \in DOMAIN w : Sets(w[i], f) /\ Brings(w[i]) = t[f] /\ \A j \in DOMAIN w : j > i => ~Sets(w[j], f)
      BY <2>2 DEF LastWrites
    <3>2. CASE i = k
      <4>1. \A j \in DOMAIN v : Old(j) > k
        BY <1>1, <3>1, <3>2 DEF Old
      <4>2. Silent(v, f)
        BY <1>2, <3>1, <3>2, <4>1 DEF Silent
      <4> QED
        BY <4>2
    <3>3. CASE i # k
      <4>1. New(i) \in DOMAIN v /\ Sets(v[New(i)], f) /\ Brings(v[New(i)]) = t[f]
        BY <1>3, <3>1, <3>3
      <4>2. \A j \in DOMAIN v : j > New(i) => ~Sets(v[j], f)
        BY <1>2, <1>3, <1>4, <3>1, <3>3
      <4> QED
        BY <4>1, <4>2
    <3> QED
      BY <3>2, <3>3
  <2> QED
    BY <2>1, <2>2
<1>6. Snapshots(v, t)
  <2> SUFFICES ASSUME NEW i \in DOMAIN v, v[i].kind \in Answers, NEW f \in Fields
               PROVE  v[i].content[f] = t[f] \/ \E j \in DOMAIN v : j > i /\ Sets(v[j], f)
    BY DEF Snapshots
  <2>1. w[Old(i)].content[f] = t[f] \/ \E j \in DOMAIN w : j > Old(i) /\ Sets(w[j], f)
    BY <1>2 DEF Snapshots
  <2>2. CASE w[Old(i)].content[f] = t[f]
    BY <1>2, <2>2
  <2>3. ASSUME NEW j \in DOMAIN w, j > Old(i), Sets(w[j], f)
        PROVE  \E x \in DOMAIN v : x > i /\ Sets(v[x], f)
    <3>1. j # k
      BY <1>1, <2>3 DEF Old
    <3>2. New(j) \in DOMAIN v /\ v[New(j)] = w[j] /\ Old(New(j)) = j
      BY <1>3, <3>1
    <3>3. New(j) > i
      BY <1>4, <2>3, <3>2
    <3> QED
      BY <2>3, <3>2, <3>3
  <2> QED
    BY <2>1, <2>2, <2>3
<1> QED
  BY <1>5, <1>6 DEF v

\* The message at the head, when nothing behind it sets a field: a write sets that field to
\* what Foundry has, and an answer has it.
LEMMA HeadIsCurrent ==
    ASSUME NEW w \in Seq(Messages), NEW t \in Docs, w # <<>>, NEW f \in Fields,
           LastWrites(w, t), Snapshots(w, t), Silent(Tail(w), f)
    PROVE  /\ Sets(Head(w), f) => Brings(Head(w)) = t[f]
           /\ Head(w).kind \in Answers => Head(w).content[f] = t[f]
           /\ ~Sets(Head(w), f) => Silent(w, f)
<1> DEFINE v == Tail(w)
<1>1. 1 \in DOMAIN w /\ Head(w) = w[1] /\ v = Without(w, 1)
  BY TailIsWithout
<1>2. /\ Len(w) \in Nat /\ DOMAIN w = 1..Len(w) /\ DOMAIN v = 1..(Len(w) - 1)
      /\ \A i \in 1..(Len(w) - 1) : v[i] = w[i + 1]
  BY <1>1, Removed
<1> HIDE DEF v
<1>3. ASSUME NEW j \in DOMAIN w, j # 1 PROVE ~Sets(w[j], f)
  <2>1. j - 1 \in DOMAIN v /\ v[j - 1] = w[j]
    BY <1>2, <1>3
  <2> QED
    BY <2>1 DEF Silent, v
<1>4. ASSUME Sets(w[1], f) PROVE Brings(w[1]) = t[f]
  <2>1. ~Silent(w, f)
    BY <1>1, <1>4 DEF Silent
  <2>2. PICK i \in DOMAIN w : Sets(w[i], f) /\ Brings(w[i]) = t[f]
    BY <2>1 DEF LastWrites
  <2> QED
    BY <1>3, <2>2
<1>5. ASSUME w[1].kind \in Answers PROVE w[1].content[f] = t[f]
  <2>1. w[1].content[f] = t[f] \/ \E j \in DOMAIN w : j > 1 /\ Sets(w[j], f)
    BY <1>1, <1>5 DEF Snapshots
  <2> QED
    BY <1>3, <2>1
<1>6. ASSUME ~Sets(w[1], f) PROVE Silent(w, f)
  BY <1>3, <1>6 DEF Silent
<1> QED
  BY <1>1, <1>4, <1>5, <1>6

\* When Foundry has the document no more, its deletion is behind whatever else sets a field
\* or tells of the document.
LEMMA DeletionFollows ==
    ASSUME NEW w \in Seq(Messages), NEW t \in Docs, w # <<>>, t = Absent, NEW f \in Fields,
           LastWrites(w, t), Snapshots(w, t),
           \/ Sets(Head(w), f) /\ Head(w).kind # "delete"
           \/ Head(w).kind \in Answers /\ Head(w).content[f] # 0
    PROVE  \E i \in DOMAIN Tail(w) : Tail(w)[i].kind = "delete"
<1> DEFINE v == Tail(w)
<1>1. 1 \in DOMAIN w /\ Head(w) = w[1] /\ v = Without(w, 1) /\ w[1] \in Messages
  BY TailIsWithout
<1>2. /\ Len(w) \in Nat /\ DOMAIN w = 1..Len(w) /\ DOMAIN v = 1..(Len(w) - 1)
      /\ \A i \in 1..(Len(w) - 1) : v[i] = w[i + 1]
  BY <1>1, Removed
<1> HIDE DEF v
<1>3. t[f] = 0
  BY AbsentDoc
<1>4. ~Silent(w, f)
  <2>1. CASE Sets(w[1], f)
    BY <1>1, <2>1 DEF Silent
  <2>2. CASE w[1].kind \in Answers /\ w[1].content[f] # 0
    <3>1. PICK j \in DOMAIN w : j > 1 /\ Sets(w[j], f)
      BY <1>1, <1>3, <2>2 DEF Snapshots
    <3> QED
      BY <3>1 DEF Silent
  <2> QED
    BY <1>1, <2>1, <2>2
<1>5. PICK i \in DOMAIN w : Sets(w[i], f) /\ Brings(w[i]) = 0
  BY <1>3, <1>4 DEF LastWrites
<1>6. w[i].kind = "delete"
  <2>1. w[i] \in Messages
    BY <1>1, <1>2
  <2>2. w[i].write \in Nat \ {0}
    BY <1>5, <2>1, OnlyWritesSet, BoundsAreNat DEF Writes
  <2> QED
    BY <1>5, <2>2 DEF Brings
<1>7. i # 1
  BY <1>1, <1>6 DEF Answers
<1>8. i - 1 \in DOMAIN v /\ v[i - 1] = w[i]
  BY <1>2, <1>7
<1> QED
  BY <1>6, <1>8 DEF v

-----------------------------------------------------------------------------
(* Types                                                                   *)

\* Both say the same.
LEMMA TypesUnfold == TypeOK <=> Types
BY DEF TypeOK, Types, RefreshType, RunType, BaselineType

\* Applying a write to a document gives a document.
LEMMA AppliedType ==
    ASSUME NEW d \in Docs, NEW m \in Messages
    PROVE  Applied(d, m) \in Docs
<1>1. CASE m \in WriteMessages
  <2>1. m.write \in 0..MaxWrites /\ m.kind \in Kinds /\ m.field \in Fields
    BY <1>1, BoundsAreNat DEF WriteMessages, Writes
  <2>2. [f \in Fields |-> m.write] \in Docs /\ [d EXCEPT ![m.field] = m.write] \in Docs /\ Absent \in Docs
    BY <2>1, AbsentDoc DEF Docs
  <2> QED
    BY <2>1, <2>2 DEF Applied, Kinds
<1>2. CASE m \in AnswerMessages
  BY <1>2 DEF AnswerMessages, Answers, Applied
<1> QED
  BY <1>1, <1>2, MessageKinds

\* The initial refresh, run and baseline.
LEMMA Constants0 == Idle \in RefreshType /\ NoRun \in RunType /\ NoBaseline \in BaselineType
BY AbsentDoc DEF Idle, NoRun, NoBaseline, RefreshType, RunType, BaselineType, MaxRootRefreshAttempts

\* What Schedule makes of a refresh.
LEMMA ScheduleFacts ==
    ASSUME NEW r \in RefreshType, NEW via \in {"main", "user"}, NEW b \in BOOLEAN
    PROVE  /\ Schedule(r, via, b) \in RefreshType
           /\ r.pc # "idle" => /\ Schedule(r, via, b).pc = r.pc /\ Schedule(r, via, b).via = r.via
                               /\ Schedule(r, via, b).answer = r.answer /\ Schedule(r, via, b).dirty = TRUE
           /\ r.pc = "idle" => /\ Schedule(r, via, b).pc = "asked" /\ Schedule(r, via, b).via = via
                               /\ Schedule(r, via, b).answer = Absent
<1>1. CASE r.pc # "idle"
  <2>1. Schedule(r, via, b) = [r EXCEPT !.dirty = TRUE, !.required = r.required \/ b, !.observed = r.observed \/ b]
    BY <1>1 DEF Schedule
  <2>2. (r.required \/ b) \in BOOLEAN /\ (r.observed \/ b) \in BOOLEAN
    OBVIOUS
  <2> QED
    BY <1>1, <2>1, <2>2 DEF RefreshType
<1>2. CASE r.pc = "idle"
  <2>1. Schedule(r, via, b) = [Idle EXCEPT !.pc = "asked", !.via = via, !.observed = b, !.tries = 1,
                                           !.as = IF b THEN "create" ELSE "update"]
    BY <1>2 DEF Schedule
  <2> DEFINE a == IF b THEN "create" ELSE "update"
             s == [Idle EXCEPT !.pc = "asked", !.via = via, !.observed = b, !.tries = 1, !.as = a]
  <2> HIDE DEF a
  <2>2. s \in RefreshType
    <3>1. Idle \in RefreshType
      BY Constants0
    <3>2. 1 \in 0..MaxRootRefreshAttempts /\ a \in {"create", "update"}
      BY DEF MaxRootRefreshAttempts, a
    <3> QED
      BY <3>1, <3>2 DEF RefreshType
  <2>3. s.pc = "asked" /\ s.via = via /\ s.answer = Absent
    BY DEF Idle
  <2> QED
    BY <1>2, <2>1, <2>2, <2>3 DEF a
<1> QED
  BY <1>1, <1>2

\* What the end of a pass makes of a refresh: nothing, or another question to the same socket.
LEMMA AfterReadFacts ==
    ASSUME NEW r \in RefreshType, NEW b \in BOOLEAN
    PROVE  /\ AfterRead(r, b) \in RefreshType
           /\ AfterRead(r, b).answer = Absent
           /\ \/ AfterRead(r, b) = Idle /\ AfterRead(r, b).pc = "idle"
              \/ AfterRead(r, b).pc = "asked" /\ AfterRead(r, b).via = r.via
           /\ AfterRead(r, b).pc = "idle" => AfterRead(r, b) = Idle /\ (r.dirty => Reported(r, b)) /\ (~b /\ r.observed => Reported(r, b))
<1> DEFINE s == Reasked(r)
           n == IF r.tries < MaxRootRefreshAttempts THEN r.tries + 1 ELSE r.tries
<1>1. n \in 0..MaxRootRefreshAttempts
  BY DEF RefreshType, MaxRootRefreshAttempts
<1>2. s = [r EXCEPT !.pc = "asked", !.as = IF r.required THEN "create" ELSE "update", !.required = FALSE,
                    !.dirty = FALSE, !.tries = n, !.answer = Absent]
  BY DEF Reasked
<1> HIDE DEF n
<1>3. s \in RefreshType
  BY <1>1, <1>2, AbsentDoc DEF RefreshType
<1>4. s.pc = "asked" /\ s.via = r.via /\ s.answer = Absent
  BY <1>2 DEF RefreshType
<1>5. Idle \in RefreshType /\ Idle.pc = "idle" /\ Idle.answer = Absent
  BY Constants0 DEF Idle
<1> HIDE DEF s
<1>6. AfterRead(r, b) = IF (b \/ ~r.observed) /\ r.dirty /\ (~r.observed \/ r.tries < MaxRootRefreshAttempts) THEN s ELSE Idle
  BY DEF AfterRead, s
<1>7. r.dirty \in BOOLEAN /\ r.observed \in BOOLEAN
  BY DEF RefreshType
<1>8. ASSUME AfterRead(r, b).pc = "idle", r.dirty PROVE Reported(r, b)
  BY <1>4, <1>5, <1>6, <1>7, <1>8 DEF Reported
<1>9. ASSUME AfterRead(r, b).pc = "idle", ~b, r.observed PROVE Reported(r, b)
  BY <1>4, <1>5, <1>6, <1>7, <1>9 DEF Reported
<1>10. AfterRead(r, b).pc = "idle" => AfterRead(r, b) = Idle
  BY <1>4, <1>6
<1>11. AfterRead(r, b) \in {s, Idle}
  BY <1>6
<1> QED
  BY <1>3, <1>4, <1>5, <1>8, <1>9, <1>10, <1>11

\* Touching a run only fences its seed.
LEMMA TouchedFacts ==
    ASSUME NEW r \in RunType
    PROVE  /\ Touched(r) \in RunType
           /\ Touched(r).pc = r.pc /\ Touched(r).kind = r.kind /\ Touched(r).base = r.base
           /\ Touched(r).touched = (r.touched \/ r.pc \in {"asked", "sent"})
           /\ (r = NoRun => Touched(r) = NoRun) /\ (r # NoRun => Touched(r) # NoRun)
<1> DEFINE b == r.touched \/ r.pc \in {"asked", "sent"}
<1>1. Touched(r) = [r EXCEPT !.touched = b]
  BY DEF Touched
<1>2. b \in BOOLEAN
  OBVIOUS
<1> HIDE DEF b
<1>3. [r EXCEPT !.touched = b] \in RunType
  BY <1>2 DEF RunType
<1>4. /\ Touched(r).pc = r.pc /\ Touched(r).kind = r.kind /\ Touched(r).base = r.base
      /\ Touched(r).touched = b
  BY <1>1 DEF RunType
<1>5. ASSUME r = NoRun PROVE Touched(r) = NoRun
  BY <1>1, <1>5 DEF b, NoRun
<1>6. ASSUME r # NoRun, Touched(r) = NoRun PROVE FALSE
  <2>1. r.pc = "idle" /\ r.kind = "none" /\ r.base = Absent /\ b = FALSE
    <3>1. NoRun.pc = "idle" /\ NoRun.kind = "none" /\ NoRun.base = Absent /\ NoRun.touched = FALSE
      BY DEF NoRun
    <3> QED
      BY <1>4, <1>6, <3>1
  <2>2. r.touched = FALSE
    BY <2>1 DEF b, RunType
  <2>3. r = [kind |-> r.kind, pc |-> r.pc, touched |-> r.touched, base |-> r.base]
    BY DEF RunType
  <2> QED
    BY <1>6, <2>1, <2>2, <2>3 DEF NoRun
<1> QED
  BY <1>1, <1>3, <1>4, <1>5, <1>6 DEF b

\* What routing a result leaves.
LEMMA RouteTypes ==
    ASSUME Types, NEW m \in Messages, NEW via \in {"main", "user"}, Route(m, via)
    PROVE  doc' \in Docs /\ shown' \in Docs /\ run' \in RunType /\ refresh' \in RefreshType
<1>1. doc' \in Docs
  BY AppliedType DEF Types, Route
<1>2. shown' \in Docs
  BY <1>1 DEF Types, Route, Emitted
<1>3. run' \in RunType
  BY TouchedFacts DEF Types, Route
<1>4. refresh' \in RefreshType
  BY ScheduleFacts DEF Types, Route
<1> QED
  BY <1>1, <1>2, <1>3, <1>4

\* What the history of a step is.
LEMMA GapTypes ==
    ASSUME Types, NEW kept, NEW g, kept \subseteq {"late", "report", "unread"}, g \subseteq {"late", "report", "unread"}, Gap(kept, g)
    PROVE  gaps' \subseteq {"late", "report", "unread"} /\ missed' \in BOOLEAN
BY DEF Gap, Types

\* What a new write is.
LEMMA WriteTypes ==
    ASSUME Types, NEW kind \in Kinds, NEW field \in Fields, NEW user \in BOOLEAN, clock < MaxWrites
    PROVE  /\ Message(kind, field, user) \in WriteMessages /\ Message(kind, field, user) \in Messages
           /\ clock + 1 \in Writes /\ clock + 1 \in 0..MaxWrites /\ clock \in Nat
           /\ Message(kind, field, user).kind = kind /\ Message(kind, field, user).field = field
           /\ Message(kind, field, user).write = clock + 1
<1>1. clock + 1 \in Writes /\ clock + 1 \in 0..MaxWrites /\ clock \in Nat
  BY BoundsAreNat DEF Types, Writes
<1> QED
  BY <1>1, MessageKinds DEF Message, WriteMessages

\* What an answer is.
LEMMA AnswerTypes ==
    ASSUME NEW kind \in Answers, NEW d \in Docs
    PROVE  LET m == [kind |-> kind, content |-> d] IN m \in AnswerMessages /\ m \in Messages
BY MessageKinds DEF AnswerMessages

\* What is sent or dropped.
LEMMA BroadcastTypes ==
    ASSUME Types, NEW m \in Messages, Broadcast(m)
    PROVE  wire' \in Seq(Messages)
BY Appended DEF Broadcast, Types

\* What is discarded.
LEMMA DiscardedTypes ==
    ASSUME Types, NEW kind
    PROVE  Discarded(kind) \in Seq(Messages)
BY DiscardedIsWithout, Removed DEF Types

\* What the next message is.
LEMMA NextTypes ==
    ASSUME Types, NEW kind, Next1(kind)
    PROVE  /\ wire # <<>> /\ Head(wire) \in Messages /\ Head(wire).kind = kind /\ wire' = Tail(wire)
           /\ wire' \in Seq(Messages)
           /\ 1 \in DOMAIN wire /\ Head(wire) = wire[1] /\ Tail(wire) = Without(wire, 1)
BY TailIsWithout, Removed DEF Next1, Types

\* A write at Foundry.
LEMMA WriteStepTypes ==
    ASSUME Types, NEW kind \in Kinds, NEW field \in Fields, NEW user \in BOOLEAN, Write(kind, field, user)
    PROVE  /\ clock' \in 0..MaxWrites /\ born' \in BOOLEAN /\ truth' \in Docs /\ wire' \in Seq(Messages)
           /\ Message(kind, field, user) \in Messages
<1>1. Message(kind, field, user) \in Messages /\ clock + 1 \in 0..MaxWrites
  BY WriteTypes DEF Write
<1> QED
  BY <1>1, AppliedType, BroadcastTypes DEF Write, Types

\* The kinds of writes that results bring.
LEMMA KindsTypes ==
    ASSUME NEW k \in KindsOfWrite
    PROVE  k[1] \in Kinds /\ k[1] # "autosave" /\ k[2] \in Fields
BY DEF KindsOfWrite, Kinds, Fields

\* Another client's write keeps the types.
LEMMA ForeignWriteTypes == Types /\ ForeignWrite => Types'
<1> SUFFICES ASSUME Types, NEW k \in KindsOfWrite, Write(k[1], k[2], FALSE),
                    UNCHANGED <<acks, mirror, refresh, world, history, faults>>
             PROVE  Types'
  BY DEF ForeignWrite
<1>1. clock' \in 0..MaxWrites /\ born' \in BOOLEAN /\ truth' \in Docs /\ wire' \in Seq(Messages)
  BY KindsTypes, WriteStepTypes
<1> QED
  BY <1>1 DEF Types, mirror, world, history

\* A user's write keeps the types.
LEMMA UserWriteTypes == Types /\ UserWrite => Types'
<1> SUFFICES ASSUME Types, NEW k \in KindsOfWrite, Write(k[1], k[2], TRUE),
                    acks' = acks \cup {Message(k[1], k[2], TRUE)},
                    UNCHANGED <<mirror, refresh, world, history, faults>>
             PROVE  Types'
  BY DEF UserWrite
<1>1. /\ clock' \in 0..MaxWrites /\ born' \in BOOLEAN /\ truth' \in Docs /\ wire' \in Seq(Messages)
      /\ Message(k[1], k[2], TRUE) \in Messages
  BY KindsTypes, WriteStepTypes
<1>2. acks' \subseteq Messages
  BY <1>1 DEF Types
<1> QED
  BY <1>1, <1>2 DEF Types, mirror, world, history

\* An autosave keeps the types.
LEMMA AutosaveTypes == Types /\ Autosave => Types'
<1> SUFFICES ASSUME Types, Autosave PROVE Types'
  OBVIOUS
<1>1. Message("autosave", "direct", FALSE) \in Messages /\ clock + 1 \in 0..MaxWrites
  BY WriteTypes DEF Autosave, Kinds, Fields
<1>2. wire' \in Seq(Messages)
  BY <1>1, BroadcastTypes DEF Autosave
<1>3. truth' \in Docs /\ clock' \in 0..MaxWrites
  BY <1>1 DEF Autosave, Types, Docs
<1> QED
  BY <1>2, <1>3 DEF Autosave, Types, mirror, world, history

\* A broadcast keeps the types.
LEMMA ReceiveBroadcastTypes == Types /\ ReceiveBroadcast => Types'
<1> SUFFICES ASSUME Types, ReceiveBroadcast PROVE Types'
  OBVIOUS
<1>1. Head(wire) \in Messages /\ wire' \in Seq(Messages)
  BY NextTypes DEF ReceiveBroadcast
<1>2. doc' \in Docs /\ shown' \in Docs /\ run' \in RunType /\ refresh' \in RefreshType
  BY <1>1, RouteTypes DEF ReceiveBroadcast
<1>3. gaps' \subseteq {"late", "report", "unread"} /\ missed' \in BOOLEAN
  BY GapTypes DEF ReceiveBroadcast, Types
<1> QED
  BY <1>1, <1>2, <1>3 DEF ReceiveBroadcast, Types, foundry

\* An autosave's signal keeps the types.
LEMMA ReceiveAutosaveTypes == Types /\ ReceiveAutosave => Types'
<1> SUFFICES ASSUME Types, ReceiveAutosave PROVE Types'
  OBVIOUS
<1>1. wire' \in Seq(Messages)
  BY NextTypes DEF ReceiveAutosave
<1>2. refresh' \in RefreshType
  BY ScheduleFacts DEF ReceiveAutosave, Types
<1> QED
  BY <1>1, <1>2 DEF ReceiveAutosave, Types, foundry, mirror, world, history

\* An acknowledgement keeps the types.
LEMMA AcknowledgeTypes ==
    ASSUME Types, NEW m \in acks, Acknowledge(m)
    PROVE  Types'
<1>1. m \in Messages /\ acks' \subseteq Messages
  BY DEF Acknowledge, Types
<1>2. doc' \in Docs /\ shown' \in Docs /\ run' \in RunType /\ refresh' \in RefreshType
  BY <1>1, RouteTypes DEF Acknowledge
<1>3. gaps' \subseteq {"late", "report", "unread"} /\ missed' \in BOOLEAN
  BY GapTypes DEF Acknowledge, Types
<1> QED
  BY <1>1, <1>2, <1>3 DEF Acknowledge, Types, foundry

\* A read's question reaching Foundry keeps the types.
LEMMA FoundryReadsTypes == Types /\ FoundryReads => Types'
<1> SUFFICES ASSUME Types, FoundryReads PROVE Types'
  OBVIOUS
<1>1. [kind |-> "read", content |-> truth] \in Messages
  BY AnswerTypes DEF Types, Answers
<1>2. wire' \in Seq(Messages)
  BY <1>1, Appended DEF FoundryReads, Types
<1>3. refresh' \in RefreshType
  BY DEF FoundryReads, Types, RefreshType
<1> QED
  BY <1>2, <1>3 DEF FoundryReads, Types, foundry, mirror, world, history

\* What applying an answer leaves.
LEMMA RefreshedTypes ==
    ASSUME Types, NEW answer \in Docs, Refreshed(answer)
    PROVE  /\ doc' \in Docs /\ shown' \in Docs /\ run' \in RunType /\ refresh' \in RefreshType
           /\ gaps' \subseteq {"late", "report", "unread"} /\ missed' \in BOOLEAN
<1>1. doc' \in Docs
  BY DEF Types, Refreshed
<1>2. shown' \in Docs
  BY <1>1 DEF Types, Refreshed, Emitted
<1>3. run' \in RunType
  BY TouchedFacts DEF Types, Refreshed
<1>4. refresh' \in RefreshType
  BY AfterReadFacts DEF Types, Refreshed
<1> DEFINE applied == answer # Absent
           taken   == applied /\ (refresh.as = "create" \/ doc # Absent)
           kept    == IF taken /\ refresh.via = "main" THEN {} ELSE gaps
           g       == (IF Reported(refresh, applied) THEN {"report"} ELSE {})
                      \cup (IF applied /\ ~taken THEN {"unread"} ELSE {})
                      \cup (IF taken /\ refresh.via = "user" /\ answer # doc THEN {"late"} ELSE {})
<1>5. Gap(kept, g)
  BY DEF Refreshed
<1>6. kept \subseteq {"late", "report", "unread"} /\ g \subseteq {"late", "report", "unread"}
  BY DEF Types
<1> HIDE DEF kept, g
<1>7. gaps' \subseteq {"late", "report", "unread"} /\ missed' \in BOOLEAN
  BY <1>5, <1>6, GapTypes
<1> QED
  BY <1>1, <1>2, <1>3, <1>4, <1>7

\* A read's answer keeps the types.
LEMMA ReceiveReadTypes == Types /\ ReceiveRead => Types'
<1> SUFFICES ASSUME Types, ReceiveRead PROVE Types'
  OBVIOUS
<1>1. Head(wire).content \in Docs /\ wire' \in Seq(Messages)
  BY NextTypes, OnlyAnswersTell DEF ReceiveRead, Answers
<1> QED
  BY <1>1, RefreshedTypes DEF ReceiveRead, Types, foundry

\* The answer to a read over a user's socket keeps the types.
LEMMA ReceiveUserReadTypes == Types /\ ReceiveUserRead => Types'
<1> SUFFICES ASSUME Types, ReceiveUserRead PROVE Types'
  OBVIOUS
<1>1. refresh.answer \in Docs
  BY DEF Types, RefreshType
<1> QED
  BY <1>1, RefreshedTypes DEF ReceiveUserRead, Types, foundry

\* A read that fails keeps the types.
LEMMA ReadFailsTypes == Types /\ ReadFails => Types'
<1> SUFFICES ASSUME Types, ReadFails PROVE Types'
  OBVIOUS
<1>1. wire' \in Seq(Messages) /\ refresh' \in RefreshType
  BY DiscardedTypes, Constants0 DEF ReadFails
<1>2. faults' \in 0..MaxFaults
  BY BoundsAreNat DEF ReadFails, Types
<1>3. gaps' \subseteq {"late", "report", "unread"} /\ missed' \in BOOLEAN
  BY GapTypes DEF ReadFails, Types
<1> QED
  BY <1>1, <1>2, <1>3 DEF ReadFails, Types, foundry, mirror, world

\* A run that begins.
LEMMA BeginsTypes ==
    ASSUME NEW b \in BOOLEAN
    PROVE  LET r == [NoRun EXCEPT !.kind = IF b THEN "recovery" ELSE "bootstrap", !.pc = "waiting"]
           IN  /\ r \in RunType /\ r.pc = "waiting" /\ r # NoRun
               /\ r.kind = IF b THEN "recovery" ELSE "bootstrap"
<1> DEFINE k == IF b THEN "recovery" ELSE "bootstrap"
           r == [NoRun EXCEPT !.kind = k, !.pc = "waiting"]
<1>1. k \in {"recovery", "bootstrap"}
  OBVIOUS
<1> HIDE DEF k
<1>2. r \in RunType
  BY <1>1, Constants0 DEF RunType
<1>3. r.pc = "waiting" /\ r.kind = k
  BY DEF NoRun
<1>4. r # NoRun
  <2>1. NoRun.pc = "idle"
    BY DEF NoRun
  <2> HIDE DEF r
  <2> QED
    BY <1>3, <2>1
<1> QED
  BY <1>2, <1>3, <1>4 DEF k

\* The connection and the retry keep the types.
LEMMA ConnectTypes == Types /\ (Connect \/ AdminRetry) => Types'
<1> SUFFICES ASSUME Types, Connect \/ AdminRetry PROVE Types'
  OBVIOUS
<1>1. run' \in RunType
  BY BeginsTypes DEF Connect, AdminRetry, Types
<1>2. online' \in BOOLEAN /\ gate' \in {"open", "refreshing", "closed"} /\ gate' \in {gate, "closed"}
  BY DEF Connect, AdminRetry, Types
<1> QED
  BY <1>1, <1>2 DEF Connect, AdminRetry, Types, foundry, mirror, history

\* The two ways in which a socket is lost keep the types.
LEMMA LostTypes == Types /\ (Disconnect \/ Shutdown) => Types'
<1> SUFFICES ASSUME Types, Disconnect \/ Shutdown PROVE Types'
  OBVIOUS
<1>1. SocketLost
  BY DEF Disconnect, Shutdown
<1>2. /\ faults' \in 0..MaxFaults /\ wire' \in Seq(Messages) /\ online' \in BOOLEAN
      /\ UNCHANGED <<foundry, acks>>
  <2>1. faults' \in 0..MaxFaults
    BY <1>1, BoundsAreNat DEF SocketLost, Types
  <2>2. wire' \in Seq(Messages) /\ online' \in BOOLEAN
    BY <1>1, EmptySeq DEF SocketLost
  <2>3. UNCHANGED <<foundry, acks>>
    BY <1>1 DEF SocketLost, foundry
  <2> QED
    BY <2>1, <2>2, <2>3
<1>3. CASE Reset
  <2>1. NoBaseline.taken = FALSE
    BY DEF NoBaseline
  <2>2. baseline' \in BaselineType /\ ~baseline'.taken /\ run' \in RunType /\ refresh' \in RefreshType
    BY <1>3, <2>1, Constants0 DEF Reset
  <2>3. doc' \in Docs /\ shown' \in Docs
    BY <1>3, AbsentDoc DEF Reset
  <2> QED
    BY <1>2, <1>3, <2>2, <2>3 DEF Reset, Types, foundry
<1>4. CASE prepared /\ Disconnect
  <2>1. Captured \in BaselineType
    BY DEF Captured, Types, BaselineType
  <2>2. refresh' \in RefreshType
    BY <1>4 DEF Disconnect, Types, RefreshType
  <2> QED
    BY <1>2, <1>4, <2>1, <2>2, Constants0 DEF Disconnect, Types, foundry, mirror, history
<1> QED
  BY <1>3, <1>4 DEF Disconnect, Shutdown

\* A context refresh keeps the types.
LEMMA ContextTypes == Types /\ (ContextRefresh \/ ContextSettles) => Types'
<1> SUFFICES ASSUME Types, ContextRefresh \/ ContextSettles PROVE Types'
  OBVIOUS
<1>1. gate' \in {"open", "refreshing", "closed"} /\ (gate' # "closed" => gate # "closed")
  BY DEF ContextRefresh, ContextSettles, Serving
<1>2. faults' \in 0..MaxFaults
  BY BoundsAreNat DEF ContextRefresh, ContextSettles, Types
<1> QED
  BY <1>1, <1>2 DEF ContextRefresh, ContextSettles, Types, foundry, mirror, history

\* The seed's question keeps the types.
LEMMA SeedAsksTypes == Types /\ (SeedAsks \/ FoundrySendsSeed) => Types'
<1> SUFFICES ASSUME Types, SeedAsks \/ FoundrySendsSeed PROVE Types'
  OBVIOUS
<1>1. run' \in RunType
  BY DEF SeedAsks, FoundrySendsSeed, Types, RunType
<1>2. [kind |-> "seed", content |-> truth] \in Messages
  BY AnswerTypes DEF Types, Answers
<1>3. wire' \in Seq(Messages)
  BY <1>2, Appended DEF SeedAsks, FoundrySendsSeed, Types
<1> QED
  BY <1>1, <1>3 DEF SeedAsks, FoundrySendsSeed, Types, foundry, mirror, history

\* A seed keeps the types.
LEMMA ReceiveSeedTypes == Types /\ ReceiveSeed => Types'
<1> SUFFICES ASSUME Types, ReceiveSeed PROVE Types'
  OBVIOUS
<1>1. Head(wire).content \in Docs /\ wire' \in Seq(Messages)
  BY NextTypes, OnlyAnswersTell DEF ReceiveSeed, Answers
<1>2. doc' \in Docs /\ run' \in RunType /\ ready' \in BOOLEAN
  BY <1>1, Constants0 DEF ReceiveSeed, Types, RunType
<1>3. missed' \in BOOLEAN
  BY DEF ReceiveSeed, Types
<1>4. gaps' \subseteq {"late", "report", "unread"}
  BY DEF ReceiveSeed, Types
<1> QED
  BY <1>1, <1>2, <1>3, <1>4 DEF ReceiveSeed, Types, foundry

\* The end of a run keeps the types.
LEMMA RunEndsTypes == Types /\ (RunSucceeds \/ RunFails) => Types'
<1> SUFFICES ASSUME Types, RunSucceeds \/ RunFails PROVE Types'
  OBVIOUS
<1>1. CASE RunSucceeds
  <2>1. shown' \in Docs
    BY <1>1 DEF RunSucceeds, Types
  <2>2. missed' \in BOOLEAN
    BY <1>1 DEF RunSucceeds, Types
  <2> QED
    BY <1>1, <2>1, <2>2, Constants0 DEF RunSucceeds, Types, foundry
<1>2. CASE RunFails
  BY <1>2, DiscardedTypes, Constants0, BoundsAreNat DEF RunFails, Types, foundry, mirror, history
<1> QED
  BY <1>1, <1>2

\* Every step keeps the types.
LEMMA TypesStep == Types /\ [Next]_vars => Types'
<1> SUFFICES ASSUME Types, [Next]_vars PROVE Types'
  OBVIOUS
<1>1. CASE UNCHANGED vars
  BY <1>1 DEF vars, foundry, mirror, world, history, Types
<1> QED
  BY <1>1, ForeignWriteTypes, UserWriteTypes, AutosaveTypes, ReceiveBroadcastTypes, ReceiveAutosaveTypes,
     AcknowledgeTypes, FoundryReadsTypes, ReceiveReadTypes, ReceiveUserReadTypes, ReadFailsTypes,
     ConnectTypes, LostTypes, ContextTypes, SeedAsksTypes, ReceiveSeedTypes, RunEndsTypes DEF Next

-----------------------------------------------------------------------------
(* The lifecycle, and who waits for what                                   *)

\* What is in a queue that a message joined.
LEMMA JoinedHas ==
    ASSUME NEW w \in Seq(Messages), NEW m \in Messages
    PROVE  /\ \A kind : Has(Append(w, m), kind) <=> Has(w, kind) \/ m.kind = kind
           /\ OneOfEach(w) /\ (m.kind \in Answers => ~Has(w, m.kind)) => OneOfEach(Append(w, m))
<1> DEFINE v == Append(w, m)
           n == Len(w) + 1
<1>1. /\ Len(w) \in Nat /\ DOMAIN w = 1..Len(w) /\ DOMAIN v = 1..n
      /\ \A i \in 1..Len(w) : v[i] = w[i]
      /\ v[n] = m
  BY Appended
<1> HIDE DEF v
<1>2. ASSUME NEW kind PROVE Has(v, kind) <=> Has(w, kind) \/ m.kind = kind
  <2>1. ASSUME Has(v, kind) PROVE Has(w, kind) \/ m.kind = kind
    BY <1>1, <2>1 DEF Has
  <2>2. ASSUME Has(w, kind) PROVE Has(v, kind)
    BY <1>1, <2>2 DEF Has
  <2>3. ASSUME m.kind = kind PROVE Has(v, kind)
    BY <1>1, <2>3 DEF Has
  <2> QED
    BY <2>1, <2>2, <2>3
<1>3. ASSUME OneOfEach(w), m.kind \in Answers => ~Has(w, m.kind) PROVE OneOfEach(v)
  <2> SUFFICES ASSUME NEW i \in DOMAIN v, NEW j \in DOMAIN v, v[i].kind \in Answers, v[j].kind = v[i].kind
               PROVE  i = j
    BY DEF OneOfEach
  <2>1. CASE i \in DOMAIN w /\ j \in DOMAIN w
    BY <1>1, <1>3, <2>1 DEF OneOfEach
  <2>2. CASE i = n /\ j \in DOMAIN w
    BY <1>1, <1>3, <2>2 DEF Has
  <2>3. CASE i \in DOMAIN w /\ j = n
    BY <1>1, <1>3, <2>3 DEF Has
  <2>4. CASE i = n /\ j = n
    BY <2>4
  <2> QED
    BY <1>1, <2>1, <2>2, <2>3, <2>4
<1> QED
  BY <1>2, <1>3 DEF v

\* What is in a queue that a message left.
LEMMA LeftHas ==
    ASSUME NEW w \in Seq(Messages), NEW k \in DOMAIN w
    PROVE  /\ \A kind : Has(Without(w, k), kind) => Has(w, kind)
           /\ \A kind : Has(w, kind) /\ w[k].kind # kind => Has(Without(w, k), kind)
           /\ OneOfEach(w) => OneOfEach(Without(w, k)) /\ (w[k].kind \in Answers => ~Has(Without(w, k), w[k].kind))
<1> DEFINE v == Without(w, k)
           Old(i) == IF i < k THEN i ELSE i + 1
           New(i) == IF i < k THEN i ELSE i - 1
<1>1. /\ Len(w) \in Nat /\ DOMAIN w = 1..Len(w) /\ DOMAIN v = 1..(Len(w) - 1)
      /\ \A i \in 1..(Len(w) - 1) : v[i] = w[Old(i)]
  BY Removed
<1>2. \A i \in DOMAIN v : Old(i) \in DOMAIN w /\ Old(i) # k /\ v[i] = w[Old(i)]
  BY <1>1
<1>3. \A i, j \in DOMAIN v : Old(i) = Old(j) => i = j
  BY <1>1
<1>3a. ASSUME NEW i \in DOMAIN w, i # k PROVE New(i) \in DOMAIN v /\ v[New(i)] = w[i]
  <2>1. New(i) \in 1..(Len(w) - 1) /\ Old(New(i)) = i
    BY <1>1, <1>3a
  <2> QED
    BY <1>1, <2>1
<1> HIDE DEF v, Old, New
<1>4. ASSUME NEW kind, Has(v, kind) PROVE Has(w, kind)
  BY <1>2, <1>4 DEF Has
<1>4a. ASSUME NEW kind, Has(w, kind), w[k].kind # kind PROVE Has(v, kind)
  BY <1>3a, <1>4a DEF Has
<1>5. ASSUME OneOfEach(w) PROVE OneOfEach(v)
  BY <1>2, <1>3, <1>5 DEF OneOfEach
<1>6. ASSUME OneOfEach(w), w[k].kind \in Answers PROVE ~Has(v, w[k].kind)
  BY <1>2, <1>6 DEF OneOfEach, Has
<1> QED
  BY <1>4, <1>4a, <1>5, <1>6 DEF v

\* What is in the queue after an answer is discarded.
LEMMA DiscardedHas ==
    ASSUME Types, OneOfEach(wire), NEW kind \in Answers
    PROVE  /\ \A x : Has(Discarded(kind), x) => Has(wire, x)
           /\ OneOfEach(Discarded(kind)) /\ ~Has(Discarded(kind), kind)
           /\ wire = <<>> => Discarded(kind) = <<>>
<1>1. CASE Discarded(kind) = wire /\ \A i \in DOMAIN wire : wire[i].kind # kind
  BY <1>1 DEF Has
<1>2. ASSUME NEW k \in DOMAIN wire, wire[k].kind = kind, Discarded(kind) = Without(wire, k)
      PROVE  /\ \A x : Has(Discarded(kind), x) => Has(wire, x)
             /\ OneOfEach(Discarded(kind)) /\ ~Has(Discarded(kind), kind)
             /\ wire # <<>>
  <2>1. wire \in Seq(Messages)
    BY DEF Types
  <2>2. /\ \A x : Has(Without(wire, k), x) => Has(wire, x)
        /\ OneOfEach(Without(wire, k)) /\ ~Has(Without(wire, k), wire[k].kind)
    BY <1>2, <2>1, LeftHas
  <2>3. wire # <<>>
    BY <2>1
  <2> QED
    BY <1>2, <2>2, <2>3
<1> QED
  BY <1>1, <1>2, DiscardedIsWithout

\* The lifecycle's states stay together.
LEMMA LinkedStep == Types /\ Linked /\ Awaited /\ [Next]_vars => Linked'
<1> SUFFICES ASSUME Types, Linked, Awaited, [Next]_vars PROVE Linked'
  OBVIOUS
<1>0. Types'
  BY TypesStep
<1>1. ASSUME UNCHANGED vars PROVE Linked'
  BY <1>1 DEF vars, mirror, foundry, world, history, Linked
<1>2. ASSUME ForeignWrite \/ UserWrite \/ Autosave PROVE Linked'
  <2>1. ~online => wire' = wire
    BY <1>2 DEF ForeignWrite, UserWrite, Autosave, Write, Broadcast
  <2>2. UNCHANGED <<mirror, world>>
    BY <1>2 DEF ForeignWrite, UserWrite, Autosave
  <2> QED
    BY <2>1, <2>2 DEF Linked, mirror, world
<1>3. ASSUME ReceiveBroadcast \/ ReceiveRead \/ (\E m \in acks : Acknowledge(m)) \/ ReceiveUserRead PROVE Linked'
  <2>1. UNCHANGED <<ready, online, prepared, gate, baseline>>
    BY <1>3 DEF ReceiveBroadcast, ReceiveRead, Acknowledge, ReceiveUserRead
  <2>2. ~online => wire' = wire
    BY <1>3 DEF Linked, ReceiveBroadcast, ReceiveRead, Acknowledge, ReceiveUserRead, Next1
  <2>3. run' = run \/ run' = Touched(run)
    BY <1>3 DEF ReceiveBroadcast, ReceiveRead, Acknowledge, ReceiveUserRead, Route, Refreshed
  <2>4. run'.kind = run.kind /\ run'.pc = run.pc /\ (run = NoRun <=> run' = NoRun)
    BY <2>3, TouchedFacts DEF Types
  <2> QED
    BY <2>1, <2>2, <2>4 DEF Linked
<1>4. ASSUME ReceiveAutosave \/ FoundryReads \/ ReadFails PROVE Linked'
  <2>1. UNCHANGED <<mirror, world>>
    BY <1>4 DEF ReceiveAutosave, FoundryReads, ReadFails
  <2>2. ~online => wire' = wire
    <3>1. CASE ReceiveAutosave
      BY <3>1 DEF ReceiveAutosave, Next1, Linked
    <3>2. CASE FoundryReads
      BY <3>2 DEF FoundryReads, Awaited
    <3>3. CASE ReadFails
      BY <3>3, DiscardedHas DEF ReadFails, Linked, Awaited, Answers
    <3> QED
      BY <1>4, <3>1, <3>2, <3>3
  <2> QED
    BY <2>1, <2>2 DEF Linked, mirror, world
<1>5. ASSUME Connect \/ AdminRetry PROVE Linked'
  <2>1. /\ run'.pc = "waiting" /\ run'.kind = IF prepared THEN "recovery" ELSE "bootstrap"
        /\ gate' = "closed" /\ online' = TRUE /\ UNCHANGED <<mirror, prepared>>
    BY <1>5, BeginsTypes DEF Connect, AdminRetry, Types
  <2> QED
    BY <2>1 DEF Linked, mirror
<1>6. ASSUME Disconnect \/ Shutdown PROVE Linked'
  <2>1. NoRun.pc = "idle" /\ NoRun.kind = "none"
    BY DEF NoRun
  <2>2. wire' = <<>> /\ online' = FALSE
    BY <1>6 DEF Disconnect, Shutdown, SocketLost
  <2>3. CASE Reset
    BY <2>1, <2>2, <2>3 DEF Reset, Linked
  <2>4. CASE prepared /\ Disconnect
    BY <2>1, <2>2, <2>4 DEF Disconnect, Linked, mirror
  <2> QED
    BY <1>6, <2>3, <2>4 DEF Disconnect, Shutdown
<1>7. ASSUME ContextRefresh \/ ContextSettles PROVE Linked'
  <2>1. gate' # "closed" => gate # "closed"
    BY <1>7 DEF ContextRefresh, ContextSettles, Serving
  <2>2. gate # "closed"
    BY <1>7 DEF ContextRefresh, ContextSettles, Serving
  <2>3. UNCHANGED <<wire, mirror, online, prepared, run, baseline>>
    BY <1>7 DEF ContextRefresh, ContextSettles
  <2> QED
    BY <2>1, <2>2, <2>3 DEF Linked, mirror
<1>8. ASSUME SeedAsks \/ FoundrySendsSeed PROVE Linked'
  <2>1. run.pc \in {"waiting", "asked"} /\ run # NoRun
    BY <1>8 DEF SeedAsks, FoundrySendsSeed, NoRun
  <2>2. run'.kind = run.kind /\ run'.pc \in {"asked", "sent"} /\ UNCHANGED <<mirror, online, prepared, gate, baseline>>
    BY <1>8 DEF SeedAsks, FoundrySendsSeed, Types, RunType
  <2> QED
    BY <2>1, <2>2 DEF Linked, mirror
<1>9. ASSUME ReceiveSeed PROVE Linked'
  <2>1. Has(wire, "seed") /\ wire # <<>>
    BY <1>9, NextTypes DEF ReceiveSeed, Has
  <2>2. run.pc = "sent" /\ online /\ run # NoRun
    BY <2>1 DEF Awaited, Linked, NoRun
  <2>3. UNCHANGED <<online, prepared, gate, baseline>>
    BY <1>9 DEF ReceiveSeed
  <2>4. \/ run' = NoRun /\ ready' = ready
        \/ run'.kind = run.kind /\ run'.pc = "seeded" /\ ready' = TRUE
    BY <1>9 DEF ReceiveSeed, Types, RunType
  <2> QED
    BY <2>2, <2>3, <2>4 DEF Linked, NoRun
<1>10. ASSUME RunSucceeds \/ RunFails PROVE Linked'
  <2>1. run # NoRun
    BY <1>10 DEF RunSucceeds, RunFails, NoRun
  <2>2. CASE RunSucceeds
    BY <2>1, <2>2 DEF RunSucceeds, Linked, NoRun, NoBaseline
  <2>3. CASE RunFails
    BY <2>1, <2>3 DEF RunFails, Linked, NoRun, mirror
  <2> QED
    BY <1>10, <2>2, <2>3
<1> QED
  BY <1>1, <1>2, <1>3, <1>4, <1>5, <1>6, <1>7, <1>8, <1>9, <1>10 DEF Next

\* What an empty queue has.
LEMMA EmptyHas ==
    /\ OneOfEach(<<>>) /\ \A kind : ~Has(<<>>, kind)
    /\ \A t : LastWrites(<<>>, t) /\ Snapshots(<<>>, t)
    /\ \A f : Silent(<<>>, f)
BY DEF OneOfEach, Has, LastWrites, Snapshots, Silent

\* What a write at Foundry does: it joins the queue, if there is one.
LEMMA WriteActs ==
    ASSUME Types, ForeignWrite \/ UserWrite \/ Autosave
    PROVE  /\ UNCHANGED <<mirror, refresh, world, history>>
           /\ \E m \in WriteMessages :
                /\ m \in Messages /\ wire' = IF online THEN Append(wire, m) ELSE wire
                /\ \A f \in Fields : truth'[f] = IF Sets(m, f) THEN Brings(m) ELSE truth[f]
                /\ m.write = clock + 1 /\ m.kind \in Kinds /\ clock < MaxWrites /\ clock' = clock + 1
                /\ (born => born') /\ (m.kind = "create" => born')
                /\ IF m.kind = "create" THEN ~born ELSE truth # Absent
                /\ acks' = acks \/ acks' = acks \cup {m}
<1>1. ASSUME NEW k \in KindsOfWrite, NEW user \in BOOLEAN, Write(k[1], k[2], user)
      PROVE  LET m == Message(k[1], k[2], user)
             IN  /\ m \in WriteMessages /\ m \in Messages /\ wire' = IF online THEN Append(wire, m) ELSE wire
                 /\ \A f \in Fields : truth'[f] = IF Sets(m, f) THEN Brings(m) ELSE truth[f]
                 /\ m.write = clock + 1 /\ m.kind \in Kinds /\ clock < MaxWrites /\ clock' = clock + 1
                 /\ IF m.kind = "create" THEN ~born ELSE truth # Absent
                 /\ born' = TRUE
  <2> DEFINE m == Message(k[1], k[2], user)
  <2>1. /\ m \in WriteMessages /\ m \in Messages /\ m.kind = k[1] /\ m.field = k[2] /\ m.write = clock + 1
        /\ k[1] \in Kinds /\ k[1] # "autosave" /\ k[2] \in Fields
    BY <1>1, KindsTypes, WriteTypes DEF Write
  <2>2. /\ wire' = IF online THEN Append(wire, m) ELSE wire
        /\ clock < MaxWrites /\ clock' = clock + 1 /\ born' = TRUE
        /\ IF k[1] = "create" THEN ~born ELSE truth # Absent
        /\ truth' = Applied(truth, m)
    BY <1>1 DEF Write, Broadcast
  <2> HIDE DEF m
  <2>3. ASSUME NEW f \in Fields PROVE truth'[f] = IF Sets(m, f) THEN Brings(m) ELSE truth[f]
    <3>1. CASE m.kind = "create"
      BY <2>2, <3>1 DEF Applied, Sets, Brings
    <3>2. CASE m.kind = "update"
      BY <2>1, <2>2, <3>2 DEF Applied, Sets, Brings, Types, Docs
    <3>3. CASE m.kind = "delete"
      BY <2>2, <3>3 DEF Applied, Sets, Brings, Absent
    <3> QED
      BY <2>1, <3>1, <3>2, <3>3 DEF Kinds
  <2> QED
    BY <2>1, <2>2, <2>3 DEF m
<1>2. CASE ForeignWrite
  <2>1. PICK k \in KindsOfWrite : Write(k[1], k[2], FALSE)
    BY <1>2 DEF ForeignWrite
  <2>2. UNCHANGED <<acks, mirror, refresh, world, history>>
    BY <1>2 DEF ForeignWrite
  <2> QED
    BY <1>1, <2>1, <2>2
<1>3. CASE UserWrite
  <2>1. PICK k \in KindsOfWrite : Write(k[1], k[2], TRUE) /\ acks' = acks \cup {Message(k[1], k[2], TRUE)}
    BY <1>3 DEF UserWrite
  <2>2. UNCHANGED <<mirror, refresh, world, history>>
    BY <1>3 DEF UserWrite
  <2> QED
    BY <1>1, <2>1, <2>2
<1>4. CASE Autosave
  <2> DEFINE m == Message("autosave", "direct", FALSE)
  <2>1. /\ m \in WriteMessages /\ m \in Messages /\ m.kind = "autosave" /\ m.field = "direct" /\ m.write = clock + 1
        /\ m.kind \in Kinds
    BY <1>4, WriteTypes DEF Autosave, Kinds, Fields
  <2>2. /\ wire' = IF online THEN Append(wire, m) ELSE wire
        /\ clock < MaxWrites /\ clock' = clock + 1 /\ born' = born /\ acks' = acks /\ truth # Absent
        /\ truth' = [truth EXCEPT !["direct"] = clock + 1]
    BY <1>4 DEF Autosave, Broadcast
  <2> HIDE DEF m
  <2>3. ASSUME NEW f \in Fields PROVE truth'[f] = IF Sets(m, f) THEN Brings(m) ELSE truth[f]
    BY <2>1, <2>2 DEF Sets, Brings, Types, Docs, Fields
  <2>4. (born => born') /\ (m.kind = "create" => born')
    BY <2>1, <2>2
  <2>5. UNCHANGED <<mirror, refresh, world, history>>
    BY <1>4 DEF Autosave
  <2> QED
    BY <2>1, <2>2, <2>3, <2>4, <2>5
<1> QED
  BY <1>2, <1>3, <1>4

\* What a result on the main socket does to the queue.
LEMMA Received ==
    ASSUME Types, NEW kind, Next1(kind)
    PROVE  /\ wire' = Tail(wire) /\ wire # <<>> /\ Head(wire).kind = kind /\ Head(wire) \in Messages
           /\ \A x : Has(wire', x) => Has(wire, x)
           /\ \A x : Has(wire, x) /\ x # kind => Has(wire', x)
           /\ Has(wire, kind)
           /\ OneOfEach(wire) => OneOfEach(wire') /\ (kind \in Answers => ~Has(wire', kind))
<1>1. /\ wire # <<>> /\ Head(wire).kind = kind /\ wire' = Tail(wire) /\ 1 \in DOMAIN wire /\ Head(wire) = wire[1]
      /\ Tail(wire) = Without(wire, 1) /\ wire \in Seq(Messages) /\ Head(wire) \in Messages
  BY NextTypes DEF Types
<1>2. Has(wire, kind)
  BY <1>1 DEF Has
<1> DEFINE v == Without(wire, 1)
<1>3. /\ \A x : Has(v, x) => Has(wire, x)
      /\ \A x : Has(wire, x) /\ wire[1].kind # x => Has(v, x)
      /\ OneOfEach(wire) => OneOfEach(v) /\ (wire[1].kind \in Answers => ~Has(v, wire[1].kind))
  BY <1>1, LeftHas
<1>4. wire' = v /\ wire[1].kind = kind
  BY <1>1
<1> HIDE DEF v
<1>5. /\ \A x : Has(wire', x) => Has(wire, x)
      /\ \A x : Has(wire, x) /\ x # kind => Has(wire', x)
      /\ OneOfEach(wire) => OneOfEach(wire') /\ (kind \in Answers => ~Has(wire', kind))
  BY <1>3, <1>4
<1> QED
  BY <1>1, <1>2, <1>5

\* What a routed result does to who waits.
LEMMA RouteWaits ==
    ASSUME Types, NEW m, NEW via \in {"main", "user"}, Route(m, via)
    PROVE  /\ run'.pc = run.pc /\ run'.kind = run.kind
           /\ refresh.pc # "idle" => refresh'.pc = refresh.pc /\ refresh'.via = refresh.via /\ refresh'.answer = refresh.answer
           /\ refresh.pc = "idle" => refresh' = refresh \/ (refresh'.pc = "asked" /\ refresh'.via = via /\ refresh'.answer = Absent)
           /\ Missed(doc, m) => refresh'.pc # "idle" /\ (refresh.pc # "idle" => refresh'.dirty)
           /\ ~Missed(doc, m) => refresh' = refresh
<1>1. run'.pc = run.pc /\ run'.kind = run.kind
  BY TouchedFacts DEF Route, Types
<1>2. CASE Missed(doc, m)
  <2>1. refresh' = Schedule(refresh, via, TRUE)
    BY <1>2 DEF Route
  <2> DEFINE s == Schedule(refresh, via, TRUE)
  <2>2. refresh \in RefreshType /\ TRUE \in BOOLEAN
    BY DEF Types
  <2>3. /\ refresh.pc # "idle" => s.pc = refresh.pc /\ s.via = refresh.via /\ s.answer = refresh.answer /\ s.dirty = TRUE
        /\ refresh.pc = "idle" => s.pc = "asked" /\ s.via = via /\ s.answer = Absent
    BY <2>2, ScheduleFacts
  <2> HIDE DEF s
  <2> QED
    BY <1>1, <1>2, <2>1, <2>3 DEF s
<1>3. CASE ~Missed(doc, m)
  BY <1>1, <1>3 DEF Route
<1> QED
  BY <1>2, <1>3

\* What an applied answer does to who waits.
LEMMA RefreshedWaits ==
    ASSUME Types, NEW answer \in Docs, Refreshed(answer)
    PROVE  /\ run'.pc = run.pc /\ run'.kind = run.kind /\ refresh'.answer = Absent
           /\ \/ refresh' = Idle /\ refresh'.pc = "idle"
              \/ refresh'.pc = "asked" /\ refresh'.via = refresh.via
<1>1. run'.pc = run.pc /\ run'.kind = run.kind
  BY TouchedFacts DEF Refreshed, Types
<1>2. refresh' = AfterRead(refresh, answer # Absent) /\ (answer # Absent) \in BOOLEAN
  BY DEF Refreshed
<1> QED
  BY <1>1, <1>2, AfterReadFacts DEF Types

\* Every answer under way is awaited.
LEMMA AwaitedStep == Types /\ Linked /\ Awaited /\ [Next]_vars => Awaited'
<1> SUFFICES ASSUME Types, Linked, Awaited, [Next]_vars PROVE Awaited'
  OBVIOUS
<1>0. wire \in Seq(Messages) /\ refresh \in RefreshType /\ run \in RunType /\ truth \in Docs
  BY DEF Types
<1>00. (wire = <<>> \/ online) /\ (\A kind : Has(wire, kind) => online)
  BY EmptyHas DEF Linked
<1>1. ASSUME UNCHANGED vars PROVE Awaited'
  BY <1>1 DEF vars, world, Awaited
<1>2. ASSUME ForeignWrite \/ UserWrite \/ Autosave PROVE Awaited'
  <2>1. UNCHANGED <<refresh, world>>
    BY <1>2, WriteActs
  <2>2. PICK m \in WriteMessages : m \in Messages /\ (wire' = IF online THEN Append(wire, m) ELSE wire) /\ m.kind \in Kinds
    BY <1>2, WriteActs
  <2>3. m.kind \notin Answers
    BY <2>2 DEF Kinds, Answers
  <2>4. OneOfEach(wire') /\ \A kind \in Answers : Has(wire', kind) => Has(wire, kind)
    BY <1>0, <2>2, <2>3, JoinedHas DEF Awaited
  <2> QED
    BY <2>1, <2>4 DEF Awaited, world, Answers
<1>3. ASSUME ReceiveBroadcast PROVE Awaited'
  <2>1. PICK kind \in {"create", "update", "delete"} : Next1(kind)
    BY <1>3 DEF ReceiveBroadcast
  <2>2. OneOfEach(wire') /\ (\A x : Has(wire', x) => Has(wire, x)) /\ Has(wire, kind)
    BY <2>1, Received DEF Awaited
  <2>3. Route(Head(wire), "main") /\ online' = online
    BY <1>3 DEF ReceiveBroadcast
  <2>4. /\ run'.pc = run.pc
        /\ refresh.pc # "idle" => refresh'.pc = refresh.pc /\ refresh'.via = refresh.via
    BY <2>3, RouteWaits
  <2> QED
    BY <1>00, <2>2, <2>3, <2>4 DEF Awaited
<1>4. ASSUME ReceiveAutosave PROVE Awaited'
  <2>1. OneOfEach(wire') /\ (\A x : Has(wire', x) => Has(wire, x)) /\ Has(wire, "autosave")
    BY <1>4, Received DEF ReceiveAutosave, Awaited
  <2>2. /\ refresh' = Schedule(refresh, "main", FALSE) /\ online' = online /\ run' = run
    BY <1>4 DEF ReceiveAutosave, world
  <2>3. refresh.pc # "idle" => refresh'.pc = refresh.pc /\ refresh'.via = refresh.via
    BY <1>0, <2>2, ScheduleFacts
  <2> QED
    BY <1>00, <2>1, <2>2, <2>3 DEF Awaited
<1>5. ASSUME NEW m \in acks, Acknowledge(m) PROVE Awaited'
  <2>1. Route(m, "user") /\ wire' = wire /\ online' = online
    BY <1>5 DEF Acknowledge
  <2>2. /\ run'.pc = run.pc
        /\ refresh.pc # "idle" => refresh'.pc = refresh.pc /\ refresh'.via = refresh.via
        /\ refresh.pc = "idle" => refresh' = refresh \/ (refresh'.pc = "asked" /\ refresh'.via = "user")
    BY <2>1, RouteWaits
  <2> QED
    BY <2>1, <2>2 DEF Awaited
<1>6. ASSUME FoundryReads PROVE Awaited'
  <2>1. refresh.pc = "asked" /\ UNCHANGED <<run, online>>
    BY <1>6 DEF FoundryReads, world
  <2>2. ~Has(wire, "read")
    BY <2>1 DEF Awaited
  <2>3. CASE refresh.via = "main"
    <3>1. [kind |-> "read", content |-> truth] \in Messages
      BY <1>0, AnswerTypes DEF Answers
    <3>2. wire' = Append(wire, [kind |-> "read", content |-> truth]) /\ refresh' = [refresh EXCEPT !.pc = "sent"]
      BY <1>6, <2>3 DEF FoundryReads
    <3>3. refresh'.pc = "sent" /\ refresh'.via = "main"
      BY <1>0, <2>3, <3>2 DEF RefreshType
    <3>4. OneOfEach(wire') /\ \A x : Has(wire', x) => Has(wire, x) \/ x = "read"
      BY <1>0, <2>2, <3>1, <3>2, JoinedHas DEF Awaited
    <3> QED
      BY <2>1, <2>3, <3>3, <3>4 DEF Awaited
  <2>4. CASE refresh.via = "user"
    <3>1. wire' = wire /\ refresh' = [refresh EXCEPT !.pc = "sent", !.answer = truth]
      BY <1>6, <2>4 DEF FoundryReads
    <3>2. refresh'.pc = "sent" /\ refresh'.via = "user"
      BY <1>0, <2>4, <3>1 DEF RefreshType
    <3> QED
      BY <2>1, <2>2, <3>1, <3>2 DEF Awaited
  <2> QED
    BY <1>0, <2>3, <2>4 DEF RefreshType
<1>7. ASSUME ReceiveRead PROVE Awaited'
  <2>1. OneOfEach(wire') /\ (\A x : Has(wire', x) => Has(wire, x)) /\ Has(wire, "read") /\ ~Has(wire', "read")
    BY <1>7, Received DEF ReceiveRead, Awaited, Answers
  <2>2. Head(wire).content \in Docs
    BY <1>7, NextTypes, OnlyAnswersTell DEF ReceiveRead, Answers
  <2>3. Refreshed(Head(wire).content) /\ online' = online
    BY <1>7 DEF ReceiveRead
  <2>4. run'.pc = run.pc
    BY <2>2, <2>3, RefreshedWaits
  <2> QED
    BY <1>00, <2>1, <2>3, <2>4 DEF Awaited
<1>8. ASSUME ReceiveUserRead PROVE Awaited'
  <2>1. refresh.pc = "sent" /\ refresh.via = "user" /\ Refreshed(refresh.answer) /\ wire' = wire /\ online' = online
    BY <1>8 DEF ReceiveUserRead
  <2>2. refresh.answer \in Docs
    BY <1>0 DEF RefreshType
  <2>3. run'.pc = run.pc /\ (refresh'.pc = "idle" \/ refresh'.via = "user")
    BY <2>1, <2>2, RefreshedWaits
  <2>4. ~Has(wire, "read")
    BY <2>1 DEF Awaited
  <2> QED
    BY <2>1, <2>3, <2>4 DEF Awaited
<1>9. ASSUME ReadFails PROVE Awaited'
  <2>1. wire' = Discarded("read") /\ refresh' = Idle /\ UNCHANGED <<run, online>>
    BY <1>9 DEF ReadFails, world
  <2>2. OneOfEach(wire') /\ ~Has(wire', "read") /\ \A x : Has(wire', x) => Has(wire, x)
    BY <2>1, DiscardedHas DEF Awaited, Answers
  <2>3. refresh'.pc = "idle"
    BY <2>1 DEF Idle
  <2> QED
    BY <2>1, <2>2, <2>3 DEF Awaited
<1>10. ASSUME Connect \/ AdminRetry PROVE Awaited'
  <2>1. run = NoRun /\ UNCHANGED <<wire, refresh>> /\ online' = TRUE
    BY <1>10 DEF Connect, AdminRetry, Linked, Types
  <2>2. ~Has(wire, "seed")
    BY <2>1 DEF Awaited, NoRun
  <2> QED
    BY <2>1, <2>2 DEF Awaited
<1>11. ASSUME Disconnect \/ Shutdown PROVE Awaited'
  <2>1. wire' = <<>>
    BY <1>11 DEF Disconnect, Shutdown, SocketLost
  <2>2. refresh'.pc \notin {"asked", "sent"} \/ refresh'.via # "main"
    <3>1. CASE Reset
      BY <3>1 DEF Reset, Idle
    <3>2. CASE prepared /\ Disconnect
      BY <1>0, <3>2 DEF Disconnect, RefreshType
    <3> QED
      BY <1>11, <3>1, <3>2 DEF Disconnect, Shutdown
  <2> QED
    BY <2>1, <2>2, EmptyHas DEF Awaited
<1>12. ASSUME ContextRefresh \/ ContextSettles PROVE Awaited'
  BY <1>12 DEF ContextRefresh, ContextSettles, Awaited
<1>13. ASSUME SeedAsks \/ FoundrySendsSeed PROVE Awaited'
  <2>1. ~Has(wire, "seed") /\ refresh' = refresh /\ online' = online
    BY <1>13 DEF SeedAsks, FoundrySendsSeed, Awaited
  <2>2. CASE SeedAsks
    BY <2>1, <2>2 DEF SeedAsks, Awaited
  <2>3. CASE FoundrySendsSeed
    <3>1. [kind |-> "seed", content |-> truth] \in Messages
      BY <1>0, AnswerTypes DEF Answers
    <3>2. wire' = Append(wire, [kind |-> "seed", content |-> truth]) /\ run' = [run EXCEPT !.pc = "sent"]
      BY <2>3 DEF FoundrySendsSeed
    <3>3. run'.pc = "sent"
      BY <1>0, <3>2 DEF RunType
    <3>4. OneOfEach(wire') /\ \A x : Has(wire', x) => Has(wire, x) \/ x = "seed"
      BY <1>0, <2>1, <3>1, <3>2, JoinedHas DEF Awaited
    <3> QED
      BY <2>1, <3>3, <3>4 DEF Awaited
  <2> QED
    BY <1>13, <2>2, <2>3
<1>14. ASSUME ReceiveSeed PROVE Awaited'
  <2>1. OneOfEach(wire') /\ (\A x : Has(wire', x) => Has(wire, x)) /\ ~Has(wire', "seed")
    BY <1>14, Received DEF ReceiveSeed, Awaited, Answers
  <2>2. refresh' = refresh /\ online' = online
    BY <1>14 DEF ReceiveSeed
  <2> QED
    BY <2>1, <2>2 DEF Awaited
<1>15. ASSUME RunSucceeds \/ RunFails PROVE Awaited'
  <2>1. refresh' = refresh /\ online' = online
    BY <1>15 DEF RunSucceeds, RunFails
  <2>2. CASE RunSucceeds
    BY <2>1, <2>2 DEF RunSucceeds, Awaited
  <2>3. CASE RunFails
    <3>1. wire' = Discarded("seed")
      BY <2>3 DEF RunFails
    <3>2. OneOfEach(wire') /\ ~Has(wire', "seed") /\ \A x : Has(wire', x) => Has(wire, x)
      BY <3>1, DiscardedHas DEF Awaited, Answers
    <3> QED
      BY <2>1, <3>2 DEF Awaited
  <2> QED
    BY <1>15, <2>2, <2>3
<1> QED
  BY <1>1, <1>2, <1>3, <1>4, <1>5, <1>6, <1>7, <1>8, <1>9, <1>10, <1>11, <1>12, <1>13, <1>14, <1>15 DEF Next

-----------------------------------------------------------------------------
(* The order of what is under way                                          *)

\* What a step that is not a write at Foundry does to the queue.
LEMMA WireMoves ==
    ASSUME Types, [Next]_vars, ~(ForeignWrite \/ UserWrite \/ Autosave)
    PROVE  /\ truth' = truth /\ born' = born /\ clock' = clock /\ acks' \subseteq acks
           /\ \/ wire' = wire
              \/ wire' = <<>>
              \/ \E k \in DOMAIN wire : wire' = Without(wire, k) /\ (k = 1 \/ wire[k].kind \in Answers)
              \/ \E kind \in Answers : wire' = Append(wire, [kind |-> kind, content |-> truth])
<1> DEFINE Moves == \/ wire' = wire
                    \/ wire' = <<>>
                    \/ \E k \in DOMAIN wire : wire' = Without(wire, k) /\ (k = 1 \/ wire[k].kind \in Answers)
                    \/ \E kind \in Answers : wire' = Append(wire, [kind |-> kind, content |-> truth])
<1>1. CASE UNCHANGED vars
  BY <1>1 DEF vars, foundry
<1>2. ASSUME NEW kind, Next1(kind) PROVE Moves
  BY <1>2, NextTypes
<1>3. ASSUME NEW kind \in Answers, wire' = Discarded(kind) PROVE Moves
  BY <1>3, DiscardedIsWithout
<1> HIDE DEF Moves
<1>4. CASE ReceiveBroadcast \/ ReceiveAutosave \/ ReceiveRead \/ ReceiveSeed
  <2>1. Moves
    BY <1>2, <1>4 DEF ReceiveBroadcast, ReceiveAutosave, ReceiveRead, ReceiveSeed
  <2>2. truth' = truth /\ born' = born /\ clock' = clock /\ acks' \subseteq acks
    BY <1>4 DEF ReceiveBroadcast, ReceiveAutosave, ReceiveRead, ReceiveSeed, foundry
  <2> QED
    BY <2>1, <2>2 DEF Moves
<1>5. CASE ReadFails \/ RunFails
  <2>1. Moves
    BY <1>3, <1>5 DEF ReadFails, RunFails, Answers
  <2>2. truth' = truth /\ born' = born /\ clock' = clock /\ acks' \subseteq acks
    BY <1>5 DEF ReadFails, RunFails, foundry
  <2> QED
    BY <2>1, <2>2 DEF Moves
<1>6. CASE FoundryReads \/ FoundrySendsSeed
  <2>1. "read" \in Answers /\ "seed" \in Answers
    BY DEF Answers
  <2>2. wire' = wire \/ \E kind \in Answers : wire' = Append(wire, [kind |-> kind, content |-> truth])
    BY <1>6, <2>1 DEF FoundryReads, FoundrySendsSeed
  <2>3. truth' = truth /\ born' = born /\ clock' = clock /\ acks' \subseteq acks
    BY <1>6 DEF FoundryReads, FoundrySendsSeed, foundry
  <2> QED
    BY <2>2, <2>3
<1>7. CASE Disconnect \/ Shutdown
  BY <1>7 DEF Disconnect, Shutdown, SocketLost, foundry
<1>8. CASE ReceiveUserRead \/ Connect \/ AdminRetry \/ ContextRefresh \/ ContextSettles \/ SeedAsks \/ RunSucceeds
  BY <1>8 DEF ReceiveUserRead, Connect, AdminRetry, ContextRefresh, ContextSettles, SeedAsks, RunSucceeds, foundry
<1>9. CASE \E m \in acks : Acknowledge(m)
  BY <1>9 DEF Acknowledge, foundry
<1> QED
  BY <1>1, <1>4, <1>5, <1>6, <1>7, <1>8, <1>9 DEF Next

\* Foundry does not use an id again.
LEMMA UnbornStep == Types /\ Linked /\ Awaited /\ Unborn /\ [Next]_vars => Unborn'
<1> SUFFICES ASSUME Types, Linked, Awaited, Unborn, [Next]_vars PROVE Unborn'
  OBVIOUS
<1>1. CASE ForeignWrite \/ UserWrite \/ Autosave
  <2>1. PICK m \in WriteMessages :
          /\ (born => born') /\ (m.kind = "create" => born')
          /\ IF m.kind = "create" THEN ~born ELSE truth # Absent
    BY <1>1, WriteActs
  <2> QED
    BY <2>1 DEF Unborn
<1>2. CASE ~(ForeignWrite \/ UserWrite \/ Autosave) /\ ~born
  <2>1. truth = Absent /\ acks = {} /\ refresh.pc = "idle" /\ \A kind \in Kinds : ~Has(wire, kind)
    BY <1>2 DEF Unborn
  <2>2. truth' = truth /\ acks' = {}
    BY <1>2, <2>1, WireMoves
  <2>3. ~Has(wire, "read") /\ ~Has(wire, "create") /\ ~Has(wire, "update") /\ ~Has(wire, "delete") /\ ~Has(wire, "autosave")
    BY <2>1 DEF Awaited, Kinds
  <2>4. ~ReceiveBroadcast /\ ~ReceiveAutosave /\ ~ReceiveRead
    BY <2>3, Received DEF ReceiveBroadcast, ReceiveAutosave, ReceiveRead
  <2>5. refresh'.pc = "idle"
    <3>1. CASE Disconnect \/ Shutdown
      BY <2>1, <3>1 DEF Disconnect, Shutdown, Reset, Idle
    <3>2. CASE ~(Disconnect \/ Shutdown)
      <4>1. ~FoundryReads /\ ~ReceiveUserRead /\ ~ReadFails /\ ~(\E m \in acks : Acknowledge(m))
        BY <2>1 DEF FoundryReads, ReceiveUserRead, ReadFails
      <4>2. refresh' = refresh
        BY <1>2, <2>4, <3>2, <4>1 DEF Next, vars, Connect, AdminRetry, ContextRefresh, ContextSettles, SeedAsks,
           FoundrySendsSeed, ReceiveSeed, RunSucceeds, RunFails
      <4> QED
        BY <2>1, <4>2
    <3> QED
      BY <3>1, <3>2
  <2>6. ASSUME NEW kind \in Kinds PROVE ~Has(wire', kind)
    <3>0. wire \in Seq(Messages) /\ truth \in Docs /\ kind \notin Answers /\ ~Has(wire, kind)
      BY <2>1 DEF Types, Kinds, Answers
    <3>1. CASE wire' = <<>>
      BY <3>1, EmptyHas
    <3>2. CASE \E k \in DOMAIN wire : wire' = Without(wire, k)
      BY <3>0, <3>2, LeftHas
    <3>3. CASE \E x \in Answers : wire' = Append(wire, [kind |-> x, content |-> truth])
      <4>1. PICK x \in Answers : wire' = Append(wire, [kind |-> x, content |-> truth])
        BY <3>3
      <4>2. [kind |-> x, content |-> truth] \in Messages
        BY <3>0, AnswerTypes
      <4> QED
        BY <3>0, <4>1, <4>2, JoinedHas
    <3> QED
      BY <1>2, <3>0, <3>1, <3>2, <3>3, WireMoves
  <2> QED
    BY <2>1, <2>2, <2>5, <2>6 DEF Unborn
<1>3. CASE ~(ForeignWrite \/ UserWrite \/ Autosave) /\ born
  BY <1>3, WireMoves DEF Unborn
<1> QED
  BY <1>1, <1>2, <1>3

\* What is in a queue keeps being true of it when a message leaves.
LEMMA LeavesTells ==
    ASSUME NEW w \in Seq(Messages), NEW k \in DOMAIN w, NEW t, NEW c
    PROVE  /\ FoundNothing(w, t) => FoundNothing(Without(w, k), t)
           /\ Written(w, c) => Written(Without(w, k), c)
           /\ Known(w, t) => Known(Without(w, k), t)
<1> DEFINE v == Without(w, k)
<1>1. ASSUME NEW i \in DOMAIN v PROVE \E j \in DOMAIN w : v[i] = w[j]
  <2>1. /\ Len(w) \in Nat /\ DOMAIN w = 1..Len(w) /\ i \in 1..(Len(w) - 1)
        /\ v[i] = w[IF i < k THEN i ELSE i + 1]
    BY <1>1, Removed
  <2>2. (IF i < k THEN i ELSE i + 1) \in DOMAIN w
    BY <2>1
  <2> QED
    BY <2>1, <2>2
<1> HIDE DEF v
<1>2. ASSUME FoundNothing(w, t) PROVE FoundNothing(v, t)
  BY <1>1, <1>2 DEF FoundNothing
<1>3. ASSUME Written(w, c) PROVE Written(v, c)
  BY <1>1, <1>3 DEF Written
<1>4. ASSUME Known(w, t) PROVE Known(v, t)
  BY <1>1, <1>4 DEF Known
<1> QED
  BY <1>2, <1>3, <1>4 DEF v

\* It keeps being true when a message of which it is true joins.
LEMMA JoinsTells ==
    ASSUME NEW w \in Seq(Messages), NEW m \in Messages, NEW t, NEW c
    PROVE  /\ FoundNothing(w, t) /\ (m.kind = "read" /\ m.content = Absent => t = Absent) => FoundNothing(Append(w, m), t)
           /\ /\ Written(w, c)
              /\ m.kind \in Kinds => m.write <= c
              /\ m.kind \in Answers => \A f \in Fields : m.content[f] <= c
              => Written(Append(w, m), c)
           /\ /\ Known(w, t)
              /\ \A f \in Fields : Sets(m, f) => m.write <= t[f]
              /\ m.kind \in Answers => \A f \in Fields : m.content[f] <= t[f]
              => Known(Append(w, m), t)
<1> DEFINE v == Append(w, m)
<1>1. ASSUME NEW i \in DOMAIN v PROVE v[i] = m \/ \E j \in DOMAIN w : v[i] = w[j]
  BY <1>1, Appended
<1> HIDE DEF v
<1>2. ASSUME FoundNothing(w, t), m.kind = "read" /\ m.content = Absent => t = Absent PROVE FoundNothing(v, t)
  BY <1>1, <1>2 DEF FoundNothing
<1>3. ASSUME Written(w, c), m.kind \in Kinds => m.write <= c, m.kind \in Answers => \A f \in Fields : m.content[f] <= c
      PROVE  Written(v, c)
  BY <1>1, <1>3 DEF Written
<1>4. ASSUME Known(w, t), \A f \in Fields : Sets(m, f) => m.write <= t[f],
             m.kind \in Answers => \A f \in Fields : m.content[f] <= t[f]
      PROVE  Known(v, t)
  BY <1>1, <1>4 DEF Known
<1> QED
  BY <1>2, <1>3, <1>4 DEF v

\* What a step does to the pending read.
LEMMA RefreshMoves ==
    ASSUME Types, Awaited, [Next]_vars
    PROVE  /\ refresh'.answer \in {refresh.answer, Absent, truth}
           /\ refresh'.pc = "sent" /\ ~FoundryReads =>
                refresh.pc = "sent" /\ refresh'.via = refresh.via /\ refresh'.answer = refresh.answer
           /\ FoundryReads => /\ refresh.pc = "asked" /\ refresh'.pc = "sent" /\ refresh'.via = refresh.via
                              /\ refresh.via = "user" => refresh'.answer = truth
                              /\ refresh'.dirty = refresh.dirty
<1> DEFINE Same == refresh'.pc = refresh.pc /\ refresh'.via = refresh.via /\ refresh'.answer = refresh.answer
           Over == refresh'.pc # "sent" /\ refresh'.answer = Absent
<1>0. refresh \in RefreshType
  BY DEF Types
<1>1. CASE FoundryReads
  <2>1. CASE refresh.via = "main"
    <3>1. refresh' = [refresh EXCEPT !.pc = "sent"]
      BY <1>1, <2>1 DEF FoundryReads
    <3> QED
      BY <1>0, <1>1, <2>1, <3>1 DEF FoundryReads, RefreshType
  <2>2. CASE refresh.via # "main"
    <3>1. refresh' = [refresh EXCEPT !.pc = "sent", !.answer = truth]
      BY <1>1, <2>2 DEF FoundryReads
    <3> QED
      BY <1>0, <1>1, <2>2, <3>1 DEF FoundryReads, RefreshType
  <2> QED
    BY <2>1, <2>2
<1>2. CASE ~FoundryReads
  <2>1. CASE UNCHANGED refresh
    BY <1>2, <2>1
  <2>2. CASE ReceiveBroadcast
    <3>1. Route(Head(wire), "main")
      BY <2>2 DEF ReceiveBroadcast
    <3>2. Same \/ Over
      BY <3>1, RouteWaits
    <3> QED
      BY <3>2, <1>2
  <2>3. CASE \E m \in acks : Acknowledge(m)
    <3>1. PICK m \in acks : Route(m, "user")
      BY <2>3 DEF Acknowledge
    <3>2. Same \/ Over
      BY <3>1, RouteWaits
    <3> QED
      BY <3>2, <1>2
  <2>4. CASE ReceiveAutosave
    <3>1. refresh' = Schedule(refresh, "main", FALSE)
      BY <2>4 DEF ReceiveAutosave
    <3>2. Same \/ Over
      BY <1>0, <3>1, ScheduleFacts
    <3> QED
      BY <3>2, <1>2
  <2>5. CASE ReceiveRead \/ ReceiveUserRead
    <3>1. PICK answer \in Docs : Refreshed(answer)
      <4>1. CASE ReceiveRead
        <5>1. Head(wire).content \in Docs
          BY <4>1, NextTypes, OnlyAnswersTell DEF ReceiveRead, Answers
        <5> QED
          BY <4>1, <5>1 DEF ReceiveRead
      <4>2. CASE ReceiveUserRead
        BY <1>0, <4>2 DEF ReceiveUserRead, RefreshType
      <4> QED
        BY <2>5, <4>1, <4>2
    <3>2. Over
      BY <3>1, RefreshedWaits
    <3> QED
      BY <3>2, <1>2
  <2>6. CASE ReadFails \/ Disconnect \/ Shutdown
    <3>1. Idle.pc = "idle" /\ Idle.answer = Absent
      BY DEF Idle
    <3>2. CASE ReadFails \/ Reset
      BY <1>2, <3>1, <3>2 DEF ReadFails, Reset
    <3>3. CASE Disconnect /\ prepared
      <4>1. refresh' = refresh \/ refresh' = [refresh EXCEPT !.pc = "lost"]
        BY <3>3 DEF Disconnect
      <4> QED
        BY <1>0, <1>2, <4>1 DEF RefreshType
    <3> QED
      BY <2>6, <3>2, <3>3 DEF Disconnect, Shutdown
  <2>7. \/ UNCHANGED refresh \/ ReceiveBroadcast \/ (\E m \in acks : Acknowledge(m)) \/ ReceiveAutosave
        \/ ReceiveRead \/ ReceiveUserRead \/ ReadFails \/ Disconnect \/ Shutdown
    BY <1>2 DEF Next, vars, ForeignWrite, UserWrite, Autosave, Connect, AdminRetry, ContextRefresh, ContextSettles,
       SeedAsks, FoundrySendsSeed, ReceiveSeed, RunSucceeds, RunFails
  <2> QED
    BY <2>1, <2>2, <2>3, <2>4, <2>5, <2>6, <2>7
<1> QED
  BY <1>1, <1>2

\* The main socket stays in Foundry's order.
LEMMA OrderedStep == Types /\ Linked /\ Awaited /\ Unborn /\ Ordered /\ [Next]_vars => Ordered'
<1> SUFFICES ASSUME Types, Linked, Awaited, Unborn, Ordered, [Next]_vars PROVE Ordered'
  OBVIOUS
<1>0. /\ wire \in Seq(Messages) /\ truth \in Docs /\ truth' \in Docs
      /\ LastWrites(wire, truth) /\ Snapshots(wire, truth) /\ FoundNothing(wire, truth)
  BY TypesStep DEF Types, Ordered, Nothing
<1>1. CASE ForeignWrite \/ UserWrite \/ Autosave
  <2>1. PICK m \in WriteMessages :
          /\ m \in Messages /\ m.kind \in Kinds /\ wire' = IF online THEN Append(wire, m) ELSE wire
          /\ \A f \in Fields : truth'[f] = IF Sets(m, f) THEN Brings(m) ELSE truth[f]
          /\ IF m.kind = "create" THEN ~born ELSE truth # Absent
    BY <1>1, WriteActs
  <2>2. refresh' = refresh
    BY <1>1, WriteActs
  <2>3. LastWrites(wire', truth') /\ Snapshots(wire', truth')
    <3>1. CASE online
      BY <1>0, <2>1, <3>1, WriteJoins
    <3>2. CASE ~online
      BY <2>1, <3>2, EmptyHas DEF Linked
    <3> QED
      BY <3>1, <3>2
  <2>4. FoundNothing(wire, truth') /\ (refresh.pc = "sent" /\ refresh.via = "user" => refresh.answer # Absent)
    <3>1. CASE truth # Absent
      BY <1>0, <3>1 DEF FoundNothing, Ordered, Nothing
    <3>2. CASE truth = Absent
      <4>1. refresh.pc = "idle"
        BY <2>1, <3>2 DEF Unborn
      <4>2. ~Has(wire, "read")
        BY <4>1 DEF Awaited
      <4> QED
        BY <4>1, <4>2 DEF FoundNothing, Has
    <3> QED
      BY <3>1, <3>2
  <2>5. FoundNothing(wire', truth')
    BY <1>0, <2>1, <2>4, JoinsTells DEF Kinds
  <2> QED
    BY <2>2, <2>3, <2>4, <2>5 DEF Ordered, Nothing
<1>2. CASE ~(ForeignWrite \/ UserWrite \/ Autosave)
  <2>1. truth' = truth
    BY <1>2, WireMoves
  <2>2. LastWrites(wire', truth) /\ Snapshots(wire', truth) /\ FoundNothing(wire', truth)
    <3>1. CASE wire' = wire
      BY <1>0, <3>1
    <3>2. CASE wire' = <<>>
      BY <3>2, EmptyHas DEF FoundNothing
    <3>3. ASSUME NEW k \in DOMAIN wire, wire' = Without(wire, k), k = 1 \/ wire[k].kind \in Answers
          PROVE  LastWrites(wire', truth) /\ Snapshots(wire', truth) /\ FoundNothing(wire', truth)
      <4>1. wire[k].kind \in Answers => \A f \in Fields : ~Sets(wire[k], f)
        BY DEF Answers, Sets
      <4> QED
        BY <1>0, <3>3, <4>1, Leaves, LeavesTells
    <3>4. ASSUME NEW kind \in Answers, wire' = Append(wire, [kind |-> kind, content |-> truth])
          PROVE  LastWrites(wire', truth) /\ Snapshots(wire', truth) /\ FoundNothing(wire', truth)
      <4> DEFINE m == [kind |-> kind, content |-> truth]
      <4>1. m \in AnswerMessages /\ m \in Messages /\ m.content = truth
        BY <1>0, AnswerTypes
      <4> HIDE DEF m
      <4>2. LastWrites(Append(wire, m), truth) /\ Snapshots(Append(wire, m), truth)
        BY <1>0, <4>1, AnswerJoins
      <4>3. FoundNothing(Append(wire, m), truth)
        BY <1>0, <4>1, JoinsTells
      <4> QED
        BY <3>4, <4>2, <4>3 DEF m
    <3> QED
      BY <1>2, <3>1, <3>2, <3>3, <3>4, WireMoves
  <2>3. refresh'.pc = "sent" /\ refresh'.via = "user" /\ refresh'.answer = Absent => truth = Absent
    BY RefreshMoves DEF Ordered, Nothing
  <2> QED
    BY <2>1, <2>2, <2>3 DEF Ordered, Nothing
<1> QED
  BY <1>1, <1>2

-----------------------------------------------------------------------------
(* Nothing is newer than Foundry                                           *)

\* What a step does to the store's document.
LEMMA DocMoves ==
    ASSUME Types, [Next]_vars
    PROVE  \/ doc' = doc \/ doc' = Absent
           \/ \E i \in DOMAIN wire : wire[i].kind \in Kinds /\ doc' = Applied(doc, wire[i])
           \/ \E m \in acks : doc' = Applied(doc, m)
           \/ \E i \in DOMAIN wire : wire[i].kind \in Answers /\ doc' = wire[i].content
           \/ doc' = refresh.answer
<1>1. CASE ReceiveBroadcast
  <2>1. PICK kind \in Kinds : Next1(kind)
    BY <1>1 DEF ReceiveBroadcast, Kinds
  <2>2. doc' = Applied(doc, Head(wire))
    BY <1>1 DEF ReceiveBroadcast, Route
  <2> QED
    BY <2>1, <2>2, NextTypes
<1>2. CASE \E m \in acks : Acknowledge(m)
  BY <1>2 DEF Acknowledge, Route
<1>3. CASE ReceiveRead
  BY <1>3, NextTypes DEF ReceiveRead, Refreshed, Answers
<1>4. CASE ReceiveUserRead
  BY <1>4 DEF ReceiveUserRead, Refreshed
<1>5. CASE ReceiveSeed
  BY <1>5, NextTypes DEF ReceiveSeed, Answers
<1>6. CASE Disconnect \/ Shutdown
  BY <1>6 DEF Disconnect, Shutdown, Reset, mirror
<1>7. CASE ~(ReceiveBroadcast \/ (\E m \in acks : Acknowledge(m)) \/ ReceiveRead \/ ReceiveUserRead \/ ReceiveSeed \/ Disconnect \/ Shutdown)
  BY <1>7 DEF Next, vars, mirror, ForeignWrite, UserWrite, Autosave, ReceiveAutosave, FoundryReads, ReadFails,
     Connect, AdminRetry, ContextRefresh, ContextSettles, SeedAsks, FoundrySendsSeed, RunSucceeds, RunFails
<1> QED
  BY <1>1, <1>2, <1>3, <1>4, <1>5, <1>6, <1>7

\* A field of a document after a write is what the write brings, or nothing, or what it was.
LEMMA AppliedField ==
    ASSUME NEW d \in Docs, NEW m \in Messages, NEW f \in Fields
    PROVE  \/ Applied(d, m)[f] = d[f] \/ Applied(d, m)[f] = 0
           \/ Sets(m, f) /\ Applied(d, m)[f] = m.write
<1>1. CASE m.kind = "create"
  BY <1>1 DEF Applied, Sets
<1>2. CASE m.kind = "update" /\ d # Absent
  <2>1. m.field \in Fields
    BY <1>2, MessageKinds DEF WriteMessages, AnswerMessages, Answers
  <2> QED
    BY <1>2, <2>1 DEF Applied, Sets, Docs
<1>3. CASE m.kind = "delete"
  BY <1>3 DEF Applied, Absent
<1>4. CASE m.kind # "create" /\ ~(m.kind = "update" /\ d # Absent) /\ m.kind # "delete"
  BY <1>4 DEF Applied
<1> QED
  BY <1>1, <1>2, <1>3, <1>4

\* A field that a step gives the store's document has a write that the store, the queue, an
\* acknowledgement or a pending answer had.
LEMMA DocFields ==
    ASSUME Types, [Next]_vars, NEW f \in Fields, NEW t \in Nat,
           doc[f] <= t, refresh.answer[f] <= t,
           \A m \in acks : Sets(m, f) => m.write <= t,
           \A i \in DOMAIN wire : Sets(wire[i], f) => wire[i].write <= t,
           \A i \in DOMAIN wire : wire[i].kind \in Answers => wire[i].content[f] <= t
    PROVE  doc'[f] <= t
<1>0. doc \in Docs /\ wire \in Seq(Messages) /\ acks \subseteq Messages
  BY DEF Types
<1>1. CASE doc' = Absent
  BY <1>1, AbsentDoc
<1>2. ASSUME NEW m \in Messages, doc' = Applied(doc, m), Sets(m, f) => m.write <= t PROVE doc'[f] <= t
  BY <1>0, <1>2, AppliedField
<1>3. \A i \in DOMAIN wire : wire[i] \in Messages
  BY <1>0
<1> QED
  BY <1>0, <1>1, <1>2, <1>3, DocMoves

\* Nothing is newer than the last write.
LEMMA PastStep == Types /\ Linked /\ Awaited /\ Past /\ [Next]_vars => Past'
<1> SUFFICES ASSUME Types, Linked, Awaited, Past, [Next]_vars PROVE Past'
  OBVIOUS
<1>0. /\ wire \in Seq(Messages) /\ truth \in Docs /\ doc \in Docs /\ refresh.answer \in Docs /\ acks \subseteq Messages
      /\ truth' \in Docs /\ clock \in Nat
  BY TypesStep, BoundsAreNat DEF Types, RefreshType
<1>00. \A i \in DOMAIN wire : wire[i] \in Messages
  BY <1>0
<1>1. CASE ForeignWrite \/ UserWrite \/ Autosave
  <2>1. PICK m \in WriteMessages :
          /\ m \in Messages /\ wire' = IF online THEN Append(wire, m) ELSE wire
          /\ \A f \in Fields : truth'[f] = IF Sets(m, f) THEN Brings(m) ELSE truth[f]
          /\ m.write = clock + 1 /\ m.kind \in Kinds /\ clock' = clock + 1
          /\ acks' = acks \/ acks' = acks \cup {m}
    BY <1>1, WriteActs
  <2>2. UNCHANGED <<mirror, refresh>>
    BY <1>1, WriteActs
  <2>3. Written(wire, clock')
    <3> SUFFICES ASSUME NEW i \in DOMAIN wire
                 PROVE  /\ wire[i].kind \in Kinds => wire[i].write <= clock'
                        /\ wire[i].kind \in Answers => \A f \in Fields : wire[i].content[f] <= clock'
      BY DEF Written
    <3>1. wire[i].kind \in Kinds => wire[i].write <= clock' 
      <4> SUFFICES ASSUME wire[i].kind \in Kinds PROVE wire[i].write <= clock'
        OBVIOUS
      <4>1. wire[i].write <= clock
        BY DEF Past, Written
      <4>2. wire[i].write \in Nat
        BY <1>00, MessageKinds, BoundsAreNat DEF WriteMessages, AnswerMessages, Kinds, Answers, Writes
      <4> QED
        BY <1>0, <2>1, <4>1, <4>2
    <3>2. ASSUME wire[i].kind \in Answers, NEW f \in Fields PROVE wire[i].content[f] <= clock'
      <4>1. wire[i].content[f] <= clock
        BY <3>2 DEF Past, Written
      <4>2. wire[i].content[f] \in Nat
        BY <1>00, <3>2, OnlyAnswersTell, AbsentDoc
      <4> QED
        BY <1>0, <2>1, <4>1, <4>2
    <3> QED
      BY <3>1, <3>2
  <2>4. Written(wire', clock')
    <3>1. m.write <= clock' /\ m.kind \notin Answers
      BY <1>0, <2>1 DEF Kinds, Answers
    <3> QED
      BY <1>0, <2>1, <2>3, <3>1, JoinsTells
  <2>5. \A a \in acks' : a.kind \in Kinds /\ a.write <= clock'
    <3> SUFFICES ASSUME NEW a \in acks', a \in acks PROVE a.kind \in Kinds /\ a.write <= clock'
      BY <1>0, <2>1
    <3>1. a.kind \in Kinds /\ a.write <= clock /\ a \in Messages
      BY <1>0 DEF Past
    <3>2. a.write \in Nat
      BY <3>1, MessageKinds, BoundsAreNat DEF WriteMessages, AnswerMessages, Kinds, Answers, Writes
    <3> QED
      BY <1>0, <2>1, <3>1, <3>2
  <2>6. ASSUME NEW f \in Fields PROVE truth'[f] <= clock' /\ doc'[f] <= clock' /\ refresh'.answer[f] <= clock'
    <3>1. truth[f] \in Nat /\ doc[f] \in Nat /\ refresh.answer[f] \in Nat
      BY <1>0, AbsentDoc
    <3>2. truth[f] <= clock /\ doc[f] <= clock /\ refresh.answer[f] <= clock
      BY DEF Past
    <3>3. Brings(m) <= clock'
      BY <1>0, <2>1 DEF Brings
    <3>4. doc'[f] = doc[f] /\ refresh'.answer[f] = refresh.answer[f]
      BY <2>2 DEF mirror
    <3> QED
      BY <1>0, <2>1, <3>1, <3>2, <3>3, <3>4
  <2> QED
    BY <2>4, <2>5, <2>6 DEF Past
<1>2. CASE ~(ForeignWrite \/ UserWrite \/ Autosave)
  <2>1. truth' = truth /\ clock' = clock /\ acks' \subseteq acks
    BY <1>2, WireMoves
  <2>2. Written(wire', clock)
    <3>0. Written(wire, clock)
      BY DEF Past
    <3>1. CASE wire' = <<>>
      BY <3>1 DEF Written
    <3>2. CASE \E k \in DOMAIN wire : wire' = Without(wire, k)
      BY <1>0, <3>0, <3>2, LeavesTells
    <3>3. ASSUME NEW kind \in Answers, wire' = Append(wire, [kind |-> kind, content |-> truth])
          PROVE  Written(wire', clock)
      <4> DEFINE m == [kind |-> kind, content |-> truth]
      <4>1. m \in Messages /\ m.content = truth /\ m.kind \notin Kinds
        BY <1>0, AnswerTypes DEF Kinds, Answers
      <4>2. \A f \in Fields : truth[f] <= clock
        BY DEF Past
      <4> HIDE DEF m
      <4>3. Written(Append(wire, m), clock)
        BY <1>0, <3>0, <4>1, <4>2, JoinsTells
      <4> QED
        BY <3>3, <4>3 DEF m
    <3> QED
      BY <1>2, <3>0, <3>1, <3>2, <3>3, WireMoves
  <2>3. ASSUME NEW f \in Fields PROVE truth[f] <= clock /\ doc'[f] <= clock /\ refresh'.answer[f] <= clock
    <3>1. truth[f] <= clock /\ doc[f] <= clock /\ refresh.answer[f] <= clock
      BY DEF Past
    <3>2. refresh'.answer[f] <= clock
      BY <1>0, <3>1, RefreshMoves, AbsentDoc
    <3>3. \A m \in acks : Sets(m, f) => m.write <= clock
      BY DEF Past
    <3>4. \A i \in DOMAIN wire : Sets(wire[i], f) => wire[i].write <= clock
      BY <1>00, OnlyWritesSet DEF Past, Written
    <3>5. \A i \in DOMAIN wire : wire[i].kind \in Answers => wire[i].content[f] <= clock
      BY DEF Past, Written
    <3>6. doc'[f] <= clock
      BY <1>0, <3>1, <3>3, <3>4, <3>5, DocFields
    <3> QED
      BY <3>1, <3>2, <3>6
  <2> QED
    BY <2>1, <2>2, <2>3 DEF Past
<1> QED
  BY <1>1, <1>2

\* Nothing is newer than what Foundry has of a document that is there.
LEMMA NotAheadStep == Types /\ Linked /\ Awaited /\ Past /\ NotAhead /\ [Next]_vars => NotAhead'
<1> SUFFICES ASSUME Types, Linked, Awaited, Past, NotAhead, [Next]_vars, truth' # Absent
             PROVE  /\ Known(wire', truth')
                    /\ \A m \in acks', f \in Fields : Sets(m, f) => m.write <= truth'[f]
                    /\ \A f \in Fields : doc'[f] <= truth'[f] /\ refresh'.answer[f] <= truth'[f]
  BY DEF NotAhead
<1>0. /\ wire \in Seq(Messages) /\ truth \in Docs /\ doc \in Docs /\ refresh.answer \in Docs /\ acks \subseteq Messages
      /\ truth' \in Docs /\ clock \in Nat /\ \A i \in DOMAIN wire : wire[i] \in Messages
  BY TypesStep, BoundsAreNat DEF Types, RefreshType
<1>00. \A m \in Messages, f \in Fields : Sets(m, f) => m.write \in Nat /\ m.kind \in Kinds
  BY OnlyWritesSet, BoundsAreNat DEF Writes
<1>1. CASE ForeignWrite \/ UserWrite \/ Autosave
  <2>1. PICK m \in WriteMessages :
          /\ m \in Messages /\ wire' = IF online THEN Append(wire, m) ELSE wire
          /\ \A f \in Fields : truth'[f] = IF Sets(m, f) THEN Brings(m) ELSE truth[f]
          /\ m.write = clock + 1 /\ m.kind \in Kinds
          /\ IF m.kind = "create" THEN ~born ELSE truth # Absent
          /\ acks' = acks \/ acks' = acks \cup {m}
    BY <1>1, WriteActs
  <2>2. UNCHANGED <<mirror, refresh>>
    BY <1>1, WriteActs
  <2>3. m.kind # "delete"
    <3> SUFFICES ASSUME m.kind = "delete" PROVE FALSE
      OBVIOUS
    <3>1. \A f \in Fields : truth'[f] = 0
      BY <2>1 DEF Sets, Brings
    <3> QED
      BY <1>0, <3>1, AbsentDoc
  <2>4. ASSUME NEW f \in Fields, NEW x \in Nat, x <= clock, truth # Absent => x <= truth[f]
        PROVE  x <= truth'[f]
    <3>1. CASE Sets(m, f)
      BY <1>0, <2>1, <2>3, <2>4, <3>1 DEF Brings
    <3>2. CASE ~Sets(m, f)
      BY <2>1, <2>4, <3>2 DEF Sets
    <3> QED
      BY <3>1, <3>2
  <2>5. \A f \in Fields : Sets(m, f) => m.write <= truth'[f]
    BY <1>0, <2>1, <2>3 DEF Brings
  <2>6. Known(wire, truth')
    <3> SUFFICES ASSUME NEW i \in DOMAIN wire, NEW f \in Fields
                 PROVE  /\ Sets(wire[i], f) => wire[i].write <= truth'[f]
                        /\ wire[i].kind \in Answers => wire[i].content[f] <= truth'[f]
      BY DEF Known
    <3>1. ASSUME Sets(wire[i], f) PROVE wire[i].write <= truth'[f]
      <4>1. wire[i].write \in Nat /\ wire[i].kind \in Kinds
        BY <1>0, <1>00, <3>1
      <4>2. wire[i].write <= clock /\ (truth # Absent => wire[i].write <= truth[f])
        BY <3>1, <4>1 DEF Past, Written, NotAhead, Known
      <4> QED
        BY <2>4, <4>1, <4>2
    <3>2. ASSUME wire[i].kind \in Answers PROVE wire[i].content[f] <= truth'[f]
      <4>1. wire[i].content[f] \in Nat
        BY <1>0, <3>2, OnlyAnswersTell, AbsentDoc
      <4>2. wire[i].content[f] <= clock /\ (truth # Absent => wire[i].content[f] <= truth[f])
        BY <3>2 DEF Past, Written, NotAhead, Known
      <4> QED
        BY <2>4, <4>1, <4>2
    <3> QED
      BY <3>1, <3>2
  <2>7. Known(wire', truth')
    <3>1. m.kind \notin Answers
      BY <2>1 DEF Kinds, Answers
    <3> QED
      BY <1>0, <2>1, <2>5, <2>6, <3>1, JoinsTells
  <2>8. ASSUME NEW a \in acks', NEW f \in Fields, Sets(a, f) PROVE a.write <= truth'[f]
    <3>1. CASE a \in acks
      <4>1. a.write \in Nat /\ a.write <= clock /\ (truth # Absent => a.write <= truth[f])
        BY <1>0, <1>00, <2>8, <3>1 DEF Past, NotAhead
      <4> QED
        BY <2>4, <4>1
    <3>2. CASE a = m
      BY <2>5, <2>8, <3>2
    <3> QED
      BY <2>1, <3>1, <3>2
  <2>9. ASSUME NEW f \in Fields PROVE doc'[f] <= truth'[f] /\ refresh'.answer[f] <= truth'[f]
    <3>1. doc[f] \in Nat /\ refresh.answer[f] \in Nat
      BY <1>0, AbsentDoc
    <3>2. doc[f] <= clock /\ refresh.answer[f] <= clock
      BY DEF Past
    <3>3. truth # Absent => doc[f] <= truth[f] /\ refresh.answer[f] <= truth[f]
      BY DEF NotAhead
    <3>4. doc[f] <= truth'[f] /\ refresh.answer[f] <= truth'[f]
      BY <2>4, <3>1, <3>2, <3>3
    <3> QED
      BY <2>2, <3>4 DEF mirror
  <2> QED
    BY <2>7, <2>8, <2>9
<1>2. CASE ~(ForeignWrite \/ UserWrite \/ Autosave)
  <2>1. truth' = truth /\ acks' \subseteq acks /\ truth # Absent
    BY <1>2, WireMoves
  <2>2. Known(wire', truth)
    <3>0. Known(wire, truth)
      BY <2>1 DEF NotAhead
    <3>1. CASE wire' = <<>>
      BY <3>1 DEF Known
    <3>2. CASE \E k \in DOMAIN wire : wire' = Without(wire, k)
      BY <1>0, <3>0, <3>2, LeavesTells
    <3>3. ASSUME NEW kind \in Answers, wire' = Append(wire, [kind |-> kind, content |-> truth])
          PROVE  Known(wire', truth)
      <4> DEFINE m == [kind |-> kind, content |-> truth]
      <4>1. m \in Messages /\ m.content = truth /\ \A f \in Fields : ~Sets(m, f)
        BY <1>0, AnswerTypes DEF Sets, Answers
      <4>2. \A f \in Fields : truth[f] <= truth[f]
        BY <1>0, AbsentDoc
      <4> HIDE DEF m
      <4>3. Known(Append(wire, m), truth)
        BY <1>0, <3>0, <4>1, <4>2, JoinsTells
      <4> QED
        BY <3>3, <4>3 DEF m
    <3> QED
      BY <1>2, <3>0, <3>1, <3>2, <3>3, WireMoves
  <2>3. ASSUME NEW f \in Fields PROVE doc'[f] <= truth[f] /\ refresh'.answer[f] <= truth[f]
    <3>0. truth[f] \in Nat
      BY <1>0, AbsentDoc
    <3>1. doc[f] <= truth[f] /\ refresh.answer[f] <= truth[f]
      BY <2>1 DEF NotAhead
    <3>2. refresh'.answer[f] <= truth[f]
      BY <3>0, <3>1, RefreshMoves, AbsentDoc
    <3>3. \A m \in acks : Sets(m, f) => m.write <= truth[f]
      BY <2>1 DEF NotAhead
    <3>4. \A i \in DOMAIN wire : Sets(wire[i], f) => wire[i].write <= truth[f]
      BY <2>1 DEF NotAhead, Known
    <3>5. \A i \in DOMAIN wire : wire[i].kind \in Answers => wire[i].content[f] <= truth[f]
      BY <2>1 DEF NotAhead, Known
    <3>6. doc'[f] <= truth[f]
      BY <3>0, <3>1, <3>3, <3>4, <3>5, DocFields
    <3> QED
      BY <3>2, <3>6
  <2> QED
    BY <2>1, <2>2, <2>3 DEF NotAhead
<1> QED
  BY <1>1, <1>2

-----------------------------------------------------------------------------
(* Seeds and events                                                        *)

\* A run that waits for its seed and was not touched leaves the store as it was.
LEMMA RunMoves ==
    ASSUME Types, Linked, [Next]_vars, run'.pc = "sent", ~run'.touched, ~FoundrySendsSeed
    PROVE  run.pc = "sent" /\ ~run.touched /\ doc' = doc
<1>0. run \in RunType
  BY DEF Types
<1>1. ASSUME NEW m, NEW via, Route(m, via) PROVE FALSE
  <2>1. run' = Touched(run)
    BY <1>1 DEF Route
  <2> QED
    BY <1>0, <2>1, TouchedFacts
<1>2. ASSUME NEW answer, Refreshed(answer) PROVE run.pc = "sent" /\ ~run.touched /\ doc' = doc
  <2>1. CASE answer # Absent
    <3>1. run' = Touched(run)
      BY <1>2, <2>1 DEF Refreshed
    <3> QED
      BY <1>0, <3>1, TouchedFacts
  <2>2. CASE answer = Absent
    BY <1>2, <2>2 DEF Refreshed
  <2> QED
    BY <2>1, <2>2
<1>3. CASE ReceiveBroadcast \/ (\E m \in acks : Acknowledge(m))
  BY <1>1, <1>3 DEF ReceiveBroadcast, Acknowledge
<1>4. CASE ReceiveRead \/ ReceiveUserRead
  BY <1>2, <1>4 DEF ReceiveRead, ReceiveUserRead
<1>5. NoRun.pc = "idle"
  BY DEF NoRun
<1>6. CASE Disconnect \/ Shutdown \/ RunSucceeds \/ RunFails
  BY <1>5, <1>6 DEF Disconnect, Shutdown, Reset, RunSucceeds, RunFails
<1>7. CASE Connect \/ AdminRetry
  BY <1>7, BeginsTypes DEF Connect, AdminRetry, Types
<1>8. CASE SeedAsks
  <2>1. run'.pc = "asked"
    BY <1>0, <1>8 DEF SeedAsks, RunType
  <2> QED
    BY <2>1
<1>9. CASE ReceiveSeed
  <2>1. run' = NoRun \/ run' = [run EXCEPT !.pc = "seeded"]
    BY <1>9 DEF ReceiveSeed
  <2> QED
    BY <1>0, <1>5, <2>1 DEF RunType
<1>10. CASE UNCHANGED <<run, doc>>
  BY <1>10
<1>11. \/ UNCHANGED <<run, doc>> \/ ReceiveBroadcast \/ (\E m \in acks : Acknowledge(m)) \/ ReceiveRead \/ ReceiveUserRead
       \/ Disconnect \/ Shutdown \/ RunSucceeds \/ RunFails \/ Connect \/ AdminRetry \/ SeedAsks \/ ReceiveSeed
  BY DEF Next, vars, mirror, world, ForeignWrite, UserWrite, Autosave, ReceiveAutosave, FoundryReads, ReadFails,
     ContextRefresh, ContextSettles
<1> QED
  BY <1>3, <1>4, <1>6, <1>7, <1>8, <1>9, <1>10, <1>11

\* A seed under way that nothing overtook is not older than the store.
LEMMA SeedingStep == Types /\ Linked /\ Awaited /\ Behind /\ Seeding /\ [Next]_vars => Seeding'
<1> SUFFICES ASSUME Types, Linked, Awaited, Behind, Seeding, [Next]_vars, run'.pc = "sent", ~run'.touched
             PROVE  NotOlder(wire', doc')
  BY DEF Seeding
<1>0. wire \in Seq(Messages) /\ truth \in Docs /\ doc \in Docs
  BY DEF Types
<1>1. ASSUME NEW m \in Messages, NotOlder(wire, doc),
             m.kind = "seed" => m.content = Absent \/ \A f \in Fields : doc[f] <= m.content[f]
      PROVE  NotOlder(Append(wire, m), doc)
  <2> DEFINE v == Append(wire, m)
  <2>1. \A i \in DOMAIN v : v[i] = m \/ \E j \in DOMAIN wire : v[i] = wire[j]
    BY <1>0, Appended
  <2> HIDE DEF v
  <2>2. NotOlder(v, doc)
    BY <1>1, <2>1 DEF NotOlder
  <2> QED
    BY <2>2 DEF v
<1>2. CASE FoundrySendsSeed
  <2>1. ~Has(wire, "seed")
    BY <1>2 DEF FoundrySendsSeed, Awaited
  <2>2. NotOlder(wire, doc)
    BY <2>1 DEF NotOlder, Has
  <2> DEFINE m == [kind |-> "seed", content |-> truth]
  <2>3. m \in Messages /\ m.content = truth
    BY <1>0, AnswerTypes DEF Answers
  <2>4. truth = Absent \/ \A f \in Fields : doc[f] <= truth[f]
    BY DEF Behind, NotAhead
  <2> HIDE DEF m
  <2>5. NotOlder(Append(wire, m), doc)
    BY <1>1, <2>2, <2>3, <2>4
  <2> QED
    BY <1>2, <2>5 DEF FoundrySendsSeed, mirror, m
<1>3. CASE ~FoundrySendsSeed
  <2>1. run.pc = "sent" /\ ~run.touched /\ doc' = doc
    BY <1>3, RunMoves
  <2>2. NotOlder(wire, doc)
    BY <2>1 DEF Seeding
  <2>3. CASE ForeignWrite \/ UserWrite \/ Autosave
    <3>1. PICK m \in WriteMessages : m \in Messages /\ m.kind \in Kinds /\ wire' = IF online THEN Append(wire, m) ELSE wire
      BY <2>3, WriteActs
    <3>2. m.kind # "seed"
      BY <3>1 DEF Kinds
    <3> QED
      BY <1>1, <2>1, <2>2, <3>1, <3>2
  <2>4. CASE ~(ForeignWrite \/ UserWrite \/ Autosave)
    <3>1. CASE wire' = <<>>
      BY <3>1 DEF NotOlder
    <3>2. ASSUME NEW k \in DOMAIN wire, wire' = Without(wire, k) PROVE NotOlder(wire', doc)
      <4> DEFINE v == Without(wire, k)
      <4>1. ASSUME NEW i \in DOMAIN v PROVE \E j \in DOMAIN wire : v[i] = wire[j]
        <5>1. /\ Len(wire) \in Nat /\ DOMAIN wire = 1..Len(wire) /\ i \in 1..(Len(wire) - 1)
              /\ v[i] = wire[IF i < k THEN i ELSE i + 1]
          BY <1>0, <4>1, Removed
        <5>2. (IF i < k THEN i ELSE i + 1) \in DOMAIN wire
          BY <5>1
        <5> QED
          BY <5>1, <5>2
      <4> HIDE DEF v
      <4>2. NotOlder(v, doc)
        BY <2>2, <4>1 DEF NotOlder
      <4> QED
        BY <3>2, <4>2 DEF v
    <3>3. ASSUME NEW kind \in Answers, wire' = Append(wire, [kind |-> kind, content |-> truth])
          PROVE  NotOlder(wire', doc)
      <4> DEFINE m == [kind |-> kind, content |-> truth]
      <4>1. m \in Messages /\ m.content = truth
        BY <1>0, AnswerTypes
      <4>2. truth = Absent \/ \A f \in Fields : doc[f] <= truth[f]
        BY DEF Behind, NotAhead
      <4> HIDE DEF m
      <4>3. NotOlder(Append(wire, m), doc)
        BY <1>1, <2>2, <4>1, <4>2
      <4> QED
        BY <3>3, <4>3 DEF m
    <3> QED
      BY <2>1, <2>2, <2>4, <3>1, <3>2, <3>3, WireMoves
  <2> QED
    BY <2>3, <2>4
<1> QED
  BY <1>2, <1>3

\* Browsers saw the store, or the baseline that was taken of it.
LEMMA SeenStep == Types /\ Linked /\ Awaited /\ Seen /\ [Next]_vars => Seen'
<1> SUFFICES ASSUME Types, Linked, Awaited, Seen, [Next]_vars, prepared', ~missed'
             PROVE  shown' = IF baseline'.taken THEN baseline'.content ELSE doc'
  BY DEF Seen
<1>1. ASSUME missed' = missed, UNCHANGED <<doc, shown, prepared, baseline>>
      PROVE  shown' = IF baseline'.taken THEN baseline'.content ELSE doc'
  BY <1>1 DEF Seen
<1>2. ASSUME NEW kept, NEW g, Gap(kept, g), shown' = Emitted(doc'), UNCHANGED <<prepared, baseline>>
      PROVE  shown' = IF baseline'.taken THEN baseline'.content ELSE doc'
  <2>1. ~missed /\ ~Dropped(doc') /\ prepared
    BY <1>2 DEF Gap
  <2>2. shown = IF baseline.taken THEN baseline.content ELSE doc
    BY <2>1 DEF Seen
  <2>3. CASE doc' = doc
    BY <1>2, <2>2, <2>3 DEF Emitted
  <2>4. CASE doc' # doc /\ Serving
    <3>1. ready /\ ~baseline.taken
      BY <2>1, <2>4 DEF Linked, Serving
    <3> QED
      BY <1>2, <2>4, <3>1 DEF Emitted
  <2>5. CASE doc' # doc /\ ~Serving
    <3>1. baseline.taken
      BY <2>1, <2>5 DEF Dropped
    <3> QED
      BY <1>2, <2>2, <2>5, <3>1 DEF Emitted
  <2> QED
    BY <2>3, <2>4, <2>5
<1>3. CASE ReceiveBroadcast \/ (\E m \in acks : Acknowledge(m))
  BY <1>2, <1>3 DEF ReceiveBroadcast, Acknowledge, Route
<1>4. CASE ReceiveRead \/ ReceiveUserRead
  BY <1>2, <1>4 DEF ReceiveRead, ReceiveUserRead, Refreshed
<1>5. CASE ReadFails
  <2>1. doc' = doc /\ shown' = shown /\ prepared' = prepared /\ baseline' = baseline
    BY <1>5 DEF ReadFails, mirror, world
  <2>2. ~missed
    BY <1>5 DEF ReadFails, Gap
  <2> QED
    BY <2>1, <2>2 DEF Seen
<1>6. CASE Disconnect \/ Shutdown
  <2>1. CASE Reset
    BY <2>1 DEF Reset
  <2>2. CASE Disconnect /\ prepared
    <3>1. /\ baseline' = Captured /\ doc' = doc /\ shown' = shown /\ prepared' = prepared /\ missed' = missed
      BY <2>2 DEF Disconnect, mirror, history
    <3> QED
      BY <3>1 DEF Seen, Captured
  <2> QED
    BY <1>6, <2>1, <2>2 DEF Disconnect, Shutdown
<1>7. CASE ReceiveSeed
  <2>1. ~missed /\ ~Dropped(doc') /\ UNCHANGED <<shown, prepared, baseline>>
    BY <1>7 DEF ReceiveSeed
  <2>2. ~Serving
    <3>1. run.pc = "sent"
      BY <1>7, Received DEF ReceiveSeed, Awaited
    <3> QED
      BY <3>1 DEF Linked, Serving, NoRun
  <2> QED
    BY <2>1, <2>2 DEF Seen, Dropped
<1>8. CASE RunSucceeds
  <2>1. baseline'.taken = FALSE /\ doc' = doc
    BY <1>8 DEF RunSucceeds, NoBaseline
  <2>2. CASE run.kind = "bootstrap"
    BY <1>8, <2>1, <2>2 DEF RunSucceeds
  <2>3. CASE run.kind # "bootstrap"
    <3>1. run.kind = "recovery"
      <4>1. run.kind \in {"none", "bootstrap", "recovery"} /\ run.pc = "seeded"
        BY <1>8 DEF RunSucceeds, Types, RunType
      <4> QED
        BY <1>8, <2>3, <4>1 DEF RunSucceeds, Linked, NoRun
    <3>2. prepared /\ ~missed
      BY <1>8, <3>1 DEF RunSucceeds, Linked
    <3>3. shown = IF baseline.taken THEN baseline.content ELSE doc
      BY <3>2 DEF Seen
    <3>4. shown' = IF (IF baseline.taken THEN baseline.content ELSE run.base) # doc THEN doc ELSE shown
      BY <1>8, <2>3 DEF RunSucceeds
    <3> QED
      BY <2>1, <3>3, <3>4
  <2> QED
    BY <2>2, <2>3
<1>9. \/ missed' = missed /\ UNCHANGED <<doc, shown, prepared, baseline>>
      \/ ReceiveBroadcast \/ (\E m \in acks : Acknowledge(m)) \/ ReceiveRead \/ ReceiveUserRead \/ ReadFails
      \/ Disconnect \/ Shutdown \/ ReceiveSeed \/ RunSucceeds
  BY DEF Next, vars, mirror, world, history, ForeignWrite, UserWrite, Autosave, ReceiveAutosave, FoundryReads, Connect,
     AdminRetry, ContextRefresh, ContextSettles, SeedAsks, FoundrySendsSeed, RunFails
<1> QED
  BY <1>1, <1>3, <1>4, <1>5, <1>6, <1>7, <1>8, <1>9

-----------------------------------------------------------------------------
(* What the store lacks                                                    *)

\* A queue that a write joined is silent about a field only if it was, and the write is.
LEMMA JoinedSilent ==
    ASSUME NEW w \in Seq(Messages), NEW m \in Messages, NEW f, Silent(Append(w, m), f)
    PROVE  Silent(w, f) /\ ~Sets(m, f)
<1> DEFINE v == Append(w, m)
<1>1. /\ Len(w) \in Nat /\ DOMAIN w = 1..Len(w) /\ DOMAIN v = 1..(Len(w) + 1)
      /\ \A i \in 1..Len(w) : v[i] = w[i]
      /\ v[Len(w) + 1] = m
  BY Appended
<1>2. Silent(v, f)
  OBVIOUS
<1> HIDE DEF v
<1> QED
  BY <1>1, <1>2 DEF Silent

\* When Foundry has the document no more and anything under way sets a field, its deletion is
\* under way.
LEMMA DeletionThere ==
    ASSUME NEW w \in Seq(Messages), NEW t, t = Absent, LastWrites(w, t), NEW f \in Fields, ~Silent(w, f)
    PROVE  Has(w, "delete")
<1>1. PICK i \in DOMAIN w : Sets(w[i], f) /\ Brings(w[i]) = t[f]
  BY DEF LastWrites
<1>2. t[f] = 0 /\ w[i] \in Messages
  BY AbsentDoc
<1>3. w[i].write \in Nat \ {0}
  BY <1>1, <1>2, OnlyWritesSet, BoundsAreNat DEF Writes
<1>4. w[i].kind = "delete"
  BY <1>1, <1>2, <1>3 DEF Brings
<1> QED
  BY <1>4 DEF Has

\* A deletion under way breaks every silence.
LEMMA DeletionBreaks ==
    ASSUME NEW w, Has(w, "delete"), NEW f
    PROVE  ~Silent(w, f)
BY DEF Has, Silent, Sets

\* What a write does to a field that it sets, and to one that it does not.
LEMMA AppliedValue ==
    ASSUME NEW d \in Docs, NEW m \in Messages, m.kind \in {"create", "update", "delete"}, NEW f \in Fields
    PROVE  /\ Sets(m, f) /\ ~Missed(d, m) => Applied(d, m)[f] = Brings(m)
           /\ ~Sets(m, f) \/ Missed(d, m) => Applied(d, m)[f] = d[f]
           /\ Missed(d, m) => Applied(d, m) = d
           /\ m.kind = "delete" => Applied(d, m) = Absent
<1>1. CASE m.kind = "create"
  BY <1>1 DEF Applied, Sets, Brings, Missed
<1>2. CASE m.kind = "update" /\ d # Absent
  <2>1. m.field \in Fields
    BY <1>2, MessageKinds DEF WriteMessages, AnswerMessages, Answers
  <2> QED
    BY <1>2, <2>1 DEF Applied, Sets, Brings, Missed, Docs
<1>3. CASE m.kind = "delete"
  BY <1>3 DEF Applied, Sets, Brings, Missed, Absent
<1>4. CASE m.kind = "update" /\ d = Absent
  BY <1>4 DEF Applied, Sets, Missed
<1> QED
  BY <1>1, <1>2, <1>3, <1>4

\* What is owed while a read is pending, or its answer is behind.
LEMMA Owed ==
    ASSUME Types, NEW m, NEW via \in {"main", "user"}, Route(m, via), Missed(doc, m)
    PROVE  refresh'.pc # "idle" /\ (refresh'.pc = "sent" => refresh'.dirty)
BY RouteWaits

\* The store stays in order when Foundry writes.
LEMMA MirroredWrites ==
    ASSUME Types, Linked, Awaited, Unborn, Mirrored, ForeignWrite \/ UserWrite \/ Autosave
    PROVE  Mirrored'
<1>1. UNCHANGED <<mirror, refresh, world, history>>
  BY WriteActs
<1>2. PICK m \in WriteMessages :
        /\ m \in Messages /\ wire' = IF online THEN Append(wire, m) ELSE wire
        /\ \A f \in Fields : truth'[f] = IF Sets(m, f) THEN Brings(m) ELSE truth[f]
        /\ m.write = clock + 1 /\ m.kind \in Kinds
  BY WriteActs
<1> SUFFICES ASSUME Fed', gaps' = {} PROVE Gone' /\ Restored'
  BY DEF Mirrored
<1>3. online /\ Gone /\ Restored
  BY <1>1 DEF Mirrored, Fed, world, history
<1>4. /\ doc' = doc /\ refresh' = refresh /\ wire' = Append(wire, m) /\ wire \in Seq(Messages) /\ clock \in Nat
      /\ truth' \in Docs
  BY <1>1, <1>2, <1>3, WriteStepTypes, TypesStep, BoundsAreNat DEF mirror, Types, Next
<1>5. ASSUME truth' = Absent PROVE Has(wire', "delete")
  <2>1. m.field \in Fields
    BY <1>2 DEF WriteMessages
  <2>2. Sets(m, m.field)
    BY <1>2, <2>1 DEF Sets, Kinds
  <2>3. Brings(m) = 0
    BY <1>2, <1>5, <2>1, <2>2, AbsentDoc
  <2>4. m.kind = "delete"
    BY <1>2, <1>4, <2>3 DEF Brings
  <2> QED
    BY <1>2, <1>4, <2>4, JoinedHas
<1>6. ASSUME NEW f \in Fields, Silent(wire', f)
      PROVE  /\ refresh.pc = "idle" => doc[f] = truth'[f]
             /\ refresh.pc = "sent" /\ refresh.via = "user" /\ ~refresh.dirty => doc[f] = truth'[f] \/ refresh.answer[f] = truth'[f]
  <2>1. Silent(wire, f) /\ ~Sets(m, f)
    BY <1>2, <1>4, <1>6, JoinedSilent
  <2>2. truth'[f] = truth[f]
    BY <1>2, <2>1
  <2> QED
    BY <1>3, <2>1, <2>2 DEF Restored
<1> QED
  BY <1>4, <1>5, <1>6 DEF Gone, Restored

\* It does when it hears of a write.
LEMMA MirroredBroadcast ==
    ASSUME Types, Linked, Awaited, Unborn, Ordered, Mirrored, ReceiveBroadcast
    PROVE  Mirrored'
<1> SUFFICES ASSUME Fed', gaps' = {} PROVE Gone' /\ Restored'
  BY DEF Mirrored
<1> DEFINE m == Head(wire)
<1>1. PICK kind \in {"create", "update", "delete"} : Next1(kind)
  BY DEF ReceiveBroadcast
<1>2. /\ m \in Messages /\ m.kind = kind /\ wire # <<>> /\ wire' = Tail(wire) /\ wire \in Seq(Messages)
      /\ \A x : Has(wire, x) /\ x # kind => Has(wire', x)
  BY <1>1, Received DEF Types
<1>3. Route(m, "main") /\ truth' = truth /\ doc' = Applied(doc, m) /\ doc \in Docs /\ truth \in Docs
  BY DEF ReceiveBroadcast, Route, foundry, Types
<1>4. Fed /\ gaps = {}
  BY <1>3, RouteWaits DEF ReceiveBroadcast, Fed, Gap
<1>5. Gone /\ Restored /\ LastWrites(wire, truth) /\ Snapshots(wire, truth)
  BY <1>4 DEF Mirrored, Ordered
<1> HIDE DEF m
<1>6. ASSUME truth = Absent PROVE doc' = Absent \/ Has(wire', "delete")
  <2>1. CASE m.kind = "create"
    <3>1. "direct" \in Fields /\ Sets(m, "direct")
      BY <2>1 DEF Fields, Sets
    <3> QED
      BY <1>2, <1>3, <1>5, <1>6, <2>1, <3>1, DeletionFollows DEF Has, m
  <2>2. CASE m.kind = "update"
    <3>1. doc = Absent => doc' = Absent
      BY <1>3, <2>2, AppliedValue DEF Missed, Applied
    <3> QED
      BY <1>2, <1>5, <1>6, <2>2, <3>1 DEF Gone
  <2>3. CASE m.kind = "delete"
    BY <1>3, <2>3 DEF Applied
  <2> QED
    BY <1>2, <2>1, <2>2, <2>3
<1>7. ASSUME NEW f \in Fields, Silent(wire', f)
      PROVE  /\ refresh'.pc = "idle" => doc'[f] = truth[f]
             /\ refresh'.pc = "sent" /\ refresh'.via = "user" /\ ~refresh'.dirty => doc'[f] = truth[f] \/ refresh'.answer[f] = truth[f]
  <2>1. CASE Missed(doc, m)
    BY <1>3, <2>1, Owed
  <2>2. CASE ~Missed(doc, m)
    <3>1. refresh' = refresh
      BY <1>3, <2>2, RouteWaits
    <3>2. CASE Sets(m, f)
      <4>1. Brings(m) = truth[f]
        BY <1>2, <1>3, <1>5, <1>7, <3>2, HeadIsCurrent DEF m
      <4>2. doc'[f] = Brings(m)
        BY <1>2, <1>3, <2>2, <3>2, AppliedValue
      <4> QED
        BY <4>1, <4>2
    <3>3. CASE ~Sets(m, f)
      <4>1. Silent(wire, f)
        BY <1>2, <1>3, <1>5, <1>7, <3>3, HeadIsCurrent DEF m
      <4>2. doc'[f] = doc[f]
        BY <1>2, <1>3, <3>3, AppliedValue
      <4> QED
        BY <1>5, <3>1, <4>1, <4>2 DEF Restored
    <3> QED
      BY <3>2, <3>3
  <2> QED
    BY <2>1, <2>2
<1> QED
  BY <1>3, <1>6, <1>7 DEF Gone, Restored

\* It does when it hears that a field was saved.
LEMMA MirroredAutosave ==
    ASSUME Types, Mirrored, ReceiveAutosave
    PROVE  Mirrored'
<1> SUFFICES ASSUME Fed', gaps' = {} PROVE Gone' /\ Restored'
  BY DEF Mirrored
<1>1. /\ truth' = truth /\ doc' = doc /\ refresh' = Schedule(refresh, "main", FALSE) /\ refresh \in RefreshType
  BY DEF ReceiveAutosave, foundry, mirror, Types
<1>2. Gone
  BY DEF Mirrored, ReceiveAutosave, Fed, world, history
<1>3. \A x : Has(wire, x) /\ x # "autosave" => Has(wire', x)
  BY Received DEF ReceiveAutosave
<1>4. refresh'.pc # "idle" /\ (refresh'.pc = "sent" => refresh'.dirty)
  <2> DEFINE s == Schedule(refresh, "main", FALSE)
  <2>1. FALSE \in BOOLEAN /\ "main" \in {"main", "user"}
    OBVIOUS
  <2>2. /\ refresh.pc # "idle" => s.pc = refresh.pc /\ s.dirty = TRUE
        /\ refresh.pc = "idle" => s.pc = "asked"
    BY <1>1, <2>1, ScheduleFacts
  <2>3. refresh' = s
    BY <1>1
  <2> HIDE DEF s
  <2> QED
    BY <2>2, <2>3
<1>5. Gone'
  BY <1>1, <1>2, <1>3 DEF Gone
<1>6. Restored'
  BY <1>4 DEF Restored
<1> QED
  BY <1>5, <1>6

\* It does when a user's write is acknowledged.
LEMMA MirroredAcknowledge ==
    ASSUME Types, Ordered, Past, Mirrored, NEW m \in acks, Acknowledge(m)
    PROVE  Mirrored'
<1> SUFFICES ASSUME Fed', gaps' = {} PROVE Gone' /\ Restored'
  BY DEF Mirrored
<1>1. /\ m \in Messages /\ Route(m, "user") /\ wire' = wire /\ truth' = truth /\ doc' = Applied(doc, m)
      /\ doc \in Docs /\ wire \in Seq(Messages) /\ LastWrites(wire, truth) /\ m.kind \in Kinds
  BY DEF Acknowledge, Route, foundry, Types, Ordered, Past
<1>2. gaps = {} /\ (doc' = doc \/ \E i \in DOMAIN wire : wire[i] = m)
  BY DEF Acknowledge, Gap
<1>3. Fed
  BY <1>1, RouteWaits DEF Acknowledge, Fed
<1>4. Gone /\ Restored
  BY <1>2, <1>3 DEF Mirrored
<1>5. Gone'
  <2>1. CASE doc' = doc
    BY <1>1, <1>4, <2>1 DEF Gone
  <2>2. CASE \E i \in DOMAIN wire : wire[i] = m
    <3> SUFFICES ASSUME truth = Absent PROVE Has(wire, "delete")
      BY <1>1 DEF Gone
    <3>1. m.field \in Fields /\ Sets(m, m.field)
      BY <1>1, MessageKinds DEF WriteMessages, AnswerMessages, Kinds, Answers, Sets
    <3>2. ~Silent(wire, m.field)
      BY <2>2, <3>1 DEF Silent
    <3> QED
      BY <1>1, <3>1, <3>2, DeletionThere
  <2> QED
    BY <1>2, <2>1, <2>2
<1>6. ASSUME NEW f \in Fields, Silent(wire, f)
      PROVE  /\ refresh'.pc = "idle" => doc'[f] = truth[f]
             /\ refresh'.pc = "sent" /\ refresh'.via = "user" /\ ~refresh'.dirty => doc'[f] = truth[f] \/ refresh'.answer[f] = truth[f]
  <2>1. doc'[f] = doc[f]
    <3>1. CASE doc' = doc
      BY <3>1
    <3>2. CASE \E i \in DOMAIN wire : wire[i] = m
      <4>1. ~Sets(m, f)
        BY <1>6, <3>2 DEF Silent
      <4>2. m.kind # "create" /\ m.kind # "delete"
        BY <4>1 DEF Sets
      <4>3. CASE m.kind = "update"
        BY <1>1, <4>1, <4>3, AppliedValue
      <4>4. CASE m.kind # "update"
        BY <1>1, <4>2, <4>4 DEF Applied
      <4> QED
        BY <4>3, <4>4
    <3> QED
      BY <1>2, <3>1, <3>2
  <2>2. CASE Missed(doc, m)
    BY <1>1, <2>2, Owed
  <2>3. CASE ~Missed(doc, m)
    <3>1. refresh' = refresh
      BY <1>1, <2>3, RouteWaits
    <3> QED
      BY <1>4, <1>6, <2>1, <3>1 DEF Restored
  <2> QED
    BY <2>2, <2>3
<1>7. Restored'
  BY <1>1, <1>6 DEF Restored
<1> QED
  BY <1>5, <1>7

\* A store that holds what the head of the queue told is in order.
LEMMA MirroredTold ==
    ASSUME Types, Ordered, wire # <<>>, wire' = Tail(wire), truth' = truth, doc' = Head(wire).content,
           Head(wire).kind \in Answers
    PROVE  Gone' /\ Restored'
<1>1. /\ wire \in Seq(Messages) /\ truth \in Docs /\ LastWrites(wire, truth) /\ Snapshots(wire, truth)
      /\ Head(wire).content \in Docs
  BY TailIsWithout, OnlyAnswersTell DEF Types, Ordered
<1>2. ASSUME truth = Absent, doc' # Absent PROVE Has(wire', "delete")
  <2>1. PICK f \in Fields : Head(wire).content[f] # 0
    BY <1>1, <1>2, AbsentDoc
  <2>2. \E i \in DOMAIN Tail(wire) : Tail(wire)[i].kind = "delete"
    BY <1>1, <1>2, <2>1, DeletionFollows
  <2> QED
    BY <2>2 DEF Has
<1>3. ASSUME NEW f \in Fields, Silent(wire', f) PROVE doc'[f] = truth[f]
  BY <1>1, <1>3, HeadIsCurrent
<1> QED
  BY <1>2, <1>3 DEF Gone, Restored

\* It stays in order when Foundry answers a read.
LEMMA MirroredFoundryReads ==
    ASSUME Types, Awaited, Mirrored, FoundryReads
    PROVE  Mirrored'
<1> SUFFICES ASSUME Fed', gaps' = {} PROVE Gone' /\ Restored'
  BY DEF Mirrored
<1>1. /\ truth' = truth /\ doc' = doc /\ truth \in Docs /\ wire \in Seq(Messages)
      /\ wire' = wire \/ wire' = Append(wire, [kind |-> "read", content |-> truth])
  BY DEF FoundryReads, foundry, mirror, Types
<1>2. Gone
  BY DEF Mirrored, FoundryReads, Fed, world, history
<1> DEFINE m == [kind |-> "read", content |-> truth]
<1>3. m \in Messages
  BY <1>1, AnswerTypes DEF Answers
<1> HIDE DEF m
<1>4. Has(wire, "delete") => Has(wire', "delete")
  <2>1. Has(wire, "delete") => Has(Append(wire, m), "delete")
    BY <1>1, <1>3, JoinedHas
  <2> QED
    BY <1>1, <2>1 DEF m
<1>5. refresh'.pc = "sent" /\ (refresh'.via = "user" => refresh'.answer = truth)
  BY RefreshMoves DEF Next
<1>6. Gone'
  BY <1>1, <1>2, <1>4 DEF Gone
<1>7. Restored'
  BY <1>1, <1>5 DEF Restored
<1> QED
  BY <1>6, <1>7

\* It is in order when the main socket brings the answer to a read.
LEMMA MirroredRead ==
    ASSUME Types, Awaited, Ordered, Mirrored, ReceiveRead
    PROVE  Mirrored'
<1> SUFFICES ASSUME Fed', gaps' = {} PROVE Gone' /\ Restored'
  BY DEF Mirrored
<1> DEFINE answer  == Head(wire).content
           applied == answer # Absent
           taken   == applied /\ (refresh.as = "create" \/ doc # Absent)
<1>1. /\ wire # <<>> /\ wire' = Tail(wire) /\ Head(wire).kind = "read" /\ truth' = truth /\ Refreshed(answer)
      /\ Has(wire, "delete") => Has(wire', "delete")
      /\ 1 \in DOMAIN wire /\ Head(wire) = wire[1] /\ answer \in Docs
  BY Received, NextTypes, OnlyAnswersTell DEF ReceiveRead, foundry, Answers
<1>2. Fed
  BY <1>1, RefreshedWaits DEF ReceiveRead, Fed
<1>3. doc' = IF taken THEN answer ELSE doc
  BY <1>1 DEF Refreshed
<1>4. /\ taken \/ gaps = {}
      /\ ~(applied /\ ~taken)
  BY <1>1 DEF Refreshed, Gap
<1>5. CASE taken
  BY <1>1, <1>3, <1>5, MirroredTold DEF Answers
<1>6. CASE ~taken
  <2>1. answer = Absent /\ doc' = doc /\ Gone
    BY <1>2, <1>3, <1>4, <1>6 DEF Mirrored
  <2>2. truth = Absent
    BY <1>1, <2>1 DEF Ordered, Nothing, FoundNothing
  <2>3. doc = Absent \/ Has(wire', "delete")
    BY <1>1, <2>1, <2>2 DEF Gone
  <2>4. ASSUME NEW f, Silent(wire', f) PROVE doc = Absent
    BY <2>3, <2>4, DeletionBreaks
  <2> QED
    BY <1>1, <2>1, <2>2, <2>3, <2>4 DEF Gone, Restored
<1> QED
  BY <1>5, <1>6

\* It is in order when a user's socket does.
LEMMA MirroredUserRead ==
    ASSUME Types, Awaited, Ordered, Mirrored, ReceiveUserRead
    PROVE  Mirrored'
<1> SUFFICES ASSUME Fed', gaps' = {} PROVE Gone' /\ Restored'
  BY DEF Mirrored
<1> DEFINE answer  == refresh.answer
           applied == answer # Absent
           taken   == applied /\ (refresh.as = "create" \/ doc # Absent)
<1>1. /\ wire' = wire /\ truth' = truth /\ refresh.pc = "sent" /\ refresh.via = "user" /\ Refreshed(answer)
      /\ refresh \in RefreshType /\ answer \in Docs /\ refresh' = AfterRead(refresh, applied)
  BY DEF ReceiveUserRead, foundry, Types, RefreshType, Refreshed
<1>2. Fed
  BY <1>1, RefreshedWaits DEF ReceiveUserRead, Fed
<1>3. /\ gaps = {} /\ ~Reported(refresh, applied) /\ ~(applied /\ ~taken) /\ (taken => answer = doc)
  BY <1>1 DEF Refreshed, Gap
<1>4. doc' = doc
  BY <1>1, <1>3 DEF Refreshed
<1>5. Gone /\ Restored
  BY <1>2, <1>3 DEF Mirrored
<1>6. refresh'.pc \in {"idle", "asked"} /\ (refresh'.pc = "idle" => ~refresh.dirty)
  <2> DEFINE a == AfterRead(refresh, applied)
  <2>1. applied \in BOOLEAN
    OBVIOUS
  <2>2. /\ a.pc \in {"idle", "asked"} /\ (a.pc = "idle" /\ refresh.dirty => Reported(refresh, applied))
    BY <1>1, <2>1, AfterReadFacts
  <2> QED
    BY <1>1, <1>3, <2>2
<1>7. ASSUME NEW f \in Fields, Silent(wire, f), refresh'.pc = "idle" PROVE doc[f] = truth[f]
  <2>1. doc[f] = truth[f] \/ answer[f] = truth[f]
    BY <1>1, <1>5, <1>6, <1>7 DEF Restored
  <2>2. CASE applied
    BY <1>3, <2>1, <2>2
  <2>3. CASE ~applied
    <3>1. truth = Absent
      BY <1>1, <2>3 DEF Ordered, Nothing
    <3>2. doc = Absent
      BY <1>5, <1>7, <3>1, DeletionBreaks DEF Gone
    <3> QED
      BY <3>1, <3>2
  <2> QED
    BY <2>2, <2>3
<1>8. Gone'
  BY <1>1, <1>4, <1>5 DEF Gone
<1>9. Restored'
  BY <1>1, <1>4, <1>6, <1>7 DEF Restored
<1> QED
  BY <1>8, <1>9

\* It is in order when a seed was accepted.
LEMMA MirroredSeed ==
    ASSUME Types, Linked, Awaited, Ordered, ReceiveSeed
    PROVE  Mirrored'
<1> SUFFICES ASSUME Fed' PROVE Gone' /\ Restored'
  BY DEF Mirrored
<1>1. /\ wire # <<>> /\ wire' = Tail(wire) /\ Head(wire).kind = "seed" /\ truth' = truth /\ run.pc = "sent"
  BY Received DEF ReceiveSeed, foundry, Awaited
<1>2. gate = "closed" /\ gate' = gate
  BY <1>1 DEF Linked, NoRun, ReceiveSeed
<1>3. run'.pc = "seeded"
  BY <1>2 DEF Fed
<1>4. doc' = Head(wire).content
  BY <1>3 DEF ReceiveSeed, NoRun
<1> QED
  BY <1>1, <1>4, MirroredTold DEF Answers

\* Every other step leaves what the store lacks, or a world that no connection has fed.
LEMMA MirroredOthers ==
    ASSUME Types, Linked, Mirrored,
           \/ ReadFails \/ Connect \/ AdminRetry \/ Disconnect \/ Shutdown \/ ContextRefresh \/ ContextSettles
           \/ SeedAsks \/ FoundrySendsSeed \/ RunSucceeds \/ RunFails \/ UNCHANGED vars
    PROVE  Mirrored'
<1>0. run \in RunType /\ prepared \in BOOLEAN /\ NoRun.pc = "idle"
  BY DEF Types, NoRun
<1>1. CASE ReadFails
  BY <1>1 DEF ReadFails, Gap, Mirrored
<1>2. CASE Connect \/ AdminRetry
  <2>1. run'.pc = "waiting" /\ gate' = "closed"
    BY <1>0, <1>2, BeginsTypes DEF Connect, AdminRetry
  <2> QED
    BY <2>1 DEF Mirrored, Fed
<1>3. CASE Disconnect \/ Shutdown
  BY <1>3 DEF Disconnect, Shutdown, SocketLost, Mirrored, Fed
<1>4. CASE SeedAsks \/ FoundrySendsSeed
  <2>1. gate' = "closed" /\ run'.pc \in {"asked", "sent"}
    BY <1>0, <1>4 DEF SeedAsks, FoundrySendsSeed, Linked, RunType
  <2> QED
    BY <2>1 DEF Mirrored, Fed
<1>5. CASE RunFails
  <2>1. gate' = "closed" /\ run'.pc = "idle"
    BY <1>0, <1>5 DEF RunFails, Linked
  <2> QED
    BY <2>1 DEF Mirrored, Fed
<1>6. ASSUME Fed' => Fed, UNCHANGED <<truth, wire, doc, refresh, gaps>> PROVE Mirrored'
  BY <1>6 DEF Mirrored, Gone, Restored
<1>7. CASE ContextRefresh \/ ContextSettles
  <2>1. Fed' => Fed
    BY <1>7 DEF ContextRefresh, ContextSettles, Serving, Fed
  <2> QED
    BY <1>6, <1>7, <2>1 DEF ContextRefresh, ContextSettles, foundry, mirror, history
<1>8. CASE RunSucceeds
  <2>1. Fed
    BY <1>0, <1>8 DEF RunSucceeds, Fed, Linked
  <2> QED
    BY <1>6, <1>8, <2>1 DEF RunSucceeds, foundry
<1>9. CASE UNCHANGED vars
  BY <1>6, <1>9 DEF vars, foundry, mirror, world, history, Fed
<1> QED
  BY <1>1, <1>2, <1>3, <1>4, <1>5, <1>7, <1>8, <1>9

\* The store of a connection that has fed it stays in order.
LEMMA MirroredStep ==
    Types /\ Linked /\ Awaited /\ Unborn /\ Ordered /\ Past /\ Mirrored /\ [Next]_vars => Mirrored'
<1> SUFFICES ASSUME Types, Linked, Awaited, Unborn, Ordered, Past, Mirrored, [Next]_vars PROVE Mirrored'
  OBVIOUS
<1> QED
  BY MirroredWrites, MirroredBroadcast, MirroredAutosave, MirroredAcknowledge, MirroredFoundryReads, MirroredRead,
     MirroredUserRead, MirroredSeed, MirroredOthers DEF Next

-----------------------------------------------------------------------------
(* The theorems                                                            *)

\* The invariant holds at the start.
LEMMA InitIInv == Init => IInv
<1> SUFFICES ASSUME Init PROVE IInv
  OBVIOUS
<1>1. Types
  <2>1. <<>> \in Seq(Messages)
    BY EmptySeq
  <2>2. truth \in Docs /\ doc \in Docs /\ shown \in Docs /\ refresh \in RefreshType /\ run \in RunType /\ baseline \in BaselineType
    BY Constants0, AbsentDoc DEF Init
  <2>3. clock \in 0..MaxWrites /\ faults \in 0..MaxFaults /\ wire \in Seq(Messages) /\ acks \subseteq Messages
    BY <2>1, BoundsAreNat DEF Init
  <2>4. ~baseline.taken
    BY DEF Init, NoBaseline
  <2> QED
    BY <2>2, <2>3, <2>4 DEF Init, Types
<1>2. Linked
  BY DEF Init, Linked, NoRun, NoBaseline
<1>3. Awaited
  BY EmptyHas DEF Init, Awaited, Idle
<1>4. Unborn
  BY EmptyHas DEF Init, Unborn, Idle
<1>5. Ordered
  BY EmptyHas DEF Init, Ordered, Nothing, FoundNothing, Idle
<1>6. Mirrored
  BY DEF Init, Mirrored, Fed
<1>7. Behind
  <2>1. \A f \in Fields : Absent[f] <= 0 /\ Idle.answer[f] <= 0
    BY AbsentDoc DEF Idle
  <2> QED
    BY <2>1 DEF Init, Behind, Past, NotAhead, Written
<1>8. Seeding /\ Seen
  BY DEF Init, Seeding, Seen, NoRun
<1> QED
  BY <1>1, <1>2, <1>3, <1>4, <1>5, <1>6, <1>7, <1>8 DEF IInv

\* Every step keeps it.
LEMMA NextIInv == IInv /\ [Next]_vars => IInv'
<1> SUFFICES ASSUME IInv, [Next]_vars PROVE IInv'
  OBVIOUS
<1>1. Types /\ Linked /\ Awaited /\ Unborn /\ Ordered /\ Mirrored /\ Behind /\ Past /\ NotAhead /\ Seeding /\ Seen
  BY DEF IInv, Behind
<1>2. Types' /\ Linked' /\ Awaited'
  BY <1>1, TypesStep, LinkedStep, AwaitedStep
<1>3. Unborn' /\ Ordered' /\ Mirrored'
  BY <1>1, UnbornStep, OrderedStep, MirroredStep
<1>4. Behind'
  BY <1>1, PastStep, NotAheadStep DEF Behind
<1>5. Seeding' /\ Seen'
  BY <1>1, SeedingStep, SeenStep
<1> QED
  BY <1>2, <1>3, <1>4, <1>5 DEF IInv

\* The invariant holds of every reachable state.
THEOREM Invariance == Spec => []IInv
BY InitIInv, NextIInv, PTL DEF Spec

\* Each variable has its type, however many writes and faults there are.
THEOREM MirrorTypes == Spec => []TypeOK
<1>1. IInv => TypeOK
  BY TypesUnfold DEF IInv
<1> QED
  BY <1>1, Invariance, PTL

\* While the world is served, the mirror lacks nothing but what is still on the wire, unless a
\* read failed or a user's socket answered late (FoundryEventIngress.scheduleRootRefresh,
\* PrimaryDocumentStore.applySelfChange and seed).
THEOREM MirrorsConverge == Spec => []MirrorConverges
<1>1. IInv => MirrorConverges
  <2> SUFFICES ASSUME IInv, Serving, gaps = {}, refresh.pc = "idle", NEW f \in Fields
               PROVE  Becomes(f, truth[f])
    BY DEF MirrorConverges
  <2>1. Fed
    BY DEF Serving, Fed
  <2>2. Restored /\ LastWrites(wire, truth)
    BY <2>1 DEF IInv, Mirrored, Ordered
  <2>3. CASE Silent(wire, f)
    BY <2>2, <2>3 DEF Restored, Silent, Becomes, Untouched
  <2>4. CASE ~Silent(wire, f)
    <3>1. PICK i \in DOMAIN wire : Sets(wire[i], f) /\ Brings(wire[i]) = truth[f] /\ \A j \in DOMAIN wire : j > i => ~Sets(wire[j], f)
      BY <2>2, <2>4 DEF LastWrites
    <3> QED
      BY <3>1 DEF Becomes, After
  <2> QED
    BY <2>3, <2>4
<1> QED
  BY <1>1, Invariance, PTL

\* While the world is served, browsers were sent the content it serves, across any number of
\* lost sockets and failed recoveries (captureRecoveryBaseline, publishReconciliation).
THEOREM BrowsersSaw == Spec => []BrowsersSawTheMirror
<1>1. IInv => BrowsersSawTheMirror
  BY DEF IInv, Linked, Seen, Serving, BrowsersSawTheMirror
<1> QED
  BY <1>1, Invariance, PTL

\* A seed undoes no write that the store had applied: what came while its read was under way
\* makes it refuse the answer (PrimaryDocumentStore.seed).
THEOREM SeedsHold == Spec => SeedsUndoNothing
<1> DEFINE Kept == run.pc = "sent" /\ run'.pc = "seeded" => doc' = Absent \/ \A f \in Fields : doc[f] <= doc'[f]
<1>1. IInv /\ [Next]_vars => [Kept]_vars
  <2> SUFFICES ASSUME IInv, Next, run.pc = "sent", run'.pc = "seeded"
               PROVE  doc' = Absent \/ \A f \in Fields : doc[f] <= doc'[f]
    BY DEF vars
  <2>1. run \in RunType /\ Types /\ Seeding
    BY DEF IInv, Types
  <2>2. ReceiveSeed
    <3>1. ~(\E m, via : Route(m, via))
      BY <2>1, TouchedFacts DEF Route
    <3>2. ~(\E answer : Refreshed(answer))
      BY <2>1, TouchedFacts DEF Refreshed
    <3>3. run' # NoRun /\ run' # run
      BY DEF NoRun
    <3>4. run'.pc \notin {"waiting", "asked", "sent"}
      OBVIOUS
    <3>5. ~Connect /\ ~AdminRetry /\ ~SeedAsks /\ ~FoundrySendsSeed
      BY <2>1, BeginsTypes DEF Connect, AdminRetry, Types, SeedAsks, FoundrySendsSeed
    <3> QED
      BY <3>1, <3>2, <3>3, <3>5 DEF Next, world, ForeignWrite, UserWrite, Autosave, ReceiveBroadcast, ReceiveAutosave,
         Acknowledge, FoundryReads, ReceiveRead, ReceiveUserRead, ReadFails, Disconnect, Shutdown, Reset,
         ContextRefresh, ContextSettles, RunSucceeds, RunFails
  <2>3. ~run.touched /\ doc' = Head(wire).content
    BY <2>2 DEF ReceiveSeed, SeedRefused, NoRun
  <2>4. 1 \in DOMAIN wire /\ Head(wire) = wire[1] /\ Head(wire).kind = "seed"
    BY <2>1, <2>2, NextTypes DEF ReceiveSeed
  <2>5. NotOlder(wire, doc)
    BY <2>1, <2>3 DEF Seeding
  <2> QED
    BY <2>3, <2>4, <2>5 DEF NotOlder
<1>2. Spec => [][Kept]_vars
  BY <1>1, Invariance, PTL DEF Spec
<1> QED
  BY <1>2 DEF SeedsUndoNothing

=============================================================================
