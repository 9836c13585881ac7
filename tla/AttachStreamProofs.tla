------------------------- MODULE AttachStreamProofs -------------------------
(***************************************************************************)
(* Proofs about AttachStream, for any connections, capacity and number of  *)
(* attachments and chunks.                                                 *)
(***************************************************************************)
EXTENDS AttachStream, SequenceTheorems, TLAPS

Busy == {"snapshot", "subscribed", "entered", "answered"}
Runs(a) == thread[a] \in {"recv", "send"}
Over(a) == thread[a] \in {"overflow", "closed", "lost", "ended"}
IsPending(a) == pc[a[1]] \in Busy /\ a[2] = made[a[1]]

\* What the handlers know: the attachment being made is a new one.  While one is
\* between its snapshot and its subscription, nothing is applied or published.
HandlerInv ==
  /\ \A c \in Conns : current[c] <= made[c]
  /\ \A c \in Conns : pc[c] \in Busy => current[c] < made[c] /\ thread[Pending(c)] = "none"
  /\ applied \in {output, output + 1}
  /\ \A c \in Conns : pc[c] = "snapshot" => applied = output

\* An attachment that was not made has left no trace.
UnmadeInv ==
  \A a \in Attachments : ~Made(a) =>
    /\ thread[a] = "none" /\ snapshot[a] = 0
    /\ queue[a] = <<>> /\ holding[a] = <<>> /\ received[a] = <<>>
    /\ a \notin subscribers /\ a \notin open /\ a \notin receivers

\* An open channel that is entered is closed with its session.
EnteredInv ==
  \A a \in Attachments :
    (Runs(a) \/ (IsPending(a) /\ pc[a[1]] \notin {"snapshot", "subscribed"})) /\ a \in open
      => registered /\ a \in receivers

\* While the session is there, the channel of a thread that should run closes
\* only because it was full.
ReasonInv ==
  \A a \in Attachments :
    ((a \in alive /\ Runs(a)) \/ IsPending(a)) /\ registered /\ a \notin open
      => a \notin subscribers

\* A thread holds chunks only while it sends them; one that is over has nothing
\* left, and its reason stands.
ThreadInv ==
  \A a \in Attachments :
    /\ thread[a] # "send" => holding[a] = <<>>
    /\ Over(a) => a \notin open /\ queue[a] = <<>>
    /\ thread[a] = "overflow" => a \notin subscribers
    /\ thread[a] = "closed" => ~registered

\* What was sent, what is held and what waits follow each other, up to all the
\* output exactly while the hub has the channel.
Follows(a, i, j, n) ==
  /\ snapshot[a] <= i /\ i <= j /\ j <= n /\ n <= output
  /\ Sent(a) = Run(0, i) /\ holding[a] = Run(i, j) /\ queue[a] = Run(j, n)
  /\ Listed(a) <=> n = output
DataInv ==
  \A a \in Attachments : Made(a) =>
    IF thread[a] = "done" THEN \E i \in 0..output : Sent(a) = Run(0, i)
                          ELSE \E i, j, n \in 0..MaxOutput : Follows(a, i, j, n)

IInv == /\ TypeOK /\ HandlerInv /\ UnmadeInv /\ EnteredInv
        /\ ReasonInv /\ ThreadInv /\ DataInv

USE CapacityAssumption, BoundsAssumption

LEMMA Attachment == \A a \in Attachments : a[1] \in Conns /\ a[2] \in 1..MaxAttaches /\ a = <<a[1], a[2]>>
BY DEF Attachments

\* Runs of chunks are sequences, and what can be done with them.
LEMMA RunType ==
  ASSUME NEW i \in Nat, NEW j \in Nat, i <= j
  PROVE  Run(i, j) \in Seq(Nat) /\ Len(Run(i, j)) = j - i
<1>1. j - i \in Nat /\ \A k \in 1..(j - i) : i + k \in Nat
  OBVIOUS
<1>2. Run(i, j) \in [1..(j - i) -> Nat]
  BY <1>1 DEF Run
<1>3. Run(i, j) \in Seq(Nat)
  BY <1>1, <1>2, SeqDef
<1>4. Len(Run(i, j)) \in Nat /\ DOMAIN Run(i, j) = 1..Len(Run(i, j))
  BY <1>3, LenProperties
<1>5. 1..Len(Run(i, j)) = 1..(j - i)
  BY <1>2, <1>4
<1> QED BY <1>1, <1>3, <1>4, <1>5

LEMMA RunAt == \A i, j : \A k \in 1..(j - i) : Run(i, j)[k] = i + k
BY DEF Run

LEMMA RunEmpty ==
  ASSUME NEW i \in Nat, NEW j \in Nat, i <= j
  PROVE  Run(i, j) = <<>> <=> i = j
<1>1. Run(i, j) \in Seq(Nat) /\ Len(Run(i, j)) = j - i
  BY RunType
<1> HIDE DEF Run
<1> QED BY <1>1, EmptySeq

LEMMA RunAppend ==
  ASSUME NEW i \in Nat, NEW j \in Nat, i <= j
  PROVE  Append(Run(i, j), j + 1) = Run(i, j + 1)
<1> DEFINE r == Run(i, j)
           t == Run(i, j + 1)
<1>1. r \in Seq(Nat) /\ Len(r) = j - i
  BY RunType
<1>2. j + 1 \in Nat /\ i <= j + 1
  OBVIOUS
<1>3. t \in Seq(Nat) /\ Len(t) = j + 1 - i
  BY <1>2, RunType
<1>4. /\ \A k \in 1..(j - i) : r[k] = i + k
      /\ \A k \in 1..(j + 1 - i) : t[k] = i + k
  BY RunAt
<1> HIDE DEF r, t
<1>5. /\ Append(r, j + 1) \in Seq(Nat) /\ Len(Append(r, j + 1)) = j + 1 - i
      /\ \A k \in 1..(j - i) : Append(r, j + 1)[k] = r[k]
      /\ Append(r, j + 1)[j - i + 1] = j + 1
  BY <1>1, <1>2, AppendProperties
<1>6. ASSUME NEW k \in 1..(j + 1 - i) PROVE Append(r, j + 1)[k] = t[k]
  BY <1>4, <1>5
<1>7. Append(r, j + 1) = t
  BY <1>3, <1>5, <1>6, SeqEqual
<1> QED BY <1>7 DEF r, t

LEMMA RunConcat ==
  ASSUME NEW i \in Nat, NEW j \in Nat, NEW n \in Nat, i <= j, j <= n
  PROVE  Run(i, j) \o Run(j, n) = Run(i, n)
<1> DEFINE r == Run(i, j)
           s == Run(j, n)
           t == Run(i, n)
<1>1. r \in Seq(Nat) /\ Len(r) = j - i
  BY RunType
<1>2. s \in Seq(Nat) /\ Len(s) = n - j
  BY RunType
<1>3. i <= n
  OBVIOUS
<1>4. t \in Seq(Nat) /\ Len(t) = n - i
  BY <1>3, RunType
<1>5. /\ \A k \in 1..(j - i) : r[k] = i + k
      /\ \A k \in 1..(n - j) : s[k] = j + k
      /\ \A k \in 1..(n - i) : t[k] = i + k
  BY RunAt
<1> HIDE DEF r, s, t
<1>6. /\ r \o s \in Seq(Nat) /\ Len(r \o s) = n - i
      /\ \A k \in 1..(n - i) : (r \o s)[k] = IF k <= j - i THEN r[k] ELSE s[k - (j - i)]
  <2>1. Len(r) + Len(s) = n - i
    BY <1>1, <1>2
  <2> QED BY <1>1, <1>2, <2>1, ConcatProperties
<1>7. ASSUME NEW k \in 1..(n - i) PROVE (r \o s)[k] = t[k]
  <2>1. CASE k <= j - i
    BY <1>5, <1>6, <2>1
  <2>2. CASE ~(k <= j - i)
    <3>1. k - (j - i) \in 1..(n - j)
      BY <2>2
    <3> QED BY <1>5, <1>6, <2>2, <3>1
  <2> QED BY <2>1, <2>2
<1>8. r \o s = t
  BY <1>4, <1>6, <1>7, SeqEqual
<1> QED BY <1>8 DEF r, s, t

LEMMA RunSplit ==
  ASSUME NEW i \in Nat, NEW j \in Nat, i <= j, NEW n \in 1..(j - i)
  PROVE  /\ SubSeq(Run(i, j), 1, n) = Run(i, i + n)
         /\ SubSeq(Run(i, j), n + 1, j - i) = Run(i + n, j)
<1> DEFINE r == Run(i, j)
           s == Run(i, i + n)
           t == Run(i + n, j)
<1>1. i + n \in Nat /\ i <= i + n /\ i + n <= j
  OBVIOUS
<1>2. s \in Seq(Nat) /\ Len(s) = n
  BY <1>1, RunType
<1>3. t \in Seq(Nat) /\ Len(t) = j - i - n
  BY <1>1, RunType
<1>4. /\ \A k \in 1..(j - i) : r[k] = i + k
      /\ \A k \in 1..n : s[k] = i + k
      /\ \A k \in 1..(j - i - n) : t[k] = i + n + k
  BY RunAt DEF Run
<1> HIDE DEF r, s, t
<1>5. SubSeq(r, 1, n) = s
  <2>1. \A k \in 1..n : r[k] \in Nat
    BY <1>4
  <2>2. SubSeq(r, 1, n) \in Seq(Nat) /\ Len(SubSeq(r, 1, n)) = n
        /\ \A k \in 1..n : SubSeq(r, 1, n)[k] = r[k]
    BY <2>1, SubSeqProperties
  <2>3. \A k \in 1..n : SubSeq(r, 1, n)[k] = s[k]
    BY <1>4, <2>2
  <2> QED BY <1>2, <2>2, <2>3, SeqEqual
<1>6. SubSeq(r, n + 1, j - i) = t
  <2>1. \A k \in (n + 1)..(j - i) : r[k] \in Nat
    BY <1>4
  <2>2. SubSeq(r, n + 1, j - i) \in Seq(Nat) /\ Len(SubSeq(r, n + 1, j - i)) = j - i - n
        /\ \A k \in 1..(j - i - n) : SubSeq(r, n + 1, j - i)[k] = r[n + k]
    <3>1. n + 1 \in Int /\ j - i \in Int
      OBVIOUS
    <3> QED BY <2>1, <3>1, SubSeqProperties
  <2>3. \A k \in 1..(j - i - n) : SubSeq(r, n + 1, j - i)[k] = t[k]
    BY <1>4, <2>2
  <2> QED BY <1>3, <2>2, <2>3, SeqEqual
<1> QED BY <1>5, <1>6 DEF r, s, t

LEMMA RunFirst == ASSUME NEW n \in Nat PROVE Run(0, n) = Views!FirstChunks(n)
BY DEF Run, Views!FirstChunks

LEMMA InitIInv == Init => IInv
<1> SUFFICES ASSUME Init PROVE IInv
  OBVIOUS
<1> USE DEF Init
<1>1. TypeOK
  BY EmptySeq DEF TypeOK
<1>2. \A a \in Attachments : ~Made(a)
  BY Attachment DEF Made
<1>3. HandlerInv /\ UnmadeInv /\ EnteredInv
  BY Attachment DEF HandlerInv, UnmadeInv, EnteredInv, Busy
<1>4. ReasonInv /\ ThreadInv
  BY Attachment DEF ReasonInv, ThreadInv, Over, IsPending, Busy
<1>5. DataInv
  BY <1>2 DEF DataInv
<1> QED BY <1>1, <1>3, <1>4, <1>5 DEF IInv

-----------------------------------------------------------------------------
(* Types *)

LEMMA TypeStep == TypeOK /\ HandlerInv /\ [Next]_vars => TypeOK'
<1> SUFFICES ASSUME TypeOK, HandlerInv, [Next]_vars PROVE TypeOK'
  OBVIOUS
<1> USE DEF TypeOK, hubVars, connVars, threadVars
<1>1. CASE UNCHANGED vars
  BY <1>1 DEF vars
<1>0. CASE Apply
  BY <1>0 DEF Apply
<1>2. CASE Publish
  <2>0. output + 1 \in 1..MaxOutput
    BY <1>2 DEF Publish, HandlerInv
  <2>1. ASSUME NEW a \in Attachments
        PROVE  queue'[a] \in Seq(1..MaxOutput) /\ Len(queue'[a]) <= Capacity
    <3>2. CASE a \in Reached
      <4>1. queue'[a] = Append(queue[a], output + 1) /\ queue[a] \in Seq(1..MaxOutput)
        BY <1>2, <3>2 DEF Publish
      <4>2. Len(queue[a]) < Capacity /\ Len(queue[a]) \in Nat
        BY <3>2, <4>1, LenProperties DEF Reached, HasRoom
      <4> QED BY <2>0, <4>1, <4>2, AppendProperties
    <3>3. CASE a \notin Reached
      BY <1>2, <3>3 DEF Publish
    <3> QED BY <3>2, <3>3
  <2>2. queue' \in [Attachments -> Seq(1..MaxOutput)]
    BY <1>2, <2>1 DEF Publish
  <2>3. output' \in 0..MaxOutput /\ subscribers' \subseteq Attachments /\ open' \subseteq Attachments
    BY <1>2, <2>0 DEF Publish, Reached
  <2>4. \A a \in Attachments : Len(queue'[a]) <= Capacity
    BY <2>1
  <2> QED BY <1>2, <2>2, <2>3, <2>4 DEF Publish
<1>3. CASE Unregister
  BY <1>3 DEF Unregister, Remove
<1>4. ASSUME NEW c \in Conns, Attach(c) PROVE TypeOK'
  <2>1. <<c, made[c] + 1>> \in Attachments /\ made[c] + 1 \in 0..MaxAttaches
    BY <1>4 DEF Attach, Attachments
  <2> QED BY <1>4, <2>1 DEF Attach, At
<1>5. ASSUME NEW c \in Conns, SnapshotFails(c) PROVE TypeOK'
  BY <1>5 DEF SnapshotFails, At
<1>6. ASSUME NEW c \in Conns, pc[c] \in Busy PROVE Pending(c) \in Attachments
  BY <1>6 DEF HandlerInv, Pending, Attachments
<1>16. ASSUME NEW c \in Conns, Subscribe(c) PROVE TypeOK'
  <2>1. Pending(c) \in Attachments
    BY <1>6, <1>16 DEF Subscribe, At, Busy
  <2> QED BY <1>16, <2>1 DEF Subscribe, At
<1>7. ASSUME NEW c \in Conns, Enter(c) PROVE TypeOK'
  <2>1. Pending(c) \in Attachments
    BY <1>6, <1>7 DEF Enter, At, Busy
  <2> QED BY <1>7, <2>1 DEF Enter, At
<1>8. ASSUME NEW c \in Conns, SendSnapshot(c) PROVE TypeOK'
  BY <1>8 DEF SendSnapshot, At
<1>9. ASSUME NEW c \in Conns, Replace(c) PROVE TypeOK'
  <2>1. Pending(c) \in Attachments
    BY <1>6, <1>9 DEF Replace, At, Busy
  <2> QED BY <1>9, <2>1 DEF Replace, At
<1>10. ASSUME NEW c \in Conns, Detach(c) \/ HangUp(c) PROVE TypeOK'
  <2>1. Stop(c) /\ pc' \in [Conns -> {"ready", "snapshot", "subscribed", "entered", "answered",
                                      "closing", "gone"}]
    BY <1>10 DEF Detach, HangUp, At
  <2> QED BY <2>1 DEF Stop
<1>11. ASSUME NEW c \in Conns, Close(c) \/ AnswerClosed(c) PROVE TypeOK'
  BY <1>11 DEF Close, AnswerClosed, Remove, At
<1>12. ASSUME NEW a \in Attachments, Take(a) PROVE TypeOK'
  <2>1. PICK n \in 1..Len(queue[a]) :
          /\ holding' = [holding EXCEPT ![a] = Joined(queue[a], n)]
          /\ queue' = [queue EXCEPT ![a] = SubSeq(@, n + 1, Len(@))]
    BY <1>12 DEF Take
  <2>2. queue[a] \in Seq(1..MaxOutput) /\ Len(queue[a]) \in Nat /\ n \in Int
        /\ \A k \in 1..Len(queue[a]) : queue[a][k] \in 1..MaxOutput
    BY <2>1, LenProperties, ElementOfSeq
  <2>3. Joined(queue[a], n) \in Seq(1..MaxOutput)
    BY <2>1, <2>2, SubSeqProperties DEF Joined
  <2>4. /\ SubSeq(queue[a], n + 1, Len(queue[a])) \in Seq(1..MaxOutput)
        /\ Len(SubSeq(queue[a], n + 1, Len(queue[a]))) <= Len(queue[a])
    <3>1. n + 1 \in Int /\ \A k \in n + 1..Len(queue[a]) : queue[a][k] \in 1..MaxOutput
      BY <2>1, <2>2
    <3> QED BY <2>1, <2>2, <3>1, SubSeqProperties
  <2>5. /\ holding' \in [Attachments -> Seq(1..MaxOutput)] /\ queue' \in [Attachments -> Seq(1..MaxOutput)]
        /\ \A b \in Attachments : Len(queue'[b]) <= Capacity
    <3>1. \A b \in Attachments : b # a => queue'[b] = queue[b]
      BY <2>1
    <3>2. queue'[a] = SubSeq(queue[a], n + 1, Len(queue[a])) /\ Len(queue'[a]) \in Nat
      BY <2>1, <2>4, LenProperties
    <3>3. Len(queue'[a]) <= Capacity
      BY <2>2, <2>4, <3>2
    <3> QED BY <2>1, <2>3, <2>4, <3>1, <3>3
  <2> QED BY <1>12, <2>5 DEF Take
<1>13. ASSUME NEW a \in Attachments, Send(a) PROVE TypeOK'
  <2>1. received[a] \o holding[a] \in Seq(1..MaxOutput) /\ <<>> \in Seq(1..MaxOutput)
    BY ConcatProperties, EmptySeq
  <2> QED BY <1>13, <2>1 DEF Send
<1>14. ASSUME NEW a \in Attachments, EndOfStream(a) \/ Tell(a) PROVE TypeOK'
  BY <1>14 DEF EndOfStream, Tell, Reason
<1>15. ASSUME NEW a \in Attachments, Quit(a) PROVE TypeOK'
  <2>1. <<>> \in Seq(1..MaxOutput) /\ Len(<<>>) = 0
    BY EmptySeq
  <2> QED BY <1>15, <2>1 DEF Quit
<1> QED
  BY <1>0, <1>1, <1>2, <1>3, <1>4, <1>5, <1>7, <1>8, <1>9, <1>10, <1>11, <1>12, <1>13, <1>14, <1>15, <1>16
     DEF Next, HandlerStep, ThreadStep

-----------------------------------------------------------------------------
(* The handlers, the channels and the threads: all but the chunks *)

LEMMA PendingIsAttachment ==
  ASSUME TypeOK, HandlerInv, NEW c \in Conns, pc[c] \in Busy
  PROVE  /\ Pending(c) \in Attachments /\ Made(Pending(c)) /\ IsPending(Pending(c))
         /\ Pending(c) \notin InPlace(c) /\ thread[Pending(c)] = "none"
BY DEF TypeOK, HandlerInv, Pending, Attachments, Made, IsPending, InPlace

LEMMA HandlerStepInv == TypeOK /\ HandlerInv /\ UnmadeInv /\ [Next]_vars => HandlerInv'
<1> SUFFICES ASSUME TypeOK, HandlerInv, UnmadeInv, [Next]_vars PROVE HandlerInv'
  OBVIOUS
<1> USE DEF TypeOK, HandlerInv, hubVars, connVars, threadVars
<1>1. CASE UNCHANGED vars
  BY <1>1 DEF vars, Pending
<1>2. CASE Apply \/ Publish \/ Unregister
  BY <1>2 DEF Apply, BoundaryFree, Publish, Unregister, Remove, Pending
<1>3. ASSUME NEW c \in Conns, Attach(c) PROVE HandlerInv'
  <2>1. <<c, made[c] + 1>> \in Attachments /\ ~Made(<<c, made[c] + 1>>)
    BY <1>3 DEF Attach, Attachments, Made
  <2>2. thread[<<c, made[c] + 1>>] = "none"
    BY <2>1 DEF UnmadeInv
  <2>3. /\ applied = output /\ UNCHANGED <<applied, output, current, thread>>
        /\ made' = [made EXCEPT ![c] = made[c] + 1] /\ pc' = [pc EXCEPT ![c] = "snapshot"]
    BY <1>3 DEF Attach, BoundaryFree, At
  <2>4. \A d \in Conns : current'[d] <= made'[d]
    BY <2>3
  <2>5. ASSUME NEW d \in Conns, pc'[d] \in Busy
        PROVE  current'[d] < made'[d] /\ thread'[Pending(d)'] = "none"
    <3>1. CASE d = c
      BY <2>2, <2>3, <3>1 DEF Pending
    <3>2. CASE d # c
      <4>1. pc[d] \in Busy /\ made'[d] = made[d]
        BY <2>3, <2>5, <3>2
      <4> QED BY <2>3, <4>1 DEF Pending
    <3> QED BY <3>1, <3>2
  <2> QED BY <2>3, <2>4, <2>5
<1>4. ASSUME NEW c \in Conns, Subscribe(c) \/ SnapshotFails(c) \/ Enter(c) \/ SendSnapshot(c)
      PROVE  HandlerInv'
  BY <1>4 DEF Subscribe, SnapshotFails, Enter, SendSnapshot, At, Pending, Busy
<1>5. ASSUME NEW c \in Conns, Replace(c) PROVE HandlerInv'
  BY <1>5 DEF Replace, At, Pending, Busy
<1>6. ASSUME NEW c \in Conns, Detach(c) \/ HangUp(c) \/ Close(c) \/ AnswerClosed(c) PROVE HandlerInv'
  <2>1. /\ UNCHANGED <<made, thread, applied, output>>
        /\ current' = current \/ current' = [current EXCEPT ![c] = 0]
    BY <1>6 DEF Detach, HangUp, Close, AnswerClosed, Stop, Remove
  <2>2. pc[c] \notin Busy /\ \E s \in {"ready", "gone", "closing"} : pc' = [pc EXCEPT ![c] = s]
    BY <1>6 DEF Detach, HangUp, Close, AnswerClosed, At, Busy
  <2>3. \A d \in Conns : pc'[d] \in Busy => pc'[d] = pc[d] /\ d # c
    BY <2>2 DEF Busy
  <2>4. \A d \in Conns : pc'[d] = "snapshot" => pc[d] = "snapshot"
    BY <2>2
  <2>5. \A d \in Conns : current'[d] <= current[d] /\ (d # c => current'[d] = current[d])
    BY <2>1
  <2>6. \A d \in Conns : current'[d] <= made'[d]
    BY <2>1, <2>5
  <2> QED BY <2>1, <2>3, <2>4, <2>5, <2>6 DEF Pending
<1>7. ASSUME NEW a \in Attachments, ThreadStep(a) PROVE HandlerInv'
  <2>1. UNCHANGED <<connVars, applied, output>> /\ thread[a] # "none"
    BY <1>7 DEF ThreadStep, Take, Send, EndOfStream, Tell, Quit
  <2>2. \A b \in Attachments : b # a => thread'[b] = thread[b]
    BY <1>7 DEF ThreadStep, Take, Send, EndOfStream, Tell, Quit
  <2>3. \A c \in Conns : pc[c] \in Busy => Pending(c) \in Attachments
    BY PendingIsAttachment
  <2> QED BY <2>1, <2>2, <2>3 DEF Pending
<1> QED BY <1>1, <1>2, <1>3, <1>4, <1>5, <1>6, <1>7 DEF Next, HandlerStep

LEMMA UnmadeStep == TypeOK /\ HandlerInv /\ UnmadeInv /\ [Next]_vars => UnmadeInv'
<1> SUFFICES ASSUME TypeOK, HandlerInv, UnmadeInv, [Next]_vars,
                    NEW a \in Attachments, ~Made(a)'
             PROVE  /\ thread'[a] = "none" /\ snapshot'[a] = 0
                    /\ queue'[a] = <<>> /\ holding'[a] = <<>> /\ received'[a] = <<>>
                    /\ a \notin subscribers' /\ a \notin open' /\ a \notin receivers'
  BY DEF UnmadeInv
<1> USE DEF TypeOK, hubVars, connVars, threadVars
<1>0. a[1] \in Conns /\ a[2] \in 1..MaxAttaches
  BY Attachment
<1>1. \A c \in Conns : made'[c] = made[c] \/ made'[c] = made[c] + 1
  <2>1. ASSUME NEW c \in Conns, Attach(c) PROVE \A d \in Conns : made'[d] \in {made[d], made[d] + 1}
    BY <2>1 DEF Attach
  <2>2. CASE UNCHANGED made
    BY <2>2
  <2>3. ASSUME NEW b \in Attachments, ThreadStep(b) PROVE UNCHANGED made
    BY <2>3 DEF ThreadStep, Take, Send, EndOfStream, Tell, Quit
  <2>4. ASSUME NEW c \in Conns, Detach(c) \/ HangUp(c) \/ Close(c) \/ HandlerStep(c) PROVE UNCHANGED made
    BY <2>4 DEF HandlerStep, Subscribe, SnapshotFails, Enter, SendSnapshot, Replace, Detach, HangUp, Stop,
                Close, AnswerClosed
  <2>5. CASE UNCHANGED vars \/ Apply \/ Publish \/ Unregister
    BY <2>5 DEF vars, Apply, Publish, Unregister
  <2> QED BY <2>1, <2>2, <2>3, <2>4, <2>5 DEF Next
<1>2. ~Made(a)
  <2>1. made[a[1]] \in Nat /\ a[2] \in Nat
    BY <1>0
  <2>2. ~(a[2] <= made'[a[1]])
    BY DEF Made
  <2>3. made'[a[1]] = made[a[1]] \/ made'[a[1]] = made[a[1]] + 1
    BY <1>0, <1>1
  <2>4. ~(a[2] <= made[a[1]])
    BY <2>1, <2>2, <2>3
  <2> QED BY <2>4 DEF Made
<1>3. /\ thread[a] = "none" /\ snapshot[a] = 0
      /\ queue[a] = <<>> /\ holding[a] = <<>> /\ received[a] = <<>>
      /\ a \notin subscribers /\ a \notin open /\ a \notin receivers
  BY <1>2 DEF UnmadeInv
<1>4. CASE UNCHANGED vars
  BY <1>3, <1>4 DEF vars
<1>5. CASE Apply \/ Publish \/ Unregister
  BY <1>3, <1>5 DEF Apply, Publish, Unregister, Remove, Reached
<1>6. ASSUME NEW c \in Conns, Attach(c) PROVE a # <<c, made[c] + 1>>
  BY <1>6, <1>0 DEF Attach, Made
<1>7. ASSUME NEW c \in Conns, pc[c] \in Busy PROVE a # Pending(c)
  BY <1>2, <1>7, PendingIsAttachment
<1>8. ASSUME NEW c \in Conns,
             \/ Attach(c) \/ Subscribe(c) \/ SnapshotFails(c) \/ Enter(c) \/ SendSnapshot(c) \/ Replace(c)
      PROVE  /\ thread'[a] = thread[a] /\ snapshot'[a] = snapshot[a] /\ queue'[a] = queue[a]
             /\ holding'[a] = holding[a] /\ received'[a] = received[a]
             /\ a \notin subscribers' /\ a \notin open' /\ a \notin receivers'
  BY <1>3, <1>6, <1>7, <1>8 DEF Attach, Subscribe, SnapshotFails, Enter, SendSnapshot, Replace, At, Busy
<1>9. ASSUME NEW c \in Conns, Detach(c) \/ HangUp(c) \/ Close(c) \/ AnswerClosed(c)
      PROVE  /\ thread'[a] = thread[a] /\ snapshot'[a] = snapshot[a] /\ queue'[a] = queue[a]
             /\ holding'[a] = holding[a] /\ received'[a] = received[a]
             /\ a \notin subscribers' /\ a \notin open' /\ a \notin receivers'
  BY <1>3, <1>9 DEF Detach, HangUp, Close, AnswerClosed, Stop, Remove
<1>10. ASSUME NEW b \in Attachments, ThreadStep(b)
       PROVE  /\ thread'[a] = thread[a] /\ snapshot'[a] = snapshot[a] /\ queue'[a] = queue[a]
              /\ holding'[a] = holding[a] /\ received'[a] = received[a]
              /\ a \notin subscribers' /\ a \notin open' /\ a \notin receivers'
  <2>1. b # a
    BY <1>3, <1>10 DEF ThreadStep, Take, Send, EndOfStream, Tell, Quit
  <2> QED BY <1>3, <1>10, <2>1 DEF ThreadStep, Take, Send, EndOfStream, Tell, Quit
<1> QED BY <1>3, <1>4, <1>5, <1>8, <1>9, <1>10 DEF Next, HandlerStep

LEMMA EnteredStep == IInv /\ [Next]_vars => EnteredInv'
<1> SUFFICES ASSUME IInv, [Next]_vars, NEW a \in Attachments, a \in open',
                    Runs(a)' \/ (IsPending(a)' /\ pc'[a[1]] \notin {"snapshot", "subscribed"})
             PROVE  registered' /\ a \in receivers'
  BY DEF EnteredInv
<1> USE DEF hubVars, connVars, threadVars, Busy
<1>0. TypeOK /\ HandlerInv /\ UnmadeInv /\ EnteredInv /\ a[1] \in Conns /\ a = <<a[1], a[2]>>
  BY Attachment DEF IInv
<1>1. CASE UNCHANGED vars
  BY <1>0, <1>1 DEF vars, EnteredInv, Runs, IsPending
<1>2. CASE Apply \/ Publish
  BY <1>0, <1>2 DEF Apply, Publish, EnteredInv, Runs, IsPending
<1>3. CASE Unregister
  BY <1>0, <1>3 DEF Unregister, Remove, EnteredInv, Runs, IsPending
<1>4. ASSUME NEW c \in Conns, Close(c) PROVE registered' /\ a \in receivers'
  BY <1>0, <1>4 DEF Close, Remove, At, EnteredInv, Runs, IsPending, TypeOK
<1>5. ASSUME NEW c \in Conns, Attach(c) PROVE registered' /\ a \in receivers'
  <2>1. a[1] = c => ~(IsPending(a)' /\ pc'[a[1]] \notin {"snapshot", "subscribed"})
    BY <1>0, <1>5 DEF Attach, At, TypeOK, IsPending
  <2>2. a[1] # c => (IsPending(a)' <=> IsPending(a)) /\ pc'[a[1]] = pc[a[1]]
    BY <1>0, <1>5 DEF Attach, At, TypeOK, IsPending
  <2>3. UNCHANGED <<registered, receivers, thread, open>>
    BY <1>5 DEF Attach
  <2> QED BY <1>0, <2>1, <2>2, <2>3 DEF EnteredInv, Runs
<1>11. ASSUME NEW c \in Conns, Subscribe(c) PROVE registered' /\ a \in receivers'
  <2>1. a[1] = c => ~(IsPending(a)' /\ pc'[a[1]] \notin {"snapshot", "subscribed"})
    BY <1>0, <1>11 DEF Subscribe, At, TypeOK, IsPending
  <2>2. a[1] # c => (IsPending(a)' <=> IsPending(a)) /\ pc'[a[1]] = pc[a[1]]
    BY <1>0, <1>11 DEF Subscribe, At, TypeOK, IsPending
  <2>3. thread[Pending(c)] = "none" /\ Pending(c)[1] = c
    BY <1>0, <1>11 DEF Subscribe, At, HandlerInv, Pending
  <2>4. UNCHANGED <<registered, receivers, thread>> /\ open' = open \cup {Pending(c)}
    BY <1>11 DEF Subscribe
  <2>5. a # Pending(c)
    BY <2>1, <2>3, <2>4 DEF Runs
  <2> QED BY <1>0, <2>1, <2>2, <2>4, <2>5 DEF EnteredInv, Runs
<1>6. ASSUME NEW c \in Conns, SnapshotFails(c) \/ SendSnapshot(c) PROVE registered' /\ a \in receivers'
  BY <1>0, <1>6 DEF SnapshotFails, SendSnapshot, At, TypeOK, EnteredInv, Runs, IsPending
<1>7. ASSUME NEW c \in Conns, Enter(c) PROVE registered' /\ a \in receivers'
  <2>1. CASE a = Pending(c)
    BY <1>0, <1>7, <2>1, PendingIsAttachment DEF Enter, StillThere, At, TypeOK, Runs, IsPending, Pending
  <2>2. CASE a # Pending(c)
    <3>1. a \in open /\ (Runs(a) \/ (IsPending(a) /\ pc[a[1]] \notin {"snapshot", "subscribed"}))
      BY <1>0, <1>7, <2>2 DEF Enter, StillThere, At, TypeOK, Runs, IsPending, Pending
    <3>2. registered /\ a \in receivers
      BY <1>0, <3>1 DEF EnteredInv
    <3> QED BY <1>7, <3>1, <3>2 DEF Enter, StillThere
  <2> QED BY <2>1, <2>2
<1>8. ASSUME NEW c \in Conns, Replace(c) PROVE registered' /\ a \in receivers'
  <2>1. Pending(c) \in Attachments /\ pc[c] = "answered" /\ IsPending(Pending(c))
    BY <1>0, <1>8, PendingIsAttachment DEF Replace, At
  <2>2. a \in open /\ UNCHANGED <<registered, receivers>>
    BY <1>8 DEF Replace
  <2>3. CASE a = Pending(c)
    BY <1>0, <2>1, <2>2, <2>3 DEF EnteredInv, Pending
  <2>4. CASE a # Pending(c)
    <3>1. thread'[a] = thread[a] /\ (IsPending(a)' => IsPending(a) /\ pc'[a[1]] = pc[a[1]])
      BY <1>0, <1>8, <2>1, <2>4 DEF Replace, At, TypeOK, IsPending
    <3> QED BY <1>0, <2>2, <3>1 DEF EnteredInv, Runs
  <2> QED BY <2>3, <2>4
<1>9. ASSUME NEW c \in Conns, Detach(c) \/ HangUp(c) \/ AnswerClosed(c) PROVE registered' /\ a \in receivers'
  BY <1>0, <1>9 DEF Detach, HangUp, AnswerClosed, Stop, At, TypeOK, EnteredInv, Runs, IsPending
<1>10. ASSUME NEW b \in Attachments, ThreadStep(b) PROVE registered' /\ a \in receivers'
  <2>1. a \in open /\ UNCHANGED <<registered, receivers, pc, made>> /\ (Runs(a)' => Runs(a))
    BY <1>0, <1>10 DEF ThreadStep, Take, Send, EndOfStream, Reason, Tell, Quit, TypeOK, Runs
  <2> QED BY <1>0, <2>1 DEF EnteredInv, IsPending
<1> QED BY <1>1, <1>2, <1>3, <1>4, <1>5, <1>6, <1>7, <1>8, <1>9, <1>10, <1>11 DEF Next, HandlerStep

LEMMA ReasonStep == IInv /\ [Next]_vars => ReasonInv'
<1> SUFFICES ASSUME IInv, [Next]_vars, NEW a \in Attachments,
                    (a \in alive' /\ Runs(a)') \/ IsPending(a)', registered', a \notin open'
             PROVE  a \notin subscribers'
  BY DEF ReasonInv
<1> USE DEF hubVars, connVars, threadVars, Busy
<1>0. TypeOK /\ HandlerInv /\ UnmadeInv /\ ReasonInv /\ a[1] \in Conns /\ a = <<a[1], a[2]>>
  BY Attachment DEF IInv
<1>1. CASE UNCHANGED vars
  BY <1>0, <1>1 DEF vars, ReasonInv, Runs, IsPending
<1>2. CASE Apply \/ Publish
  BY <1>0, <1>2 DEF Apply, Publish, Reached, HasRoom, ReasonInv, Runs, IsPending
<1>3. CASE Remove
  BY <1>3 DEF Remove
<1>4. ASSUME NEW c \in Conns, Attach(c) PROVE a \notin subscribers'
  <2>1. UNCHANGED <<open, subscribers, registered>>
    BY <1>4 DEF Attach
  <2>2. CASE a = <<c, made[c] + 1>>
    <3>1. ~Made(a)
      BY <1>0, <2>2 DEF Made, TypeOK
    <3> QED BY <1>0, <2>1, <3>1 DEF UnmadeInv
  <2>3. CASE a # <<c, made[c] + 1>>
    <3>1. (a \in alive /\ Runs(a)) \/ IsPending(a)
      BY <1>0, <1>4, <2>3 DEF Attach, At, TypeOK, IsPending, Runs
    <3> QED BY <1>0, <2>1, <3>1 DEF ReasonInv
  <2> QED BY <2>2, <2>3
<1>11. ASSUME NEW c \in Conns, Subscribe(c) PROVE a \notin subscribers'
  <2>1. a # Pending(c) /\ a \notin open
    BY <1>11 DEF Subscribe
  <2>2. (a \in alive /\ Runs(a)) \/ IsPending(a)
    BY <1>0, <1>11, <2>1 DEF Subscribe, At, TypeOK, IsPending, Runs
  <2> QED BY <1>0, <1>11, <2>1, <2>2 DEF Subscribe, ReasonInv
<1>5. ASSUME NEW c \in Conns, SnapshotFails(c) PROVE a \notin subscribers'
  <2>1. a # Pending(c)
    BY <1>0, <1>5, PendingIsAttachment DEF SnapshotFails, At, TypeOK, IsPending, Runs, Pending
  <2>2. ((a \in alive /\ Runs(a)) \/ IsPending(a)) /\ a \notin open
    BY <1>0, <1>5, <2>1 DEF SnapshotFails, At, TypeOK, IsPending, Runs
  <2> QED BY <1>0, <1>5, <2>2 DEF SnapshotFails, ReasonInv
<1>6. ASSUME NEW c \in Conns, Enter(c) \/ SendSnapshot(c) PROVE a \notin subscribers'
  <2>1. registered /\ UNCHANGED <<open, subscribers, alive, thread, made>>
    BY <1>6 DEF Enter, StillThere, SendSnapshot
  <2>2. IsPending(a)' => IsPending(a)
    BY <1>0, <1>6 DEF Enter, SendSnapshot, At, TypeOK, IsPending
  <2> QED BY <1>0, <2>1, <2>2 DEF ReasonInv, Runs
<1>7. ASSUME NEW c \in Conns, Replace(c) PROVE a \notin subscribers'
  <2>1. Pending(c) \notin InPlace(c) /\ IsPending(Pending(c)) /\ Pending(c) \in Attachments
    BY <1>0, <1>7, PendingIsAttachment DEF Replace, At
  <2>2. ~(a \in InPlace(c))
    BY <1>0, <1>7, <2>1 DEF Replace, At, TypeOK, IsPending, Pending, InPlace
  <2>3. a \notin open /\ UNCHANGED <<registered, subscribers>>
    BY <1>7, <2>2 DEF Replace
  <2>4. CASE a = Pending(c)
    BY <1>0, <2>1, <2>3, <2>4 DEF ReasonInv
  <2>5. CASE a # Pending(c)
    <3>1. thread'[a] = thread[a] /\ (IsPending(a)' => IsPending(a)) /\ (a \in alive' => a \in alive)
      BY <1>0, <1>7, <2>1, <2>5 DEF Replace, At, TypeOK, IsPending
    <3> QED BY <1>0, <2>3, <3>1 DEF ReasonInv, Runs
  <2> QED BY <2>4, <2>5
<1>8. ASSUME NEW c \in Conns, Detach(c) \/ HangUp(c) PROVE a \notin subscribers'
  <2>0. Stop(c) /\ pc'[c] \notin Busy
    BY <1>0, <1>8 DEF Detach, HangUp, At, TypeOK
  <2>1. a \notin InPlace(c) /\ a \notin open
    <3>1. CASE a \in InPlace(c)
      <4>1. a[1] = c /\ a \notin alive'
        BY <2>0, <3>1 DEF Stop, InPlace
      <4> QED BY <2>0, <4>1 DEF IsPending
    <3>2. CASE a \notin InPlace(c)
      BY <2>0, <3>2 DEF Stop
    <3> QED BY <3>1, <3>2
  <2> QED BY <1>0, <1>8, <2>1 DEF Detach, HangUp, Stop, At, TypeOK, ReasonInv, Runs, IsPending
<1>9. ASSUME NEW c \in Conns, AnswerClosed(c) PROVE a \notin subscribers'
  BY <1>0, <1>9 DEF AnswerClosed, At, TypeOK, ReasonInv, Runs, IsPending
<1>10. ASSUME NEW b \in Attachments, ThreadStep(b) PROVE a \notin subscribers'
  <2>1. UNCHANGED <<registered, subscribers, alive, pc, made>> /\ (Runs(a)' => Runs(a))
    BY <1>0, <1>10 DEF ThreadStep, Take, Send, EndOfStream, Reason, Tell, Quit, TypeOK, Runs
  <2>2. (a \in alive /\ Runs(a)) \/ IsPending(a)
    BY <2>1 DEF IsPending
  <2>3. CASE a \notin open
    BY <1>0, <2>1, <2>2, <2>3 DEF ReasonInv
  <2>4. CASE a \in open
    <3>1. b = a /\ Quit(a)
      BY <1>10, <2>4 DEF ThreadStep, Take, Send, EndOfStream, Tell, Quit
    <3>2. ~Runs(a)' /\ thread[a] # "none"
      BY <1>0, <3>1 DEF Quit, TypeOK, Runs
    <3>3. IsPending(a)
      BY <2>1, <3>2 DEF IsPending
    <3>4. a = Pending(a[1])
      BY <1>0, <3>3 DEF IsPending, Pending
    <3> QED BY <1>0, <3>2, <3>3, <3>4, PendingIsAttachment DEF IsPending
  <2> QED BY <2>3, <2>4
<1> QED
  BY <1>1, <1>2, <1>3, <1>4, <1>5, <1>6, <1>7, <1>8, <1>9, <1>10, <1>11 DEF Next, HandlerStep, Unregister, Close

LEMMA ThreadInvStep == IInv /\ [Next]_vars => ThreadInv'
<1> SUFFICES ASSUME IInv, [Next]_vars, NEW a \in Attachments
             PROVE  /\ thread'[a] # "send" => holding'[a] = <<>>
                    /\ Over(a)' => a \notin open' /\ queue'[a] = <<>>
                    /\ thread'[a] = "overflow" => a \notin subscribers'
                    /\ thread'[a] = "closed" => ~registered'
  BY DEF ThreadInv
<1> USE DEF hubVars, connVars, threadVars, Over
<1>0. TypeOK /\ HandlerInv /\ UnmadeInv /\ ReasonInv
  BY DEF IInv
<1>1. /\ thread[a] # "send" => holding[a] = <<>>
      /\ Over(a) => a \notin open /\ queue[a] = <<>>
      /\ thread[a] = "overflow" => a \notin subscribers
      /\ thread[a] = "closed" => ~registered
  BY DEF IInv, ThreadInv
<1>2. CASE UNCHANGED vars
  BY <1>1, <1>2 DEF vars
<1>17. CASE Apply
  BY <1>1, <1>17 DEF Apply
<1>3. CASE Publish
  <2>1. UNCHANGED <<thread, holding, registered>>
    BY <1>3 DEF Publish
  <2>2. a \notin open => a \notin subscribers' /\ a \notin open' /\ queue'[a] = queue[a]
    BY <1>3 DEF Publish, Reached, HasRoom
  <2> QED BY <1>1, <2>1, <2>2
<1>4. CASE Remove /\ UNCHANGED threadVars
  BY <1>1, <1>4 DEF Remove
<1>5. ASSUME NEW c \in Conns, Subscribe(c)
      PROVE  /\ UNCHANGED <<thread, holding, queue, registered>>
             /\ Over(a) => /\ a \notin open => a \notin open'
                           /\ a \notin subscribers => a \notin subscribers'
  <2>1. thread[Pending(c)] = "none"
    BY <1>0, <1>5 DEF Subscribe, At, HandlerInv, Busy
  <2> QED BY <1>5, <2>1 DEF Subscribe
<1>6. ASSUME NEW c \in Conns,
             \/ Attach(c) \/ SnapshotFails(c) \/ Enter(c) \/ SendSnapshot(c)
             \/ Detach(c) \/ HangUp(c) \/ AnswerClosed(c)
      PROVE  UNCHANGED <<thread, holding, queue, registered, subscribers>> /\ open' \subseteq open
  BY <1>6 DEF Attach, SnapshotFails, Enter, SendSnapshot, Detach, HangUp, AnswerClosed, Stop
<1>7. ASSUME NEW c \in Conns, Replace(c)
      PROVE  /\ UNCHANGED <<holding, queue, registered, subscribers>> /\ open' \subseteq open
             /\ thread'[a] = thread[a] \/ (thread[a] = "none" /\ thread'[a] = "recv")
  <2>1. thread[Pending(c)] = "none" /\ Pending(c) \in Attachments
    BY <1>0, <1>7, PendingIsAttachment DEF Replace, At, Busy
  <2> QED BY <1>0, <1>7, <2>1 DEF Replace, TypeOK
<1>8. ASSUME NEW b \in Attachments, Take(b)
      PROVE  /\ UNCHANGED <<registered, subscribers, open>>
             /\ a # b => UNCHANGED <<thread[a], holding[a], queue[a]>>
             /\ a = b => thread'[a] = "send"
  BY <1>0, <1>8 DEF Take, TypeOK
<1>9. ASSUME NEW b \in Attachments, Send(b)
      PROVE  /\ UNCHANGED <<registered, subscribers, open, queue>>
             /\ a # b => UNCHANGED <<thread[a], holding[a]>>
             /\ a = b => thread'[a] = "recv" /\ holding'[a] = <<>>
  BY <1>0, <1>9 DEF Send, TypeOK
<1>10. ASSUME NEW b \in Attachments, EndOfStream(b)
       PROVE  /\ UNCHANGED <<registered, subscribers, open, queue, holding>>
              /\ a # b => thread'[a] = thread[a]
              /\ a = b => /\ thread'[a] = Reason /\ thread[a] = "recv" /\ a \notin open /\ queue[a] = <<>>
                          /\ registered => a \notin subscribers
  BY <1>0, <1>10 DEF EndOfStream, TypeOK, ShouldRun, Drained, ReasonInv, Runs
<1>11. ASSUME NEW b \in Attachments, Tell(b)
       PROVE  /\ UNCHANGED <<registered, subscribers, open, queue, holding>>
              /\ a # b => thread'[a] = thread[a]
              /\ a = b => thread'[a] \in {"lost", "ended"} /\ Over(a) /\ thread[a] # "send"
  BY <1>0, <1>11 DEF Tell, TypeOK
<1>12. ASSUME NEW b \in Attachments, Quit(b)
       PROVE  /\ UNCHANGED <<registered, subscribers>> /\ open' \subseteq open
              /\ a # b => UNCHANGED <<thread[a], holding[a], queue[a]>>
              /\ a = b => thread'[a] = "done" /\ holding'[a] = <<>>
  BY <1>0, <1>12 DEF Quit, TypeOK
<1>13. CASE \E c \in Conns : Subscribe(c)
  BY <1>1, <1>5, <1>13
<1>14. CASE \E c \in Conns : Attach(c) \/ (HandlerStep(c) /\ ~Subscribe(c)) \/ Detach(c) \/ HangUp(c)
  BY <1>1, <1>6, <1>7, <1>14 DEF HandlerStep
<1>15. CASE \E b \in Attachments : ThreadStep(b)
  <2> PICK b \in Attachments : ThreadStep(b)
    BY <1>15
  <2>1. CASE Take(b)
    BY <1>1, <1>8, <2>1
  <2>2. CASE Send(b)
    BY <1>1, <1>9, <2>2
  <2>3. CASE EndOfStream(b)
    BY <1>1, <1>10, <2>3 DEF Reason
  <2>4. CASE Tell(b)
    BY <1>1, <1>11, <2>4
  <2>5. CASE Quit(b)
    BY <1>1, <1>12, <2>5
  <2> QED BY <2>1, <2>2, <2>3, <2>4, <2>5 DEF ThreadStep
<1>16. CASE \E c \in Conns : Close(c)
  BY <1>4, <1>16 DEF Close
<1> QED BY <1>2, <1>3, <1>4, <1>13, <1>14, <1>15, <1>16, <1>17 DEF Next, Unregister
-----------------------------------------------------------------------------
(* Data *)

\* A step that leaves an attachment's data alone keeps what is known of it.
LEMMA SameData ==
  ASSUME DataInv, NEW a \in Attachments, Made(a),
         UNCHANGED <<snapshot[a], received[a], holding[a], queue[a], output>>,
         Listed(a)' <=> Listed(a),
         thread'[a] = "done" <=> thread[a] = "done"
  PROVE  IF thread'[a] = "done" THEN \E i \in 0..output' : Sent(a)' = Run(0, i)
                                ELSE \E i, j, n \in 0..MaxOutput : Follows(a, i, j, n)'
<1>1. Sent(a)' = Sent(a)
  BY DEF Sent
<1>2. CASE thread[a] = "done"
  BY <1>1, <1>2 DEF DataInv
<1>3. CASE thread[a] # "done"
  <2>1. PICK i, j, n \in 0..MaxOutput : Follows(a, i, j, n)
    BY <1>3 DEF DataInv
  <2>2. Follows(a, i, j, n)'
    BY <1>1, <2>1 DEF Follows
  <2> QED BY <1>3, <2>2
<1> QED BY <1>2, <1>3

LEMMA PublishData ==
  ASSUME IInv, Publish, NEW a \in Attachments, Made(a)
  PROVE  IF thread'[a] = "done" THEN \E i \in 0..output' : Sent(a)' = Run(0, i)
                                ELSE \E i, j, n \in 0..MaxOutput : Follows(a, i, j, n)'
<1> USE DEF connVars, threadVars
<1>1. TypeOK /\ HandlerInv /\ DataInv /\ a[1] \in Conns
  BY Attachment DEF IInv
<1>2. Sent(a)' = Sent(a) /\ output \in 0..MaxOutput /\ output' = output + 1 /\ output < MaxOutput
      /\ UNCHANGED <<snapshot, holding, thread>>
  BY <1>1 DEF Publish, Sent, TypeOK, HandlerInv
<1>5. (Listed(a) <=> a \in subscribers) /\ (Listed(a)' <=> a \in subscribers')
  BY <1>1 DEF Publish, Listed, Subscribing, HandlerInv
<1>3. CASE thread[a] = "done"
  <2>1. PICK i \in 0..output : Sent(a) = Run(0, i)
    BY <1>1, <1>3 DEF DataInv
  <2> QED BY <1>2, <1>3, <2>1
<1>4. CASE thread[a] # "done"
  <2>1. PICK i, j, n \in 0..MaxOutput : Follows(a, i, j, n)
    BY <1>1, <1>4 DEF DataInv
  <2>2. CASE a \in Reached
    <3>1. a \in subscribers /\ a \in subscribers' /\ queue'[a] = Append(queue[a], output + 1)
      BY <1>1, <2>2 DEF Publish, Reached, TypeOK
    <3>2. n = output
      BY <1>5, <2>1, <3>1 DEF Follows
    <3>3. queue'[a] = Run(j, n + 1)
      BY <2>1, <3>1, <3>2, RunAppend DEF Follows
    <3>4. Follows(a, i, j, n + 1)' /\ n + 1 \in 0..MaxOutput
      BY <1>2, <1>5, <2>1, <3>1, <3>2, <3>3 DEF Follows
    <3> QED BY <1>2, <1>4, <3>4
  <2>3. CASE a \notin Reached
    <3>1. a \notin subscribers' /\ queue'[a] = queue[a]
      BY <1>1, <2>3 DEF Publish, TypeOK
    <3>2. Follows(a, i, j, n)'
      BY <1>2, <1>5, <2>1, <3>1 DEF Follows
    <3> QED BY <1>2, <1>4, <3>2
  <2> QED BY <2>2, <2>3
<1> QED BY <1>3, <1>4

LEMMA TakeData ==
  ASSUME IInv, NEW a \in Attachments, Made(a), Take(a)
  PROVE  thread'[a] # "done" /\ \E i, j, n \in 0..MaxOutput : Follows(a, i, j, n)'
<1>1. TypeOK /\ DataInv /\ ThreadInv
  BY DEF IInv
<1>2. thread[a] = "recv" /\ thread'[a] = "send" /\ holding[a] = <<>>
      /\ UNCHANGED <<output, snapshot, received>> /\ (Listed(a)' <=> Listed(a))
  BY <1>1 DEF Take, TypeOK, ThreadInv, connVars, Listed, Subscribing, Pending
<1>3. PICK i, j, n \in 0..MaxOutput : Follows(a, i, j, n)
  BY <1>1, <1>2 DEF DataInv
<1>4. i = j /\ Sent(a)' = Run(0, i)
  <2>1. i <= j /\ Run(i, j) = <<>> /\ Sent(a) = Run(0, i)
    BY <1>2, <1>3 DEF Follows
  <2>2. Sent(a)' = Sent(a)
    BY <1>2 DEF Sent
  <2> QED BY <2>1, <2>2, RunEmpty
<1>5. PICK m \in 1..Len(queue[a]) :
        /\ holding'[a] = Joined(queue[a], m)
        /\ queue'[a] = SubSeq(queue[a], m + 1, Len(queue[a]))
  BY <1>1 DEF Take, TypeOK
<1>6. queue[a] = Run(i, n) /\ i <= n /\ Len(queue[a]) = n - i /\ m \in 1..(n - i)
      /\ i + m \in i..n /\ i + m \in 0..MaxOutput
  <2>1. queue[a] = Run(i, n) /\ i <= n
    BY <1>3, <1>4 DEF Follows
  <2>2. Len(queue[a]) = n - i
    BY <2>1, RunType
  <2> QED BY <1>5, <2>1, <2>2
<1>7. holding'[a] = Run(i, i + m) /\ queue'[a] = Run(i + m, n)
  <2>1. i \in Nat /\ n \in Nat
    OBVIOUS
  <2>2. SubSeq(Run(i, n), 1, m) = Run(i, i + m) /\ SubSeq(Run(i, n), m + 1, n - i) = Run(i + m, n)
    BY <1>6, <2>1, RunSplit
  <2> QED BY <1>5, <1>6, <2>2 DEF Joined
<1>8. Follows(a, i, i + m, n)'
  BY <1>2, <1>3, <1>4, <1>6, <1>7 DEF Follows
<1> QED BY <1>2, <1>6, <1>8

LEMMA SendData ==
  ASSUME IInv, NEW a \in Attachments, Made(a), Send(a)
  PROVE  /\ thread'[a] # "done" /\ \E i, j, n \in 0..MaxOutput : Follows(a, i, j, n)'
         /\ \E i, m \in 0..output : i <= m /\ Sent(a) = Run(0, i) /\ Sent(a)' = Run(0, m)
<1> USE DEF hubVars
<1>1. TypeOK /\ DataInv
  BY DEF IInv
<1>2. thread[a] = "send" /\ thread'[a] = "recv" /\ holding'[a] = <<>>
      /\ received'[a] = received[a] \o holding[a]
      /\ UNCHANGED <<output, snapshot, queue>> /\ (Listed(a)' <=> Listed(a))
  BY <1>1 DEF Send, TypeOK, connVars, Listed, Subscribing, Pending
<1>3. PICK i, j, n \in 0..MaxOutput : Follows(a, i, j, n)
  BY <1>1, <1>2 DEF DataInv
<1>4. Sent(a)' = Sent(a) \o holding[a]
  <2>1. snapshot[a] \in Nat /\ received[a] \in Seq(Nat) /\ holding[a] \in Seq(Nat)
    BY <1>1, SeqMonotonic, 1..MaxOutput \subseteq Nat DEF TypeOK
  <2>2. Run(0, snapshot[a]) \in Seq(Nat)
    <3>1. 0 \in Nat /\ 0 <= snapshot[a]
      BY <2>1
    <3> QED BY <2>1, <3>1, RunType
  <2>3. (Run(0, snapshot[a]) \o received[a]) \o holding[a]
        = Run(0, snapshot[a]) \o (received[a] \o holding[a])
    <3>1. \A r, s, t \in Seq(Nat) : (r \o s) \o t = r \o (s \o t)
      BY ConcatAssociative
    <3> QED BY <2>1, <2>2, <3>1
  <2>4. Sent(a)' = Run(0, snapshot[a]) \o (received[a] \o holding[a])
    BY <1>2 DEF Sent
  <2> QED BY <2>3, <2>4 DEF Sent
<1>5. Sent(a)' = Run(0, j)
  <2>1. 0 \in Nat /\ i \in Nat /\ j \in Nat /\ 0 <= i /\ i <= j
    BY <1>3 DEF Follows
  <2>2. Run(0, i) \o Run(i, j) = Run(0, j)
    BY <2>1, RunConcat
  <2>3. Sent(a) = Run(0, i) /\ holding[a] = Run(i, j)
    BY <1>3 DEF Follows
  <2> QED BY <1>4, <2>2, <2>3
<1>6. Follows(a, j, j, n)'
  <2>1. holding'[a] = Run(j, j)
    BY <1>2, RunEmpty
  <2> QED BY <1>1, <1>2, <1>3, <1>5, <2>1 DEF Follows, TypeOK
<1>7. i \in 0..output /\ j \in 0..output /\ i <= j /\ Sent(a) = Run(0, i)
  BY <1>1, <1>3 DEF Follows, TypeOK
<1> QED BY <1>2, <1>5, <1>6, <1>7

LEMMA QuitData ==
  ASSUME IInv, NEW a \in Attachments, Made(a), Quit(a)
  PROVE  thread'[a] = "done" /\ \E i \in 0..output' : Sent(a)' = Run(0, i)
<1>1. TypeOK /\ DataInv
  BY DEF IInv
<1>2. thread[a] # "done" /\ thread'[a] = "done" /\ UNCHANGED <<output, snapshot, received>>
  BY <1>1 DEF Quit, TypeOK
<1>3. PICK i, j, n \in 0..MaxOutput : Follows(a, i, j, n)
  BY <1>1, <1>2 DEF DataInv
<1>4. i \in 0..output' /\ Sent(a)' = Run(0, i)
  BY <1>1, <1>2, <1>3 DEF Follows, Sent, TypeOK
<1> QED BY <1>2, <1>4

\* The new attachment starts with the output shown by its snapshot.
LEMMA AttachData ==
  ASSUME IInv, NEW c \in Conns, Attach(c), NEW a \in Attachments, a = <<c, made[c] + 1>>
  PROVE  thread'[a] # "done" /\ Sent(a)' = Run(0, applied)
         /\ \E i, j, n \in 0..MaxOutput : Follows(a, i, j, n)'
<1>1. TypeOK /\ UnmadeInv
  BY DEF IInv
<1>2. ~Made(a)
  BY <1>1 DEF Made, TypeOK
<1>3. thread[a] = "none" /\ queue[a] = <<>> /\ holding[a] = <<>> /\ received[a] = <<>>
  BY <1>1, <1>2 DEF UnmadeInv
<1>4. snapshot'[a] = output /\ applied = output /\ output \in 0..MaxOutput
      /\ UNCHANGED <<output, thread, queue, holding, received>>
  <2>1. a \in Attachments /\ applied = output /\ snapshot'[a] = applied
    BY <1>1 DEF Attach, BoundaryFree, TypeOK
  <2> QED BY <1>1, <2>1 DEF Attach, TypeOK, hubVars
<1>5. Sent(a)' = Run(0, output)
  <2>1. Run(0, output) \in Seq(Nat)
    BY <1>4, RunType
  <2> QED BY <1>3, <1>4, <2>1, ConcatEmptySeq DEF Sent
<1>6. holding'[a] = Run(output, output) /\ queue'[a] = Run(output, output)
  BY <1>3, <1>4, RunEmpty
<1>8. Listed(a)'
  <2>1. a = <<c, made'[c]>> /\ pc'[c] = "snapshot"
    BY <1>1 DEF Attach, At, TypeOK
  <2> QED BY <2>1 DEF Listed, Subscribing, Pending
<1>7. Follows(a, output, output, output)'
  BY <1>4, <1>5, <1>6, <1>8 DEF Follows
<1> QED BY <1>3, <1>4, <1>5, <1>7

LEMMA DataStep == IInv /\ [Next]_vars => DataInv'
<1> SUFFICES ASSUME IInv, [Next]_vars, NEW a \in Attachments, Made(a)'
             PROVE  IF thread'[a] = "done"
                    THEN \E i \in 0..output' : Sent(a)' = Run(0, i)
                    ELSE \E i, j, n \in 0..MaxOutput : Follows(a, i, j, n)'
  BY DEF DataInv
<1> USE DEF hubVars, connVars, threadVars
<1>0. TypeOK /\ HandlerInv /\ DataInv /\ a[1] \in Conns /\ a = <<a[1], a[2]>> /\ a[2] \in 1..MaxAttaches
  BY Attachment DEF IInv
<1>1. CASE UNCHANGED vars
  <2>1. Made(a) /\ UNCHANGED <<snapshot, received, holding, queue, output, thread>>
        /\ (Listed(a)' <=> Listed(a))
    BY <1>1 DEF vars, Made, Listed, Subscribing, Pending
  <2> QED BY <1>0, <2>1, SameData
<1>2. CASE Publish
  <2>1. Made(a)
    BY <1>2 DEF Publish, Made
  <2> QED BY <1>2, <2>1, PublishData
<1>13. CASE Apply \/ Unregister
  <2>1. /\ Made(a) /\ UNCHANGED <<snapshot, received, holding, queue, output, thread>>
        /\ Listed(a)' <=> Listed(a)
    BY <1>13 DEF Apply, Unregister, Remove, Made, Listed, Subscribing, Pending
  <2> QED BY <1>0, <2>1, SameData
<1>3. ASSUME NEW c \in Conns,
             \/ Close(c) \/ AnswerClosed(c) \/ Detach(c) \/ HangUp(c)
             \/ SnapshotFails(c) \/ Enter(c) \/ SendSnapshot(c)
      PROVE  /\ Made(a) /\ UNCHANGED <<snapshot, received, holding, queue, output, thread>>
             /\ Listed(a)' <=> Listed(a)
  <2>1. UNCHANGED <<snapshot, received, holding, queue, output, thread, made, subscribers>>
    BY <1>3 DEF Close, Remove, AnswerClosed, Detach, HangUp, Stop, SnapshotFails, Enter, SendSnapshot
  <2>2. pc'[a[1]] = "snapshot" <=> pc[a[1]] = "snapshot"
    BY <1>0, <1>3 DEF Close, AnswerClosed, Detach, HangUp, SnapshotFails, Enter, SendSnapshot, At, TypeOK
  <2> QED BY <2>1, <2>2 DEF Made, Listed, Subscribing, Pending
<1>4. ASSUME NEW c \in Conns, Replace(c)
      PROVE  /\ Made(a) /\ UNCHANGED <<snapshot, received, holding, queue, output>>
             /\ thread'[a] = "done" <=> thread[a] = "done"
             /\ Listed(a)' <=> Listed(a)
  <2>1. thread[Pending(c)] = "none"
    BY <1>0, <1>4 DEF Replace, At, HandlerInv, Busy
  <2>2. UNCHANGED <<snapshot, received, holding, queue, output, made, subscribers>>
        /\ (thread'[a] = "done" <=> thread[a] = "done")
    BY <1>0, <1>4, <2>1 DEF Replace, TypeOK
  <2>3. pc'[a[1]] = "snapshot" <=> pc[a[1]] = "snapshot"
    BY <1>0, <1>4 DEF Replace, At, TypeOK
  <2> QED BY <2>2, <2>3 DEF Made, Listed, Subscribing, Pending
<1>14. ASSUME NEW c \in Conns, Subscribe(c)
       PROVE  /\ Made(a) /\ UNCHANGED <<snapshot, received, holding, queue, output, thread>>
              /\ Listed(a)' <=> Listed(a)
  <2>1. UNCHANGED <<snapshot, received, holding, queue, output, thread, made>>
        /\ subscribers' = subscribers \cup {Pending(c)}
    BY <1>14 DEF Subscribe
  <2>2. pc[c] = "snapshot" /\ pc' = [pc EXCEPT ![c] = "subscribed"]
    BY <1>14 DEF Subscribe, At
  <2>3. Listed(a)' <=> Listed(a)
    BY <1>0, <2>1, <2>2 DEF Listed, Subscribing, Pending, TypeOK
  <2> QED BY <2>1, <2>3 DEF Made
<1>5. ASSUME NEW c \in Conns, Attach(c), a # <<c, made[c] + 1>>
      PROVE  /\ Made(a) /\ UNCHANGED <<snapshot[a], received, holding, queue, output, thread>>
             /\ Listed(a)' <=> Listed(a)
  <2>1. made'[a[1]] = made[a[1]] \/ (a[1] = c /\ made'[a[1]] = made[c] + 1)
    BY <1>0, <1>5 DEF Attach, TypeOK
  <2>2. Made(a)
    BY <1>0, <1>5, <2>1 DEF Made, TypeOK
  <2>3. pc[c] # "snapshot" /\ made'[c] = made[c] + 1 /\ (a[1] # c => pc'[a[1]] = pc[a[1]])
    BY <1>0, <1>5 DEF Attach, At, TypeOK
  <2>4. Subscribing(a)' <=> Subscribing(a)
    BY <1>0, <1>5, <2>1, <2>3 DEF Subscribing, Pending
  <2>5. UNCHANGED <<snapshot[a], received, holding, queue, output, thread, subscribers>>
    BY <1>0, <1>5 DEF Attach, TypeOK
  <2> QED BY <2>2, <2>4, <2>5 DEF Listed
<1>6. ASSUME NEW b \in Attachments, ThreadStep(b), \/ b # a \/ EndOfStream(b) \/ Tell(b)
      PROVE  /\ Made(a) /\ UNCHANGED <<snapshot[a], received[a], holding[a], queue[a], output>>
             /\ thread'[a] = "done" <=> thread[a] = "done"
             /\ Listed(a)' <=> Listed(a)
  <2>1. UNCHANGED <<snapshot[a], received[a], holding[a], queue[a], output, subscribers, pc, made>>
        /\ (thread'[a] = "done" <=> thread[a] = "done")
    BY <1>0, <1>6 DEF ThreadStep, Take, Send, EndOfStream, Reason, Tell, Quit, TypeOK
  <2> QED BY <2>1 DEF Made, Listed, Subscribing, Pending
<1>7. CASE \E c \in Conns : Attach(c)
  BY <1>0, <1>5, <1>7, AttachData, SameData
<1>8. CASE ThreadStep(a)
  <2>1. Made(a)
    BY <1>8 DEF ThreadStep, Take, Send, EndOfStream, Tell, Quit, Made
  <2>2. CASE EndOfStream(a) \/ Tell(a)
    BY <1>0, <1>6, <1>8, <2>2, SameData
  <2> QED BY <1>8, <2>1, <2>2, TakeData, SendData, QuitData DEF ThreadStep
<1>9. CASE \E b \in Attachments : b # a /\ ThreadStep(b)
  BY <1>0, <1>6, <1>9, SameData
<1>10. CASE \E c \in Conns : \/ Close(c) \/ AnswerClosed(c) \/ Detach(c) \/ HangUp(c)
                             \/ SnapshotFails(c) \/ Enter(c) \/ SendSnapshot(c)
  BY <1>0, <1>3, <1>10, SameData
<1>11. CASE \E c \in Conns : Replace(c) \/ Subscribe(c)
  BY <1>0, <1>4, <1>11, <1>14, SameData
<1> QED BY <1>1, <1>2, <1>7, <1>8, <1>9, <1>10, <1>11, <1>13 DEF Next, HandlerStep

-----------------------------------------------------------------------------
(* The invariants *)

LEMMA InvHolds == Spec => []IInv
<1>1. IInv /\ [Next]_vars => IInv'
  BY TypeStep, HandlerStepInv, UnmadeStep, EnteredStep, ReasonStep, ThreadInvStep, DataStep DEF IInv
<1> QED BY <1>1, InitIInv, PTL DEF Spec

\* Every variable keeps its type, and no channel holds more than its capacity.
THEOREM AttachTypeCorrect == Spec => []TypeOK
<1>1. IInv => TypeOK
  BY DEF IInv
<1> QED BY <1>1, InvHolds, PTL

\* What a client was sent and what is on its way is the output in order, and all
\* of it exactly while the hub has its channel, whatever else is attached,
\* detached or closed.
THEOREM NothingIsLostSilently == Spec => []NothingLostSilently
<1>1. IInv => NothingLostSilently
  <2> SUFFICES ASSUME IInv, NEW a \in Attachments, Made(a), thread[a] # "done"
               PROVE  \E n \in snapshot[a]..output : /\ Sent(a) \o holding[a] \o queue[a] = Run(0, n)
                                                     /\ Listed(a) <=> n = output
    BY DEF NothingLostSilently
  <2>1. TypeOK /\ DataInv
    BY DEF IInv
  <2>2. PICK i, j, n \in 0..MaxOutput : Follows(a, i, j, n)
    BY <2>1 DEF DataInv
  <2>3. n \in snapshot[a]..output
    BY <2>1, <2>2 DEF Follows, TypeOK
  <2>4. /\ i \in Nat /\ j \in Nat /\ n \in Nat /\ 0 \in Nat /\ 0 <= i /\ 0 <= j /\ i <= j /\ j <= n
        /\ Sent(a) = Run(0, i) /\ holding[a] = Run(i, j) /\ queue[a] = Run(j, n)
    BY <2>2 DEF Follows
  <2>5. Sent(a) \o holding[a] \o queue[a] = Run(0, n)
    <3>1. Run(0, i) \o Run(i, j) = Run(0, j)
      BY <2>4, RunConcat
    <3>2. Run(0, j) \o Run(j, n) = Run(0, n)
      BY <2>4, RunConcat
    <3> QED BY <2>4, <3>1, <3>2
  <2> QED BY <2>2, <2>3, <2>5 DEF Follows
<1> QED BY <1>1, InvHolds, PTL

\* An attachment lists its receiver with its session as long as the session and
\* the channel are there, so that the session's end reaches every forwarding
\* thread, also one that was being made when the session went.
EndReachesThreads ==
  \A a \in Attachments : thread[a] = "recv" /\ a \in open => registered /\ a \in receivers

\* A forwarding thread whose channel is open is one that the session's end
\* closes, also when the session went while the attachment was made.
THEOREM EndReachesEveryThread == Spec => []EndReachesThreads
<1>1. IInv => EndReachesThreads
  BY DEF IInv, EnteredInv, EndReachesThreads, Runs
<1> QED BY <1>1, InvHolds, PTL

-----------------------------------------------------------------------------
(* Refinement *)

Told(a) == thread[a] \in {"lost", "ended"}

\* What a step that leaves an attachment alone leaves of its view.
LEMMA ViewSame ==
  ASSUME NEW a \in Attachments, Made(a)' <=> Made(a), Sent(a)' = Sent(a),
         thread'[a] = thread[a] \/ (~Told(a) /\ ~Told(a)')
  PROVE  view'[a] = view[a] /\ status'[a] = status[a]
BY DEF view, status, Told

LEMMA ViewsSame ==
  ASSUME \A a \in Attachments : view'[a] = view[a] /\ status'[a] = status[a]
  PROVE  UNCHANGED <<view, status>>
BY DEF view, status

\* A step on one attachment.
LEMMA ViewsButOne ==
  ASSUME NEW a \in Attachments,
         \A b \in Attachments : b # a => view'[b] = view[b] /\ status'[b] = status[b]
  PROVE  /\ view' = [view EXCEPT ![a] = view'[a]]
         /\ status' = [status EXCEPT ![a] = status'[a]]
<1>1. /\ view = [b \in Attachments |-> view[b]] /\ view' = [b \in Attachments |-> view'[b]]
      /\ status = [b \in Attachments |-> status[b]] /\ status' = [b \in Attachments |-> status'[b]]
  BY DEF view, status
<1>2. [view EXCEPT ![a] = view'[a]] = [b \in Attachments |-> IF b = a THEN view'[a] ELSE view[b]]
  BY <1>1
<1>3. [status EXCEPT ![a] = status'[a]] = [b \in Attachments |-> IF b = a THEN status'[a] ELSE status[b]]
  BY <1>1
<1> HIDE DEF view, status
<1> QED BY <1>1, <1>2, <1>3

\* The handlers' steps except Attach, and those of the terminal, show in no view.
LEMMA HiddenSteps ==
  ASSUME IInv, NEW c \in Conns,
         \/ Apply \/ Publish \/ Unregister \/ Close(c) \/ AnswerClosed(c) \/ Detach(c) \/ HangUp(c)
         \/ Subscribe(c) \/ SnapshotFails(c) \/ Enter(c) \/ SendSnapshot(c) \/ Replace(c)
  PROVE  UNCHANGED <<view, status>>
<1> USE DEF hubVars, connVars, threadVars
<1>1. TypeOK /\ HandlerInv
  BY DEF IInv
<1>2. UNCHANGED <<made, snapshot, received>>
  BY DEF Apply, Publish, Unregister, Close, Remove, AnswerClosed, Detach, HangUp, Stop, Subscribe,
         SnapshotFails, Enter, SendSnapshot, Replace
<1>3. ASSUME NEW a \in Attachments
      PROVE  thread'[a] = thread[a] \/ (~Told(a) /\ ~Told(a)')
  <2>1. CASE Replace(c)
    <3>1. thread[Pending(c)] = "none"
      BY <1>1, <2>1 DEF Replace, At, HandlerInv, Busy
    <3>2. thread' = [thread EXCEPT ![Pending(c)] = "recv"]
      BY <2>1 DEF Replace
    <3> QED BY <1>1, <3>1, <3>2 DEF TypeOK, Told
  <2>2. CASE ~Replace(c)
    BY <2>2 DEF Apply, Publish, Unregister, Close, Remove, AnswerClosed, Detach, HangUp, Stop, Subscribe,
                SnapshotFails, Enter, SendSnapshot
  <2> QED BY <2>1, <2>2
<1>4. \A a \in Attachments : view'[a] = view[a] /\ status'[a] = status[a]
  BY <1>2, <1>3, ViewSame DEF Made, Sent
<1> QED BY <1>4, ViewsSame

LEMMA AttachJoins ==
  ASSUME IInv, NEW c \in Conns, Attach(c)
  PROVE  Views!Next
<1> PICK a : a = <<c, made[c] + 1>>
  OBVIOUS
<1>1. TypeOK /\ UnmadeInv
  BY DEF IInv
<1>2. a \in Attachments /\ ~Made(a) /\ Made(a)'
  <2>1. made[c] < MaxAttaches /\ made[c] \in 0..MaxAttaches /\ made'[c] = made[c] + 1
    BY <1>1 DEF Attach, TypeOK
  <2>2. a[1] = c /\ a[2] = made[c] + 1
    OBVIOUS
  <2> QED BY <2>1, <2>2 DEF Attachments, Made
<1>3. thread[a] = "none" /\ thread' = thread /\ registered /\ UNCHANGED <<registered, applied>>
  BY <1>1, <1>2 DEF Attach, UnmadeInv, hubVars
<1>4. Sent(a)' = Views!FirstChunks(applied)
  BY <1>1, <1>2, AttachData, RunFirst DEF TypeOK
<1>5. view'[a] = Views!FirstChunks(applied) /\ status[a] = "none" /\ status'[a] = "following"
  BY <1>2, <1>3, <1>4 DEF view, status
<1>6. ASSUME NEW b \in Attachments, b # a
      PROVE  view'[b] = view[b] /\ status'[b] = status[b]
  <2>1. b[1] \in Conns /\ b[2] \in 1..MaxAttaches /\ b = <<b[1], b[2]>>
    BY Attachment
  <2>2. Made(b)' <=> Made(b)
    <3>1. made'[b[1]] = IF b[1] = c THEN made[c] + 1 ELSE made[b[1]]
      BY <1>1, <2>1 DEF Attach, TypeOK
    <3>2. b[1] = c => b[2] # made[c] + 1
      BY <1>6, <2>1
    <3>3. CASE b[1] = c
      <4>1. b[2] <= made[c] + 1 <=> b[2] <= made[c]
        BY <1>1, <2>1, <3>2, <3>3 DEF TypeOK
      <4> QED BY <3>1, <3>3, <4>1 DEF Made
    <3>4. CASE b[1] # c
      BY <3>1, <3>4 DEF Made
    <3> QED BY <3>3, <3>4
  <2>3. Sent(b)' = Sent(b)
    BY <1>1, <1>6 DEF Attach, Sent, TypeOK
  <2> QED BY <1>3, <2>2, <2>3, ViewSame
<1>7. Views!Join(a)
  BY <1>2, <1>3, <1>5, <1>6, ViewsButOne DEF Views!Join
<1> QED BY <1>2, <1>7 DEF Views!Next

\* Only Send and Tell show, and only in the view of their own client.
LEMMA ThreadImplements ==
  ASSUME IInv, NEW a \in Attachments, ThreadStep(a)
  PROVE  [Views!Next]_<<applied, registered, view, status>>
<1> USE DEF hubVars, connVars
<1>1. TypeOK /\ UnmadeInv /\ DataInv /\ ThreadInv /\ applied \in {output, output + 1}
      /\ a[1] \in Conns /\ a = <<a[1], a[2]>>
  BY Attachment DEF IInv, HandlerInv
<1>2. UNCHANGED <<applied, output, registered, made, snapshot>> /\ Made(a)
  BY <1>1 DEF ThreadStep, Take, Send, EndOfStream, Tell, Quit, UnmadeInv
<1>3. ASSUME NEW b \in Attachments, b # a
      PROVE  view'[b] = view[b] /\ status'[b] = status[b]
  <2>1. thread'[b] = thread[b] /\ received'[b] = received[b]
    BY <1>1, <1>3 DEF ThreadStep, Take, Send, EndOfStream, Tell, Quit, TypeOK
  <2> QED BY <1>2, <2>1, ViewSame DEF Made, Sent
<1>4. /\ view' = [view EXCEPT ![a] = view'[a]]
      /\ status' = [status EXCEPT ![a] = status'[a]]
  BY <1>3, ViewsButOne
<1>5. CASE Take(a) \/ EndOfStream(a) \/ Quit(a)
  <2>1. ~Told(a) /\ ~Told(a)' /\ received' = received
    BY <1>1, <1>5 DEF Take, EndOfStream, Quit, Reason, TypeOK, Told
  <2>2. view'[a] = view[a] /\ status'[a] = status[a]
    BY <1>2, <2>1, ViewSame DEF Made, Sent
  <2> QED BY <1>2, <1>3, <2>2, ViewsSame
<1>6. CASE Send(a)
  <2>1. ~Told(a) /\ ~Told(a)'
    BY <1>1, <1>6 DEF Send, TypeOK, Told
  <2>2. status[a] = "following" /\ status'[a] = "following"
    BY <1>2, <2>1 DEF status, Told, Made
  <2>3. PICK i, m \in 0..output : i <= m /\ Sent(a) = Run(0, i) /\ Sent(a)' = Run(0, m)
    BY <1>2, <1>6, SendData
  <2>4. view[a] = Run(0, i) /\ view'[a] = Views!FirstChunks(m)
    BY <1>2, <2>3, RunFirst DEF view, Made
  <2>5. status' = status
    BY <1>3, <2>2 DEF status
  <2>6. Len(view[a]) = i /\ m \in i..applied
    <3>1. 0 \in Nat /\ i \in Nat /\ 0 <= i /\ i - 0 = i
      BY <1>1 DEF TypeOK
    <3>2. Len(Run(0, i)) = i - 0
      BY <3>1, RunType
    <3>3. m \in i..applied
      BY <1>1, <2>3 DEF TypeOK
    <3> QED BY <2>4, <3>1, <3>2, <3>3
  <2>7. Views!Follow(a)
    BY <1>2, <1>4, <2>2, <2>4, <2>5, <2>6 DEF Views!Follow
  <2> QED BY <2>7 DEF Views!Next
<1>7. CASE Tell(a)
  <2>1. /\ thread[a] \in {"overflow", "closed"} /\ received' = received
        /\ thread'[a] = IF thread[a] = "overflow" THEN "lost" ELSE "ended"
    BY <1>1, <1>7 DEF Tell, TypeOK
  <2>2. view[a] = Sent(a) /\ view'[a] = view[a]
    BY <1>2, <2>1 DEF view, Made, Sent
  <2>3. view' = view
    BY <1>3, <2>2 DEF view
  <2>4. status[a] = "following" /\ status'[a] = thread'[a]
    BY <1>2, <2>1 DEF status, Made
  <2>5. CASE thread[a] = "overflow"
    <3>1. a \notin subscribers /\ holding[a] = <<>> /\ queue[a] = <<>>
      BY <1>1, <2>5 DEF ThreadInv, Over
    <3>2. PICK i, j, n \in 0..MaxOutput : Follows(a, i, j, n)
      BY <1>1, <1>2, <2>5 DEF DataInv
    <3>3. i < output
      <4>1. Run(i, j) = <<>> /\ Run(j, n) = <<>> /\ i <= j /\ j <= n /\ n <= output
        BY <3>1, <3>2 DEF Follows
      <4>2. i = j /\ j = n
        BY <4>1, RunEmpty
      <4>3. ~Subscribing(a)
        BY <1>1, <2>5 DEF IInv, HandlerInv, Busy, Subscribing
      <4> QED BY <1>1, <3>1, <3>2, <4>1, <4>2, <4>3 DEF Follows, Listed, TypeOK
    <3>4. view[a] # Views!FirstChunks(applied)
      <4>1. view[a] = Run(0, i) /\ Len(view[a]) = i
        BY <2>2, <3>2, RunType DEF Follows
      <4>2. applied \in Nat /\ applied # i
        BY <1>1, <3>2, <3>3 DEF TypeOK
      <4>3. Len(Views!FirstChunks(applied)) = applied
        BY <4>2, RunFirst, RunType
      <4> QED BY <4>1, <4>2, <4>3
    <3>5. Views!Lose(a)
      BY <1>2, <1>4, <2>1, <2>3, <2>4, <2>5, <3>4 DEF Views!Lose
    <3> QED BY <3>5 DEF Views!Next
  <2>6. CASE thread[a] = "closed"
    <3>1. ~registered
      BY <1>1, <2>6 DEF ThreadInv
    <3>2. Views!Finish(a)
      BY <1>2, <1>4, <2>1, <2>3, <2>4, <2>6, <3>1 DEF Views!Finish
    <3> QED BY <3>2 DEF Views!Next
  <2> QED BY <2>1, <2>5, <2>6
<1> QED BY <1>5, <1>6, <1>7 DEF ThreadStep

\* What a client is sent is the output in order from its first chunk, each chunk
\* once: the snapshot stands for the first, and what is sent after it goes on
\* with the next one.  It is told that it lost output or that the session ended
\* only when that is so.
THEOREM ImplementsTerminalViews == Spec => RefinesTerminalViews
<1>1. Init => Views!Init
  <2> SUFFICES ASSUME Init PROVE Views!Init
    OBVIOUS
  <2>1. \A a \in Attachments : ~Made(a)
    BY Attachment DEF Init, Made
  <2> QED BY <2>1 DEF Init, Views!Init, view, status
<1>2. IInv /\ [Next]_vars => [Views!Next]_<<applied, registered, view, status>>
  <2> SUFFICES ASSUME IInv, [Next]_vars PROVE [Views!Next]_<<applied, registered, view, status>>
    OBVIOUS
  <2>1. CASE UNCHANGED vars
    BY <2>1 DEF vars, hubVars, connVars, threadVars, view, status, Made, Sent
  <2>2. CASE Apply \/ Publish
    <3>1. UNCHANGED <<view, status>>
      <4>1. CASE Conns = {}
        BY <4>1, ViewsSame DEF Attachments
      <4> QED BY <2>2, <4>1, HiddenSteps
    <3>2. CASE Apply
      BY <3>1, <3>2 DEF Apply, Views!Next, Views!Produce
    <3>3. CASE Publish
      BY <3>1, <3>3 DEF Publish
    <3> QED BY <2>2, <3>2, <3>3
  <2>3. CASE Unregister
    <3>1. UNCHANGED <<view, status>>
      <4>1. CASE Conns = {}
        BY <4>1, ViewsSame DEF Attachments
      <4> QED BY <2>3, <4>1, HiddenSteps
    <3> QED BY <2>3, <3>1 DEF Unregister, Remove, Views!Next, Views!End
  <2>4. ASSUME NEW c \in Conns, Close(c) PROVE Views!Next
    <3>1. UNCHANGED <<view, status>>
      BY <2>4, HiddenSteps
    <3> QED BY <2>4, <3>1 DEF Close, Remove, Views!Next, Views!End
  <2>5. ASSUME NEW c \in Conns, \/ AnswerClosed(c) \/ Detach(c) \/ HangUp(c) \/ Subscribe(c)
                                \/ SnapshotFails(c) \/ Enter(c) \/ SendSnapshot(c) \/ Replace(c)
        PROVE  UNCHANGED <<applied, registered, view, status>>
    <3>1. UNCHANGED <<view, status>>
      BY <2>5, HiddenSteps
    <3> QED BY <2>5, <3>1 DEF AnswerClosed, Detach, HangUp, Stop, Subscribe, SnapshotFails, Enter,
                              SendSnapshot, Replace, hubVars
  <2> QED BY <2>1, <2>2, <2>3, <2>4, <2>5, AttachJoins, ThreadImplements DEF Next, HandlerStep
<1> QED BY <1>1, <1>2, InvHolds, PTL DEF Spec, RefinesTerminalViews, Views!Spec, Views!viewVars
=============================================================================
