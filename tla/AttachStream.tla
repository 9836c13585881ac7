---------------------------- MODULE AttachStream ----------------------------
(***************************************************************************)
(* Attaching to a session (src/daemon.rs, OutputHub in                     *)
(* src/terminal_state.rs): the terminal publishes what it reads to a       *)
(* bounded channel per attachment, and a thread per attachment forwards it *)
(* to the client.  One session with one terminal: ids are not used twice.  *)
(*                                                                         *)
(* Output is a sequence of chunks, numbered in the order the terminal puts *)
(* them out.  An attachment is named by its connection and its place among *)
(* the attachments made there.  The hub's boundary mutex is held by the    *)
(* reader thread from applying a chunk to the terminal until it has        *)
(* published it, and by a handler from taking a snapshot until it has      *)
(* subscribed: where the two are shows whether it is free.                 *)
(***************************************************************************)
EXTENDS Integers, FiniteSets, Sequences

CONSTANTS Conns,
          Capacity,    \* OUTPUT_SUBSCRIBER_CAPACITY
          MaxAttaches, \* bound: attachments made, on all connections
          MaxOutput    \* bound: chunks the terminal puts out

ASSUME CapacityAssumption == Capacity \in Nat \ {0}
ASSUME BoundsAssumption == MaxAttaches \in Nat /\ MaxOutput \in Nat

Attachments == Conns \X (1..MaxAttaches)
\* Chunks i + 1 to j, one after the other.
Run(i, j) == [k \in 1..(j - i) |-> i + k]

VARIABLES
  registered,   \* the registry holds the session
  applied,      \* chunks applied to the terminal
  output,       \* chunks published
  subscribers,  \* OutputHub.subscribers, by attachment
  receivers,    \* SessionEntry.output_receivers
  open,         \* channels with a sender whose receiver was not closed
  queue,        \* chunks waiting in each channel
  pc,           \* where the handler of each connection is
  made,         \* attachments made on it so far
  current,      \* its place in Conn.attachments; 0: none
  alive,        \* Attachment.alive
  thread,       \* where each forwarding thread is
  holding,      \* chunks it is about to send
  snapshot,     \* chunks that the attachment's snapshot shows
  received      \* chunks its client was sent

hubVars == <<registered, applied, output, subscribers, receivers, open, queue>>
connVars == <<pc, made, current>>
threadVars == <<alive, thread, holding, snapshot, received>>
vars == <<hubVars, connVars, threadVars>>

Init ==
  /\ registered = TRUE /\ applied = 0 /\ output = 0
  /\ subscribers = {} /\ receivers = {} /\ open = {}
  /\ queue = [a \in Attachments |-> <<>>]
  /\ pc = [c \in Conns |-> "ready"]
  /\ made = [c \in Conns |-> 0]
  /\ current = [c \in Conns |-> 0]
  /\ alive = {}
  /\ thread = [a \in Attachments |-> "none"]
  /\ holding = [a \in Attachments |-> <<>>]
  /\ snapshot = [a \in Attachments |-> 0]
  /\ received = [a \in Attachments |-> <<>>]

-----------------------------------------------------------------------------
(* The terminal and the registry *)

\* Mutant: nobody takes the boundary.
NoBoundary == TRUE
BoundaryFree == applied = output /\ \A c \in Conns : pc[c] # "snapshot"

\* The reader thread has published what it read before, takes the boundary and
\* applies a chunk.
Apply ==
  /\ applied = output /\ BoundaryFree /\ applied < MaxOutput
  /\ applied' = applied + 1
  /\ UNCHANGED <<registered, output, subscribers, receivers, open, queue, connVars, threadVars>>

\* Subscribers whose channel takes another chunk.
\* Mutant: a full channel takes one more.
HasRoomLate(a) == a \in open /\ Len(queue[a]) <= Capacity
HasRoom(a) == a \in open /\ Len(queue[a]) < Capacity
Reached == {a \in subscribers : HasRoom(a)}

\* It publishes the chunk and lets go of the boundary; a subscriber that is full or
\* closed is dropped, which closes its channel.
Publish ==
  /\ output # applied /\ output' = output + 1
  /\ queue' = [a \in Attachments |-> IF a \in Reached THEN Append(queue[a], output + 1)
                                                      ELSE queue[a]]
  /\ subscribers' = Reached
  /\ open' = open \ (subscribers \ Reached)
  /\ UNCHANGED <<registered, applied, receivers, connVars, threadVars>>

\* unregister: the entry leaves before its receivers are closed.
Remove == /\ registered /\ registered' = FALSE
          /\ receivers' = {} /\ open' = open \ receivers
          /\ UNCHANGED <<applied, output, subscribers, queue>>

\* The shell exits, or somebody else closes the session.
Unregister == Remove /\ UNCHANGED <<connVars, threadVars>>

-----------------------------------------------------------------------------
(* The handler of a connection *)

Made(a) == a[2] <= made[a[1]]
Pending(c) == <<c, made[c]>>   \* the attachment the handler is making
InPlace(c) == {<<c, current[c]>>} \cap Attachments
At(c, from, to) == pc[c] = from /\ pc' = [pc EXCEPT ![c] = to]

\* Attach: the terminal is found, and its snapshot taken under the boundary.
Attach(c) ==
  /\ At(c, "ready", "snapshot") /\ registered /\ BoundaryFree
  /\ made[c] < MaxAttaches /\ Cardinality({b \in Attachments : Made(b)}) < MaxAttaches
  /\ made' = [made EXCEPT ![c] = @ + 1]
  /\ snapshot' = [snapshot EXCEPT ![<<c, made[c] + 1>>] = applied]
  /\ UNCHANGED <<hubVars, current, alive, thread, holding, received>>

\* subscribe_at_boundary, and the boundary is free again.
Subscribe(c) ==
  /\ At(c, "snapshot", "subscribed")
  /\ subscribers' = subscribers \cup {Pending(c)} /\ open' = open \cup {Pending(c)}
  /\ UNCHANGED <<registered, applied, output, receivers, queue, made, current, threadVars>>

\* The state cannot be encoded: the subscription is closed.
SnapshotFails(c) ==
  /\ At(c, "subscribed", "ready") /\ open' = open \ {Pending(c)}
  /\ UNCHANGED <<registered, applied, output, subscribers, receivers, queue,
                 made, current, threadVars>>

StillThere == registered
\* The receiver joins the entry's, or is closed if the session went meanwhile.
Enter(c) ==
  /\ IF StillThere
     THEN /\ At(c, "subscribed", "entered")
          /\ receivers' = (receivers \cap open) \cup {Pending(c)}
          /\ UNCHANGED open
     ELSE /\ At(c, "subscribed", "ready")
          /\ open' = open \ {Pending(c)}
          /\ UNCHANGED receivers
  /\ UNCHANGED <<registered, applied, output, subscribers, queue, made, current, threadVars>>

\* `attached` and `snapshot` are sent.
SendSnapshot(c) ==
  /\ At(c, "entered", "answered")
  /\ UNCHANGED <<hubVars, made, current, threadVars>>

\* An attachment of the connection to the same session is stopped, and the
\* forwarding thread starts.
Replace(c) ==
  /\ At(c, "answered", "ready")
  /\ current' = [current EXCEPT ![c] = made[c]]
  /\ alive' = (alive \ InPlace(c)) \cup {Pending(c)}
  /\ open' = open \ InPlace(c)
  /\ thread' = [thread EXCEPT ![Pending(c)] = "recv"]
  /\ UNCHANGED <<registered, applied, output, subscribers, receivers, queue,
                 made, holding, snapshot, received>>

Stop(c) == /\ alive' = alive \ InPlace(c) /\ open' = open \ InPlace(c)
           /\ current' = [current EXCEPT ![c] = 0]
           /\ UNCHANGED <<registered, applied, output, subscribers, receivers, queue,
                          made, thread, holding, snapshot, received>>
Detach(c) == current[c] # 0 /\ At(c, "ready", "ready") /\ Stop(c)
\* The client is gone: the loop over its requests ends.
HangUp(c) == At(c, "ready", "gone") /\ Stop(c)

\* Close, and its answer; it also gives that answer when somebody else ends the
\* session while it does, which is then its own Remove here.
Close(c) == /\ At(c, "ready", "closing") /\ Remove
            /\ UNCHANGED <<made, current, threadVars>>
AnswerClosed(c) == /\ At(c, "closing", "ready")
                   /\ UNCHANGED <<hubVars, made, current, threadVars>>

-----------------------------------------------------------------------------
(* A forwarding thread *)

Connected(a) == pc[a[1]] # "gone"
ShouldRun(a) == a \in alive /\ Connected(a)

\* It takes a chunk and those that wait behind it, up to some number of bytes.
\* Mutant: the chunk that reaches the limit is left out of what is sent.
WithoutLast(chunks, n) == SubSeq(chunks, 1, IF n = 1 THEN 1 ELSE n - 1)
Joined(chunks, n) == SubSeq(chunks, 1, n)
Take(a) ==
  /\ thread[a] = "recv" /\ ShouldRun(a)
  /\ \E n \in 1..Len(queue[a]) :
       /\ holding' = [holding EXCEPT ![a] = Joined(queue[a], n)]
       /\ queue' = [queue EXCEPT ![a] = SubSeq(@, n + 1, Len(@))]
  /\ thread' = [thread EXCEPT ![a] = "send"]
  /\ UNCHANGED <<registered, applied, output, subscribers, receivers, open, connVars,
                 alive, snapshot, received>>

\* Sending may wait for the client or for another thread's answer.
Send(a) ==
  /\ thread[a] = "send" /\ Connected(a)
  /\ thread' = [thread EXCEPT ![a] = "recv"]
  /\ received' = [received EXCEPT ![a] = @ \o holding[a]]
  /\ holding' = [holding EXCEPT ![a] = <<>>]
  /\ UNCHANGED <<hubVars, connVars, alive, snapshot>>

\* The channel is closed and drained.
\* Mutant: only the end of the session is looked for.
ClosedByEnd(a) == a \notin open /\ queue[a] = <<>> /\ ~registered
Drained(a) == a \notin open /\ queue[a] = <<>>
\* The client lost output, or the session ended.
Reason == IF registered THEN "overflow" ELSE "closed"
EndOfStream(a) ==
  /\ thread[a] = "recv" /\ ShouldRun(a) /\ Drained(a)
  /\ thread' = [thread EXCEPT ![a] = Reason]
  /\ UNCHANGED <<hubVars, connVars, alive, holding, snapshot, received>>
Tell(a) ==
  /\ thread[a] \in {"overflow", "closed"} /\ Connected(a)
  /\ thread' = [thread EXCEPT ![a] = IF @ = "overflow" THEN "lost" ELSE "ended"]
  /\ UNCHANGED <<hubVars, connVars, alive, holding, snapshot, received>>

\* It finds that it should not run, or cannot send; it closes its receiver, and
\* nobody takes what is left there.
Quit(a) ==
  /\ \/ thread[a] = "recv" /\ ~ShouldRun(a)
     \/ thread[a] \in {"send", "overflow", "closed"} /\ ~Connected(a)
  /\ thread' = [thread EXCEPT ![a] = "done"]
  /\ open' = open \ {a}
  /\ queue' = [queue EXCEPT ![a] = <<>>] /\ holding' = [holding EXCEPT ![a] = <<>>]
  /\ UNCHANGED <<registered, applied, output, subscribers, receivers, connVars,
                 alive, snapshot, received>>

-----------------------------------------------------------------------------
(* Specification *)

HandlerStep(c) == \/ Subscribe(c) \/ SnapshotFails(c) \/ Enter(c) \/ SendSnapshot(c)
                  \/ Replace(c) \/ AnswerClosed(c)
ThreadStep(a) == Take(a) \/ Send(a) \/ EndOfStream(a) \/ Tell(a) \/ Quit(a)

Next == \/ Apply \/ Publish \/ Unregister
        \/ \E c \in Conns : Attach(c) \/ Detach(c) \/ HangUp(c) \/ Close(c) \/ HandlerStep(c)
        \/ \E a \in Attachments : ThreadStep(a)

\* Threads run, and clients read what they are sent.
Fairness == /\ WF_vars(Publish)
            /\ \A c \in Conns : WF_vars(HandlerStep(c))
            /\ \A a \in Attachments : WF_vars(ThreadStep(a))

Spec == Init /\ [][Next]_vars
FairSpec == Spec /\ Fairness

-----------------------------------------------------------------------------
(* Properties *)

TypeOK ==
  /\ registered \in BOOLEAN /\ applied \in 0..MaxOutput /\ output \in 0..MaxOutput
  /\ subscribers \subseteq Attachments /\ receivers \subseteq Attachments
  /\ open \subseteq Attachments
  /\ queue \in [Attachments -> Seq(1..MaxOutput)]
  /\ \A a \in Attachments : Len(queue[a]) <= Capacity
  /\ pc \in [Conns -> {"ready", "snapshot", "subscribed", "entered", "answered", "closing",
                       "gone"}]
  /\ made \in [Conns -> 0..MaxAttaches]
  /\ current \in [Conns -> 0..MaxAttaches]
  /\ alive \subseteq Attachments
  /\ thread \in [Attachments -> {"none", "recv", "send", "overflow", "closed",
                                 "lost", "ended", "done"}]
  /\ holding \in [Attachments -> Seq(1..MaxOutput)]
  /\ snapshot \in [Attachments -> 0..MaxOutput]
  /\ received \in [Attachments -> Seq(1..MaxOutput)]

\* What the client was sent: its snapshot, which stands for the chunks before it,
\* and the output.  What follows it there is held by the thread or waits.
Sent(a) == Run(0, snapshot[a]) \o received[a]
\* The hub gives it what is published next.
Subscribing(a) == pc[a[1]] = "snapshot" /\ a = Pending(a[1])
Listed(a) == a \in subscribers \/ Subscribing(a)

\* Nothing is lost silently: what an attachment's client was sent, and what is
\* on its way there, is all the published output, in order, while the hub has its
\* channel, and falls short of it as soon as the channel was dropped, which the
\* thread finds out.
NothingLostSilently ==
  \A a \in Attachments : Made(a) /\ thread[a] # "done" =>
    \E n \in snapshot[a]..output : /\ Sent(a) \o holding[a] \o queue[a] = Run(0, n)
                                   /\ Listed(a) <=> n = output

view == [a \in Attachments |-> IF Made(a) THEN Sent(a) ELSE <<>>]
status == [a \in Attachments |->
             CASE ~Made(a) -> "none"
               [] thread[a] \in {"lost", "ended"} -> thread[a]
               [] OTHER -> "following"]
Views == INSTANCE TerminalViews WITH Viewers <- Attachments, live <- registered,
                                     output <- applied

\* What a client is sent is its snapshot and the output that follows: no chunk is
\* sent twice, or left out, or sent after a later one, or both in the snapshot and
\* after it; `output_overflow` and `closed` are told only when true.
RefinesTerminalViews == Views!Spec

\* A client that stays attached and reads comes to show all output, or is told
\* why it does not.
ViewersCatchUp ==
  \A a \in Attachments :
    thread[a] # "none" ~>
      (Sent(a) = Run(0, applied) \/ thread[a] \in {"lost", "ended", "done"})
=============================================================================
