-------------------------------- MODULE Feed --------------------------------
(***************************************************************************)
(* The event bus, its subscribers and the quote stream that feeds it:      *)
(* obs/bus.py, obs/recorder.py, obs/slack.py, the event stream of          *)
(* api/routers/observability.py and marketdata/stream.py.                  *)
(*                                                                         *)
(* Events are numbered in the order they are published, modulo Numbers;    *)
(* what they say is left out.  Publishing never waits, so several events   *)
(* published without an await in between reach the queues in one step.     *)
(***************************************************************************)
EXTENDS Integers, Sequences, FiniteSets

CONSTANTS
  Subscribers,  \* readers of the bus: event streams of browsers and the Slack notifier
  QueueSize,    \* what a subscription holds before it is full
  Numbers,      \* bound of the model: event numbers before they repeat
  Snapshot      \* how many quotes the REST answer of a replay holds

ASSUME FeedAssumption ==
  QueueSize \in Nat \ {0} /\ Numbers \in Nat /\ Numbers > QueueSize /\ Snapshot \in Nat

VARIABLES
  sent,    \* the number of the last event published
  subs,    \* subs[s]: whether s is attached to the bus, and its queue
  stream   \* where the stream worker is, and whether it was told to stop

feedVars == <<sent, subs, stream>>

-----------------------------------------------------------------------------
(* The bus. *)

Gone == [at |-> "gone", queue |-> << >>]

Fit(sub, n) == IF n <= QueueSize - Len(sub.queue) THEN n ELSE QueueSize - Len(sub.queue)
Following(n) == [k \in 1 .. n |-> (sent + k) % Numbers]

\* Fault: an event that finds the queue full is lost, the subscriber stays.
Offered_Lossy(sub, n) ==
  IF sub.at # "attached" THEN sub
  ELSE [at |-> "attached", queue |-> sub.queue \o Following(Fit(sub, n))]

\* Fault: queues without a bound.
Offered_Unbounded(sub, n) ==
  IF sub.at # "attached" THEN sub ELSE [at |-> "attached", queue |-> sub.queue \o Following(n)]

\* put_nowait, for each of n events: a subscriber whose queue is full is dropped, and told nothing.
Offered(sub, n) ==
  IF sub.at # "attached" THEN sub
  ELSE [at |-> IF Fit(sub, n) < n THEN "dropped" ELSE "attached",
        queue |-> sub.queue \o Following(Fit(sub, n))]

\* n events published with no await in between.
Publish(n) ==
  /\ sent' = (sent + n) % Numbers
  /\ subs' = [s \in Subscribers |-> Offered(subs[s], n)]

\* The queue is there before its reader first waits.
Subscribe(s) ==
  /\ subs[s].at = "gone"
  /\ subs' = [subs EXCEPT ![s].at = "attached"]
  /\ UNCHANGED <<sent, stream>>

\* A browser's stream writes an event, or the notifier delivers it; a dropped reader goes on
\* reading what its queue still holds.
Read(s) ==
  /\ subs[s].queue # << >>
  /\ subs' = [subs EXCEPT ![s].queue = Tail(@)]
  /\ UNCHANGED <<sent, stream>>

\* The client goes away, or the notifier is closed.
Leave(s) ==
  /\ subs[s].at # "gone"
  /\ subs' = [subs EXCEPT ![s] = Gone]
  /\ UNCHANGED <<sent, stream>>

\* Cycles, orders and requests record events of their own.
Elsewhere == Publish(1) /\ UNCHANGED stream

-----------------------------------------------------------------------------
(* The quote stream. *)

NoStream == [at |-> "off", stop |-> FALSE]

\* The top of run's loop: told to stop it says so and ends, and it ends without a provider.
Loop(available) ==
  IF stream.stop \/ ~available THEN Publish(1) /\ stream' = NoStream
  ELSE UNCHANGED <<sent, subs>> /\ stream' = [stream EXCEPT !.at = "replaying"]

StartStream(available) == stream = NoStream /\ Loop(available)

StopStream ==
  /\ stream.at # "off" /\ ~stream.stop
  /\ stream' = [stream EXCEPT !.stop = TRUE]
  /\ UNCHANGED <<sent, subs>>

\* The replay answers for n symbols, or fails and is passed over; then the socket is read.
Connect(n) ==
  /\ stream.at = "replaying"
  /\ Publish(n + 1)
  /\ stream' = [stream EXCEPT !.at = "reading"]

Tick == stream.at = "reading" /\ Publish(1) /\ UNCHANGED stream

\* Replay or socket raised, or the socket closed: unless told to stop, wait and begin again.
Disconnect ==
  /\ stream.at \in {"replaying", "reading"}
  /\ Publish(1)
  /\ stream' = IF stream.stop THEN NoStream ELSE [stream EXCEPT !.at = "waiting"]

Wake(available) == stream.at = "waiting" /\ Loop(available)

\* Fault: the flag is looked at when the socket has something to say.
EndRead_Quiet == FALSE /\ UNCHANGED feedVars

\* _consume: the stop signal ends the read, however quiet the socket.
EndRead ==
  /\ stream.at = "reading" /\ stream.stop
  /\ Publish(1)
  /\ stream' = NoStream

-----------------------------------------------------------------------------

FeedInit ==
  /\ sent = 0
  /\ subs = [s \in Subscribers |-> Gone]
  /\ stream = NoStream

Replayed == Connect(0) \/ Connect(Snapshot) \/ (stream.at = "replaying" /\ Disconnect)

FeedNext ==
  \/ \E s \in Subscribers : Subscribe(s) \/ Read(s) \/ Leave(s)
  \/ Elsewhere
  \/ \E available \in BOOLEAN : StartStream(available) \/ Wake(available)
  \/ StopStream \/ Replayed \/ Tick \/ Disconnect \/ EndRead

\* Everything in memory is gone with the process.
FeedRestart == sent' = 0 /\ subs' = [s \in Subscribers |-> Gone] /\ stream' = NoStream

FeedTypeOK ==
  /\ sent \in 0 .. Numbers - 1
  /\ DOMAIN subs = Subscribers
  /\ \A s \in Subscribers : /\ subs[s].at \in {"gone", "attached", "dropped"}
                            /\ Len(subs[s].queue) <= QueueSize
                            /\ \A n \in DOMAIN subs[s].queue : subs[s].queue[n] \in 0 .. Numbers - 1
  /\ stream \in [at : {"off", "replaying", "reading", "waiting"}, stop : BOOLEAN]

\* An attached reader gets every event published since it subscribed, in order and once; one
\* that was dropped gets no less than all there was before.  However slow a reader, no event
\* is missing in the middle (EventBus.publish, Subscription).
FeedHasNoGaps ==
  \A s \in Subscribers :
    LET queue == subs[s].queue
    IN  /\ \A n \in 2 .. Len(queue) : queue[n] = (queue[n - 1] + 1) % Numbers
        /\ subs[s].at = "attached" /\ queue # << >> => queue[Len(queue)] = sent

\* A stream worker told to stop ends, even where nothing is ever traded again
\* (QuoteStreamWorker._consume).
StreamStops == stream.stop ~> stream.at = "off"

=============================================================================
