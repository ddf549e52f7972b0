--------------------------- MODULE StreamChannel ---------------------------
(***************************************************************************)
(* A streamed workflow from the model to the reader.  A provider sends     *)
(* chunks through a bounded channel to the workflow's node, which emits    *)
(* each as a frame into the emitter's bounded queue, then a final frame,   *)
(* and closes the emitter whatever happened.  A reader holds the queue     *)
(* until it sees the end frame or runs out of patience.  All streams of a  *)
(* program share one emitter.                                              *)
(***************************************************************************)
EXTENDS Naturals, Sequences, FiniteSets

CONSTANTS
  Streams,       \* workflow runs that stream
  Readers,
  Chunks,        \* chunks of one answer
  ChanCap, QueueCap,   \* capacities of a provider's channel and of the queue
  MaxTries,      \* attempts of a send before it gives up
  End, NoReader

VARIABLES
  provider,      \* stream -> its provider task
  made, chan,    \* chunks it has sent, and how many wait in its channel
  pc, failed,    \* stream -> its place, and whether its workflow has failed
  sent, tries,   \* frames it has put into the queue, attempts of this send
  queue,         \* frames that wait for a reader
  emitterClosed, \* the emitter refuses frames
  cancelled,
  reader, out,   \* reader -> its place, and the frames it has collected
  lock,          \* who holds the queue
  shared, endLost, spilled   \* history: two streams were open at once, a send of
                             \* the end frame gave up, a reader failed

providerVars == <<provider, made, chan>>
streamVars == <<pc, failed, sent, tries>>
readerVars == <<reader, out, lock>>
marks == <<shared, endLost, spilled>>
channelVars == <<providerVars, streamVars, queue, emitterClosed, cancelled, readerVars, marks>>

Frames == Streams \X (0..Chunks)

ASSUME StreamAssumption ==
  /\ Chunks \in Nat
  /\ ChanCap \in Nat \ {0} /\ QueueCap \in Nat \ {0} /\ MaxTries \in Nat \ {0}
  /\ End \notin Frames
  /\ NoReader \notin Readers

StreamInit ==
  /\ provider = [s \in Streams |-> "idle"]
  /\ made = [s \in Streams |-> 0]
  /\ chan = [s \in Streams |-> 0]
  /\ pc = [s \in Streams |-> "idle"]
  /\ failed = [s \in Streams |-> FALSE]
  /\ sent = [s \in Streams |-> 0]
  /\ tries = [s \in Streams |-> 0]
  /\ queue = <<>>
  /\ emitterClosed = FALSE /\ cancelled = FALSE
  /\ reader = [r \in Readers |-> "idle"]
  /\ out = [r \in Readers |-> <<>>]
  /\ lock = NoReader
  /\ shared = FALSE /\ endLost = FALSE /\ spilled = FALSE

Goto(s, place) == pc' = [pc EXCEPT ![s] = place]
Open(s) == pc[s] \notin {"idle", "ended"}

----------------------------------------------------------------------------
(* The provider's task.                                                    *)

\* The node that reads the channel has not returned.
Listening(s) == pc[s] \in {"read", "check", "send"}

\* A chunk waits for room in the channel; without a receiver it is lost.
Provide(s) ==
  /\ provider[s] = "live"
  /\ made[s] < Chunks
  /\ Listening(s) => chan[s] < ChanCap
  /\ made' = [made EXCEPT ![s] = @ + 1]
  /\ chan' = [chan EXCEPT ![s] = IF Listening(s) THEN @ + 1 ELSE @]
  /\ UNCHANGED <<provider, streamVars, queue, emitterClosed, cancelled, readerVars, marks>>

\* The answer is complete, or the provider fails, even after its last chunk.
ProviderEnds(s) ==
  /\ provider[s] = "live"
  /\ \E ending \in {"done", "error"} :
       /\ ending = "done" => made[s] = Chunks
       /\ provider' = [provider EXCEPT ![s] = ending]
  /\ UNCHANGED <<made, chan, streamVars, queue, emitterClosed, cancelled, readerVars, marks>>

----------------------------------------------------------------------------
(* The streaming workflow, here with one model node.                       *)

\* Faulty variant: a stream that fails does not close the emitter.
FailOpen(s) ==
  /\ failed' = [failed EXCEPT ![s] = TRUE]
  /\ Goto(s, "ended")

\* The node, and with it the stream, fails; the emitter is closed all the same.
Fail(s) ==
  /\ failed' = [failed EXCEPT ![s] = TRUE]
  /\ Goto(s, "close")

\* The flag is looked at before every node; nothing ever clears it.
Proceed(s, place) ==
  IF cancelled THEN Fail(s) ELSE Goto(s, place) /\ UNCHANGED failed

Start(s) ==
  /\ pc[s] = "idle"
  /\ Proceed(s, "read")
  /\ provider' = [provider EXCEPT ![s] = IF cancelled THEN "idle" ELSE "live"]
  /\ shared' = (shared \/ emitterClosed \/ \E t \in Streams : Open(t))
  /\ UNCHANGED <<made, chan, sent, tries, queue, emitterClosed, cancelled, readerVars,
                 endLost, spilled>>

\* The flag is looked at only when a chunk has come.
ReceiveChunk(s) ==
  /\ pc[s] = "read"
  /\ chan[s] > 0
  /\ chan' = [chan EXCEPT ![s] = @ - 1]
  /\ Proceed(s, "check")
  /\ provider' =
       [provider EXCEPT ![s] = IF cancelled /\ @ = "live" THEN "aborted" ELSE @]
  /\ UNCHANGED <<made, sent, tries, queue, emitterClosed, cancelled, readerVars, marks>>

\* The channel is closed; the final frame follows a complete answer.
ReceiveEnd(s) ==
  /\ pc[s] = "read"
  /\ chan[s] = 0
  /\ provider[s] # "live"
  /\ IF provider[s] = "done" THEN Proceed(s, "check") ELSE Fail(s)
  /\ UNCHANGED <<providerVars, sent, tries, queue, emitterClosed, cancelled, readerVars, marks>>

\* emit looks at the flag first and waits for room afterwards.
Emit(s) ==
  /\ pc[s] = "check"
  /\ tries' = [tries EXCEPT ![s] = 0]
  /\ IF emitterClosed THEN Fail(s) ELSE Goto(s, "send") /\ UNCHANGED failed
  /\ UNCHANGED <<providerVars, sent, queue, emitterClosed, cancelled, readerVars, marks>>

Room == Len(queue) < QueueCap

SendFrame(s) ==
  /\ pc[s] = "send"
  /\ Room
  /\ queue' = Append(queue, <<s, sent[s]>>)
  /\ sent' = [sent EXCEPT ![s] = @ + 1]
  /\ Goto(s, IF sent[s] = Chunks THEN "close" ELSE "read")
  /\ UNCHANGED <<providerVars, failed, tries, emitterClosed, cancelled, readerVars, marks>>

\* An attempt finds no room in time; the last one fails the stream.
SendTimeout(s) ==
  /\ pc[s] = "send"
  /\ ~Room
  /\ tries' = [tries EXCEPT ![s] = @ + 1]
  /\ IF tries[s] + 1 = MaxTries THEN Fail(s) ELSE UNCHANGED <<pc, failed>>
  /\ UNCHANGED <<providerVars, sent, queue, emitterClosed, cancelled, readerVars, marks>>

\* The flag is looked at, and set before the end frame is sent.
CloseStream(s) ==
  /\ pc[s] = "close"
  /\ tries' = [tries EXCEPT ![s] = 0]
  /\ Goto(s, IF emitterClosed THEN "ended" ELSE "mark")
  /\ UNCHANGED <<providerVars, failed, sent, queue, emitterClosed, cancelled, readerVars, marks>>

MarkClosed(s) ==
  /\ pc[s] = "mark"
  /\ emitterClosed' = TRUE
  /\ Goto(s, "end")
  /\ UNCHANGED <<providerVars, failed, sent, tries, queue, cancelled, readerVars, marks>>

SendEnd(s) ==
  /\ pc[s] = "end"
  /\ Room
  /\ queue' = Append(queue, End)
  /\ Goto(s, "ended")
  /\ UNCHANGED <<providerVars, failed, sent, tries, emitterClosed, cancelled, readerVars, marks>>

\* Faulty variant: the end frame is tried for ever.
SendEndWaits(s) ==
  /\ pc[s] = "end"
  /\ ~Room
  /\ tries' = [tries EXCEPT ![s] = 0]
  /\ UNCHANGED <<providerVars, pc, failed, sent, queue, emitterClosed, cancelled, readerVars, marks>>

SendEndTimeout(s) ==
  /\ pc[s] = "end"
  /\ ~Room
  /\ tries' = [tries EXCEPT ![s] = @ + 1]
  /\ IF tries[s] + 1 = MaxTries
     THEN /\ failed' = [failed EXCEPT ![s] = TRUE]
          /\ Goto(s, "ended")
          /\ endLost' = TRUE
     ELSE UNCHANGED <<pc, failed, endLost>>
  /\ UNCHANGED <<providerVars, sent, queue, emitterClosed, cancelled, readerVars, shared, spilled>>

Cancel ==
  /\ ~cancelled
  /\ cancelled' = TRUE
  /\ UNCHANGED <<providerVars, streamVars, queue, emitterClosed, readerVars, marks>>

----------------------------------------------------------------------------
(* stream_output                                                           *)

Enter(r) ==
  /\ reader[r] = "idle"
  /\ reader' = [reader EXCEPT ![r] = "waiting"]
  /\ UNCHANGED <<providerVars, streamVars, queue, emitterClosed, cancelled, out, lock, marks>>

Lock(r) ==
  /\ reader[r] = "waiting"
  /\ lock = NoReader
  /\ lock' = r
  /\ reader' = [reader EXCEPT ![r] = "reading"]
  /\ UNCHANGED <<providerVars, streamVars, queue, emitterClosed, cancelled, out, marks>>

Leave(r, how) == reader' = [reader EXCEPT ![r] = how] /\ lock' = NoReader

TakeFrame(r) ==
  /\ reader[r] = "reading"
  /\ queue # <<>>
  /\ queue' = Tail(queue)
  /\ IF Head(queue) = End
     THEN Leave(r, "done") /\ UNCHANGED out
     ELSE out' = [out EXCEPT ![r] = Append(@, Head(queue))] /\ UNCHANGED <<reader, lock>>
  /\ UNCHANGED <<providerVars, streamVars, emitterClosed, cancelled, marks>>

\* Faulty variant: a timeout ends the stream.
ReaderGivesUpDone(r) ==
  /\ reader[r] = "reading"
  /\ queue = <<>>
  /\ Leave(r, "done")
  /\ UNCHANGED <<providerVars, streamVars, queue, emitterClosed, cancelled, out, marks>>

\* A timeout, if the reader has one; the frames collected so far are dropped.
ReaderGivesUp(r) ==
  /\ reader[r] = "reading"
  /\ queue = <<>>
  /\ Leave(r, "failed")
  /\ out' = [out EXCEPT ![r] = <<>>]
  /\ spilled' = TRUE
  /\ UNCHANGED <<providerVars, streamVars, queue, emitterClosed, cancelled, shared, endLost>>

----------------------------------------------------------------------------

StreamStep(s) ==
  \/ ReceiveChunk(s) \/ ReceiveEnd(s) \/ Emit(s) \/ SendFrame(s) \/ SendTimeout(s)
  \/ CloseStream(s) \/ MarkClosed(s) \/ SendEnd(s) \/ SendEndTimeout(s)

ProviderStep(s) == Provide(s) \/ ProviderEnds(s)

StreamNext ==
  \/ \E s \in Streams : Start(s) \/ ProviderStep(s) \/ StreamStep(s)
  \/ \E r \in Readers : Enter(r) \/ Lock(r) \/ TakeFrame(r) \/ ReaderGivesUp(r)
  \/ Cancel

StreamSpec == StreamInit /\ [][StreamNext]_channelVars

\* Tasks are scheduled, a provider sends or ends, and sends time out.  Nobody has
\* to read, and a reader's timeout may be far away.
StreamFairSpec ==
  /\ StreamSpec
  /\ \A s \in Streams : WF_channelVars(StreamStep(s)) /\ WF_channelVars(ProviderStep(s))
  /\ \A r \in Readers : WF_channelVars(TakeFrame(r))

----------------------------------------------------------------------------
(* Properties.                                                             *)

StreamTypeOK ==
  /\ provider \in [Streams -> {"idle", "live", "done", "error", "aborted"}]
  /\ made \in [Streams -> 0..Chunks] /\ chan \in [Streams -> 0..ChanCap]
  /\ pc \in [Streams -> {"idle", "read", "check", "send", "close", "mark", "end", "ended"}]
  /\ failed \in [Streams -> BOOLEAN]
  /\ sent \in [Streams -> 0..(Chunks + 1)] /\ tries \in [Streams -> 0..MaxTries]
  /\ queue \in Seq(Frames \union {End}) /\ Len(queue) <= QueueCap
  /\ emitterClosed \in BOOLEAN /\ cancelled \in BOOLEAN
  /\ reader \in [Readers -> {"idle", "waiting", "reading", "done", "failed"}]
  /\ out \in [Readers -> Seq(Frames)]
  /\ lock \in Readers \union {NoReader}
  /\ shared \in BOOLEAN /\ endLost \in BOOLEAN /\ spilled \in BOOLEAN

\* The frames a reader returns of one stream are in order and without a gap; only
\* the frames an earlier reader dropped may be missing in front.
SameStream(f, g) == f # End /\ g # End /\ f[1] = g[1]
Consecutive(frames) ==
  \A i, j \in DOMAIN frames :
    /\ i < j /\ SameStream(frames[i], frames[j])
    /\ \A k \in (i + 1)..(j - 1) : ~SameStream(frames[i], frames[k])
    => frames[j][2] = frames[i][2] + 1
InOrder ==
  \A r \in Readers : Consecutive(out[r] \o (IF lock = r THEN queue ELSE <<>>))

\* When stream returns Ok, a reader that ends normally has the complete stream,
\* final frame included, if no other stream was open and no reader has failed.
OkIsComplete ==
  ~shared /\ ~spilled =>
    \A s \in Streams, r \in Readers :
      pc[s] = "ended" /\ ~failed[s] /\ reader[r] = "done" =>
        out[r] = [i \in 1..(Chunks + 1) |-> <<s, i - 1>>]

\* A stream ends, and so does its provider, also when nobody reads, when the
\* stream fails or is cancelled, and when another stream has closed the emitter.
StreamEnds ==
  \A s \in Streams : Open(s) \/ provider[s] = "live" ~> ~Open(s) /\ provider[s] # "live"

\* The first reader that holds the queue once a stream has ended, ends, unless a
\* send of the end frame gave up: then it may wait for ever, and a reader that
\* comes after another has had the end frame always does.
FirstToEnd(r) ==
  /\ reader[r] = "reading" /\ ~endLost
  /\ \A q \in Readers : reader[q] # "done"
  /\ \E s \in Streams : pc[s] = "ended"
ReaderEnds == \A r \in Readers : FirstToEnd(r) ~> reader[r] # "reading" \/ endLost

\* What reaches a reader is each stream in order and without gaps, however streams
\* and readers interleave; and a reader that ends normally has all of a stream that
\* returned Ok, unless streams were open together or an earlier reader failed.
\* Streams that were open together share the emitter: there the one that closes it
\* can cut off the last frames of one that returns Ok.
OutputFaithful == StreamTypeOK /\ InOrder /\ OkIsComplete
=============================================================================
