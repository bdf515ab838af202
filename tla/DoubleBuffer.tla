----------------------------- MODULE DoubleBuffer -----------------------------
(***************************************************************************)
(* The reply writer of a connection (utils/go-resp/doublebuffer): writers  *)
(* append to a back buffer under a mutex, one flusher goroutine swaps the  *)
(* two buffers and writes the front one to the socket.  Two channels of    *)
(* capacity one carry the wake-ups, a cancelled context carries the end.   *)
(*                                                                         *)
(* A byte is <<w, i>>: the i-th byte writer w submitted.  The mutex is     *)
(* held over a few assignments only, so a critical section is one step.    *)
(* Every other line at which two goroutines can meet is a step of its own. *)
(***************************************************************************)
EXTENDS Integers, Sequences, FiniteSets

CONSTANTS Writers,    \* goroutines that call Write
          Closers,    \* those of them that also call Close
          Limit,      \* bufferLimit
          IsCloser,   \* whether the io.Writer is an io.WriteCloser
          MaxLen,     \* bound: bytes in one Write
          MaxBytes    \* bound: bytes one writer submits

ASSUME DoubleBufferAssumption ==
  /\ Closers \subseteq Writers
  /\ Limit \in Nat \ {0}
  /\ IsCloser \in BOOLEAN
  /\ MaxLen \in Nat
  /\ MaxBytes \in Nat

Byte == Writers \X (Nat \ {0})

VARIABLES back,       \* backBuffer
          front,      \* bytes of frontBuffer not yet written to the socket
          dataFlag,   \* tokens in dataReadyFlag
          dataClosed, \* dataReadyFlag was closed
          bufFlag,    \* tokens in bufferReadyFlag
          cause,      \* cause of the context; "live" while not cancelled
          pooled,     \* Close has put backBuffer back into bytesPool
          fpc,        \* flusher: the line it is at
          wpc,        \* writer: the line it is at
          todo,       \* writer: bytes of its Write not yet accepted
          count,      \* writer: bytes it has submitted in all its Writes
          closeErr,   \* writer: what its last Close returned
          panicked,   \* a goroutine panicked: the process is gone
          accepted,   \* history: bytes appended to backBuffer
          sink        \* history: bytes the socket took

flusherVars == <<front, fpc>>
writerVars == <<todo, count, closeErr>>
vars == <<back, front, dataFlag, dataClosed, bufFlag, cause, pooled, fpc, wpc,
          todo, count, closeErr, panicked, accepted, sink>>

Causes == {"live", "pipe", "canceled", "closeErr", "writeErr"}
WriterPcs == {"idle", "check", "lock", "wait", "signal",
              "closeChan", "closeWait"}
FlusherPcs == {"recv", "swap", "notify", "write", "exit", "done"}

Init ==
  /\ back = <<>>
  /\ front = <<>>
  /\ dataFlag = 0
  /\ dataClosed = FALSE
  /\ bufFlag = 0
  /\ cause = "live"
  /\ pooled = FALSE
  /\ fpc = "recv"
  /\ wpc = [w \in Writers |-> "idle"]
  /\ todo = [w \in Writers |-> <<>>]
  /\ count = [w \in Writers |-> 0]
  /\ closeErr = [w \in Writers |-> "none"]
  /\ panicked = FALSE
  /\ accepted = <<>>
  /\ sink = <<>>

Goto(w, pc) == wpc' = [wpc EXCEPT ![w] = pc]

\* context.CancelCauseFunc: only the first cause is kept.
Cancel(err) == cause' = IF cause = "live" THEN err ELSE cause

-----------------------------------------------------------------------------
\* Write(p) with len(p) = n.
Write(w, n) ==
  /\ wpc[w] = "idle"
  /\ count[w] + n <= MaxBytes
  /\ Goto(w, "check")
  /\ todo' = [todo EXCEPT ![w] = [i \in 1..n |-> <<w, count[w] + i>>]]
  /\ count' = [count EXCEPT ![w] = @ + n]
  /\ UNCHANGED <<back, dataFlag, dataClosed, bufFlag, cause, pooled,
                 flusherVars, closeErr, panicked, accepted, sink>>

\* A Write that returns, with an error or without.
ReturnWrite(w) ==
  /\ Goto(w, "idle")
  /\ todo' = [todo EXCEPT ![w] = <<>>]

\* Top of writeChunk's loop: a cancelled context or an empty chunk returns.
CheckContext(w) ==
  /\ wpc[w] = "check"
  /\ IF cause # "live" \/ todo[w] = <<>>
       THEN ReturnWrite(w)
       ELSE Goto(w, "lock") /\ UNCHANGED todo
  /\ UNCHANGED <<back, dataFlag, dataClosed, bufFlag, cause, pooled,
                 flusherVars, count, closeErr, panicked, accepted, sink>>

\* The chunk of the current Write: p[:min(bufferLimit, len(p))].
ChunkLen(w) == IF Len(todo[w]) > Limit THEN Limit ELSE Len(todo[w])
Chunk(w) == SubSeq(todo[w], 1, ChunkLen(w))

\* Mutant: the next chunk starts where the last one ended.
MutRest(w) == SubSeq(todo[w], ChunkLen(w), Len(todo[w]))

Rest(w) == SubSeq(todo[w], ChunkLen(w) + 1, Len(todo[w]))

Fits(w) == Len(back) + ChunkLen(w) <= Limit

\* Under bufferMutex: append the chunk, or go and wait for room.
AppendChunk(w) ==
  /\ wpc[w] = "lock"
  /\ IF Fits(w)
       THEN /\ back' = back \o Chunk(w)
            /\ accepted' = accepted \o Chunk(w)
            /\ todo' = [todo EXCEPT ![w] = Rest(w)]
            /\ Goto(w, "signal")
       ELSE /\ Goto(w, "wait")
            /\ UNCHANGED <<back, accepted, todo>>
  /\ UNCHANGED <<dataFlag, dataClosed, bufFlag, cause, pooled, flusherVars,
                 count, closeErr, panicked, sink>>

\* Mutant: a select that waits for room only.
MutWaitCancelled(w) == FALSE

\* The wait for room returns when the context is cancelled ...
WaitCancelled(w) ==
  /\ wpc[w] = "wait"
  /\ cause # "live"
  /\ ReturnWrite(w)
  /\ UNCHANGED <<back, dataFlag, dataClosed, bufFlag, cause, pooled,
                 flusherVars, count, closeErr, panicked, accepted, sink>>

\* ... or takes the token the flusher left after a swap, and looks again.
WaitToken(w) ==
  /\ wpc[w] = "wait"
  /\ bufFlag = 1
  /\ bufFlag' = 0
  /\ Goto(w, "check")
  /\ UNCHANGED <<back, dataFlag, dataClosed, cause, pooled, flusherVars,
                 writerVars, panicked, accepted, sink>>

\* Non-blocking send on dataReadyFlag; on a closed channel a send panics.
\* Write then goes on with the next chunk or returns.
Signal(w) ==
  /\ wpc[w] = "signal"
  /\ IF dataClosed
       THEN /\ panicked' = TRUE
            /\ UNCHANGED <<dataFlag, wpc>>
       ELSE /\ dataFlag' = 1
            /\ Goto(w, IF todo[w] = <<>> THEN "idle" ELSE "check")
            /\ UNCHANGED panicked
  /\ UNCHANGED <<back, dataClosed, bufFlag, cause, pooled, flusherVars,
                 writerVars, accepted, sink>>
-----------------------------------------------------------------------------
\* Mutant: Close does not look at the context first.
MutCloseCheck(w) ==
  /\ wpc[w] = "idle"
  /\ Goto(w, "closeChan")
  /\ UNCHANGED <<back, dataFlag, dataClosed, bufFlag, cause, pooled,
                 flusherVars, writerVars, panicked, accepted, sink>>

\* Close: a cancelled context returns its cause at once.
CloseCheck(w) ==
  /\ wpc[w] = "idle"
  /\ IF cause # "live"
       THEN closeErr' = [closeErr EXCEPT ![w] = cause] /\ UNCHANGED wpc
       ELSE Goto(w, "closeChan") /\ UNCHANGED closeErr
  /\ UNCHANGED <<back, dataFlag, dataClosed, bufFlag, cause, pooled,
                 flusherVars, todo, count, panicked, accepted, sink>>

\* close(dataReadyFlag); closing it twice panics.
CloseChannel(w) ==
  /\ wpc[w] = "closeChan"
  /\ IF dataClosed
       THEN panicked' = TRUE /\ UNCHANGED <<dataClosed, wpc>>
       ELSE /\ dataClosed' = TRUE
            /\ Goto(w, "closeWait")
            /\ UNCHANGED panicked
  /\ UNCHANGED <<back, dataFlag, bufFlag, cause, pooled, flusherVars,
                 writerVars, accepted, sink>>

\* Mutant: Close does not wait for the flusher.
MutCloseReturn(w) ==
  /\ wpc[w] = "closeWait"
  /\ closeErr' = [closeErr EXCEPT ![w] = "nil"]
  /\ pooled' = TRUE
  /\ Goto(w, "idle")
  /\ UNCHANGED <<back, dataFlag, dataClosed, bufFlag, cause, flusherVars,
                 todo, count, panicked, accepted, sink>>

\* <-Done(), then backBuffer goes back to the pool and Close returns.
CloseReturn(w) ==
  /\ wpc[w] = "closeWait"
  /\ cause # "live"
  /\ closeErr' = [closeErr EXCEPT ![w] = IF cause = "pipe" THEN "nil" ELSE cause]
  /\ pooled' = TRUE
  /\ Goto(w, "idle")
  /\ UNCHANGED <<back, dataFlag, dataClosed, bufFlag, cause, flusherVars,
                 todo, count, panicked, accepted, sink>>
-----------------------------------------------------------------------------
\* Mutant: a closed channel ends the loop even with a token in it.
MutReceive ==
  /\ fpc = "recv"
  /\ \/ dataFlag = 1 /\ dataFlag' = 0 /\ fpc' = "swap"
     \/ dataClosed /\ fpc' = "exit" /\ UNCHANGED dataFlag
  /\ UNCHANGED <<back, front, dataClosed, bufFlag, cause, pooled, wpc,
                 writerVars, panicked, accepted, sink>>

\* for range dataReadyFlag: a token left in a closed channel is still received.
Receive ==
  /\ fpc = "recv"
  /\ \/ dataFlag = 1 /\ dataFlag' = 0 /\ fpc' = "swap"
     \/ dataFlag = 0 /\ dataClosed /\ fpc' = "exit" /\ UNCHANGED dataFlag
  /\ UNCHANGED <<back, front, dataClosed, bufFlag, cause, pooled, wpc,
                 writerVars, panicked, accepted, sink>>

\* Mutant: the new back buffer is not truncated.
MutSwap ==
  /\ fpc = "swap"
  /\ front' = back
  /\ fpc' = "notify"
  /\ UNCHANGED <<back, dataFlag, dataClosed, bufFlag, cause, pooled, wpc,
                 writerVars, panicked, accepted, sink>>

\* Under bufferMutex: the back buffer becomes the front one.
Swap ==
  /\ fpc = "swap"
  /\ front' = back
  /\ back' = <<>>
  /\ fpc' = "notify"
  /\ UNCHANGED <<dataFlag, dataClosed, bufFlag, cause, pooled, wpc,
                 writerVars, panicked, accepted, sink>>

\* Mutant: no token for the writers that wait for room.
MutNotify ==
  /\ fpc = "notify"
  /\ fpc' = IF front = <<>> THEN "recv" ELSE "write"
  /\ UNCHANGED <<back, front, dataFlag, dataClosed, bufFlag, cause, pooled,
                 wpc, writerVars, panicked, accepted, sink>>

\* Mutant: the flusher drops a token it takes for stale.
MutNotifyDrain ==
  /\ fpc = "notify"
  /\ bufFlag' = 1
  /\ dataFlag' = 0
  /\ fpc' = IF front = <<>> THEN "recv" ELSE "write"
  /\ UNCHANGED <<back, front, dataClosed, cause, pooled, wpc,
                 writerVars, panicked, accepted, sink>>

\* Non-blocking send on bufferReadyFlag; an empty front buffer is not written.
Notify ==
  /\ fpc = "notify"
  /\ bufFlag' = 1
  /\ fpc' = IF front = <<>> THEN "recv" ELSE "write"
  /\ UNCHANGED <<back, front, dataFlag, dataClosed, cause, pooled, wpc,
                 writerVars, panicked, accepted, sink>>

\* wr.Write takes the whole front buffer.
FlushOk ==
  /\ fpc = "write"
  /\ sink' = sink \o front
  /\ front' = <<>>
  /\ fpc' = "recv"
  /\ UNCHANGED <<back, dataFlag, dataClosed, bufFlag, cause, pooled, wpc,
                 writerVars, panicked, accepted>>

\* wr.Write fails after k bytes: the flusher cancels the context and leaves.
FlushFail(k) ==
  /\ fpc = "write"
  /\ k <= Len(front)
  /\ sink' = sink \o SubSeq(front, 1, k)
  /\ front' = SubSeq(front, k + 1, Len(front))
  /\ Cancel("writeErr")
  /\ fpc' = "exit"
  /\ UNCHANGED <<back, dataFlag, dataClosed, bufFlag, pooled, wpc,
                 writerVars, panicked, accepted>>

\* The deferred function: the socket is closed and its result cancels the
\* context; cancel(nil) records context.Canceled, a plain writer ErrClosedPipe.
Exit ==
  /\ fpc = "exit"
  /\ \E err \in IF IsCloser THEN {"canceled", "closeErr"} ELSE {"pipe"} :
       Cancel(err)
  /\ fpc' = "done"
  /\ UNCHANGED <<back, front, dataFlag, dataClosed, bufFlag, pooled, wpc,
                 writerVars, panicked, accepted, sink>>
-----------------------------------------------------------------------------
\* One writer inside a Write or a Close it has started.
WriterStep(w) ==
  \/ CheckContext(w) \/ AppendChunk(w) \/ WaitCancelled(w) \/ WaitToken(w)
  \/ Signal(w) \/ CloseChannel(w) \/ CloseReturn(w)

FlusherStep ==
  Receive \/ Swap \/ Notify \/ FlushOk \/ (\E k \in 0..Limit : FlushFail(k)) \/ Exit

\* A writer may stop calling between any two Writes: the connection is idle
\* and the flusher waits for data, has left, or the process is gone.
Quiescent ==
  /\ \/ panicked
     \/ /\ \A w \in Writers : wpc[w] = "idle"
        /\ fpc = "done" \/ (fpc = "recv" /\ dataFlag = 0 /\ ~dataClosed)
  /\ UNCHANGED vars

Next ==
  \/ /\ ~panicked
     /\ \/ \E w \in Writers :
             \/ \E n \in 0..MaxLen : Write(w, n)
             \/ WriterStep(w)
        \/ \E w \in Closers : CloseCheck(w)
        \/ FlusherStep
  \/ Quiescent

Spec == Init /\ [][Next]_vars

\* Goroutines that can run do run, a select that is ready again and again is
\* taken, and a socket write comes back.
Fairness ==
  /\ WF_vars(~panicked /\ FlusherStep)
  /\ \A w \in Writers :
       /\ WF_vars(~panicked /\ WriterStep(w))
       /\ SF_vars(~panicked /\ WaitToken(w))

FairSpec == Spec /\ Fairness
-----------------------------------------------------------------------------
(* Properties *)

\* Type invariant; the back buffer never exceeds bufferLimit.
TypeOK ==
  /\ back \in Seq(Byte) /\ Len(back) <= Limit
  /\ front \in Seq(Byte) /\ Len(front) <= Limit
  /\ dataFlag \in {0, 1} /\ bufFlag \in {0, 1}
  /\ dataClosed \in BOOLEAN /\ pooled \in BOOLEAN /\ panicked \in BOOLEAN
  /\ cause \in Causes
  /\ fpc \in FlusherPcs
  /\ wpc \in [Writers -> WriterPcs]
  /\ todo \in [Writers -> Seq(Byte)]
  /\ count \in [Writers -> Nat]
  /\ closeErr \in [Writers -> Causes \cup {"none", "nil"}]
  /\ accepted \in Seq(Byte)
  /\ sink \in Seq(Byte)

\* Every byte Write accepted is on the socket, in the front buffer or in the
\* back buffer, once, and in the order of acceptance, through every swap.
InOrder == accepted = sink \o front \o back

\* The bytes of one writer are accepted in the order it submitted them, none twice
\* and with no gap, although Write cuts them into chunks, other writers come between
\* and a failure may end a Write between two chunks.
WriterOrder ==
  \A j \in 1..Len(accepted) :
    LET w == accepted[j][1]
        n == accepted[j][2]
    IN  /\ n > 1 => \E i \in 1..(j - 1) : accepted[i] = <<w, n - 1>>
        /\ \A i \in 1..(j - 1) : accepted[i] # <<w, n>>

\* The non-blocking send on dataReadyFlag loses no wake-up: bytes in the back
\* buffer always have a token, or a writer about to send one, or the flusher
\* about to swap; a flusher asleep over bytes nobody announces is impossible.
NoStrandedBytes ==
  back # <<>> =>
    \/ dataFlag = 1
    \/ fpc \in {"swap", "exit", "done"}
    \/ \E w \in Writers : wpc[w] = "signal"

\* The non-blocking send on bufferReadyFlag loses no wake-up either: a writer
\* that waits for room has a token, or a flusher that will send one, or another
\* writer that took the token and is about to fill the buffer again.
NoStuckWriter ==
  \A w \in Writers :
    wpc[w] = "wait" /\ cause = "live" =>
      \/ bufFlag = 1
      \/ back # <<>>
      \/ fpc \in {"notify", "exit"}
      \/ \E v \in Writers : wpc[v] \in {"check", "lock"} /\ todo[v] # <<>>

\* No wake-up between the writers and the flusher is lost, in either direction.
NoLostWakeUp == NoStrandedBytes /\ NoStuckWriter

\* The discipline Close relies on: the goroutine that closes is the only writer.
SoleCloser == \A w \in Closers : Writers = {w}

\* A connection whose only writer closes it: a context cancelled by anything but
\* a failed socket write means that all accepted bytes are on the socket, so
\* Close returning no write error is a promise that the replies were sent.
CleanCloseDrains ==
  cause \in {"pipe", "canceled", "closeErr"} => sink = accepted

\* Once Close has given backBuffer back to the pool, from where another
\* connection may take it, no goroutine of this connection touches it.
PoolSafe ==
  pooled =>
    /\ fpc \in {"exit", "done"}
    /\ \A w \in Writers : wpc[w] \notin {"lock", "signal"}

\* No send on and no second close of dataReadyFlag once it is closed: Close may
\* be called twice (CloseWithError and then the deferred Close do).
NoPanic == ~panicked

\* A Write or a Close that was started returns.
CallsReturn ==
  \A w \in Writers : (wpc[w] # "idle") ~> (wpc[w] = "idle" \/ panicked)

\* A reply reaches the socket without a Close to push it, unless the socket fails.
RepliesSent ==
  \A n \in 1..(MaxBytes * Cardinality(Writers)) :
    (Len(accepted) >= n) ~> (Len(sink) >= n \/ cause = "writeErr" \/ panicked)

\* The double buffer implements the byte pipe.
Pipe == INSTANCE BytePipe
          WITH delivered <- sink,
               status <- IF cause = "live" THEN "open"
                         ELSE IF cause = "writeErr" THEN "failed"
                         ELSE "closed"
PipeSpec == Pipe!Spec
=============================================================================
