-------------------------------- MODULE PubSub --------------------------------
(***************************************************************************)
(* Publish/subscribe (utils/pubsub) together with the goroutines of the    *)
(* connections that use it: a handler per connection runs SUBSCRIBE,       *)
(* UNSUBSCRIBE and PUBLISH and tears its subscriptions down at the end, a  *)
(* goroutine per subscription copies messages to the connection.           *)
(*                                                                         *)
(* A subscription is a Go channel of capacity one, numbered in the order   *)
(* of creation.  ps.mu is a read-write lock: Publish holds it for reading  *)
(* over one send per subscriber, the other operations hold it for writing  *)
(* over a few assignments and are one step.  What a message says does not  *)
(* matter here, so a Go channel is the number of messages in it.           *)
(***************************************************************************)
EXTENDS Integers, Sequences, FiniteSets, SequencesExt

CONSTANTS Conns,      \* client connections
          Channels,   \* names of pub/sub channels
          MaxSubs     \* bound: subscriptions created

ASSUME PubSubAssumption == MaxSubs \in Nat

Subs == 1..MaxSubs
ChanCap == 1          \* capacity of a subscription's Go channel

VARIABLES subscriptions,  \* ps.subscriptions; <<>> where the map has no entry
          buf,            \* per subscription: messages in its Go channel
          closed,         \* subscriptions whose Go channel is closed
          made,           \* the subscriptions made so far: channel and connection
          mine,           \* per connection: subscriptions in the handler's map, not yet removed
          hpc,            \* per connection: what its handler is doing
          work,           \* per connection: subscribers PUBLISH has still to send to
          leaving,        \* per connection: subscriptions it has still to remove
          gpc,            \* per subscription: its goroutine
          panicked        \* a send on or a close of a closed Go channel

handlerVars == <<hpc, work, leaving>>
registryVars == <<subscriptions, closed, made, mine>>
vars == <<subscriptions, buf, closed, made, mine, hpc, work,
          leaving, gpc, panicked>>

HandlerPcs == {"ready", "publish", "unsubscribe", "reply", "close",
               "teardown", "gone"}

Init ==
  /\ subscriptions = [ch \in Channels |-> <<>>]
  /\ buf = [s \in Subs |-> 0]
  /\ closed = {}
  /\ made = <<>>
  /\ mine = [c \in Conns |-> {}]
  /\ hpc = [c \in Conns |-> "ready"]
  /\ work = [c \in Conns |-> <<>>]
  /\ leaving = [c \in Conns |-> {}]
  /\ gpc = [s \in Subs |-> "none"]
  /\ panicked = FALSE

topic(s) == made[s].channel
owner(s) == made[s].conn

Goto(c, pc) == hpc' = [hpc EXCEPT ![c] = pc]

\* Mutant: Unsubscribe and Subscribe do not wait for Publish.
MutLockFree == TRUE

\* ps.mu.Lock() is granted when nobody holds the lock for reading.
LockFree == \A c \in Conns : hpc[c] # "publish"

-----------------------------------------------------------------------------
\* One channel of a SUBSCRIBE: register, remember, start the goroutine.
Subscribe(c, ch) ==
  /\ hpc[c] = "ready"
  /\ Len(made) < MaxSubs
  /\ LockFree
  /\ LET s == Len(made) + 1 IN
       /\ subscriptions' = [subscriptions EXCEPT ![ch] = Append(@, s)]
       /\ made' = Append(made, [channel |-> ch, conn |-> c])
       /\ mine' = [mine EXCEPT ![c] = @ \cup {s}]
       /\ gpc' = [gpc EXCEPT ![s] = "recv"]
  /\ Goto(c, "reply")
  /\ UNCHANGED <<buf, closed, work, leaving, panicked>>

Places(s) == {i \in DOMAIN subscriptions[topic(s)] : subscriptions[topic(s)][i] = s}
FirstPlace(s) == CHOOSE i \in Places(s) : \A j \in Places(s) : i <= j

\* Mutant: the subscriber is cut out of the slice but not closed.
MutCloseSub(s) ==
  /\ subscriptions' = [subscriptions EXCEPT ![topic(s)] = RemoveAt(@, FirstPlace(s))]
  /\ UNCHANGED <<closed, panicked>>

\* Mutant: the slice loses its last element instead of the subscriber.
MutCloseLast(s) ==
  /\ subscriptions' = [subscriptions EXCEPT ![topic(s)] = RemoveAt(@, Len(@))]
  /\ closed' = closed \cup {s}
  /\ UNCHANGED panicked

\* Mutant: the handler forgets the subscription, the registry keeps it.
MutForget(s) == UNCHANGED <<subscriptions, closed, panicked>>

\* Unsubscribe(channel, subscriber): the loop finds the subscriber, cuts it out of
\* the slice and closes its Go channel; the map entry goes with the last one.
CloseSub(s) ==
  LET found == Places(s) # {}
  IN /\ subscriptions' = [subscriptions EXCEPT ![topic(s)] =
          IF found THEN RemoveAt(@, FirstPlace(s)) ELSE @]
     /\ closed' = IF found THEN closed \cup {s} ELSE closed
     /\ panicked' = (panicked \/ (found /\ s \in closed))

\* UNSUBSCRIBE of some channels, or of all of them when it names none.
Unsubscribe(c, chs) ==
  /\ hpc[c] = "ready"
  /\ leaving' = [leaving EXCEPT ![c] = {s \in mine[c] : topic(s) \in chs}]
  /\ Goto(c, "unsubscribe")
  /\ UNCHANGED <<registryVars, buf, work, gpc, panicked>>

\* One turn of a loop over subscriptions, in UNSUBSCRIBE or in the deferred function
\* of handleConnection: those of a channel in the order they were made, the channels
\* in the order of a Go map.  Each turn takes the lock on its own.  The handler looks
\* into its map again only when the loop is over, and its entries are gone then, so
\* mine loses them one by one.
RemoveNext(c) ==
  /\ hpc[c] \in {"unsubscribe", "teardown"}
  /\ LockFree
  /\ \E s \in leaving[c] :
       /\ \A r \in leaving[c] : topic(r) = topic(s) => s <= r
       /\ CloseSub(s)
       /\ mine' = [mine EXCEPT ![c] = @ \ {s}]
       /\ leaving' = [leaving EXCEPT ![c] = @ \ {s}]
  /\ UNCHANGED <<buf, made, hpc, work, gpc>>

\* The loop is over: UNSUBSCRIBE answers, a connection that ends is gone.
RemoveDone(c) ==
  /\ hpc[c] \in {"unsubscribe", "teardown"}
  /\ leaving[c] = {}
  /\ Goto(c, IF hpc[c] = "unsubscribe" THEN "reply" ELSE "gone")
  /\ UNCHANGED <<registryVars, buf, work, leaving, gpc, panicked>>

\* PUBLISH: take the lock for reading and the list of subscribers with it.
Publish(c, ch) ==
  /\ hpc[c] = "ready"
  /\ work' = [work EXCEPT ![c] = subscriptions[ch]]
  /\ Goto(c, "publish")
  /\ UNCHANGED <<registryVars, buf, leaving, gpc, panicked>>

\* Mutant: a send that waits for room, with the lock held.
MutSend(c) ==
  /\ hpc[c] = "publish"
  /\ work[c] # <<>>
  /\ LET s == Head(work[c]) IN
       /\ panicked' = (panicked \/ s \in closed)
       /\ s \in closed \/ buf[s] < ChanCap
       /\ buf' = IF s \notin closed THEN [buf EXCEPT ![s] = @ + 1] ELSE buf
  /\ work' = [work EXCEPT ![c] = Tail(@)]
  /\ UNCHANGED <<registryVars, hpc, leaving, gpc>>

\* One non-blocking send; a full Go channel drops the message, a closed one panics.
Send(c) ==
  /\ hpc[c] = "publish"
  /\ work[c] # <<>>
  /\ LET s == Head(work[c]) IN
       /\ panicked' = (panicked \/ s \in closed)
       /\ buf' = IF s \notin closed /\ buf[s] < ChanCap
                   THEN [buf EXCEPT ![s] = @ + 1] ELSE buf
  /\ work' = [work EXCEPT ![c] = Tail(@)]
  /\ UNCHANGED <<registryVars, hpc, leaving, gpc>>

\* All sends are done: the lock is released and PUBLISH answers the count.
PublishDone(c) ==
  /\ hpc[c] = "publish"
  /\ work[c] = <<>>
  /\ Goto(c, "reply")
  /\ UNCHANGED <<registryVars, buf, work, leaving, gpc, panicked>>

-----------------------------------------------------------------------------
\* The handler writes the reply of the command it has run.  This and the other writes
\* to a connection take as long as its client takes to read.
Reply(c) ==
  /\ hpc[c] = "reply"
  /\ Goto(c, "ready")
  /\ UNCHANGED <<registryVars, buf, work, leaving, gpc, panicked>>

\* Next fails (the client left or broke the protocol): CloseWithError and the
\* deferred rconn.Close, and only then the loop over the subscriptions.
Disconnect(c) ==
  /\ hpc[c] = "ready"
  /\ Goto(c, "close")
  /\ UNCHANGED <<registryVars, buf, work, leaving, gpc, panicked>>

CloseConn(c) ==
  /\ hpc[c] = "close"
  /\ Goto(c, "teardown")
  /\ leaving' = [leaving EXCEPT ![c] = mine[c]]
  /\ UNCHANGED <<registryVars, buf, work, gpc, panicked>>

\* The goroutine of a subscription: for message := range ch { write it }.
Take(s) ==
  /\ gpc[s] = "recv"
  /\ buf[s] > 0
  /\ buf' = [buf EXCEPT ![s] = @ - 1]
  /\ gpc' = [gpc EXCEPT ![s] = "write"]
  /\ UNCHANGED <<registryVars, handlerVars, panicked>>

\* rconn.WriteString; after an error the loop goes on.
WriteMessage(s) ==
  /\ gpc[s] = "write"
  /\ gpc' = [gpc EXCEPT ![s] = "recv"]
  /\ UNCHANGED <<registryVars, handlerVars, buf, panicked>>

\* A closed and drained Go channel ends the loop.
Leave(s) ==
  /\ gpc[s] = "recv"
  /\ buf[s] = 0 /\ s \in closed
  /\ gpc' = [gpc EXCEPT ![s] = "done"]
  /\ UNCHANGED <<registryVars, handlerVars, buf, panicked>>
-----------------------------------------------------------------------------
\* Steps of a handler at the registry, and all it takes without a new command.
RegistryStep(c) == RemoveNext(c) \/ RemoveDone(c) \/ Send(c) \/ PublishDone(c)
HandlerStep(c) == RegistryStep(c) \/ Reply(c) \/ CloseConn(c)

ReaderStep(s) == Take(s) \/ WriteMessage(s) \/ Leave(s)

\* Clients may stop sending commands at any time.
Quiescent ==
  /\ \A c \in Conns : hpc[c] \in {"ready", "gone"}
  /\ \A s \in Subs : gpc[s] \in {"none", "done"} \/ (gpc[s] = "recv" /\ buf[s] = 0)
  /\ UNCHANGED vars

Next ==
  \/ /\ ~panicked
     /\ \/ \E c \in Conns :
             \/ \E ch \in Channels : Subscribe(c, ch) \/ Publish(c, ch)
             \/ \E chs \in {{ch} : ch \in Channels} \cup {Channels} : Unsubscribe(c, chs)
             \/ Disconnect(c)
             \/ HandlerStep(c)
        \/ \E s \in Subs : ReaderStep(s)
  \/ Quiescent

Spec == Init /\ [][Next]_vars

\* A write to a connection that Close has ended returns its error at once.
WriteRefused(s) == WriteMessage(s) /\ hpc[owner(s)] \in {"teardown", "gone"}

\* Goroutines that can run do run; sync.RWMutex lets a waiting writer in before
\* readers that come later, so a Lock that is possible again and again succeeds.
\* A client need not read: a write to an open connection, of a reply, of a message or
\* of what Close flushes, may never return.
Fairness ==
  /\ \A c \in Conns : WF_vars(RegistryStep(c)) /\ SF_vars(RemoveNext(c))
  /\ \A s \in Subs : WF_vars(Take(s) \/ WriteRefused(s) \/ Leave(s))

FairSpec == Spec /\ Fairness
-----------------------------------------------------------------------------
(* Properties *)

\* Type invariant; a Go channel of a subscription holds at most one message.
TypeOK ==
  /\ subscriptions \in [Channels -> Seq(Subs)]
  /\ buf \in [Subs -> 0..ChanCap]
  /\ closed \subseteq Subs
  /\ made \in Seq([channel : Channels, conn : Conns]) /\ Len(made) <= MaxSubs
  /\ mine \in [Conns -> SUBSET Subs]
  /\ hpc \in [Conns -> HandlerPcs]
  /\ work \in [Conns -> Seq(Subs)]
  /\ leaving \in [Conns -> SUBSET Subs]
  /\ gpc \in [Subs -> {"none", "recv", "write", "done"}]
  /\ panicked \in BOOLEAN

\* Publish never sends on a Go channel that Unsubscribe has closed, and no Go
\* channel is closed twice: the read lock is held over the whole loop of sends.
NoPanic == ~panicked

\* The registry and the handlers' maps agree: a subscription that some publisher
\* may still find is registered once, under its channel, is open, and is in the
\* map of the handler that will remove it; a connection that is gone left none.
RegistryOwned ==
  \A s \in 1..Len(made) :
    /\ s \in closed <=> s \notin mine[owner(s)]
    /\ hpc[owner(s)] = "gone" => s \in closed
    /\ \A ch \in Channels :
         Cardinality({i \in DOMAIN subscriptions[ch] : subscriptions[ch][i] = s})
           = IF s \in mine[owner(s)] /\ ch = topic(s) THEN 1 ELSE 0

\* Once a handler has dropped a subscription, by UNSUBSCRIBE or at the end of the
\* connection, no message published by anybody reaches it: it can only drain.
StopsDelivery ==
  [][\A s \in 1..Len(made) : s \notin mine[owner(s)] => buf'[s] <= buf[s]]_vars

\* A connection that ends takes its subscription goroutines with it.
ReadersEnd ==
  \A s \in Subs :
    (s <= Len(made) /\ \E c \in Conns : hpc[c] = "gone" /\ made[s].conn = c)
      ~> (gpc[s] = "done")

\* A handler that has come to the registry leaves it again, with its PUBLISH sent, its
\* UNSUBSCRIBE or its teardown done, although clients may never read a message: nobody
\* who holds ps.mu waits for a subscriber (the default of the select in Publish), so a
\* client that has stopped reading holds up no other connection.
RegistryCallsReturn ==
  \A c \in Conns : (hpc[c] \in {"publish", "unsubscribe", "teardown"})
                    ~> (hpc[c] \in {"reply", "gone"})
=============================================================================
