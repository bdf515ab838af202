------------------------------ MODULE ClusterCli ------------------------------
(***************************************************************************)
(* ember-cli --create-cluster and --cluster-add-node on nodes that run the *)
(* cluster bus, and what CLUSTER SLOTS answers then.                       *)
(*                                                                         *)
(* A call of the CLI is a job: the command and its nodes.  The first node  *)
(* is the one told to meet the others: the first of a new cluster, or the  *)
(* node that is added.  Jobs come one after the other.                     *)
(***************************************************************************)
EXTENDS ClusterBus

CONSTANTS Jobs,       \* calls of the CLI, in this order
          MaxBroken   \* bound: connections of the CLI that break

ASSUME ClusterCliAssumption ==
  /\ Jobs \in Seq([cmd : {"create", "add"}, nodes : Seq(Node)])
  /\ \A j \in 1 .. Len(Jobs) :
       /\ Len(Jobs[j].nodes) \in 2 .. CLUSTER_SLOTS
       /\ \A i \in 2 .. Len(Jobs[j].nodes) :
            Jobs[j].cmd = "add" \/ Len(Jobs[j].nodes) >= 3
              => <<Jobs[j].nodes[1], Jobs[j].nodes[i], j>> \in Meets
  /\ MaxBroken \in Nat

VARIABLES job,      \* number of the job
          cpc,      \* where the CLI is in it
          pos,      \* index of the node it talks to or lets the first node meet
          first,    \* the next slot to be dealt
          broken,   \* nodes the CLI has lost its connection to
          breaks,   \* how often it has lost one
          clean,    \* whether no request of this job has failed
          outcome   \* history: how each job ended

cliVars == <<job, cpc, pos, first, broken, breaks, clean, outcome>>
vars == <<busVars, cliVars>>

Init ==
  /\ BusInit
  /\ job = 0 /\ cpc = "idle" /\ pos = 0 /\ first = 0
  /\ broken = {} /\ breaks = 0 /\ clean = TRUE /\ outcome = <<>>
-----------------------------------------------------------------------------
(* The CLI *)

List == Jobs[job].nodes
Bootstrap == List[1]
Creating == Jobs[job].cmd = "create"
TheLink == <<Bootstrap, List[pos], job>>

\* The CLI has a connection to node n that works.
Connected(n) == n \in alive /\ n \notin broken

End(result) ==
  /\ outcome' = Append(outcome, result)
  /\ cpc' = "idle" /\ pos' = 0 /\ first' = 0 /\ broken' = {} /\ clean' = TRUE
  /\ UNCHANGED <<job, breaks>>

\* A new call of the CLI; a cluster needs three nodes.
StartJob ==
  /\ cpc = "idle" /\ job < Len(Jobs)
  /\ job' = job + 1
  /\ \/ /\ Jobs[job + 1].cmd = "create" /\ Len(Jobs[job + 1].nodes) < 3
        /\ outcome' = Append(outcome, "refused")
        /\ UNCHANGED <<cpc, pos, first, broken, breaks, clean>>
     \/ /\ Jobs[job + 1].cmd = "add" \/ Len(Jobs[job + 1].nodes) >= 3
        /\ cpc' = "dial" /\ pos' = 1
        /\ UNCHANGED <<first, broken, breaks, clean, outcome>>
  /\ UNCHANGED busVars

\* Dials the next node and asks for its address; all nodes before anything is changed
\* on one of them, only the first if it is to be added.
DialNode ==
  /\ cpc = "dial"
  /\ \/ Connected(List[pos]) /\ Creating /\ pos < Len(List)
        /\ pos' = pos + 1
        /\ UNCHANGED <<job, cpc, first, broken, breaks, clean, outcome>>
     \/ Connected(List[pos]) /\ Creating /\ pos = Len(List)
        /\ cpc' = "slots" /\ pos' = 1
        /\ UNCHANGED <<job, first, broken, breaks, clean, outcome>>
     \/ Connected(List[pos]) /\ ~Creating
        /\ cpc' = "meet" /\ pos' = 0
        /\ UNCHANGED <<job, first, broken, breaks, clean, outcome>>
     \/ ~Connected(List[pos]) /\ End("error")
  /\ UNCHANGED busVars

\* math.Round of a / b, for a that is not negative.
Round(a, b) == (2 * a + b) \div (2 * b)

\* Mutant: the last node gets as many slots as the others.
MutLast(i, count, from) == Max({from, Round(i * CLUSTER_SLOTS - count, count) - 1})

\* The last slot of the i-th of count nodes, whose first one is from; slotsPerNode is
\* the quotient CLUSTER_SLOTS / count, cursor its (i - 1)-fold.
Last(i, count, from) ==
  LET rounded == Round(i * CLUSTER_SLOTS - count, count)
      last == IF rounded > CLUSTER_SLOTS \/ i = count THEN CLUSTER_SLOTS - 1 ELSE rounded
  IN  Max({from, last})

\* Mutant: an error is forgotten.
MutDealSlots ==
  /\ cpc = "slots"
  /\ LET last == Last(pos, Len(List), first)
         n == List[pos]
     IN  /\ \/ n \in alive /\ AddSlotsRange(n, first, last)
            \/ ~Connected(n) /\ UNCHANGED busVars
         /\ first' = last + 1
  /\ IF pos < Len(List) THEN pos' = pos + 1 /\ UNCHANGED cpc
                        ELSE pos' = 0 /\ cpc' = "meet"
  /\ UNCHANGED <<job, broken, breaks, clean, outcome>>

\* CLUSTER ADDSLOTSRANGE to the next node.  An error is printed and the loop goes on; the
\* request may have reached a node whose reply is lost.
DealSlots ==
  /\ cpc = "slots"
  /\ LET last == Last(pos, Len(List), first)
         n == List[pos]
     IN  /\ \/ n \in alive /\ AddSlotsRange(n, first, last)
            \/ ~Connected(n) /\ UNCHANGED busVars
         /\ first' = last + 1
         /\ clean' = (clean /\ Connected(n))
  /\ IF pos < Len(List) THEN pos' = pos + 1 /\ UNCHANGED cpc
                        ELSE pos' = 0 /\ cpc' = "meet"
  /\ UNCHANGED <<job, broken, breaks, outcome>>

\* Asks the first node to meet the i-th one ...
Meet(i) ==
  /\ ClusterStartHandshake(<<Bootstrap, List[i], job>>)
  /\ cpc' = "wait" /\ pos' = i
  /\ UNCHANGED <<job, first, broken, breaks, clean, outcome>>

FirstMeet ==
  /\ cpc = "meet"
  /\ \/ Connected(Bootstrap) /\ Meet(2)
     \/ ~Connected(Bootstrap) /\ End("error") /\ UNCHANGED busVars

\* ... and waits until its dial has succeeded or failed.
MeetReply ==
  /\ cpc = "wait"
  /\ \/ Connected(Bootstrap) /\ link[TheLink] = "open" /\ pos < Len(List) /\ Meet(pos + 1)
     \/ /\ Connected(Bootstrap) /\ link[TheLink] = "open" /\ pos = Len(List)
        /\ End(IF clean THEN "ok" ELSE "incomplete") /\ UNCHANGED busVars
     \/ /\ ~Connected(Bootstrap) \/ link[TheLink] = "failed"
        /\ End("error") /\ UNCHANGED busVars

\* A connection of the CLI breaks.
Break ==
  /\ cpc # "idle" /\ breaks < MaxBroken
  /\ breaks' = breaks + 1
  /\ \E n \in Range(List) \ broken : broken' = broken \cup {n}
  /\ UNCHANGED <<busVars, job, cpc, pos, first, clean, outcome>>

Cli == StartJob \/ DialNode \/ DealSlots \/ FirstMeet \/ MeetReply
-----------------------------------------------------------------------------
(* CLUSTER SLOTS *)

\* What GetSlotOwner may return at node n: Self first, else any object in the map, in
\* the random order of a Go map.
GetSlotOwner(n, s) ==
  IF s \in owned[n] THEN {Self} ELSE {r \in Range(nodes[n]) \cap Meets : s \in bitmap[r][n]}

Known(n) == {s \in Slot : GetSlotOwner(n, s) # {}}

\* Mutant: a range ends one slot late.
MutRangeEnd(n, start) ==
  LET end[e \in Slot] == IF e + 1 \in Slot /\ GetSlotOwner(n, e) = GetSlotOwner(n, start)
                         THEN end[e + 1] ELSE e
  IN  end[start]

\* clusterSlots: the inner loop extends a range while the owner is the same object.
RangeEnd(n, start) ==
  LET end[e \in Slot] == IF e + 1 \in Slot /\ GetSlotOwner(n, e + 1) = GetSlotOwner(n, start)
                         THEN end[e + 1] ELSE e
  IN  end[start]

\* clusterSlots: the outer loop, from a slot on.
clusterSlots(n) ==
  LET ranges[start \in 0 .. CLUSTER_SLOTS] ==
        IF start = CLUSTER_SLOTS THEN <<>>
        ELSE IF GetSlotOwner(n, start) = {} THEN ranges[start + 1]
        ELSE LET end == RangeEnd(n, start)
             IN  <<<<start, end, GetSlotOwner(n, start)>>>> \o ranges[end + 1]
  IN  ranges[0]
-----------------------------------------------------------------------------
(* The specification *)

Next == (Cli \/ Break) \/ (BusStep /\ UNCHANGED cliVars)

Spec == Init /\ [][Next]_vars

\* The CLI and the goroutines run; the cron goroutine draws a random node every second,
\* so a link it may draw again and again is drawn.
Fairness ==
  /\ WF_vars(Cli)
  /\ \A l \in Meets :
       /\ WF_vars((DialFails(l) \/ DialOk(l)) /\ UNCHANGED cliVars)
       /\ SF_vars(ClusterCron(l[1], l) /\ UNCHANGED cliVars)
       /\ \A n \in Ends(l) :
            /\ WF_vars(ProcessSender(l, n) /\ UNCHANGED cliVars)
            /\ WF_vars(ProcessGossip(l, n) /\ UNCHANGED cliVars)

FairSpec == Spec /\ Fairness
-----------------------------------------------------------------------------
(* Properties *)

Owners(s) == {n \in Node : s \in owned[n]}

\* main.go:393-460: when every ADDSLOTSRANGE of --create-cluster was answered with OK, each
\* slot has exactly one owner and no node has two slots more than another, also if an
\* earlier call with the same nodes broke off anywhere.
SlotsDealt ==
  cpc \in {"meet", "wait"} /\ Creating /\ clean =>
    /\ \A s \in Slot : Cardinality(Owners(s)) = 1
    /\ \A m, n \in Range(List) : Cardinality(owned[m]) <= Cardinality(owned[n]) + 1

\* commands_cluster.go:16-34: a node that redirects a client names the only node that has
\* the slot, however calls broke off and whichever link's message came in last.
RedirectsRight ==
  \A n \in Node : \A s \in Slot : \A r \in GetSlotOwner(n, s) \ {Self} :
    Owners(s) = {Peer(r, n)}

\* commands_cluster.go:36-53: CLUSTER SLOTS gives the maximal ranges of slots with the same
\* owner, each once and in ascending order, and no other slots.
RangesExact ==
  \A n \in Node :
    LET rs == clusterSlots(n)
        Uniform(a, b) == \A s \in a .. b : GetSlotOwner(n, s) = GetSlotOwner(n, a)
        maximal == {r \in Slot \X Slot :
                      /\ r[1] <= r[2] /\ r[1] \in Known(n) /\ Uniform(r[1], r[2])
                      /\ r[1] > 0 => ~Uniform(r[1] - 1, r[2])
                      /\ r[2] + 1 \in Slot => ~Uniform(r[1], r[2] + 1)}
    IN  /\ {<<rs[i][1], rs[i][2]>> : i \in DOMAIN rs} = maximal
        /\ \A i \in 1 .. Len(rs) - 1 : rs[i][2] < rs[i + 1][1]

\* A --create-cluster that reports no error makes a cluster: from some time on the first
\* node knows an owner of every slot, the others know their own and the first one's.
ClusterServes ==
  <>[](\A j \in DOMAIN outcome :
         LET list == Jobs[j].nodes
         IN  Jobs[j].cmd = "create" /\ outcome[j] = "ok" =>
               /\ Known(list[1]) = Slot
               /\ \A i \in 2 .. Len(list) : owned[list[1]] \subseteq Known(list[i]))
=============================================================================
