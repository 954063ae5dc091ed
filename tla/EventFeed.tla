------------------------------ MODULE EventFeed ------------------------------
(***************************************************************************)
(* The traffic view of audit-sidecar: sniffer threads fill one ring of     *)
(* events for all challenge networks, the HTTP API lists it, and the page  *)
(* polls the list for its active tab.                                      *)
(*                                                                         *)
(* An event is an IP packet: its network and its number there.  A thread   *)
(* stamps what it handles one after the other, so numbers also order the   *)
(* stamps of a network.                                                    *)
(*                                                                         *)
(* Bounds: MaxPackets packets a network, MaxLists requests under way.      *)
(***************************************************************************)
EXTENDS Integers, Sequences, SequencesExt, FiniteSetsExt

CONSTANTS Network,       \* names of the networks, one interface each
          TwoAddresses,  \* those whose interface has two addresses
          MaxLen,        \* events the ring holds (500)
          Shown,         \* events an answer lists at most (200)
          MaxPackets, MaxLists

ASSUME RingAssumption == Shown \in Nat \ {0} /\ MaxLen \in Nat \ {0}
ASSUME BoundAssumption == MaxPackets \in Nat /\ MaxLists \in Nat
ASSUME NetworkAssumption == TwoAddresses \subseteq Network /\ "all" \notin Network

VARIABLES
  sniffers,  \* the threads: <<network, k>>
  seen,      \* seen[n]: packets that have passed on n
  done,      \* done[t]: how many of them thread t is through with
  EVENTS,    \* the ring, newest first
  last,      \* history: last[n] is the newest packet of n put into the ring
  since,     \* history: since[n] others were put in after it, counted up to MaxLen
  tab,       \* the page's active tab, a network or "all"
  table,     \* its table of events
  lists      \* its requests under way, in the order they were made

captureVars == <<sniffers, seen, done, EVENTS, last, since>>
tableVars   == <<tab, table, lists>>
feedVars    == <<captureVars, tableVars>>

Tab     == Network \union {"all"}
Threads == Network \X {1, 2}
Event   == Network \X (1..MaxPackets)
List    == [net : Tab, answered : BOOLEAN, rows : Seq(Event)]

FeedTypeOK ==
  /\ sniffers \subseteq Threads
  /\ seen \in [Network -> 0..MaxPackets]
  /\ done \in [Threads -> 0..MaxPackets]
  /\ EVENTS \in Seq(Event) /\ Len(EVENTS) <= MaxLen
  /\ last \in [Network -> 0..MaxPackets] /\ since \in [Network -> 0..MaxLen]
  /\ tab \in Tab
  /\ table \in Seq(Event) /\ Len(table) <= Shown
  /\ lists \in Seq(List) /\ Len(lists) <= MaxLists

-----------------------------------------------------------------------------
(* Capture                                                                  *)

\* One thread per interface, however many addresses it has.
StartPerAddress == Network \X {1} \union TwoAddresses \X {2}   \* mutant
StartSniffers == Network \X {1}

FeedInit ==
  /\ sniffers = StartSniffers
  /\ seen = [n \in Network |-> 0] /\ done = [t \in Threads |-> 0]
  /\ EVENTS = <<>>
  /\ last = [n \in Network |-> 0] /\ since = [n \in Network |-> 0]
  /\ tab = "all" /\ table = <<>> /\ lists = <<>>

Packet(n) ==
  /\ seen[n] < MaxPackets
  /\ seen' = [seen EXCEPT ![n] = @ + 1]
  /\ UNCHANGED <<sniffers, done, EVENTS, last, since, tableVars>>

PushAll(e) == <<e>> \o EVENTS   \* mutant: a ring without an end

\* deque(maxlen): what no longer fits falls out at the old end.
Push(e) == <<e>> \o (IF Len(EVENTS) < MaxLen THEN EVENTS ELSE Front(EVENTS))

\* Stamp the thread's next packet, then put it into the ring under the lock.
HandlePacket(t) ==
  LET n == t[1]  k == done[t] + 1 IN
  /\ t \in sniffers /\ done[t] < seen[n]
  /\ done' = [done EXCEPT ![t] = k]
  /\ EVENTS' = Push(<<n, k>>)
  /\ last' = [last EXCEPT ![n] = k]
  /\ since' = [m \in Network |-> IF m = n THEN 0
                                 ELSE IF since[m] < MaxLen THEN since[m] + 1 ELSE MaxLen]
  /\ UNCHANGED <<sniffers, seen, tableVars>>

\* Capture fails and is tried again 5 s later: what passed meanwhile is not captured.
SniffFails(t) ==
  /\ t \in sniffers /\ done[t] < seen[t[1]]
  /\ done' = [done EXCEPT ![t] = seen[t[1]]]
  /\ UNCHANGED <<sniffers, seen, EVENTS, last, since, tableVars>>

-----------------------------------------------------------------------------
(* The list of events: API and page                                         *)

Matches(net, e) == net = "all" \/ e[1] = net
Rows(s) == SubSeq(s, 1, Min({Shown, Len(s)}))

\* The entries of the ring that stand at S, in the order they stand there.
Picked(S) ==
  [k \in 1..Cardinality(S) |-> EVENTS[CHOOSE i \in S : Cardinality({j \in S : j <= i}) = k]]
Hits(net) == {i \in DOMAIN EVENTS : Matches(net, EVENTS[i])}

ViewCutFirst(net) == Picked(Hits(net) \cap 1..Shown)   \* mutant
View(net) == Rows(Picked(Hits(net)))

\* The list is copied under the ring's lock.
ApiEvents(i) ==
  /\ ~lists[i].answered
  /\ lists' = [lists EXCEPT ![i].answered = TRUE, ![i].rows = View(lists[i].net)]
  /\ UNCHANGED <<captureVars, tab, table>>

Room == Len(lists) < MaxLists
WithList(net) == Append(lists, [net |-> net, answered |-> FALSE, rows |-> <<>>])

\* Every two seconds, whether or not the last answer has come.
RefreshOnce ==   \* mutant: only while the table is empty
  /\ Room /\ table = <<>>
  /\ lists' = WithList(tab)
  /\ UNCHANGED <<captureVars, tab, table>>

Refresh ==
  /\ Room
  /\ lists' = WithList(tab)
  /\ UNCHANGED <<captureVars, tab, table>>

SelectTab(net) ==
  /\ Room /\ tab' = net
  /\ lists' = WithList(net)
  /\ UNCHANGED <<captureVars, table>>

\* Whatever tab an answer is for, it becomes the table; answers may overtake.
ShowTable(i) ==
  /\ lists[i].answered
  /\ table' = lists[i].rows
  /\ lists' = RemoveAt(lists, i)
  /\ UNCHANGED <<captureVars, tab>>

\* The process ends and is started again: the ring is lost and requests under way
\* fail, which leaves the page as it is.
FeedRestart ==
  /\ sniffers' = StartSniffers
  /\ done' = [t \in Threads |-> IF t \in sniffers' THEN seen[t[1]] ELSE 0]
  /\ EVENTS' = <<>>
  /\ last' = [n \in Network |-> 0] /\ since' = [n \in Network |-> 0]
  /\ lists' = <<>>
  /\ UNCHANGED <<seen, tab, table>>
=============================================================================
