----------------------------- MODULE AuditSidecar -----------------------------
(***************************************************************************)
(* audit-sidecar as a whole: the traffic view (EventFeed) and the element  *)
(* view (ElementPanel), served by one process and shown by one page.  They *)
(* share nothing but the process's end, so a behaviour exercises one of    *)
(* them (use), which keeps the state space a sum instead of a product.     *)
(***************************************************************************)
EXTENDS EventFeed, ElementPanel

VARIABLE use

vars == <<feedVars, panelVars, use>>

TypeOK == FeedTypeOK /\ PanelTypeOK /\ use \in {"traffic", "element"}

Init == FeedInit /\ PanelInit /\ use \in {"traffic", "element"}

Traffic(A) == use = "traffic" /\ A /\ UNCHANGED <<panelVars, use>>
Element(A) == use = "element" /\ A /\ UNCHANGED <<feedVars, use>>

Handle(t) == Traffic(HandlePacket(t))
Serve     == Traffic(\E i \in DOMAIN lists : ApiEvents(i))
Arrive    == Traffic(\E i \in DOMAIN lists : ShowTable(i))
Poll      == Traffic(Refresh)
Answer    == Element(\E i \in DOMAIN asks : ReadElement(i) \/ WriteElement(i) \/ ElementFails(i))
Deliver   == Element(\E i \in DOMAIN asks : ShowValue(i) \/ Written(i) \/ WriteFailed(i))
Restart   == FeedRestart /\ PanelRestart /\ UNCHANGED use

Next ==
  \/ \E n \in Network : Traffic(Packet(n))
  \/ \E t \in Threads : Handle(t) \/ Traffic(SniffFails(t))
  \/ \E net \in Tab : Traffic(SelectTab(net))
  \/ Poll \/ Serve \/ Arrive
  \/ Element(DoRead) \/ Element(DoWrite) \/ Element(OtherWrite)
  \/ Answer \/ Deliver
  \/ Restart

Spec == Init /\ [][Next]_vars

\* Threads, the server and the page's handlers run on.  The page's timer waits for
\* nothing (MaxLists is a bound of the model, hence SF).
FairSpec ==
  /\ Spec
  /\ \A t \in Threads : WF_vars(Handle(t))
  /\ WF_vars(Serve) /\ WF_vars(Arrive) /\ WF_vars(Answer) /\ WF_vars(Deliver)
  /\ SF_vars(Poll)

-----------------------------------------------------------------------------
\* No packet is in the ring twice, and those of a network stand in the order of
\* their stamps, newest first, although stamps are taken outside the lock: each
\* interface has one thread.  Across networks the ring has no such order.
NewestFirst ==
  \A i, j \in DOMAIN EVENTS :
    i < j /\ EVENTS[i][1] = EVENTS[j][1] => EVENTS[i][2] > EVENTS[j][2]

\* A quiet network stays visible on its tab until MaxLen packets of others have
\* pushed its last one out, however few events an answer may list.
QuietVisible ==
  \A n \in Network :
    last[n] > 0 /\ since[n] < MaxLen => View(n) # <<>> /\ Head(View(n)) = <<n, last[n]>>

\* Answers for the tab of before, or from before a restart, may overwrite the table;
\* once traffic and the user are quiet, polling makes it the ring's for good.
Quiet == <>[][UNCHANGED <<seen, tab>>]_vars /\ <>[][~Restart]_vars
TableFollows == Quiet => <>[](table = View(tab))

\* The value on the page is the device's, unless the page had a second request for
\* the element under way, one was cut off, a write was reported as failed, or
\* someone else wrote.
ShownTrue == sure /\ asks = <<>> => shown \in {"-", "err", device}

\* A write reported as done was carried out with the value the text stands for.
OkMeansWritten ==
  sure => \A i \in DOMAIN asks :
            asks[i].op = "write" /\ asks[i].reply = "ok" => device = asks[i].arg
=============================================================================
