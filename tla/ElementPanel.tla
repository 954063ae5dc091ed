----------------------------- MODULE ElementPanel -----------------------------
(***************************************************************************)
(* The element view of audit-sidecar: the page asks the HTTP API to read   *)
(* or write a protocol element, the API asks the challenge's device.  One  *)
(* writable coil stands for all elements: neither the page nor the devices *)
(* share anything between them, and the page offers no write of a          *)
(* read-only one.                                                          *)
(*                                                                         *)
(* Bound: MaxAsks requests for the element under way.                      *)
(***************************************************************************)
EXTENDS Integers, Sequences, SequencesExt

CONSTANT MaxAsks

ASSUME AsksAssumption == MaxAsks \in Nat

VARIABLES
  device,  \* the element in its device
  shown,   \* what the page shows for it
  asks,    \* the page's requests for it under way, in the order they were made
  sure     \* history: nothing makes the value on the page doubtful

panelVars == <<device, shown, asks, sure>>

Bit == {"0", "1"}
Ask == [op : {"read", "write"}, arg : Bit \union {"junk", "-"},
        reply : Bit \union {"none", "ok", "err"}]

PanelTypeOK ==
  /\ device \in Bit /\ shown \in Bit \union {"-", "...", "err"}
  /\ asks \in Seq(Ask) /\ Len(asks) <= MaxAsks
  /\ sure \in BOOLEAN

PanelInit == device \in Bit /\ shown = "-" /\ asks = <<>> /\ sure = TRUE

-----------------------------------------------------------------------------
\* What the API makes of a text typed for a coil: bool(int(float(value))), or an
\* error (no number, or nothing at all) that no device hears of.
Converted(text) ==
  IF text \in {"", "yes"} THEN "junk" ELSE IF text \in {"0", "0.5"} THEN "0" ELSE "1"
Typed == {"", "yes", "0", "0.5", "1"}

WithAsk(op, arg) == Append(asks, [op |-> op, arg |-> arg, reply |-> "none"])

DoRead ==
  /\ Len(asks) < MaxAsks
  /\ shown' = "..."
  /\ asks' = WithAsk("read", "-")
  /\ sure' = (asks = <<>>)
  /\ UNCHANGED device

DoWrite ==
  /\ Len(asks) < MaxAsks
  /\ \E text \in Typed : asks' = WithAsk("write", Converted(text))
  /\ sure' = (sure /\ asks = <<>>)
  /\ UNCHANGED <<device, shown>>

Waiting(i, op) == asks[i].op = op /\ asks[i].reply = "none"
Reply(i, r) == asks' = [asks EXCEPT ![i].reply = r]

ReadElement(i) ==
  /\ Waiting(i, "read")
  /\ Reply(i, device)
  /\ UNCHANGED <<device, shown, sure>>

WriteElement(i) ==
  /\ Waiting(i, "write") /\ asks[i].arg \in Bit
  /\ device' = asks[i].arg
  /\ Reply(i, "ok")
  /\ UNCHANGED <<shown, sure>>

ErrorForgotten(i) ==   \* mutant: the error of a write is not returned
  /\ asks[i].reply = "none"
  /\ Reply(i, IF asks[i].op = "write" THEN "ok" ELSE "err")
  /\ UNCHANGED <<device, shown, sure>>

\* No connection, a refusal, a text that is no number, or the answer of the device
\* is lost, after a write that was carried out or not.
ElementFails(i) ==
  /\ asks[i].reply = "none"
  /\ Reply(i, "err")
  /\ device' \in IF asks[i].arg \in Bit THEN {device, asks[i].arg} ELSE {device}
  /\ UNCHANGED <<shown, sure>>

\* Answers reach the page in any order.
ShowValue(i) ==
  /\ asks[i].op = "read" /\ asks[i].reply # "none"
  /\ shown' = asks[i].reply
  /\ asks' = RemoveAt(asks, i)
  /\ UNCHANGED <<device, sure>>

\* A successful write is followed by a read; a failed one by an alert only.
WrittenIsShown(i) ==   \* mutant: the page reads nothing back
  /\ asks[i].op = "write" /\ asks[i].reply = "ok"
  /\ asks' = RemoveAt(asks, i)
  /\ UNCHANGED <<device, shown, sure>>

Written(i) ==
  /\ asks[i].op = "write" /\ asks[i].reply = "ok"
  /\ shown' = "..."
  /\ asks' = Append(RemoveAt(asks, i), [op |-> "read", arg |-> "-", reply |-> "none"])
  /\ sure' = (Len(asks) = 1)
  /\ UNCHANGED device

WriteFailed(i) ==
  /\ asks[i].op = "write" /\ asks[i].reply = "err"
  /\ asks' = RemoveAt(asks, i)
  /\ sure' = FALSE
  /\ UNCHANGED <<device, shown>>

\* Another client or the challenge's own program writes the element, or the device
\* comes late to a write that was reported as failed.
OtherWrite ==
  /\ device' \in Bit \ {device}
  /\ sure' = FALSE
  /\ UNCHANGED <<shown, asks>>

\* The sidecar ends and is started again: requests under way fail, and nothing
\* replaces what the page shows.
PanelRestart ==
  /\ asks' = <<>>
  /\ sure' = (sure /\ asks = <<>>)
  /\ UNCHANGED <<device, shown>>
=============================================================================
