----------------------------- MODULE TxWindow ------------------------------
(***************************************************************************)
(* What a USB transmit path promises the stack above it, without saying    *)
(* how: frames that were taken are waiting, then out on the bus, then      *)
(* done, and never the other way; at most Max of them are out at a time;   *)
(* a frame may be thrown away unsent only when the path was closed (or     *)
(* when it was never taken).  r92su_usb_tx() and its callback do this with *)
(* an atomic counter, two anchors and no lock: module UsbTx implements     *)
(* this specification.                                                     *)
(***************************************************************************)
EXTENDS Naturals, FiniteSets

CONSTANTS
  Frames,   \* the skbs that are ever handed to the driver
  Max       \* the size of the window

VARIABLES
  open,      \* frames are taken and have to be sent
  waiting,   \* taken, not given to the host controller yet
  out,       \* with the host controller
  done       \* completed, refused or thrown away

vars == <<open, waiting, out, done>>

Init == open = TRUE /\ waiting = {} /\ out = {} /\ done = {}

New(f) == f \notin waiting \cup out \cup done

\* The path takes a frame.
Take(f) ==
  /\ open /\ New(f)
  /\ waiting' = waiting \cup {f}
  /\ UNCHANGED <<open, out, done>>

\* The path refuses a frame.
Refuse(f) ==
  /\ New(f)
  /\ done' = done \cup {f}
  /\ UNCHANGED <<open, waiting, out>>

\* A waiting frame goes out, if the window is not full.
Send(f) ==
  /\ f \in waiting
  /\ Cardinality(out) < Max
  /\ waiting' = waiting \ {f}
  /\ out' = out \cup {f}
  /\ UNCHANGED <<open, done>>

\* A frame comes back.
Return(f) ==
  /\ f \in out
  /\ out' = out \ {f}
  /\ done' = done \cup {f}
  /\ UNCHANGED <<open, waiting>>

\* A frame cannot be sent: it is lost, and the path is closed.
Fail(f) ==
  /\ f \in waiting
  /\ open' = FALSE
  /\ waiting' = waiting \ {f}
  /\ done' = done \cup {f}
  /\ UNCHANGED out

\* The path is closed, for good.
Close ==
  /\ open' = FALSE
  /\ UNCHANGED <<waiting, out, done>>

\* A closed path whose frames are all back throws the waiting ones away.
Flush ==
  /\ ~open
  /\ out = {}
  /\ waiting' = {}
  /\ done' = done \cup waiting
  /\ UNCHANGED <<open, out>>

Next ==
  \/ \E f \in Frames : Take(f) \/ Refuse(f) \/ Send(f) \/ Return(f) \/ Fail(f)
  \/ Close
  \/ Flush

Spec == Init /\ [][Next]_vars

\* A frame that was taken is done one day, or the path was closed.
TakenIsDone == \A f \in Frames : f \in waiting ~> f \in done \/ ~open

=============================================================================
