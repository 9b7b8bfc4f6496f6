----------------------------- MODULE WriteQueue -----------------------------
(***************************************************************************)
(* What a buffered writer promises to the connections that use it          *)
(* (HttpConnection, WebSocketConnection), whatever the number of io        *)
(* threads behind it: frames go to the transport one at a time, in the     *)
(* order they were submitted, each of them once, and each frame that left  *)
(* the queue is reported to its submitter once, with the result of its own *)
(* write.  BufferedWriter is shown to implement this specification.        *)
(***************************************************************************)
EXTENDS Naturals, Sequences

CONSTANTS Frames    \* what a caller may submit, each at most once

Results == {"ok", "err"}
Reports == [frame : Frames, ec : Results]

VARIABLES
    queue,      \* frames accepted and not settled, oldest first
    wire,       \* frames given to the transport, in that order
    owed,       \* settled frames whose submitter has not been told yet
    reported    \* what the submitters have been told

vars == <<queue, wire, owed, reported>>

In(f, s) == \E i \in 1..Len(s) : s[i] = f

Init ==
    /\ queue = <<>>
    /\ wire = <<>>
    /\ owed = {}
    /\ reported = {}

\* A frame is accepted at the end of the queue.
Submit(f) ==
    /\ ~In(f, queue) /\ ~In(f, wire)
    /\ queue' = Append(queue, f)
    /\ UNCHANGED <<wire, owed, reported>>

\* The oldest frame is given to the transport, unless it already has it.
Transmit ==
    /\ queue # <<>>
    /\ ~In(Head(queue), wire)
    /\ wire' = Append(wire, Head(queue))
    /\ UNCHANGED <<queue, owed, reported>>

\* The transport is done with the oldest frame, which leaves the queue.
Settle(r) ==
    /\ queue # <<>>
    /\ In(Head(queue), wire)
    /\ queue' = Tail(queue)
    /\ owed' = owed \union {[frame |-> Head(queue), ec |-> r]}
    /\ UNCHANGED <<wire, reported>>

\* The submitter of a settled frame is told its result.
Report(o) ==
    /\ o \in owed
    /\ owed' = owed \ {o}
    /\ reported' = reported \union {o}
    /\ UNCHANGED <<queue, wire>>

Next ==
    \/ \E f \in Frames : Submit(f)
    \/ Transmit
    \/ \E r \in Results : Settle(r)
    \/ \E o \in Reports : Report(o)

Spec == Init /\ [][Next]_vars
=============================================================================
