---------------------------- MODULE RecvService -----------------------------
(***************************************************************************)
(* What a receive queue promises its consumer and its peer: receives are   *)
(* matched with frames in order, and a matched pair is reported once, in   *)
(* order.  There is no ring, no index, no poll and no copy here.           *)
(***************************************************************************)
EXTENDS Naturals, Sequences

CONSTANTS
    Requests,   \* receive work requests
    Frames      \* incoming messages

VARIABLES
    pending,    \* receives posted and not reported, oldest first
    inbox,      \* frames sent to them and not reported, oldest first
    done        \* the reports, [wr_id, data]

vars == <<pending, inbox, done>>

Init == pending = << >> /\ inbox = << >> /\ done = << >>

Post(w) ==
    /\ pending' = Append(pending, w)
    /\ UNCHANGED <<inbox, done>>

\* A peer sends to a receive that is posted.
Arrive(f) ==
    /\ Len(inbox) < Len(pending)
    /\ inbox' = Append(inbox, f)
    /\ UNCHANGED <<pending, done>>

Complete ==
    /\ inbox # << >>
    /\ done' = Append(done, [wr_id |-> Head(pending), data |-> Head(inbox)])
    /\ pending' = Tail(pending)
    /\ inbox' = Tail(inbox)

Next ==
    \/ \E w \in Requests : Post(w)
    \/ \E f \in Frames : Arrive(f)
    \/ Complete

Spec == Init /\ [][Next]_vars

\* A frame that arrived is reported.
FairSpec == Spec /\ WF_vars(Complete)
=============================================================================
