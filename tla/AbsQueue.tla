------------------------------ MODULE AbsQueue ------------------------------
(***************************************************************************)
(* What the send queue of a radio (src/radio/Radio_Encoder.c) promises its *)
(* callers: a message is accepted once, behind the messages that wait or,  *)
(* if it is urgent, in front of them; the first one is taken, kept for a   *)
(* while and sent.  The promise ends when operations overlap or the arrays *)
(* are full (broken).                                                      *)
(***************************************************************************)
EXTENDS Naturals, Sequences

CONSTANTS
    Msgs,    \* the messages
    None,    \* no message
    Size     \* how many messages may wait

VARIABLES
    pending,   \* the messages that wait, in the order in which they are sent
    hand,      \* the message taken and not yet sent, or None
    accepted,  \* the messages accepted so far
    sent,      \* the messages sent, in order
    broken     \* the promise has ended

vars == <<pending, hand, accepted, sent, broken>>

Init ==
    /\ pending = << >> /\ hand = None
    /\ accepted = {} /\ sent = << >> /\ broken = FALSE

Accept(m) ==
    /\ m \notin accepted /\ Len(pending) < Size
    /\ accepted' = accepted \cup {m}
    /\ UNCHANGED <<hand, sent, broken>>

Enqueue(m) == Accept(m) /\ pending' = Append(pending, m)

UrgentEnqueue(m) == Accept(m) /\ pending' = <<m>> \o pending

Take ==
    /\ pending # << >> /\ hand = None
    /\ hand' = Head(pending)
    /\ pending' = Tail(pending)
    /\ UNCHANGED <<accepted, sent, broken>>

Send ==
    /\ hand # None
    /\ sent' = Append(sent, hand)
    /\ hand' = None
    /\ UNCHANGED <<pending, accepted, broken>>

(* From here on anything may happen. *)
Break == broken' = TRUE

Next ==
    \/ \E m \in Msgs : Enqueue(m) \/ UrgentEnqueue(m)
    \/ Take \/ Send \/ Break

Spec == Init /\ [][Next]_vars
=============================================================================
