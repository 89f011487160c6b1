---------------------------- MODULE ResponseStream ----------------------------
(***************************************************************************)
(* What ext/ant_ext/ant_ext.c and lib/ant/response_callbacks.rb promise of  *)
(* the device's responses, with no shared buffer, call, thread or block in  *)
(* it: a response is taken when the one before it has been dealt with, in   *)
(* the order in which they were sent, and only once; and the variables of   *)
(* Ant are set only from the response that is being dealt with, under the   *)
(* name of what it answers or acknowledges. ResponseDelivery implements it  *)
(* (see ResponseDelivery_Refinement).                                       *)
(***************************************************************************)
EXTENDS Sequences

CONSTANTS
    Answers,   \* the kinds of answers that are stored
    Messages,  \* the responses: records with at least an id and an about
    NULL

VARIABLES
    coming,    \* the responses that nobody has looked at yet
    current,   \* the one that is being dealt with, or NULL
    stored     \* stored[a]: the response whose data is in Ant's variable for a

rvars == <<coming, current, stored>>

Init ==
    /\ coming = <<>>
    /\ current = NULL
    /\ stored = [a \in Answers |-> NULL]

\* Any response may come.
Arrive ==
    /\ UNCHANGED <<current, stored>>
    /\ \E m \in Messages : coming' = Append(coming, m)

\* The first of them is passed over, since nobody has asked for responses, or taken.
PassOver ==
    /\ current = NULL /\ coming # <<>>
    /\ coming' = Tail(coming)
    /\ UNCHANGED <<current, stored>>

Take ==
    /\ current = NULL /\ coming # <<>>
    /\ current' = Head(coming)
    /\ coming' = Tail(coming)
    /\ UNCHANGED stored

\* It is dealt with: it may be an answer, and that may be stored.
Drop == current' = NULL /\ UNCHANGED <<coming, stored>>

Keep(a) ==
    /\ current # NULL /\ a \in {current.id, current.about}
    /\ stored' = [stored EXCEPT ![a] = current]
    /\ current' = NULL
    /\ UNCHANGED coming

Next ==
    \/ PassOver \/ Take \/ Drop
    \/ \E a \in Answers : Keep(a)
    \/ Arrive

Spec == Init /\ [][Next]_rvars

=============================================================================
