---------------------------- MODULE EventDelivery ----------------------------
(***************************************************************************)
(* What registering an event handler promises: an event goes to every      *)
(* handler that was registered when it was generated, the newest first, to *)
(* each once, to none that has unregistered in the meantime or registered  *)
(* since, and an event generated by a handler is delivered before the one  *)
(* the handler was called for goes on.                                     *)
(***************************************************************************)
EXTENDS Integers, Sequences

VARIABLES
    registered,  \* the handlers, numbered in the order they registered
    owed         \* of each event being delivered, the latest first, the
                 \* handlers that are still to get it

InitDelivery ==
    /\ registered \subseteq Nat
    /\ owed = <<>>

Registration ==
    /\ \E h \in registered' :
         /\ \A g \in registered : g < h
         /\ registered' = registered \cup {h}
    /\ UNCHANGED owed

Unregistration ==
    \E h \in registered :
        /\ registered' = registered \ {h}
        /\ owed' = [i \in DOMAIN owed |-> owed[i] \ {h}]

Generation ==
    /\ owed' = <<registered>> \o owed
    /\ UNCHANGED registered

Delivery ==
    /\ owed # <<>>
    /\ \E h \in Head(owed) :
         /\ \A g \in Head(owed) : g <= h
         /\ owed' = <<Head(owed) \ {h}>> \o Tail(owed)
    /\ UNCHANGED registered

Completion ==
    /\ owed # <<>> /\ Head(owed) = {}
    /\ owed' = Tail(owed)
    /\ UNCHANGED registered

NextDelivery ==
    Registration \/ Unregistration \/ Generation \/ Delivery \/ Completion

DeliverySpec == InitDelivery /\ [][NextDelivery]_<<registered, owed>>

=============================================================================
