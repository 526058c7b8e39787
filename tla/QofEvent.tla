------------------------------ MODULE QofEvent ------------------------------
(***************************************************************************)
(* The event handlers of the engine (src/libgnucash/engine/qofevent.cpp).  *)
(* qof_event_generate_internal walks the list of handlers and calls them;  *)
(* a handler is code of the rest of the program, which may register and    *)
(* unregister handlers, itself among them, and generate further events.    *)
(*                                                                         *)
(* Abstractions: a node of the list is known by its handler_id.  New nodes *)
(* go first and handler_id grows, so the list is the set of its nodes in   *)
(* descending order (handler_id is taken not to wrap round).               *)
(***************************************************************************)
EXTENDS Integers, Sequences

CONSTANTS
    Handler,   \* the functions that may be registered
    None,      \* the null function pointer
    MaxId,     \* bound: handlers registered in a behaviour, and (plus one)
               \* pending_deletes, which counts a node again when it is
               \* unregistered again
    MaxWalks   \* bound: events being delivered at the same time

ASSUME QofEventAssumption ==
    /\ None \notin Handler
    /\ MaxId \in Nat /\ MaxWalks \in Nat

VARIABLES
    handlers,         \* the nodes of the list
    handler,          \* the function of each node
    next_handler_id,
    pending_deletes,
    suspend_counter,
    walks             \* the walks in progress, the innermost first

eventVars == <<handlers, handler, next_handler_id, pending_deletes,
               suspend_counter, walks>>

Id == 1 .. MaxId

\* A walk: next_node, and the node whose handler is running; 0 is no node.
Walk == [next_node : Id \cup {0}, at : Id \cup {0}]

-----------------------------------------------------------------------------
\* The rest of the program runs: nobody walks, or the innermost walk has called
\* a handler.
MayRun == walks # <<>> => Head(walks).at # 0

\* The first node, and the one after node n.
FirstBelow(n) ==
    LET below == {m \in handlers : m < n}
    IN  IF below = {} THEN 0 ELSE CHOOSE m \in below : \A k \in below : k <= m

\* find_next_handler_id
FreeId ==
    CHOOSE i \in next_handler_id .. MaxId + 1 :
        /\ i \notin handlers
        /\ \A j \in next_handler_id .. i - 1 : j \in handlers

\* qof_event_register_handler
RegisterHandler(h) ==
    /\ MayRun
    /\ FreeId <= MaxId
    /\ handlers' = handlers \cup {FreeId}
    /\ handler' = [handler EXCEPT ![FreeId] = h]
    /\ next_handler_id' = FreeId + 1
    /\ UNCHANGED <<pending_deletes, suspend_counter, walks>>

\* Mutant of UnregisterHandler: the node is freed whether it is walked or not.
UnregisterNow(n) ==
    /\ MayRun
    /\ n \in handlers
    /\ handler' = [handler EXCEPT ![n] = None]
    /\ handlers' = handlers \ {n}
    /\ UNCHANGED <<next_handler_id, pending_deletes, suspend_counter, walks>>

\* qof_event_unregister_handler, for an id that is in the list: its node is
\* freed at once only when nobody is walking the list.
UnregisterHandler(n) ==
    /\ MayRun
    /\ n \in handlers
    /\ handler' = [handler EXCEPT ![n] = None]
    /\ IF walks = <<>>
       THEN handlers' = handlers \ {n} /\ UNCHANGED pending_deletes
       ELSE /\ pending_deletes <= MaxId
            /\ pending_deletes' = pending_deletes + 1
            /\ UNCHANGED handlers
    /\ UNCHANGED <<next_handler_id, suspend_counter, walks>>

\* qof_event_suspend, qof_event_resume (which ignores one call too many).
SuspendEvents ==
    /\ MayRun
    /\ suspend_counter < MaxWalks
    /\ suspend_counter' = suspend_counter + 1
    /\ UNCHANGED <<handlers, handler, next_handler_id, pending_deletes, walks>>

ResumeEvents ==
    /\ MayRun
    /\ suspend_counter > 0
    /\ suspend_counter' = suspend_counter - 1
    /\ UNCHANGED <<handlers, handler, next_handler_id, pending_deletes, walks>>

\* qof_event_gen, and qof_event_force, which ignores that events are suspended.
Generate(forced) ==
    /\ MayRun
    /\ forced \/ suspend_counter = 0
    /\ Len(walks) < MaxWalks
    /\ walks' = <<[next_node |-> FirstBelow(MaxId + 1), at |-> 0]>> \o walks
    /\ UNCHANGED <<handlers, handler, next_handler_id, pending_deletes,
                   suspend_counter>>

Walking == walks # <<>> /\ Head(walks).at = 0

\* Mutant of Visit: a node without a handler ends the walk.
VisitUntilDead ==
    /\ Walking
    /\ LET n == Head(walks).next_node IN
       /\ n # 0
       /\ walks' = <<[next_node |-> IF handler[n] = None THEN 0 ELSE FirstBelow(n),
                      at |-> IF handler[n] = None THEN 0 ELSE n]>> \o Tail(walks)
    /\ UNCHANGED <<handlers, handler, next_handler_id, pending_deletes,
                   suspend_counter>>

\* One round of the loop: next_node is moved on, then the handler is called, if
\* the node still has one.
Visit ==
    /\ Walking
    /\ LET n == Head(walks).next_node IN
       /\ n # 0
       /\ walks' = <<[next_node |-> FirstBelow(n),
                      at |-> IF handler[n] = None THEN 0 ELSE n]>> \o Tail(walks)
    /\ UNCHANGED <<handlers, handler, next_handler_id, pending_deletes,
                   suspend_counter>>

\* The handler the innermost walk has called returns.
Returned == <<[Head(walks) EXCEPT !.at = 0]>> \o Tail(walks)

Return ==
    /\ walks # <<>> /\ Head(walks).at # 0
    /\ walks' = Returned
    /\ UNCHANGED <<handlers, handler, next_handler_id, pending_deletes,
                   suspend_counter>>

\* The end of the walk: the outermost one deletes the nodes without a handler.
WalkDone ==
    /\ Walking /\ Head(walks).next_node = 0
    /\ walks' = Tail(walks)
    /\ IF walks' = <<>> /\ pending_deletes # 0
       THEN /\ handlers' = {n \in handlers : handler[n] # None}
            /\ pending_deletes' = 0
       ELSE UNCHANGED <<handlers, pending_deletes>>
    /\ UNCHANGED <<handler, next_handler_id, suspend_counter>>

-----------------------------------------------------------------------------
EventInit ==
    /\ handlers = {}
    /\ handler = [n \in Id |-> None]
    /\ next_handler_id = 1
    /\ pending_deletes = 0
    /\ suspend_counter = 0
    /\ walks = <<>>

WalkStep == Visit \/ WalkDone

EventNext ==
    \/ \E h \in Handler : RegisterHandler(h)
    \/ \E n \in Id : UnregisterHandler(n)
    \/ SuspendEvents \/ ResumeEvents
    \/ \E forced \in BOOLEAN : Generate(forced)
    \/ Return
    \/ WalkStep

EventSpec == EventInit /\ [][EventNext]_eventVars

-----------------------------------------------------------------------------
EventTypeOK ==
    /\ handlers \subseteq Id
    /\ handler \in [Id -> Handler \cup {None}]
    /\ next_handler_id \in 1 .. MaxId + 1
    /\ pending_deletes \in Nat
    /\ suspend_counter \in Nat
    /\ walks \in Seq(Walk)

\* qof_event_unregister_handler: "we're in the middle of walking the GList and
\* it is wrong to modify the list": what a walk still refers to is in the list,
\* at every depth of handlers that generate events and unregister each other.
WalksValid ==
    \A i \in DOMAIN walks :
        /\ walks[i].next_node \in handlers \cup {0}
        /\ walks[i].at \in handlers \cup {0}

\* qof_event_generate_internal: when nobody walks the list every node in it has
\* a handler, and none is due for deletion.
ListIsClean ==
    walks = <<>> => /\ pending_deletes = 0
                    /\ \A n \in handlers : handler[n] # None

\* The handlers and events in terms of EventDelivery.
LiveHandlers == {n \in handlers : handler[n] # None}

Owed == [i \in DOMAIN walks |-> {n \in LiveHandlers : n <= walks[i].next_node}]

D == INSTANCE EventDelivery WITH registered <- LiveHandlers, owed <- Owed

\* Handlers get what EventDelivery promises.
Delivered == D!DeliverySpec

=============================================================================
