--------------------------- MODULE ComponentManager ---------------------------
(***************************************************************************)
(* The component manager                                                   *)
(* (src/gnucash/gnome-utils/gnc-component-manager.c) over the event        *)
(* handlers of QofEvent.  Its handler, cm, collects the changes events     *)
(* report, and calls the refresh handlers of the components that watch     *)
(* them unless refreshing is suspended; a component is a window or dialog. *)
(*                                                                         *)
(* Event handlers, refresh handlers and close handlers are code of the     *)
(* rest of the program: one that has been called may do all that the       *)
(* program may do, raise events included.  frames and walks are the C      *)
(* stack: the frame on top is innermost when no event is being delivered   *)
(* above it.                                                               *)
(*                                                                         *)
(* Abstractions: a component is known by its component_id; new ones go     *)
(* first and ids grow, so lists of components are sets in descending       *)
(* order.  A key is an entity or a type of entity together with a kind of  *)
(* event; an event is the set of keys it is recorded under, and masks      *)
(* match when they share a key.  Every component has both handlers.        *)
(***************************************************************************)
EXTENDS QofEvent, FiniteSetsExt

CONSTANTS
    cm,            \* gnc_cm_event_handler
    Key, Event,    \* the keys, and the sets of keys that events are recorded as
    Subject,       \* the keys of each entity and of each type
    Session,       \* the sessions components belong to
    MaxComponent,  \* bound: components registered in a behaviour
    MaxCalls       \* bound: calls the rest of the program makes

CmNode == 1  \* the node of cm: it is the first handler registered

ASSUME ComponentManagerAssumption ==
    /\ cm \in Handler /\ CmNode \in Id
    /\ Event \subseteq SUBSET Key /\ Subject \subseteq SUBSET Key
    /\ Session # {}
    /\ MaxComponent \in Nat /\ MaxCalls \in Nat

VARIABLES
    components,
    session,              \* of each component
    watches,              \* watch_info of each component
    next_component_id,
    gui_suspend_counter,  \* suspend_counter
    changes,
    changes_backup,
    got_events,
    frames,               \* the loops over components, the innermost first
    event,                \* the event each walk delivers
    calls,                \* the calls of the rest of the program so far
    missed,               \* the keys each component watches that were recorded
                          \* and that it has not been told of
    late                  \* the keys recorded while the last refresh ran

registry == <<components, session, watches, next_component_id>>
collected == <<changes, changes_backup, got_events>>
cmVars == <<eventVars, registry, gui_suspend_counter, collected, frames, event,
            calls, missed, late>>

Component == 1 .. MaxComponent
\* A loop: what started it, the components still to be visited and the one
\* whose handler is running (0 is none), how many walks are below it, and the
\* suspend counter at which a handler it calls has to return.
Frame == [kind : {"event", "resume", "all", "close"},
          todo : SUBSET Component, at : Component \cup {0},
          level : 0 .. MaxWalks, base : Nat]

-----------------------------------------------------------------------------
Innermost == frames # <<>> /\ Head(frames).level = Len(walks)

\* The rest of the program runs.
ClientRuns ==
    IF Innermost THEN Head(frames).at # 0
    ELSE walks # <<>> => Head(walks).at \notin {0, CmNode}

Call == ClientRuns /\ calls < MaxCalls /\ calls' = calls + 1

Base == IF frames = <<>> THEN 0 ELSE Head(frames).base

Refreshing == \E i \in DOMAIN frames : frames[i].kind # "close"

Closing == {frames[i].at : i \in {j \in DOMAIN frames : frames[j].kind = "close"}}

\* gnc_register_gui_component and gnc_gui_component_set_session
RegisterComponent(s) ==
    /\ Call
    /\ next_component_id \in Component
    /\ components' = components \cup {next_component_id}
    /\ session' = [session EXCEPT ![next_component_id] = s]
    /\ next_component_id' = next_component_id + 1
    /\ UNCHANGED <<eventVars, watches, gui_suspend_counter, collected, frames,
                   event, missed, late>>

\* gnc_gui_component_watch_entity, gnc_gui_component_watch_entity_type: the mask
\* of a subject is replaced, which removes the watch when it is empty.
Watch(c, subject, mask) ==
    /\ Call
    /\ c \in components
    /\ watches' = [watches EXCEPT ![c] = (@ \ subject) \cup mask]
    /\ missed' = [missed EXCEPT ![c] = @ \cap watches'[c]]
    /\ UNCHANGED <<eventVars, components, session, next_component_id,
                   gui_suspend_counter, collected, frames, event, late>>

\* gnc_gui_component_clear_watches
ClearWatches(c) ==
    /\ Call
    /\ c \in components
    /\ watches' = [watches EXCEPT ![c] = {}]
    /\ missed' = [missed EXCEPT ![c] = {}]
    /\ UNCHANGED <<eventVars, components, session, next_component_id,
                   gui_suspend_counter, collected, frames, event, late>>

\* gnc_unregister_gui_component.  The handler of a component that is being
\* closed unregisters the component and what was opened from it, which is
\* newer: so gnc_close_gui_component_by_session relies on.
UnregisterComponent(c) ==
    /\ Call
    /\ c \in components
    /\ \A k \in Closing : k <= c
    /\ components' = components \ {c}
    /\ watches' = [watches EXCEPT ![c] = {}]
    /\ missed' = [missed EXCEPT ![c] = {}]
    /\ UNCHANGED <<eventVars, session, next_component_id, gui_suspend_counter,
                   collected, frames, event, late>>

\* gnc_suspend_gui_refresh
SuspendGui ==
    /\ Call
    /\ gui_suspend_counter' = gui_suspend_counter + 1
    /\ UNCHANGED <<eventVars, registry, collected, frames, event, missed, late>>

\* The start of gnc_gui_refresh_internal, at a suspend counter of 0: the tables
\* of changes are swapped and the components listed.
StartRefresh(kind, recorded) ==
    /\ gui_suspend_counter' = 1
    /\ changes' = changes_backup
    /\ changes_backup' = recorded
    /\ frames' = <<[kind |-> kind, todo |-> components, at |-> 0,
                    level |-> Len(walks), base |-> 1]>> \o frames
    /\ late' = {}

\* Mutant of ResumeGui: a call too many is not ignored.
ResumeGuiUnchecked ==
    /\ Call
    /\ gui_suspend_counter' = gui_suspend_counter - 1
    /\ UNCHANGED <<eventVars, registry, collected, frames, event, missed, late>>

\* gnc_resume_gui_refresh; code that was called back resumes what it suspended.
ResumeGui ==
    /\ Call
    /\ gui_suspend_counter > Base
    /\ IF gui_suspend_counter = 1 /\ got_events
       THEN StartRefresh("resume", changes) /\ UNCHANGED got_events
       ELSE /\ gui_suspend_counter' = gui_suspend_counter - 1
            /\ UNCHANGED <<collected, frames, late>>
    /\ UNCHANGED <<eventVars, registry, event, missed>>

\* gnc_gui_refresh_all
RefreshAll ==
    /\ Call
    /\ gui_suspend_counter = 0
    /\ StartRefresh("all", changes)
    /\ UNCHANGED <<eventVars, registry, got_events, event, missed>>

\* An object changes and generates an event; a handler is registered or
\* unregistered.
RaiseEvent(ev, forced) ==
    /\ Call
    /\ Generate(forced)
    /\ event' = <<ev>> \o event
    /\ UNCHANGED <<registry, gui_suspend_counter, collected, frames, missed, late>>

ChangeHandlers ==
    /\ Call
    /\ \/ \E h \in Handler \ {cm} : RegisterHandler(h)
       \/ \E n \in Id \ {CmNode} : UnregisterHandler(n)
       \/ SuspendEvents
       \/ ResumeEvents
    /\ UNCHANGED <<registry, gui_suspend_counter, collected, frames, event,
                   missed, late>>

-----------------------------------------------------------------------------
\* The walk over the handlers goes on, or the handler it has called returns.
DeliverOn ==
    /\ ~ Innermost
    /\ WalkStep
    /\ event' = IF Len(walks') < Len(walks) THEN Tail(event) ELSE event
    /\ UNCHANGED <<registry, gui_suspend_counter, collected, frames, calls,
                   missed, late>>

HandlerReturns ==
    /\ ~ Innermost
    /\ walks # <<>> /\ Head(walks).at # CmNode
    /\ Return
    /\ UNCHANGED <<registry, gui_suspend_counter, collected, frames, event,
                   calls, missed, late>>

Called == walks # <<>> /\ ~ Innermost /\ Head(walks).at = CmNode

\* Mutant of CmEvent: got_events is not set, so that nothing is refreshed.
CmEventQuiet ==
    /\ Called
    /\ changes' = changes \cup Head(event)
    /\ walks' = Returned
    /\ missed' = [c \in Component |-> missed[c] \cup (watches[c] \cap Head(event))]
    /\ late' = IF Refreshing THEN late \cup Head(event) ELSE late
    /\ UNCHANGED <<got_events, gui_suspend_counter, frames, changes_backup,
                   handlers, handler, next_handler_id, pending_deletes,
                   suspend_counter, registry, event, calls>>

\* gnc_cm_event_handler: it returns at once while refreshing is suspended.
CmEvent ==
    /\ Called
    /\ got_events' = TRUE
    /\ missed' = [c \in Component |-> missed[c] \cup (watches[c] \cap Head(event))]
    /\ IF gui_suspend_counter = 0
       THEN StartRefresh("event", changes \cup Head(event)) /\ UNCHANGED walks
       ELSE /\ changes' = changes \cup Head(event)
            /\ walks' = Returned
            /\ late' = IF Refreshing THEN late \cup Head(event) ELSE late
            /\ UNCHANGED <<gui_suspend_counter, frames, changes_backup>>
    /\ UNCHANGED <<handlers, handler, next_handler_id, pending_deletes,
                   suspend_counter, registry, event, calls>>

Looping(kinds) ==
    Innermost /\ Head(frames).kind \in kinds /\ Head(frames).at = 0

Refresh == {"event", "resume", "all"}

\* Moves the loop on to component c, to call its handler if that is so.
VisitComponent(c, isCalled) ==
    frames' = <<[Head(frames) EXCEPT !.todo = @ \ {c},
                                     !.at = IF isCalled THEN c ELSE 0]>>
              \o Tail(frames)

\* One round of the loop of gnc_gui_refresh_internal, the newest first.
RefreshComponent ==
    /\ Looping(Refresh)
    /\ Head(frames).todo # {}
    /\ LET c == Max(Head(frames).todo)
           forced == Head(frames).kind = "all"
           told == c \in components /\ (forced \/ watches[c] \cap changes_backup # {})
       IN  /\ VisitComponent(c, told)
           /\ missed' = [missed EXCEPT ![c] = IF ~ told THEN @
                                              ELSE IF forced THEN {}
                                              ELSE @ \ changes_backup]
    /\ UNCHANGED <<eventVars, registry, gui_suspend_counter, collected, event,
                   calls, late>>

\* The refresh or close handler the innermost loop has called returns, with the
\* suspend counter it was called with.
ComponentReturns ==
    /\ Innermost /\ Head(frames).at # 0
    /\ gui_suspend_counter = Base
    /\ frames' = <<[Head(frames) EXCEPT !.at = 0]>> \o Tail(frames)
    /\ UNCHANGED <<eventVars, registry, gui_suspend_counter, collected, event,
                   calls, missed, late>>

\* Mutant of RefreshDone: all collected changes are cleared.
RefreshDoneClearing ==
    /\ Looping(Refresh)
    /\ Head(frames).todo = {}
    /\ changes' = {} /\ changes_backup' = {}
    /\ got_events' = FALSE
    /\ gui_suspend_counter' = gui_suspend_counter - 1
    /\ frames' = Tail(frames)
    /\ walks' = IF Head(frames).kind = "event" THEN Returned ELSE walks
    /\ UNCHANGED <<handlers, handler, next_handler_id, pending_deletes,
                   suspend_counter, registry, event, calls, missed, late>>

\* The end of gnc_gui_refresh_internal.  The resume with which it ends finds
\* got_events cleared and starts no other refresh.  With it cm returns, if an
\* event started the refresh.
RefreshDone ==
    /\ Looping(Refresh)
    /\ Head(frames).todo = {}
    /\ changes_backup' = {}
    /\ got_events' = FALSE
    /\ gui_suspend_counter' = gui_suspend_counter - 1
    /\ frames' = Tail(frames)
    /\ walks' = IF Head(frames).kind = "event" THEN Returned ELSE walks
    /\ UNCHANGED <<handlers, handler, next_handler_id, pending_deletes,
                   suspend_counter, registry, changes, event, calls, missed, late>>

\* gnc_close_gui_component_by_session lists the components of a session, the
\* newest first, and closes each; sessions are closed one at a time.
CloseBySession(s) ==
    /\ Call
    /\ \A i \in DOMAIN frames : frames[i].kind # "close"
    /\ frames' = <<[kind |-> "close", todo |-> {c \in components : session[c] = s},
                    at |-> 0, level |-> Len(walks), base |-> gui_suspend_counter]>>
                 \o frames
    /\ UNCHANGED <<eventVars, registry, gui_suspend_counter, collected, event,
                   missed, late>>

\* Mutant of CloseComponent: the list is not reversed.
CloseOldest ==
    /\ Looping({"close"})
    /\ Head(frames).todo # {}
    /\ VisitComponent(Min(Head(frames).todo), TRUE)
    /\ UNCHANGED <<eventVars, registry, gui_suspend_counter, collected, event,
                   calls, missed, late>>

CloseComponent ==
    /\ Looping({"close"})
    /\ Head(frames).todo # {}
    /\ VisitComponent(Max(Head(frames).todo), TRUE)
    /\ UNCHANGED <<eventVars, registry, gui_suspend_counter, collected, event,
                   calls, missed, late>>

CloseDone ==
    /\ Looping({"close"})
    /\ Head(frames).todo = {}
    /\ frames' = Tail(frames)
    /\ UNCHANGED <<eventVars, registry, gui_suspend_counter, collected, event,
                   calls, missed, late>>

-----------------------------------------------------------------------------
\* gnc_component_manager_init has run.
CmInit ==
    /\ handlers = {CmNode}
    /\ handler = [n \in Id |-> IF n = CmNode THEN cm ELSE None]
    /\ next_handler_id = CmNode + 1
    /\ pending_deletes = 0 /\ suspend_counter = 0 /\ walks = <<>>
    /\ components = {} /\ next_component_id = 1
    /\ session = [c \in Component |-> CHOOSE s \in Session : TRUE]
    /\ watches = [c \in Component |-> {}]
    /\ gui_suspend_counter = 0
    /\ changes = {} /\ changes_backup = {} /\ got_events = FALSE
    /\ frames = <<>> /\ event = <<>>
    /\ calls = 0
    /\ missed = [c \in Component |-> {}] /\ late = {}

CmNext ==
    \/ \E s \in Session : RegisterComponent(s) \/ CloseBySession(s)
    \/ \E c \in Component :
         \/ UnregisterComponent(c) \/ ClearWatches(c)
         \/ \E subject \in Subject : \E mask \in SUBSET subject :
                Watch(c, subject, mask)
    \/ SuspendGui \/ ResumeGui \/ RefreshAll
    \/ \E ev \in Event, forced \in BOOLEAN : RaiseEvent(ev, forced)
    \/ ChangeHandlers
    \/ DeliverOn \/ HandlerReturns \/ CmEvent
    \/ RefreshComponent \/ ComponentReturns \/ RefreshDone
    \/ CloseComponent \/ CloseDone

CmSpec == CmInit /\ [][CmNext]_cmVars

-----------------------------------------------------------------------------
CmTypeOK ==
    /\ EventTypeOK
    /\ components \subseteq Component
    /\ session \in [Component -> Session]
    /\ watches \in [Component -> SUBSET Key]
    /\ next_component_id \in 1 .. MaxComponent + 1
    /\ gui_suspend_counter \in Nat
    /\ changes \subseteq Key /\ changes_backup \subseteq Key
    /\ got_events \in BOOLEAN
    /\ frames \in Seq(Frame)
    /\ event \in Seq(Event) /\ Len(event) = Len(walks)
    /\ calls \in 0 .. MaxCalls
    /\ missed \in [Component -> SUBSET Key] /\ late \subseteq Key

\* The components a refresh in progress has still to visit.
ToVisit == UNION {frames[i].todo : i \in {j \in DOMAIN frames :
                                            frames[j].kind \in Refresh}}

\* gnc_gui_refresh_internal swaps and clears the tables of changes while
\* handlers raise further events: no change a component watches is lost before
\* the component is told of it.
NothingLost ==
    \A c \in components :
        missed[c] \subseteq changes \cup (IF c \in ToVisit THEN changes_backup ELSE {})

AtRest == frames = <<>> /\ walks = <<>> /\ gui_suspend_counter = 0

\* gnc_component_manager: when nothing runs and refreshing is not suspended,
\* the components have been told of every change but those made while the last
\* refresh ran, whose events RefreshDone forgets.
ShownPromptly == AtRest => \A c \in components : missed[c] \subseteq late

\* gnc_close_gui_component_by_session keeps pointers to components while close
\* handlers unregister, and free, some of them: those still to be closed exist.
CloseValid ==
    \A i \in DOMAIN frames :
        frames[i].kind = "close" => frames[i].todo \subseteq components

=============================================================================
