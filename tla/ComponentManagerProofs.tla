------------------------ MODULE ComponentManagerProofs ------------------------
(***************************************************************************)
(* Theorems about QofEvent, and about ComponentManager above it.           *)
(*                                                                         *)
(* QofEvent: a node leaves the list only when nobody walks it, either      *)
(* because it is unregistered then or because the outermost walk deletes   *)
(* it, so that what a walk refers to stays in the list; and                *)
(* pending_deletes is not zero as long as a node without a handler is in   *)
(* the list.                                                               *)
(*                                                                         *)
(* ComponentManager: the loops over the components are nested like the C   *)
(* stack, and the suspend counter is never lower than the loop on top      *)
(* found it, so that a refresh is never started inside another; while one  *)
(* runs, the changes it tells of are in changes_backup and those recorded  *)
(* since in changes; and only the loop on top can be between two           *)
(* components, so that while a component is being closed those still to    *)
(* be closed are older than it.                                            *)
(***************************************************************************)
EXTENDS ComponentManager, SequenceTheorems, WellFoundedInduction, TLAPS

-----------------------------------------------------------------------------
(* QofEvent.                                                               *)

\* A node without a handler is due for deletion; nodes have been numbered.
NodesPending ==
    /\ pending_deletes = 0 => \A n \in handlers : handler[n] # None
    /\ walks = <<>> => pending_deletes = 0
    /\ handlers \subseteq 1 .. next_handler_id - 1

EventInv == EventTypeOK /\ WalksValid /\ NodesPending

-----------------------------------------------------------------------------
(* Sets of node numbers have a first and a last element.                   *)

LEMMA Least ==
    ASSUME NEW T, T \subseteq Nat, T # {}
    PROVE  \E x \in T : \A y \in T : x <= y
PROOF
<1> DEFINE R == {ss \in Nat \X Nat : ss[1] < ss[2]}
<1>1. IsWellFoundedOn(R, Nat)
  BY NatLessThanWellFounded DEF OpToRel
<1>2. \E x \in T : \A y \in T : ~ (<<y, x>> \in R)
  <2> HIDE DEF R
  <2> QED BY <1>1, WFMin
<1>3. PICK x \in T : \A y \in T : ~ (<<y, x>> \in R)
  BY <1>2
<1>4. ASSUME NEW y \in T PROVE x <= y
  <2>1. x \in Nat /\ y \in Nat OBVIOUS
  <2>2. <<y, x>> \notin R BY <1>3
  <2>3. ~ (y < x) BY <2>1, <2>2
  <2>4. QED BY <2>1, <2>3
<1>5. QED BY <1>4

LEMMA Greatest ==
    ASSUME NEW n \in Nat, NEW T, T \subseteq 1 .. n, T # {}
    PROVE  \E x \in T : \A y \in T : y <= x
PROOF
<1> DEFINE U == {k \in Nat : n - k \in T}
<1>1. U \subseteq Nat /\ U # {}
  <2>1. PICK t \in T : TRUE OBVIOUS
  <2>2. n - t \in Nat /\ n - (n - t) = t OBVIOUS
  <2>3. QED BY <2>2
<1>2. PICK u \in U : \A v \in U : u <= v
  <2> HIDE DEF U
  <2> QED BY <1>1, Least
<1>3. n - u \in T BY <1>2
<1>4. ASSUME NEW y \in T PROVE y <= n - u
  <2>1. y \in 1 .. n OBVIOUS
  <2>2. n - y \in Nat /\ n - (n - y) = y BY <2>1
  <2>3. n - y \in U BY <2>2
  <2>4. u <= n - y BY <1>2, <2>3
  <2>5. QED BY <2>1, <2>4, u \in Nat
<1>5. QED BY <1>3, <1>4

(* The next node is the greatest below, and 0 when there is none.          *)
LEMMA FirstBelowIs ==
    ASSUME QofEventAssumption, EventTypeOK, NEW n \in Nat
    PROVE  /\ FirstBelow(n) \in handlers \cup {0}
           /\ \A m \in handlers : m < n => m <= FirstBelow(n)
           /\ FirstBelow(n) # 0 => FirstBelow(n) < n
PROOF
<1> DEFINE below == {m \in handlers : m < n}
<1>1. CASE below = {}
  BY <1>1 DEF FirstBelow
<1>2. CASE below # {}
  <2>1. below \subseteq 1 .. MaxId /\ MaxId \in Nat
    BY DEF EventTypeOK, Id, QofEventAssumption
  <2>2. \E m \in below : \A k \in below : k <= m
    <3> HIDE DEF below
    <3> QED BY <1>2, <2>1, Greatest
  <2>3. FirstBelow(n) = CHOOSE m \in below : \A k \in below : k <= m
    BY <1>2 DEF FirstBelow
  <2>4. FirstBelow(n) \in below /\ \A k \in below : k <= FirstBelow(n)
    <3> HIDE DEF below
    <3> QED BY <2>2, <2>3
  <2>5. QED BY <2>4
<1>3. QED BY <1>1, <1>2

(* find_next_handler_id finds a number that no node has.                   *)
LEMMA FreeIdIs ==
    ASSUME QofEventAssumption, EventTypeOK
    PROVE  FreeId \in next_handler_id .. MaxId + 1 /\ FreeId \notin handlers
PROOF
<1> DEFINE free == {i \in next_handler_id .. MaxId + 1 : i \notin handlers}
<1>1. MaxId + 1 \in free /\ free \subseteq Nat
  BY DEF EventTypeOK, Id, QofEventAssumption
<1>2. PICK i \in free : \A j \in free : i <= j
  <2> HIDE DEF free
  <2> QED BY <1>1, Least
<1>3. \A j \in next_handler_id .. i - 1 : j \in handlers
  BY <1>2 DEF EventTypeOK, QofEventAssumption
<1>4. QED BY <1>2, <1>3 DEF FreeId

(* Walks that go on at nodes of the list, above others that are valid.     *)
LEMMA Pushed ==
    ASSUME EventTypeOK, WalksValid, NEW w \in Walk,
           w.next_node \in handlers \cup {0}, w.at \in handlers \cup {0},
           NEW rest \in Seq(Walk),
           \A i \in DOMAIN rest : \E j \in DOMAIN walks : rest[i] = walks[j],
           walks' = <<w>> \o rest, UNCHANGED handlers
    PROVE  walks' \in Seq(Walk) /\ WalksValid' /\ walks' # <<>>
PROOF
<1>1. walks' \in Seq(Walk) /\ Len(walks') = Len(rest) + 1 /\ walks' # <<>>
  OBVIOUS
<1>2. ASSUME NEW i \in DOMAIN walks'
      PROVE  walks'[i] = w \/ \E j \in DOMAIN rest : walks'[i] = rest[j]
  BY <1>1
<1>3. QED BY <1>1, <1>2 DEF WalksValid

LEMMA Popped ==
    ASSUME EventTypeOK, walks # <<>>
    PROVE  /\ Tail(walks) \in Seq(Walk) /\ Head(walks) \in Walk
           /\ \A i \in DOMAIN Tail(walks) : \E j \in DOMAIN walks : Tail(walks)[i] = walks[j]
           /\ \E j \in DOMAIN walks : Head(walks) = walks[j]
PROOF
<1>1. walks \in Seq(Walk) BY DEF EventTypeOK
<1>2. Len(walks) \in Nat \ {0} /\ 1 \in DOMAIN walks BY <1>1
<1>3. Tail(walks) \in Seq(Walk) /\ Head(walks) \in Walk /\ Head(walks) = walks[1]
  BY <1>1, <1>2
<1>4. ASSUME NEW i \in DOMAIN Tail(walks)
      PROVE  i + 1 \in DOMAIN walks /\ Tail(walks)[i] = walks[i + 1]
  BY <1>1, <1>2
<1>5. QED BY <1>2, <1>3, <1>4

-----------------------------------------------------------------------------
LEMMA InitEventInv == QofEventAssumption /\ EventInit => EventInv
BY DEF QofEventAssumption, EventInit, EventInv, EventTypeOK, WalksValid,
       NodesPending, Id, Walk

LEMMA RegisterStep ==
    ASSUME QofEventAssumption, EventInv, NEW h \in Handler, RegisterHandler(h)
    PROVE  EventInv'
PROOF
<1>1. FreeId \in Id /\ FreeId \notin handlers /\ FreeId >= next_handler_id
  BY FreeIdIs DEF EventInv, RegisterHandler, EventTypeOK, Id, QofEventAssumption
<1>2. EventTypeOK'
  BY <1>1 DEF EventInv, RegisterHandler, EventTypeOK, Id, QofEventAssumption
<1>3. WalksValid'
  BY DEF EventInv, RegisterHandler, WalksValid
<1>4. NodesPending'
  BY <1>1 DEF EventInv, RegisterHandler, NodesPending, EventTypeOK, Id,
              QofEventAssumption
<1>5. QED BY <1>2, <1>3, <1>4 DEF EventInv

LEMMA UnregisterStep ==
    ASSUME QofEventAssumption, EventInv, NEW n \in Id, UnregisterHandler(n)
    PROVE  EventInv'
PROOF
<1> USE DEF EventInv
<1>1. EventTypeOK'
  BY DEF UnregisterHandler, EventTypeOK
<1>2. WalksValid'
  BY DEF UnregisterHandler, WalksValid
<1>3. NodesPending'
  <2>1. CASE walks = <<>>
    BY <2>1 DEF UnregisterHandler, NodesPending, EventTypeOK
  <2>2. CASE walks # <<>>
    <3>1. pending_deletes' # 0 /\ walks' # <<>>
      BY <2>2 DEF UnregisterHandler, EventTypeOK
    <3>2. handlers' \subseteq 1 .. next_handler_id' - 1
      BY <2>2 DEF UnregisterHandler, NodesPending
    <3>3. QED BY <3>1, <3>2 DEF NodesPending
  <2>3. QED BY <2>1, <2>2
<1>4. QED BY <1>1, <1>2, <1>3

LEMMA SuspendStep ==
    ASSUME EventInv, SuspendEvents \/ ResumeEvents PROVE EventInv'
PROOF
<1>1. suspend_counter' \in Nat
  BY DEF EventInv, SuspendEvents, ResumeEvents, EventTypeOK
<1>2. UNCHANGED <<handlers, handler, next_handler_id, pending_deletes, walks>>
  BY DEF SuspendEvents, ResumeEvents
<1>3. QED BY <1>1, <1>2 DEF EventInv, EventTypeOK, WalksValid, NodesPending

LEMMA GenerateStep ==
    ASSUME QofEventAssumption, EventInv, NEW forced \in BOOLEAN, Generate(forced)
    PROVE  EventInv'
PROOF
<1> DEFINE w == [next_node |-> FirstBelow(MaxId + 1), at |-> 0]
<1>1. w.next_node \in handlers \cup {0} /\ w.at = 0
  BY FirstBelowIs DEF EventInv, QofEventAssumption
<1>2. w \in Walk
  BY <1>1 DEF EventInv, EventTypeOK, Walk
<1>3. walks' \in Seq(Walk) /\ WalksValid' /\ walks' # <<>>
  <2>1. walks' = <<w>> \o walks /\ handlers' = handlers BY DEF Generate
  <2>2. walks \in Seq(Walk) BY DEF EventInv, EventTypeOK
  <2>3. QED
    <3> HIDE DEF w
    <3> QED BY <1>1, <1>2, <2>1, <2>2, Pushed DEF EventInv
<1>4. QED BY <1>3 DEF EventInv, Generate, EventTypeOK, NodesPending

LEMMA VisitStep ==
    ASSUME QofEventAssumption, EventInv, Visit PROVE EventInv'
PROOF
<1> DEFINE n == Head(walks).next_node
           w == [next_node |-> FirstBelow(n), at |-> IF handler[n] = None THEN 0 ELSE n]
<1>1. walks # <<>> /\ n # 0 /\ walks' = <<w>> \o Tail(walks)
  BY DEF Visit, Walking
<1>2. n \in handlers /\ n \in Nat
  <2>1. PICK j \in DOMAIN walks : Head(walks) = walks[j]
    BY <1>1, Popped DEF EventInv
  <2>2. n \in handlers \cup {0}
    BY <2>1 DEF EventInv, WalksValid
  <2>3. n # 0 BY <1>1
  <2>4. QED
    <3> HIDE DEF n
    <3> QED BY <2>2, <2>3 DEF EventInv, EventTypeOK, Id, QofEventAssumption
<1>3. w.next_node \in handlers \cup {0} /\ w.at \in handlers \cup {0}
  BY <1>2, FirstBelowIs DEF EventInv
<1>4. w \in Walk
  BY <1>3 DEF EventInv, EventTypeOK, Walk
<1>5. walks' \in Seq(Walk) /\ WalksValid' /\ walks' # <<>>
  <2>1. handlers' = handlers BY DEF Visit
  <2>2. QED
    <3> HIDE DEF w
    <3> QED BY <1>1, <1>3, <1>4, <2>1, Popped, Pushed DEF EventInv
<1>6. QED BY <1>5 DEF EventInv, Visit, EventTypeOK, NodesPending

(* The innermost handler returns, wherever it was called.                  *)
LEMMA ReturnStep ==
    ASSUME EventInv, walks # <<>>, walks' = Returned,
           UNCHANGED <<handlers, handler, next_handler_id, pending_deletes, suspend_counter>>
    PROVE  EventInv'
PROOF
<1> DEFINE w == [Head(walks) EXCEPT !.at = 0]
<1>1. walks' = <<w>> \o Tail(walks)
  BY DEF Returned
<1>2. w \in Walk /\ w.next_node \in handlers \cup {0} /\ w.at = 0
  BY Popped DEF EventInv, WalksValid, Walk
<1>3. walks' \in Seq(Walk) /\ WalksValid' /\ walks' # <<>>
  <2> HIDE DEF w
  <2> QED BY <1>1, <1>2, Popped, Pushed DEF EventInv
<1>4. QED BY <1>3 DEF EventInv, EventTypeOK, NodesPending

LEMMA WalkDoneStep ==
    ASSUME EventInv, WalkDone PROVE EventInv'
PROOF
<1>1. walks # <<>> /\ walks' = Tail(walks)
  BY DEF WalkDone, Walking
<1>2. walks' \in Seq(Walk) /\ \A i \in DOMAIN walks' : \E j \in DOMAIN walks : walks'[i] = walks[j]
  BY <1>1, Popped DEF EventInv
<1>3. EventTypeOK'
  BY <1>2 DEF EventInv, WalkDone, EventTypeOK
<1>4. WalksValid'
  <2>1. CASE walks' = <<>>
    BY <2>1 DEF WalksValid
  <2>2. CASE walks' # <<>>
    BY <1>2, <2>2 DEF EventInv, WalkDone, WalksValid
  <2>3. QED BY <2>1, <2>2
<1>5. NodesPending'
  BY <1>1 DEF EventInv, WalkDone, NodesPending
<1>6. QED BY <1>3, <1>4, <1>5 DEF EventInv

LEMMA EventStep ==
    ASSUME QofEventAssumption, EventInv, [EventNext]_eventVars
    PROVE  EventInv'
PROOF
<1>1. CASE UNCHANGED eventVars
  BY <1>1 DEF eventVars, EventInv, EventTypeOK, WalksValid, NodesPending
<1>2. CASE Return
  BY <1>2, ReturnStep DEF Return
<1>3. QED
  BY <1>1, <1>2, RegisterStep, UnregisterStep, SuspendStep, GenerateStep,
     VisitStep, WalkDoneStep DEF EventNext, WalkStep

LEMMA EventInvImplies == EventInv => EventTypeOK /\ WalksValid /\ ListIsClean
BY DEF EventInv, NodesPending, ListIsClean

(* qof_event_generate_internal, whoever calls: what a walk refers to is in *)
(* the list, and a list nobody walks has no node without a handler.        *)
THEOREM EventSafety ==
    EventSpec => []EventTypeOK /\ []WalksValid /\ []ListIsClean
PROOF
<1>1. EventInit => EventInv
  BY InitEventInv, QofEventAssumption
<1>2. EventInv /\ [EventNext]_eventVars => EventInv'
  BY EventStep, QofEventAssumption
<1>3. QED BY <1>1, <1>2, EventInvImplies, PTL DEF EventSpec


-----------------------------------------------------------------------------
(* Every step is one of EventDelivery, or changes nothing that it sees.    *)

Delivers == [D!NextDelivery]_<<LiveHandlers, Owed>>

\* The nodes of the list are positive numbers below next_handler_id.
LEMMA NodesAre ==
    ASSUME QofEventAssumption, EventInv
    PROVE  /\ LiveHandlers \subseteq handlers
           /\ \A n \in handlers : n \in Nat /\ 0 < n /\ n < next_handler_id /\ n < MaxId + 1
           /\ next_handler_id \in Nat
PROOF
<1>1. next_handler_id \in Nat /\ MaxId \in Nat
  BY DEF EventInv, EventTypeOK, QofEventAssumption
<1>2. handlers \subseteq 1 .. next_handler_id - 1 /\ handlers \subseteq 1 .. MaxId
  BY DEF EventInv, EventTypeOK, NodesPending, Id
<1>3. QED BY <1>1, <1>2 DEF LiveHandlers

LEMMA Undelivered ==
    ASSUME UNCHANGED <<handlers, handler, walks>> PROVE Delivers
BY DEF Delivers, LiveHandlers, Owed

\* What Owed is when the innermost walk has changed.
LEMMA OwedOfPushed ==
    ASSUME EventTypeOK, NEW w \in Walk, NEW rest \in Seq(Walk),
           walks' = <<w>> \o rest
    PROVE  Owed' = <<{n \in LiveHandlers' : n <= w.next_node}>>
                   \o [i \in DOMAIN rest |-> {n \in LiveHandlers' : n <= rest[i].next_node}]
PROOF
<1> DEFINE live == LiveHandlers'
           owes(v) == {n \in live : n <= v.next_node}
           others == [i \in DOMAIN rest |-> owes(rest[i])]
<1>1. Owed' = [i \in DOMAIN walks' |-> owes(walks'[i])]
  BY DEF Owed
<1>2. walks' \in Seq(Walk) /\ Len(walks') = Len(rest) + 1
  OBVIOUS
<1>3. others \in Seq(SUBSET live) /\ Len(others) = Len(rest)
  <2>1. Len(rest) \in Nat /\ DOMAIN rest = 1 .. Len(rest) OBVIOUS
  <2>2. \A i \in 1 .. Len(rest) : owes(rest[i]) \in SUBSET live OBVIOUS
  <2> HIDE DEF owes, live
  <2>3. others \in [1 .. Len(rest) -> SUBSET live] BY <2>1, <2>2
  <2>4. others \in Seq(SUBSET live) BY <2>1, <2>3
  <2>5. QED BY <2>1, <2>3, <2>4
<1>4. owes(w) \in SUBSET live OBVIOUS
<1>5. DOMAIN (<<owes(w)>> \o others) = 1 .. Len(rest) + 1
  <2> HIDE DEF owes, live, others
  <2> QED BY <1>3, <1>4
<1>6. ASSUME NEW i \in 1 .. Len(rest) + 1
      PROVE  owes(walks'[i]) = (<<owes(w)>> \o others)[i]
  <2>1. CASE i = 1
    <3>1. walks'[i] = w BY <2>1
    <3> HIDE DEF owes, live, others
    <3>2. QED BY <2>1, <3>1, <1>3, <1>4
  <2>2. CASE i # 1
    <3>1. i - 1 \in 1 .. Len(rest) /\ walks'[i] = rest[i - 1] BY <2>2
    <3>2. others[i - 1] = owes(rest[i - 1]) BY <3>1
    <3> HIDE DEF owes, live, others
    <3>3. (<<owes(w)>> \o others)[i] = others[i - 1] BY <2>2, <1>3, <1>4, <3>1
    <3>4. QED BY <3>1, <3>2, <3>3
  <2>3. QED BY <2>1, <2>2
<1>7. QED
  <2>1. DOMAIN walks' = 1 .. Len(rest) + 1 BY <1>2
  <2>2. Owed' = [i \in 1 .. Len(rest) + 1 |-> owes(walks'[i])] BY <1>1, <2>1
  <2>3. (<<owes(w)>> \o others) \in Seq(SUBSET live)
    <3> HIDE DEF owes, live, others
    <3> QED BY <1>3, <1>4
  <2>4. (<<owes(w)>> \o others) = [i \in 1 .. Len(rest) + 1 |-> (<<owes(w)>> \o others)[i]]
    <3> HIDE DEF owes, live, others
    <3> QED BY <1>5, <2>3
  <2>5. Owed' = <<owes(w)>> \o others
    <3> HIDE DEF owes, live, others
    <3> QED BY <1>6, <2>2, <2>4
  <2>6. QED BY <2>5

LEMMA RegisterDelivers ==
    ASSUME QofEventAssumption, EventInv, NEW h \in Handler, RegisterHandler(h)
    PROVE  Delivers
PROOF
<1> DEFINE new == FreeId
<1>1. new \in Id /\ new \notin handlers /\ new >= next_handler_id
  BY FreeIdIs DEF EventInv, RegisterHandler, EventTypeOK, Id, QofEventAssumption
<1>2. /\ handlers' = handlers \cup {new}
      /\ handler' = [handler EXCEPT ![new] = h]
      /\ walks' = walks
  BY DEF RegisterHandler
<1> HIDE DEF new
<1>3. LiveHandlers' = LiveHandlers \cup {new}
  BY <1>1, <1>2 DEF EventInv, EventTypeOK, LiveHandlers, QofEventAssumption
<1>4. \A g \in LiveHandlers : g \in Nat /\ g < new
  <2>1. new \in Nat BY <1>1 DEF Id, QofEventAssumption
  <2>2. QED BY <1>1, <2>1, NodesAre
<1>5. \A i \in DOMAIN walks : walks[i].next_node \in Nat /\ walks[i].next_node < new
  <2>1. new \in Nat BY <1>1 DEF Id, QofEventAssumption
  <2>2. \A i \in DOMAIN walks : walks[i].next_node \in handlers \cup {0}
    BY DEF EventInv, WalksValid
  <2>3. next_handler_id > 0 BY DEF EventInv, EventTypeOK, QofEventAssumption
  <2>4. QED BY <1>1, <2>1, <2>2, <2>3, NodesAre
<1>6. Owed' = Owed
  <2>1. \A i \in DOMAIN walks : {n \in LiveHandlers' : n <= walks[i].next_node}
                                  = {n \in LiveHandlers : n <= walks[i].next_node}
    BY <1>1, <1>3, <1>5 DEF Id, QofEventAssumption
  <2>2. QED BY <1>2, <2>1 DEF Owed
<1>7. D!Registration
  BY <1>3, <1>4, <1>6 DEF D!Registration
<1>8. QED BY <1>7 DEF Delivers, D!NextDelivery

LEMMA UnregisterDelivers ==
    ASSUME QofEventAssumption, EventInv, NEW n \in Id, UnregisterHandler(n)
    PROVE  Delivers
PROOF
<1>1. handler' = [handler EXCEPT ![n] = None] /\ walks' = walks /\ n \in handlers
      /\ handlers' \in {handlers, handlers \ {n}}
  BY DEF UnregisterHandler
<1>2. LiveHandlers' = LiveHandlers \ {n}
  BY <1>1 DEF EventInv, EventTypeOK, LiveHandlers
<1>3. Owed' = [i \in DOMAIN Owed |-> Owed[i] \ {n}]
  BY <1>1, <1>2 DEF Owed
<1>4. CASE n \in LiveHandlers
  BY <1>2, <1>3, <1>4 DEF Delivers, D!NextDelivery, D!Unregistration
<1>5. CASE n \notin LiveHandlers
  <2>1. LiveHandlers' = LiveHandlers BY <1>2, <1>5
  <2>2. Owed' = Owed BY <1>1, <2>1 DEF Owed
  <2>3. QED BY <2>1, <2>2 DEF Delivers
<1>6. QED BY <1>4, <1>5

LEMMA GenerateDelivers ==
    ASSUME QofEventAssumption, EventInv, NEW forced \in BOOLEAN, Generate(forced)
    PROVE  Delivers
PROOF
<1> DEFINE first == FirstBelow(MaxId + 1)
           w == [next_node |-> first, at |-> 0]
<1>1. /\ first \in handlers \cup {0}
      /\ \A m \in handlers : m < MaxId + 1 => m <= first
  BY FirstBelowIs DEF EventInv, QofEventAssumption
<1>2. w \in Walk /\ w.next_node = first
  BY <1>1 DEF EventInv, EventTypeOK, Walk
<1>3. LiveHandlers' = LiveHandlers
  BY DEF Generate, LiveHandlers
<1>4. {n \in LiveHandlers : n <= first} = LiveHandlers
  <2> HIDE DEF first
  <2> QED BY <1>1, NodesAre
<1>5. walks' = <<w>> \o walks /\ walks \in Seq(Walk)
  BY DEF EventInv, EventTypeOK, Generate
<1>6. Owed' = <<LiveHandlers>> \o Owed
  <2> HIDE DEF w
  <2>1. Owed' = <<{n \in LiveHandlers' : n <= w.next_node}>>
                \o [i \in DOMAIN walks |-> {n \in LiveHandlers' : n <= walks[i].next_node}]
    BY <1>2, <1>5, OwedOfPushed DEF EventInv
  <2> HIDE DEF first
  <2>2. QED BY <1>2, <1>3, <1>4, <2>1 DEF Owed
<1>7. QED BY <1>3, <1>6 DEF Delivers, D!NextDelivery, D!Generation

\* The walks below the innermost one.
LEMMA OwedBelow ==
    ASSUME EventTypeOK, walks # <<>>
    PROVE  /\ Owed # <<>>
           /\ Head(Owed) = {n \in LiveHandlers : n <= Head(walks).next_node}
           /\ Tail(Owed) = [i \in DOMAIN Tail(walks) |->
                              {n \in LiveHandlers : n <= Tail(walks)[i].next_node}]
           /\ Owed = <<Head(Owed)>> \o Tail(Owed)
PROOF
<1> DEFINE owes(v) == {n \in LiveHandlers : n <= v.next_node}
<1>1. walks \in Seq(Walk) /\ Len(walks) \in Nat \ {0}
  BY DEF EventTypeOK
<1>2. Owed = [i \in 1 .. Len(walks) |-> owes(walks[i])]
  BY <1>1 DEF Owed
<1>3. \A i \in 1 .. Len(walks) : owes(walks[i]) \in SUBSET LiveHandlers
  OBVIOUS
<1> HIDE DEF owes
<1>4. Owed \in Seq(SUBSET LiveHandlers) /\ Len(Owed) = Len(walks)
  <2>1. Owed \in [1 .. Len(walks) -> SUBSET LiveHandlers] BY <1>2, <1>3
  <2>2. QED BY <1>1, <2>1
<1>5. Owed # <<>> /\ Head(Owed) = owes(walks[1]) /\ Head(walks) = walks[1]
  BY <1>1, <1>2, <1>4
<1>6. Tail(Owed) = [i \in DOMAIN Tail(walks) |-> owes(Tail(walks)[i])]
  <2>1. Len(Tail(walks)) = Len(walks) - 1 /\ Tail(walks) \in Seq(Walk)
    BY <1>1
  <2>2. Tail(Owed) \in Seq(SUBSET LiveHandlers) /\ Len(Tail(Owed)) = Len(walks) - 1
    BY <1>1, <1>4, <1>5
  <2>3. \A i \in 1 .. Len(walks) - 1 : Tail(Owed)[i] = owes(Tail(walks)[i])
    BY <1>1, <1>2, <1>4, <1>5
  <2>4. Tail(Owed) = [i \in 1 .. Len(walks) - 1 |-> Tail(Owed)[i]]
    <3>1. DOMAIN Tail(Owed) = 1 .. Len(walks) - 1 BY <2>2, <1>1
    <3>2. Tail(Owed) \in [1 .. Len(walks) - 1 -> SUBSET LiveHandlers]
      BY <2>2, LenProperties
    <3>3. QED BY <3>2
  <2>5. DOMAIN Tail(walks) = 1 .. Len(walks) - 1
    BY <2>1, <1>1
  <2>6. QED BY <2>3, <2>4, <2>5
<1>7. Owed = <<Head(Owed)>> \o Tail(Owed)
  BY <1>4, <1>5
<1>8. QED BY <1>5, <1>6, <1>7 DEF owes

LEMMA ReturnDelivers ==
    ASSUME EventInv, walks # <<>>, walks' = Returned, UNCHANGED <<handlers, handler>>
    PROVE  Delivers
PROOF
<1> DEFINE w == [Head(walks) EXCEPT !.at = 0]
<1>1. walks' = <<w>> \o Tail(walks)
  BY DEF Returned
<1>2. w \in Walk /\ w.next_node = Head(walks).next_node
  BY Popped DEF EventInv, Walk
<1>3. LiveHandlers' = LiveHandlers
  BY DEF LiveHandlers
<1>4. Owed' = Owed
  <2> HIDE DEF w
  <2>1. Owed' = <<{n \in LiveHandlers' : n <= w.next_node}>>
                \o [i \in DOMAIN Tail(walks) |->
                      {n \in LiveHandlers' : n <= Tail(walks)[i].next_node}]
    BY <1>1, <1>2, Popped, OwedOfPushed DEF EventInv
  <2>2. QED BY <1>2, <1>3, <2>1, OwedBelow DEF EventInv
<1>5. QED BY <1>3, <1>4 DEF Delivers

LEMMA VisitDelivers ==
    ASSUME QofEventAssumption, EventInv, Visit PROVE Delivers
PROOF
<1> DEFINE n == Head(walks).next_node
           next == FirstBelow(n)
           w == [next_node |-> next, at |-> IF handler[n] = None THEN 0 ELSE n]
<1>1. walks # <<>> /\ n # 0 /\ walks' = <<w>> \o Tail(walks)
      /\ UNCHANGED <<handlers, handler>>
  BY DEF Visit, Walking
<1>2. n \in handlers /\ n \in Nat
  <2>1. PICK j \in DOMAIN walks : Head(walks) = walks[j]
    BY <1>1, Popped DEF EventInv
  <2>2. n \in handlers \cup {0}
    BY <2>1 DEF EventInv, WalksValid
  <2>3. n # 0 BY <1>1
  <2>4. QED
    <3> HIDE DEF n
    <3> QED BY <2>2, <2>3 DEF EventInv, EventTypeOK, Id, QofEventAssumption
<1>3. /\ next \in handlers \cup {0}
      /\ \A m \in handlers : m < n => m <= next
      /\ next # 0 => next < n
  BY <1>2, FirstBelowIs DEF EventInv
<1>4. w \in Walk /\ w.next_node = next
  BY <1>2, <1>3 DEF EventInv, EventTypeOK, Walk
<1>5. LiveHandlers' = LiveHandlers /\ LiveHandlers \subseteq handlers
      /\ \A m \in handlers : m \in Nat /\ 0 < m
  BY <1>1, NodesAre DEF LiveHandlers
<1>6. {m \in LiveHandlers : m <= next} = {m \in LiveHandlers : m <= n} \ {n}
  <2> HIDE DEF n, next
  <2>1. next \in Nat BY <1>3, <1>5
  <2>2. ASSUME NEW m \in LiveHandlers PROVE m <= next <=> m <= n /\ m # n
    <3>1. m \in handlers /\ m \in Nat /\ 0 < m BY <1>5
    <3>2. m <= next => m < n BY <1>2, <1>3, <2>1, <3>1
    <3>3. m < n => m <= next BY <1>3, <3>1
    <3>4. QED BY <1>2, <3>1, <3>2, <3>3
  <2>3. QED BY <2>2
<1>7. /\ Owed' = <<Head(Owed) \ {n}>> \o Tail(Owed)
      /\ Head(Owed) = {m \in LiveHandlers : m <= n}
      /\ Owed = <<Head(Owed)>> \o Tail(Owed) /\ Owed # <<>>
  <2> HIDE DEF w
  <2>1. Owed' = <<{m \in LiveHandlers' : m <= w.next_node}>>
                \o [i \in DOMAIN Tail(walks) |->
                      {m \in LiveHandlers' : m <= Tail(walks)[i].next_node}]
    BY <1>1, <1>4, Popped, OwedOfPushed DEF EventInv
  <2>2. /\ Head(Owed) = {m \in LiveHandlers : m <= n}
        /\ Tail(Owed) = [i \in DOMAIN Tail(walks) |->
                           {m \in LiveHandlers : m <= Tail(walks)[i].next_node}]
        /\ Owed = <<Head(Owed)>> \o Tail(Owed) /\ Owed # <<>>
    BY <1>1, OwedBelow DEF EventInv
  <2> HIDE DEF n, next
  <2>3. QED BY <1>4, <1>5, <1>6, <2>1, <2>2
<1>8. CASE n \in LiveHandlers
  <2> HIDE DEF n, next
  <2>1. n \in Head(Owed) /\ \A g \in Head(Owed) : g <= n
    BY <1>2, <1>5, <1>7, <1>8
  <2>2. D!Delivery
    BY <1>5, <1>7, <2>1 DEF D!Delivery
  <2>3. QED BY <2>2 DEF Delivers, D!NextDelivery
<1>9. CASE n \notin LiveHandlers
  <2> HIDE DEF n, next
  <2>1. Head(Owed) \ {n} = Head(Owed) BY <1>7, <1>9
  <2>2. Owed' = Owed BY <1>7, <2>1
  <2>3. QED BY <1>5, <2>2 DEF Delivers
<1>10. QED BY <1>8, <1>9

LEMMA WalkDoneDelivers ==
    ASSUME QofEventAssumption, EventInv, WalkDone PROVE Delivers
PROOF
<1>1. /\ walks # <<>> /\ walks' = Tail(walks) /\ Head(walks).next_node = 0
      /\ handler' = handler
      /\ handlers' \in {handlers, {n \in handlers : handler[n] # None}}
  BY DEF WalkDone, Walking
<1>2. LiveHandlers' = LiveHandlers
  BY <1>1 DEF LiveHandlers
<1>3. Head(Owed) = {} /\ Tail(Owed) = Owed' /\ Owed # <<>>
  <2>1. /\ Head(Owed) = {n \in LiveHandlers : n <= 0}
        /\ Tail(Owed) = [i \in DOMAIN Tail(walks) |->
                           {n \in LiveHandlers : n <= Tail(walks)[i].next_node}]
        /\ Owed # <<>>
    BY <1>1, OwedBelow DEF EventInv
  <2>2. Head(Owed) = {}
    BY <2>1, NodesAre
  <2>3. Owed' = [i \in DOMAIN Tail(walks) |->
                   {n \in LiveHandlers : n <= Tail(walks)[i].next_node}]
    BY <1>1, <1>2 DEF Owed
  <2>4. QED BY <2>1, <2>2, <2>3
<1>4. QED BY <1>2, <1>3 DEF Delivers, D!NextDelivery, D!Completion

LEMMA InitDelivers ==
    ASSUME QofEventAssumption, EventInv, walks = <<>> PROVE D!InitDelivery
PROOF
<1>1. LiveHandlers \subseteq Nat BY NodesAre
<1>2. Owed = <<>>
  <2>1. DOMAIN walks = {} OBVIOUS
  <2>2. QED BY <2>1 DEF Owed
<1>3. QED BY <1>1, <1>2 DEF D!InitDelivery

LEMMA EventDelivers ==
    ASSUME QofEventAssumption, EventInv, [EventNext]_eventVars
    PROVE  Delivers
PROOF
<1>1. CASE UNCHANGED eventVars
  BY <1>1, Undelivered DEF eventVars
<1>2. CASE Return
  BY <1>2, ReturnDelivers DEF Return
<1>3. CASE SuspendEvents \/ ResumeEvents
  BY <1>3, Undelivered DEF SuspendEvents, ResumeEvents
<1>4. QED
  BY <1>1, <1>2, <1>3, RegisterDelivers, UnregisterDelivers, GenerateDelivers,
     VisitDelivers, WalkDoneDelivers DEF EventNext, WalkStep

(* Handlers get what EventDelivery promises, whatever they register,       *)
(* unregister and generate themselves.                                     *)
THEOREM EventsDelivered == EventSpec => Delivered
PROOF
<1>1. EventInit => EventInv /\ D!InitDelivery
  BY InitEventInv, InitDelivers, QofEventAssumption DEF EventInit
<1>2. EventInv /\ [EventNext]_eventVars => EventInv'
  BY EventStep, QofEventAssumption
<1>3. EventInv /\ [EventNext]_eventVars => Delivers
  BY EventDelivers, QofEventAssumption
<1>4. QED
  BY <1>1, <1>2, <1>3, PTL DEF EventSpec, Delivered, Delivers, D!DeliverySpec

-----------------------------------------------------------------------------
(* The component manager.                                                  *)

InStack(fs) == {fs[i] : i \in DOMAIN fs}

\* What holds of frame g when frame f is above it.
Above(f, g) ==
    /\ g.at # 0 /\ g.level <= f.level /\ g.base <= f.base
    /\ f.kind \in Refresh => g.base = 0

Stacked(fs) == \A i, j \in DOMAIN fs : i < j => Above(fs[i], fs[j])

FrameOK(f) ==
    /\ f.kind = "event" => f.level > 0
    /\ f.kind \in Refresh => f.base = 1
    /\ f.kind = "close" => f.todo \subseteq components
    /\ f.at # 0 => \A c \in f.todo : c < f.at

\* The frame on top.
TopOK(f) ==
    /\ f.level <= Len(walks)
    /\ f.at = 0 => f.level = Len(walks)
    /\ f.base <= gui_suspend_counter

StackOK ==
    /\ frames \in Seq(Frame) /\ Stacked(frames)
    /\ \A f \in InStack(frames) : FrameOK(f)
    /\ frames # <<>> => TopOK(Head(frames))

EventsOK ==
    /\ EventInv
    /\ event \in Seq(Event) /\ Len(event) = Len(walks) /\ Len(walks) <= MaxWalks

RegistryOK ==
    /\ next_component_id \in 1 .. MaxComponent + 1
    /\ components \subseteq 1 .. next_component_id - 1
    /\ session \in [Component -> Session]
    /\ watches \in [Component -> SUBSET Key]
    /\ missed \in [Component -> SUBSET Key]
    /\ \A c \in Component :
         /\ missed[c] \subseteq watches[c]
         /\ c \notin components => watches[c] = {}

\* The changes component c has yet to be told of by the refresh that runs.
Pending(c) == IF c \in ToVisit THEN changes_backup ELSE {}

\* Where the keys a component has not been told of are.
Kept(c) ==
    /\ missed[c] \subseteq changes \cup Pending(c)
    /\ Refreshing => missed[c] \subseteq late \cup Pending(c)
    /\ ~ Refreshing => got_events \/ missed[c] \subseteq late

ChangesOK ==
    /\ changes \subseteq Key /\ changes_backup \subseteq Key /\ late \subseteq Key
    /\ got_events \in BOOLEAN /\ gui_suspend_counter \in Nat /\ calls \in 0 .. MaxCalls
    /\ ~ Refreshing => changes_backup = {}
    /\ ~ Refreshing /\ gui_suspend_counter = 0 => ~ got_events
    /\ \A c \in components : Kept(c)

CmInv == EventsOK /\ RegistryOK /\ StackOK /\ ChangesOK

Assumptions == QofEventAssumption /\ ComponentManagerAssumption

-----------------------------------------------------------------------------
(* Stacks of frames.                                                       *)

LEMMA PushFrame ==
    ASSUME NEW fs \in Seq(Frame), NEW f \in Frame, Stacked(fs),
           \A g \in InStack(fs) : Above(f, g),
           NEW gs, gs = <<f>> \o fs
    PROVE  /\ gs \in Seq(Frame) /\ gs # <<>> /\ Head(gs) = f
           /\ InStack(gs) = {f} \cup InStack(fs)
           /\ Stacked(gs)
PROOF
<1>1. /\ gs \in Seq(Frame) /\ Len(gs) = Len(fs) + 1 /\ gs # <<>> /\ Head(gs) = f
      /\ DOMAIN gs = 1 .. Len(fs) + 1 /\ DOMAIN fs = 1 .. Len(fs) /\ Len(fs) \in Nat
      /\ gs[1] = f
  OBVIOUS
<1>2. \A i \in DOMAIN fs : i + 1 \in DOMAIN gs /\ gs[i + 1] = fs[i]
  BY <1>1
<1>3. \A i \in DOMAIN gs : i # 1 => i - 1 \in DOMAIN fs /\ gs[i] = fs[i - 1]
  BY <1>1
<1>4. InStack(gs) = {f} \cup InStack(fs)
  <2>1. \A i \in DOMAIN gs : gs[i] \in {f} \cup InStack(fs)
    BY <1>1, <1>3 DEF InStack
  <2>2. \A i \in DOMAIN fs : fs[i] \in InStack(gs)
    BY <1>2 DEF InStack
  <2>3. f \in InStack(gs)
    BY <1>1 DEF InStack
  <2>4. QED BY <2>1, <2>2, <2>3 DEF InStack
<1>5. ASSUME NEW i \in DOMAIN gs, NEW j \in DOMAIN gs, i < j
      PROVE  Above(gs[i], gs[j])
  <2>1. j - 1 \in DOMAIN fs /\ gs[j] = fs[j - 1]
    BY <1>1, <1>3, <1>5
  <2>2. CASE i = 1
    BY <1>1, <2>1, <2>2 DEF InStack
  <2>3. CASE i # 1
    <3>1. i - 1 \in DOMAIN fs /\ gs[i] = fs[i - 1] /\ i - 1 < j - 1
      BY <1>1, <1>3, <1>5, <2>3
    <3>2. QED BY <2>1, <3>1 DEF Stacked
  <2>4. QED BY <2>2, <2>3
<1>6. QED BY <1>1, <1>4, <1>5 DEF Stacked

LEMMA PopFrame ==
    ASSUME NEW fs \in Seq(Frame), fs # <<>>, Stacked(fs)
    PROVE  /\ Head(fs) \in Frame /\ Tail(fs) \in Seq(Frame) /\ Stacked(Tail(fs))
           /\ InStack(fs) = {Head(fs)} \cup InStack(Tail(fs))
           /\ \A g \in InStack(Tail(fs)) : Above(Head(fs), g)
           /\ Tail(fs) # <<>> => Head(Tail(fs)) \in InStack(Tail(fs))
PROOF
<1> DEFINE gs == Tail(fs)
<1>1. /\ Len(fs) \in Nat \ {0} /\ DOMAIN fs = 1 .. Len(fs)
      /\ gs \in Seq(Frame) /\ Len(gs) = Len(fs) - 1 /\ DOMAIN gs = 1 .. Len(fs) - 1
      /\ Head(fs) = fs[1] /\ Head(fs) \in Frame /\ 1 \in DOMAIN fs
  OBVIOUS
<1>2. \A i \in DOMAIN gs : i + 1 \in DOMAIN fs /\ gs[i] = fs[i + 1] /\ 1 < i + 1
  BY <1>1
<1>3. \A i \in DOMAIN fs : i # 1 => i - 1 \in DOMAIN gs /\ fs[i] = gs[i - 1]
  BY <1>1
<1>4. gs # <<>> => Head(gs) = gs[1] /\ 1 \in DOMAIN gs
  BY <1>1
<1> HIDE DEF gs
<1>5. InStack(fs) = {Head(fs)} \cup InStack(gs)
  <2>1. \A i \in DOMAIN fs : fs[i] \in {Head(fs)} \cup InStack(gs)
    BY <1>1, <1>3 DEF InStack
  <2>2. \A i \in DOMAIN gs : gs[i] \in InStack(fs)
    BY <1>2 DEF InStack
  <2>3. Head(fs) \in InStack(fs)
    BY <1>1 DEF InStack
  <2>4. QED BY <2>1, <2>2, <2>3 DEF InStack
<1>6. \A i \in DOMAIN gs : Above(Head(fs), gs[i])
  BY <1>1, <1>2 DEF Stacked
<1>7. Stacked(gs)
  <2>1. ASSUME NEW i \in DOMAIN gs, NEW j \in DOMAIN gs, i < j PROVE Above(gs[i], gs[j])
    <3>1. i + 1 < j + 1 BY <1>1, <2>1
    <3>2. QED BY <1>2, <3>1 DEF Stacked
  <2>2. QED BY <2>1 DEF Stacked
<1>8. QED
  <2>1. \A g \in InStack(gs) : Above(Head(fs), g) BY <1>6 DEF InStack
  <2>2. gs # <<>> => Head(gs) \in InStack(gs) BY <1>4 DEF InStack
  <2>3. QED BY <1>1, <1>5, <1>7, <2>1, <2>2 DEF gs

\* What the loops that run are, in terms of the frames.
LoopFacts ==
    /\ Refreshing <=> \E f \in InStack(frames) : f.kind # "close"
    /\ \A c : c \in ToVisit <=> \E f \in InStack(frames) : f.kind \in Refresh /\ c \in f.todo
    /\ \A f \in InStack(frames) : f.kind = "close" => f.at \in Closing

LEMMA LoopsAre == LoopFacts
PROOF
<1>1. Refreshing <=> \E f \in InStack(frames) : f.kind # "close"
  BY DEF Refreshing, InStack
<1>2. \A c : c \in ToVisit <=> \E f \in InStack(frames) : f.kind \in Refresh /\ c \in f.todo
  BY DEF ToVisit, InStack
<1>3. \A f \in InStack(frames) : f.kind = "close" => f.at \in Closing
  BY DEF Closing, InStack
<1>4. QED BY <1>1, <1>2, <1>3 DEF LoopFacts

LEMMA LoopsAreNext == LoopFacts'
BY LoopsAre, PTL

\* While a refresh runs the loop on top was not started at a counter of 0.
LEMMA RefreshBase ==
    ASSUME Assumptions, StackOK, Refreshing
    PROVE  frames # <<>> /\ Base >= 1 /\ gui_suspend_counter >= Base
PROOF
<1>1. PICK f \in InStack(frames) : f.kind # "close"
  BY LoopsAre DEF LoopFacts
<1>2. frames # <<>>
  BY <1>1 DEF InStack
<1>3. frames \in Seq(Frame) /\ Stacked(frames) BY DEF StackOK
<1>4. Head(frames) \in Frame /\ Base = Head(frames).base
  BY <1>2, <1>3, PopFrame DEF Base
<1>5. f \in Frame /\ f.base = 1
  <2>1. f \in Frame BY <1>1, <1>3 DEF InStack
  <2>2. f.kind \in Refresh BY <1>1, <2>1 DEF Frame, Refresh
  <2>3. QED BY <2>1, <2>2 DEF StackOK, FrameOK
<1>6. f = Head(frames) \/ f.base <= Head(frames).base
  BY <1>1, <1>2, <1>3, PopFrame DEF Above
<1>7. QED BY <1>2, <1>4, <1>5, <1>6 DEF StackOK, TopOK, Frame

-----------------------------------------------------------------------------
(* What a step does to the stack of frames: nothing, a loop starts, a loop *)
(* goes on or calls or is returned to, a loop ends.                        *)

LEMMA StackSame ==
    ASSUME StackOK, UNCHANGED frames,
           \A f \in InStack(frames) : f.kind = "close" => f.todo \subseteq components',
           frames # <<>> => TopOK(Head(frames))'
    PROVE  StackOK'
BY DEF StackOK, FrameOK, InStack, Stacked

LEMMA StackPush ==
    ASSUME StackOK, Len(walks) \in Nat,
           NEW f \in Frame, frames' = <<f>> \o frames, UNCHANGED <<components, walks>>,
           f.at = 0, f.level = Len(walks), FrameOK(f), f.base <= gui_suspend_counter',
           frames # <<>> => Head(frames).at # 0,
           Base <= f.base, f.kind \in Refresh => Base = 0
    PROVE  StackOK' /\ InStack(frames') = {f} \cup InStack(frames)
PROOF
<1>1. frames \in Seq(Frame) /\ Stacked(frames)
  BY DEF StackOK
<1>2. ASSUME NEW g \in InStack(frames) PROVE Above(f, g)
  <2>1. frames # <<>> BY DEF InStack
  <2>2. Head(frames) \in Frame /\ g \in Frame /\ Base = Head(frames).base
    BY <1>1, <2>1, PopFrame DEF Base, InStack
  <2>3. g = Head(frames) \/ Above(Head(frames), g)
    BY <1>1, <2>1, PopFrame
  <2>4. g.at # 0 /\ g.level <= Head(frames).level /\ g.base <= Base
    BY <2>1, <2>2, <2>3 DEF Above, Frame
  <2>5. Head(frames).level <= Len(walks)
    BY <2>1 DEF StackOK, TopOK
  <2>6. g.level <= f.level /\ g.base <= f.base
    BY <2>2, <2>4, <2>5 DEF Frame
  <2>7. f.kind \in Refresh => g.base = 0
    BY <2>2, <2>4 DEF Frame
  <2>8. QED BY <2>4, <2>6, <2>7 DEF Above
<1>3. /\ frames' \in Seq(Frame) /\ frames' # <<>> /\ Head(frames') = f
      /\ InStack(frames') = {f} \cup InStack(frames) /\ Stacked(frames')
  BY <1>1, <1>2, PushFrame
<1>4. \A g \in InStack(frames') : FrameOK(g)'
  BY <1>3 DEF StackOK, FrameOK
<1>5. TopOK(f)'
  BY DEF TopOK
<1>6. QED BY <1>3, <1>4, <1>5 DEF StackOK

LEMMA StackReplace ==
    ASSUME StackOK, frames # <<>>, NEW g \in Frame,
           g.kind = Head(frames).kind, g.level = Head(frames).level,
           g.base = Head(frames).base,
           frames' = <<g>> \o Tail(frames),
           UNCHANGED <<components, walks, gui_suspend_counter>>,
           FrameOK(g), g.at = 0 => g.level = Len(walks)
    PROVE  StackOK' /\ InStack(frames') = {g} \cup InStack(Tail(frames))
PROOF
<1>1. /\ Head(frames) \in Frame /\ Tail(frames) \in Seq(Frame) /\ Stacked(Tail(frames))
      /\ InStack(frames) = {Head(frames)} \cup InStack(Tail(frames))
      /\ \A f \in InStack(Tail(frames)) : Above(Head(frames), f)
  BY PopFrame DEF StackOK
<1>2. \A f \in InStack(Tail(frames)) : Above(g, f)
  BY <1>1 DEF Above
<1>3. /\ frames' \in Seq(Frame) /\ frames' # <<>> /\ Head(frames') = g
      /\ InStack(frames') = {g} \cup InStack(Tail(frames)) /\ Stacked(frames')
  BY <1>1, <1>2, PushFrame
<1>4. \A f \in InStack(frames') : FrameOK(f)'
  BY <1>1, <1>3 DEF StackOK, FrameOK
<1>5. TopOK(g)'
  BY DEF TopOK, StackOK
<1>6. QED BY <1>3, <1>4, <1>5 DEF StackOK

LEMMA StackPop ==
    ASSUME StackOK, frames # <<>>, frames' = Tail(frames), UNCHANGED components,
           Len(walks) \in Nat, Len(walks') = Len(walks),
           \A g \in InStack(Tail(frames)) : g.base <= gui_suspend_counter'
    PROVE  StackOK' /\ InStack(frames) = {Head(frames)} \cup InStack(frames')
PROOF
<1>1. /\ Head(frames) \in Frame /\ Tail(frames) \in Seq(Frame) /\ Stacked(Tail(frames))
      /\ InStack(frames) = {Head(frames)} \cup InStack(Tail(frames))
      /\ \A f \in InStack(Tail(frames)) : Above(Head(frames), f)
      /\ Tail(frames) # <<>> => Head(Tail(frames)) \in InStack(Tail(frames))
  BY PopFrame DEF StackOK
<1>2. \A f \in InStack(frames') : FrameOK(f)'
  BY <1>1 DEF StackOK, FrameOK
<1>3. ASSUME frames' # <<>> PROVE TopOK(Head(frames))'
  <2> DEFINE h == Head(frames)
             t == Head(frames')
  <2>1. t \in InStack(Tail(frames)) /\ Above(h, t) /\ t \in Frame
    BY <1>1, <1>3 DEF InStack
  <2>2. h.level <= Len(walks)
    BY DEF StackOK, TopOK
  <2>3. t.level <= h.level /\ t.at # 0 /\ t.base <= gui_suspend_counter'
    BY <2>1 DEF Above
  <2>4. h.level \in Int /\ t.level \in Int
    <3>1. h \in Frame BY <1>1
    <3> HIDE DEF h, t
    <3>2. QED BY <2>1, <3>1 DEF Frame
  <2> HIDE DEF h, t
  <2>5. t.level <= Len(walks')
    BY <2>2, <2>3, <2>4
  <2>6. QED BY <2>3, <2>5 DEF TopOK, t
<1>4. QED BY <1>1, <1>2, <1>3 DEF StackOK

-----------------------------------------------------------------------------
(* What a step of the program does to what is recorded.                    *)

\* The refresh that runs has the same components to visit.
LEMMA LoopsSame ==
    ASSUME \A f \in InStack(frames) : f.kind # "close" =>
              \E g \in InStack(frames') : g.kind = f.kind /\ g.todo = f.todo,
           \A g \in InStack(frames') : g.kind # "close" =>
              \E f \in InStack(frames) : g.kind = f.kind /\ g.todo = f.todo
    PROVE  (Refreshing' <=> Refreshing) /\ ToVisit' = ToVisit
PROOF
<1>1. Refreshing' <=> Refreshing
  BY LoopsAre, LoopsAreNext DEF LoopFacts
<1>2. \A c : c \in ToVisit' <=> c \in ToVisit
  <2>1. \A k \in Refresh : k # "close" BY DEF Refresh
  <2>2. QED BY <2>1, LoopsAre, LoopsAreNext DEF LoopFacts
<1>3. QED BY <1>1, <1>2

\* Nothing is recorded or told, but components are registered or go.
LEMMA ChangesSame ==
    ASSUME ChangesOK, UNCHANGED <<changes, changes_backup, got_events, late>>,
           Refreshing' <=> Refreshing, ToVisit' = ToVisit,
           gui_suspend_counter' \in Nat, calls' \in 0 .. MaxCalls,
           ~ Refreshing /\ gui_suspend_counter' = 0 => ~ got_events,
           \A c \in components' :
              missed'[c] = {} \/ (c \in components /\ missed'[c] \subseteq missed[c])
    PROVE  ChangesOK'
PROOF
<1>1. \A c \in components' : Kept(c)'
  <2>1. ASSUME NEW c \in components' PROVE Kept(c)'
    <3>1. CASE missed'[c] = {}
      BY <3>1 DEF Kept
    <3>2. CASE c \in components /\ missed'[c] \subseteq missed[c]
      BY <3>2 DEF ChangesOK, Kept, Pending
    <3>3. QED BY <2>1, <3>1, <3>2
  <2>2. QED BY <2>1
<1>2. QED BY <1>1 DEF ChangesOK

LEMMA RegistrySame ==
    ASSUME RegistryOK, UNCHANGED <<registry, missed>> PROVE RegistryOK'
BY DEF RegistryOK, registry

LEMMA EventsSame ==
    ASSUME EventsOK, UNCHANGED <<eventVars, event>> PROVE EventsOK'
BY DEF EventsOK, EventInv, EventTypeOK, WalksValid, NodesPending, eventVars

\* The stack of frames and what it depends on stay the same.
LEMMA StackUntouched ==
    ASSUME StackOK, UNCHANGED <<frames, components, walks>>,
           frames # <<>> => Head(frames).base <= gui_suspend_counter'
    PROVE  StackOK' /\ (Refreshing' <=> Refreshing) /\ ToVisit' = ToVisit
PROOF
<1>1. StackOK'
  BY StackSame DEF StackOK, TopOK, FrameOK
<1>2. (Refreshing' <=> Refreshing) /\ ToVisit' = ToVisit
  BY LoopsSame
<1>3. QED BY <1>1, <1>2

\* No loop is between two components when the program calls.
LEMMA CallerIsCalled ==
    ASSUME StackOK, ClientRuns
    PROVE  \A f \in InStack(frames) : f.at # 0
PROOF
<1>1. frames # <<>> => Head(frames).at # 0
  BY DEF StackOK, TopOK, ClientRuns, Innermost
<1>2. ASSUME NEW f \in InStack(frames)
      PROVE  frames # <<>> /\ (f = Head(frames) \/ Above(Head(frames), f))
  <2>1. frames # <<>> BY DEF InStack
  <2>2. QED BY <2>1, PopFrame DEF StackOK
<1>3. QED BY <1>1, <1>2 DEF Above

\* When no refresh runs nothing is left to be told of in changes_backup.
LEMMA NoRefresh ==
    ASSUME ChangesOK, ~ Refreshing
    PROVE  ToVisit = {} /\ changes_backup = {} /\ \A c \in components : missed[c] \subseteq changes
PROOF
<1>1. \A c : c \notin ToVisit
  BY LoopsAre DEF LoopFacts, Refresh
<1>2. QED BY <1>1 DEF ChangesOK, Kept, Pending

\* A refresh starts, when none runs.
LEMMA StartStep ==
    ASSUME Assumptions, CmInv, NEW kind \in Refresh, NEW recorded \in SUBSET Key,
           StartRefresh(kind, recorded), Base = 0,
           frames # <<>> => Head(frames).at # 0,
           kind = "event" => walks # <<>>,
           UNCHANGED <<components, walks>>,
           got_events' \in BOOLEAN, calls' \in 0 .. MaxCalls,
           \A c \in components : missed'[c] \subseteq recorded
    PROVE  StackOK' /\ ChangesOK'
PROOF
<1> DEFINE f == [kind |-> kind, todo |-> components, at |-> 0,
                 level |-> Len(walks), base |-> 1]
<1>1. ~ Refreshing
  BY RefreshBase DEF CmInv, Refresh
<1>2. Len(walks) \in Nat /\ Len(walks) <= MaxWalks /\ (walks # <<>> => Len(walks) > 0)
  BY DEF CmInv, EventsOK, EventInv, EventTypeOK
<1>3. components \subseteq Component
  BY DEF CmInv, RegistryOK, Component, Assumptions, ComponentManagerAssumption
<1>4. f \in Frame /\ f.kind = kind /\ f.todo = components /\ f.at = 0
      /\ f.level = Len(walks) /\ f.base = 1
  BY <1>2, <1>3 DEF Frame, Refresh, Assumptions, QofEventAssumption
<1>5. FrameOK(f)
  BY <1>2, <1>4 DEF FrameOK, Refresh
<1>6. frames' = <<f>> \o frames /\ gui_suspend_counter' = 1
      /\ changes' = changes_backup /\ changes_backup' = recorded /\ late' = {}
  BY DEF StartRefresh
<1> HIDE DEF f
<1>7. StackOK' /\ InStack(frames') = {f} \cup InStack(frames)
  BY <1>2, <1>4, <1>5, <1>6, StackPush DEF CmInv
<1>8. Refreshing' /\ components' \subseteq ToVisit'
  <2>1. kind # "close" BY DEF Refresh
  <2>2. QED BY <1>4, <1>7, <2>1, LoopsAreNext DEF LoopFacts
<1>9. \A c \in components' : Kept(c)'
  BY <1>6, <1>8 DEF Kept, Pending
<1>10. ChangesOK'
  BY <1>1, <1>6, <1>8, <1>9 DEF ChangesOK, CmInv
<1>11. QED BY <1>7, <1>10

-----------------------------------------------------------------------------
(* The calls of the rest of the program.                                   *)

\* A call that concerns neither events nor the loops.
LEMMA CallStep ==
    ASSUME Assumptions, CmInv,
           UNCHANGED <<frames, components, walks, changes, changes_backup, got_events,
                       late, missed>>,
           gui_suspend_counter' \in Nat, calls' \in 0 .. MaxCalls,
           ~ Refreshing /\ gui_suspend_counter' = 0 => ~ got_events,
           frames # <<>> => Head(frames).base <= gui_suspend_counter',
           EventsOK', RegistryOK'
    PROVE  CmInv'
PROOF
<1>1. StackOK' /\ (Refreshing' <=> Refreshing) /\ ToVisit' = ToVisit
  BY StackUntouched DEF CmInv
<1>2. ChangesOK'
  BY <1>1, ChangesSame DEF CmInv
<1>3. QED BY <1>1, <1>2 DEF CmInv

LEMMA CallsType ==
    ASSUME CmInv, Call, Assumptions
    PROVE  ClientRuns /\ calls' \in 0 .. MaxCalls
BY DEF CmInv, ChangesOK, Call, Assumptions, ComponentManagerAssumption

LEMMA RegisterComponentStep ==
    ASSUME Assumptions, CmInv, NEW s \in Session, RegisterComponent(s) PROVE CmInv'
PROOF
<1> USE DEF RegisterComponent
<1>1. EventsOK'
  BY EventsSame DEF CmInv
<1>2. RegistryOK'
  BY DEF CmInv, RegistryOK, Component, Assumptions, ComponentManagerAssumption
<1>3. StackOK' /\ (Refreshing' <=> Refreshing) /\ ToVisit' = ToVisit
  <2>1. StackOK'
    <3>1. \A f \in InStack(frames) : f.kind = "close" => f.todo \subseteq components'
      BY DEF CmInv, StackOK, FrameOK
    <3>2. UNCHANGED <<frames, walks, gui_suspend_counter>> BY DEF eventVars
    <3>3. QED BY <3>1, <3>2, StackSame DEF CmInv, StackOK, TopOK
  <2>2. frames' = frames OBVIOUS
  <2>3. QED BY <2>1, <2>2, LoopsSame
<1>4. \A c \in components' :
         missed'[c] = {} \/ (c \in components /\ missed'[c] = missed[c])
  <2>1. next_component_id \in Component /\ next_component_id \notin components
    BY DEF CmInv, RegistryOK
  <2>2. missed[next_component_id] = {}
    BY <2>1 DEF CmInv, RegistryOK
  <2>3. QED BY <2>2
<1>5. calls' \in 0 .. MaxCalls
  BY CallsType
<1>6. ChangesOK'
  BY <1>3, <1>4, <1>5, ChangesSame DEF CmInv, ChangesOK, collected
<1>7. QED BY <1>1, <1>2, <1>3, <1>6 DEF CmInv

LEMMA WatchStep ==
    ASSUME Assumptions, CmInv, NEW c \in Component, NEW subject \in Subject,
           NEW mask \in SUBSET subject, Watch(c, subject, mask)
    PROVE  CmInv'
PROOF
<1> USE DEF Watch
<1>1. EventsOK'
  BY EventsSame DEF CmInv
<1>2. RegistryOK'
  <2>1. mask \subseteq Key BY DEF Assumptions, ComponentManagerAssumption
  <2>2. /\ watches' \in [Component -> SUBSET Key] /\ missed' \in [Component -> SUBSET Key]
        /\ missed'[c] = missed[c] \cap watches'[c]
        /\ \A d \in Component \ {c} : missed'[d] = missed[d] /\ watches'[d] = watches[d]
    BY <2>1 DEF CmInv, RegistryOK
  <2>3. QED BY <2>2 DEF CmInv, RegistryOK
<1>3. StackOK' /\ (Refreshing' <=> Refreshing) /\ ToVisit' = ToVisit
  BY StackUntouched DEF CmInv, StackOK, TopOK, eventVars
<1>4. \A d \in components' : d \in components /\ missed'[d] \subseteq missed[d]
  BY DEF CmInv, RegistryOK, Component
<1>5. calls' \in 0 .. MaxCalls
  BY CallsType
<1>6. ChangesOK'
  BY <1>3, <1>4, <1>5, ChangesSame DEF CmInv, ChangesOK, collected
<1>7. QED BY <1>1, <1>2, <1>3, <1>6 DEF CmInv

LEMMA ClearWatchesStep ==
    ASSUME Assumptions, CmInv, NEW c \in Component, ClearWatches(c) PROVE CmInv'
PROOF
<1> USE DEF ClearWatches
<1>1. EventsOK'
  BY EventsSame DEF CmInv
<1>2. RegistryOK'
  BY DEF CmInv, RegistryOK
<1>3. StackOK' /\ (Refreshing' <=> Refreshing) /\ ToVisit' = ToVisit
  BY StackUntouched DEF CmInv, StackOK, TopOK, eventVars
<1>4. \A d \in components' : missed'[d] = {} \/ (d \in components /\ missed'[d] = missed[d])
  BY DEF CmInv, RegistryOK, Component
<1>5. calls' \in 0 .. MaxCalls
  BY CallsType
<1>6. ChangesOK'
  BY <1>3, <1>4, <1>5, ChangesSame DEF CmInv, ChangesOK, collected
<1>7. QED BY <1>1, <1>2, <1>3, <1>6 DEF CmInv

\* The components that are still to be closed are older than the one that goes.
LEMMA UnregisterComponentStep ==
    ASSUME Assumptions, CmInv, NEW c \in Component, UnregisterComponent(c)
    PROVE  CmInv'
PROOF
<1> USE DEF UnregisterComponent
<1>1. EventsOK'
  BY EventsSame DEF CmInv
<1>2. RegistryOK'
  BY DEF CmInv, RegistryOK
<1>3. StackOK' /\ (Refreshing' <=> Refreshing) /\ ToVisit' = ToVisit
  <2>1. ASSUME NEW f \in InStack(frames), f.kind = "close"
        PROVE  f.todo \subseteq components'
    <3>1. f.at # 0 /\ f.at <= c
      BY <2>1, CallsType, CallerIsCalled, LoopsAre DEF CmInv, LoopFacts
    <3>2. \A d \in f.todo : d < f.at
      BY <2>1, <3>1 DEF CmInv, StackOK, FrameOK
    <3>3. f \in Frame
      BY DEF CmInv, StackOK, InStack
    <3>4. c \notin f.todo
      BY <3>1, <3>2, <3>3 DEF Frame, Component
    <3>5. QED BY <2>1, <3>4 DEF CmInv, StackOK, FrameOK
  <2>2. UNCHANGED <<frames, walks, gui_suspend_counter>> BY DEF eventVars
  <2>3. StackOK'
    BY <2>1, <2>2, StackSame DEF CmInv, StackOK, TopOK
  <2>4. QED BY <2>2, <2>3, LoopsSame
<1>4. \A d \in components' : missed'[d] = {} \/ (d \in components /\ missed'[d] = missed[d])
  BY DEF CmInv, RegistryOK, Component
<1>5. calls' \in 0 .. MaxCalls
  BY CallsType
<1>6. ChangesOK'
  BY <1>3, <1>4, <1>5, ChangesSame DEF CmInv, ChangesOK, collected
<1>7. QED BY <1>1, <1>2, <1>3, <1>6 DEF CmInv

LEMMA SuspendGuiStep ==
    ASSUME Assumptions, CmInv, SuspendGui PROVE CmInv'
PROOF
<1> USE DEF SuspendGui
<1>1. EventsOK' /\ RegistryOK'
  BY EventsSame, RegistrySame DEF CmInv
<1>2. gui_suspend_counter' \in Nat /\ gui_suspend_counter' = gui_suspend_counter + 1
      /\ gui_suspend_counter \in Nat
  BY DEF CmInv, ChangesOK
<1>3. frames # <<>> => Head(frames).base <= gui_suspend_counter'
  <2>1. frames # <<>> => Head(frames).base \in Nat /\ Head(frames).base <= gui_suspend_counter
    BY PopFrame DEF CmInv, StackOK, TopOK, Frame
  <2>2. QED BY <1>2, <2>1
<1>4. calls' \in 0 .. MaxCalls
  BY CallsType
<1>5. QED
  BY <1>1, <1>2, <1>3, <1>4, CallStep DEF registry, collected, eventVars

LEMMA ResumeGuiStep ==
    ASSUME Assumptions, CmInv, ResumeGui PROVE CmInv'
PROOF
<1>1. EventsOK' /\ RegistryOK'
  BY EventsSame, RegistrySame DEF CmInv, ResumeGui
<1>2. ClientRuns /\ calls' \in 0 .. MaxCalls
  BY CallsType DEF ResumeGui
<1>3. gui_suspend_counter \in Nat /\ gui_suspend_counter > Base /\ Base \in Nat
  BY PopFrame DEF CmInv, ChangesOK, ResumeGui, Base, StackOK, Frame
<1>4. UNCHANGED <<components, walks>>
  BY DEF ResumeGui, registry, eventVars
<1>5. CASE gui_suspend_counter = 1 /\ got_events
  <2>1. StartRefresh("resume", changes) /\ got_events' = got_events /\ missed' = missed
    BY <1>5 DEF ResumeGui
  <2>2. Base = 0
    BY <1>3, <1>5
  <2>3. frames # <<>> => Head(frames).at # 0
    BY <1>2, CallerIsCalled, PopFrame DEF CmInv, StackOK
  <2>4. \A c \in components : missed'[c] \subseteq changes
    BY <2>1, <2>2, RefreshBase, NoRefresh DEF CmInv
  <2>5. StackOK' /\ ChangesOK'
    BY <1>2, <1>4, <2>1, <2>2, <2>3, <2>4, StartStep DEF CmInv, ChangesOK, Refresh
  <2>6. QED BY <1>1, <2>5 DEF CmInv
<1>6. CASE ~ (gui_suspend_counter = 1 /\ got_events)
  <2>1. /\ gui_suspend_counter' = gui_suspend_counter - 1
        /\ UNCHANGED <<collected, frames, late, missed>>
    BY <1>6 DEF ResumeGui
  <2>2. gui_suspend_counter' \in Nat /\ gui_suspend_counter' >= Base
    BY <1>3, <2>1
  <2>3. ~ Refreshing /\ gui_suspend_counter' = 0 => ~ got_events
    BY <1>3, <1>6, <2>1
  <2>4. frames # <<>> => Head(frames).base <= gui_suspend_counter'
    BY <2>2 DEF Base
  <2>5. QED
    BY <1>1, <1>2, <1>4, <2>1, <2>2, <2>3, <2>4, CallStep DEF collected
<1>7. QED BY <1>5, <1>6

LEMMA RefreshAllStep ==
    ASSUME Assumptions, CmInv, RefreshAll PROVE CmInv'
PROOF
<1>1. EventsOK' /\ RegistryOK'
  BY EventsSame, RegistrySame DEF CmInv, RefreshAll
<1>2. ClientRuns /\ calls' \in 0 .. MaxCalls
  BY CallsType DEF RefreshAll
<1>3. StartRefresh("all", changes) /\ got_events' = got_events /\ missed' = missed
      /\ gui_suspend_counter = 0 /\ UNCHANGED <<components, walks>>
  BY DEF RefreshAll, registry, eventVars
<1>4. Base = 0
  <2>1. frames # <<>> => Head(frames).base \in Nat /\ Head(frames).base <= 0
    BY <1>3, PopFrame DEF CmInv, StackOK, TopOK, Frame
  <2>2. QED BY <2>1 DEF Base
<1>5. frames # <<>> => Head(frames).at # 0
  BY <1>2, CallerIsCalled, PopFrame DEF CmInv, StackOK
<1>6. \A c \in components : missed'[c] \subseteq changes
  BY <1>3, <1>4, RefreshBase, NoRefresh DEF CmInv
<1>7. StackOK' /\ ChangesOK'
  BY <1>2, <1>3, <1>4, <1>5, <1>6, StartStep DEF CmInv, ChangesOK, Refresh
<1>8. QED BY <1>1, <1>7 DEF CmInv

-----------------------------------------------------------------------------
(* Events: the steps of QofEvent that the rest of the program causes.      *)

\* What a step with a walk replaced, or one more or less, does to the lengths.
LEMMA WalkLengths ==
    ASSUME NEW ws \in Seq(Walk), NEW w \in Walk
    PROVE  /\ Len(<<w>> \o ws) = Len(ws) + 1
           /\ ws # <<>> => Len(Tail(ws)) = Len(ws) - 1 /\ Len(<<w>> \o Tail(ws)) = Len(ws)
           /\ Len(ws) \in Nat /\ (ws # <<>> <=> Len(ws) > 0)
OBVIOUS

LEMMA RaiseEventStep ==
    ASSUME Assumptions, CmInv, NEW ev \in Event, NEW forced \in BOOLEAN,
           RaiseEvent(ev, forced)
    PROVE  CmInv'
PROOF
<1>1. EventInv'
  BY EventStep DEF CmInv, EventsOK, RaiseEvent, EventNext, Assumptions
<1>2. Len(walks') = Len(walks) + 1 /\ Len(walks) \in Nat /\ Len(walks) < MaxWalks
  <2>1. walks' = <<[next_node |-> FirstBelow(MaxId + 1), at |-> 0]>> \o walks
        /\ Len(walks) < MaxWalks
    BY DEF RaiseEvent, Generate
  <2>2. walks \in Seq(Walk) BY DEF CmInv, EventsOK, EventInv, EventTypeOK
  <2>3. QED BY <2>1, <2>2
<1>3. event' \in Seq(Event) /\ Len(event') = Len(event) + 1
  BY DEF RaiseEvent, CmInv, EventsOK
<1>4. EventsOK' /\ RegistryOK'
  BY <1>1, <1>2, <1>3, RegistrySame DEF CmInv, EventsOK, RaiseEvent, Assumptions, QofEventAssumption
<1>5. ClientRuns /\ calls' \in 0 .. MaxCalls
  BY CallsType DEF RaiseEvent
<1>6. UNCHANGED <<registry, gui_suspend_counter, collected, frames, missed, late>>
  BY DEF RaiseEvent
<1>7. StackOK'
  <2>1. frames # <<>> => TopOK(Head(frames))'
    <3> SUFFICES ASSUME frames # <<>> PROVE TopOK(Head(frames))'
      OBVIOUS
    <3>1. TopOK(Head(frames)) /\ Head(frames) \in Frame
      BY PopFrame DEF CmInv, StackOK
    <3>2. Head(frames).at # 0
      BY <1>5, CallerIsCalled, PopFrame DEF CmInv, StackOK
    <3>3. Head(frames).level \in Int BY <3>1 DEF Frame
    <3>4. QED BY <1>2, <1>6, <3>1, <3>2, <3>3 DEF TopOK
  <2>2. \A f \in InStack(frames) : f.kind = "close" => f.todo \subseteq components'
    BY <1>6 DEF CmInv, StackOK, FrameOK, registry
  <2>3. QED BY <1>6, <2>1, <2>2, StackSame DEF CmInv
<1>8. ChangesOK'
  BY <1>5, <1>6, LoopsSame, ChangesSame DEF CmInv, ChangesOK, registry, collected
<1>9. QED BY <1>4, <1>7, <1>8 DEF CmInv

LEMMA ChangeHandlersStep ==
    ASSUME Assumptions, CmInv, ChangeHandlers
    PROVE  CmInv'
PROOF
<1>1. EventInv'
  BY EventStep DEF CmInv, EventsOK, ChangeHandlers, EventNext, Assumptions
<1>2. walks' = walks
  BY DEF ChangeHandlers, RegisterHandler, UnregisterHandler, SuspendEvents, ResumeEvents
<1>3. EventsOK' /\ RegistryOK'
  BY <1>1, <1>2, RegistrySame DEF CmInv, EventsOK, ChangeHandlers
<1>4. calls' \in 0 .. MaxCalls
  BY CallsType DEF ChangeHandlers
<1>5. UNCHANGED <<registry, gui_suspend_counter, collected, frames, missed, late>>
  BY DEF ChangeHandlers
<1>6. QED
  BY <1>2, <1>3, <1>4, <1>5, CallStep
     DEF CmInv, ChangesOK, StackOK, TopOK, registry, collected

\* A walk goes on above the loops, or a handler returns to it.
LEMMA DeliveryStep ==
    ASSUME Assumptions, CmInv, EventInv', ~ Innermost,
           event' = (IF Len(walks') < Len(walks) THEN Tail(event) ELSE event),
           Len(walks) > 0, Len(walks') \in {Len(walks), Len(walks) - 1},
           UNCHANGED <<registry, gui_suspend_counter, collected, frames, calls,
                       missed, late>>
    PROVE  CmInv'
PROOF
<1>1. Len(walks) \in Nat /\ Len(walks') \in Nat
  BY DEF CmInv, EventsOK, EventInv, EventTypeOK
<1>2. EventsOK' /\ RegistryOK'
  <2>1. event' \in Seq(Event) /\ Len(event') = Len(walks')
    <3>1. event \in Seq(Event) /\ Len(event) = Len(walks)
      BY DEF CmInv, EventsOK
    <3>2. event # <<>> BY <3>1, Len(walks) > 0
    <3>3. Tail(event) \in Seq(Event) /\ Len(Tail(event)) = Len(event) - 1
      BY <3>1, <3>2
    <3>4. QED BY <1>1, <3>1, <3>3
  <2>2. Len(walks') <= MaxWalks
    BY <1>1 DEF CmInv, EventsOK, Assumptions, QofEventAssumption
  <2>3. QED BY <2>1, <2>2, RegistrySame DEF CmInv, EventsOK
<1>3. StackOK'
  <2>1. frames # <<>> => TopOK(Head(frames))'
    <3> SUFFICES ASSUME frames # <<>> PROVE TopOK(Head(frames))'
      OBVIOUS
    <3>1. TopOK(Head(frames)) /\ Head(frames) \in Frame
      BY PopFrame DEF CmInv, StackOK
    <3>2. Head(frames).level # Len(walks)
      BY DEF Innermost
    <3>3. Head(frames).level \in Int BY <3>1 DEF Frame
    <3>4. QED BY <1>1, <3>1, <3>2, <3>3 DEF TopOK
  <2>2. \A f \in InStack(frames) : f.kind = "close" => f.todo \subseteq components'
    BY DEF CmInv, StackOK, FrameOK, registry
  <2>3. QED BY <2>1, <2>2, StackSame DEF CmInv
<1>4. ChangesOK'
  BY LoopsSame, ChangesSame DEF CmInv, ChangesOK, registry, collected
<1>5. QED BY <1>2, <1>3, <1>4 DEF CmInv

LEMMA WalksTyped ==
    ASSUME CmInv
    PROVE  walks \in Seq(Walk) /\ Len(walks) \in Nat /\ (walks # <<>> <=> Len(walks) > 0)
BY DEF CmInv, EventsOK, EventInv, EventTypeOK

LEMMA ReturnedLength ==
    ASSUME CmInv, walks # <<>> PROVE Len(Returned) = Len(walks)
PROOF
<1> DEFINE w == [Head(walks) EXCEPT !.at = 0]
<1>1. w \in Walk
  BY Popped DEF CmInv, EventsOK, EventInv, Walk
<1> HIDE DEF w
<1>2. Len(<<w>> \o Tail(walks)) = Len(walks)
  BY <1>1, WalksTyped, WalkLengths
<1>3. QED BY <1>2 DEF Returned, w

LEMMA DeliverOnStep ==
    ASSUME Assumptions, CmInv, DeliverOn PROVE CmInv'
PROOF
<1>1. EventInv'
  BY EventStep DEF CmInv, EventsOK, DeliverOn, EventNext, Assumptions
<1>2. Len(walks) > 0 /\ Len(walks') \in {Len(walks), Len(walks) - 1}
  <2>1. CASE Visit
    <3>1. PICK w : walks' = <<w>> \o Tail(walks) /\ walks # <<>>
      BY <2>1 DEF Visit, Walking
    <3>2. walks' # <<>> /\ walks' \in Seq(Walk) BY <1>1, <3>1 DEF EventInv, EventTypeOK
    <3>3. QED BY <3>1, <3>2, WalksTyped
  <2>2. CASE WalkDone
    BY <2>2, WalksTyped DEF WalkDone, Walking
  <2>3. QED BY <2>1, <2>2 DEF DeliverOn, WalkStep
<1>3. QED BY <1>1, <1>2, DeliveryStep DEF DeliverOn

LEMMA HandlerReturnsStep ==
    ASSUME Assumptions, CmInv, HandlerReturns PROVE CmInv'
PROOF
<1>1. EventInv'
  BY EventStep DEF CmInv, EventsOK, HandlerReturns, EventNext, Assumptions
<1>2. Len(walks) > 0 /\ Len(walks') = Len(walks)
  BY ReturnedLength, WalksTyped DEF HandlerReturns, Return
<1>3. QED BY <1>1, <1>2, WalksTyped, DeliveryStep DEF HandlerReturns

-----------------------------------------------------------------------------
(* Events reach the component manager.                                     *)

LEMMA CmEventStep ==
    ASSUME Assumptions, CmInv, CmEvent PROVE CmInv'
PROOF
<1> DEFINE ev == Head(event)
<1>1. walks # <<>> /\ ~ Innermost /\ Head(walks).at = CmNode
  BY DEF CmEvent, Called
<1>2. ev \subseteq Key
  <2>1. event \in Seq(Event) /\ Len(event) = Len(walks) /\ Len(walks) > 0
    BY <1>1, WalksTyped DEF CmInv, EventsOK
  <2>2. ev \in Event BY <2>1
  <2>3. QED BY <2>2 DEF Assumptions, ComponentManagerAssumption
<1>3. /\ got_events' = TRUE
      /\ missed' = [c \in Component |-> missed[c] \cup (watches[c] \cap ev)]
      /\ UNCHANGED <<handlers, handler, next_handler_id, pending_deletes,
                     suspend_counter, registry, event, calls>>
      /\ walks' = walks \/ walks' = Returned
  BY DEF CmEvent
<1> HIDE DEF ev
<1>4. EventInv'
  <2>1. CASE walks' = walks
    BY <1>3, <2>1, EventStep DEF CmInv, EventsOK, Assumptions, eventVars
  <2>2. CASE walks' = Returned
    BY <1>1, <1>3, <2>2, ReturnStep DEF CmInv, EventsOK
  <2>3. QED BY <1>3, <2>1, <2>2
<1>5. Len(walks') = Len(walks)
  BY <1>1, <1>3, ReturnedLength
<1>6. EventsOK'
  BY <1>3, <1>4, <1>5 DEF CmInv, EventsOK
<1>7. RegistryOK'
  BY <1>2, <1>3 DEF CmInv, RegistryOK, registry
<1>8. components \subseteq Component
  BY DEF CmInv, RegistryOK, Component, Assumptions, ComponentManagerAssumption
<1>9. frames # <<>> => Head(frames).at # 0
  BY <1>1 DEF CmInv, StackOK, TopOK, Innermost
<1>10. CASE gui_suspend_counter = 0
  <2>1. StartRefresh("event", changes \cup ev) /\ walks' = walks
    BY <1>10 DEF CmEvent, ev
  <2>2. Base = 0
    <3>1. frames # <<>> => Head(frames).base \in Nat /\ Head(frames).base <= 0
      BY <1>10, PopFrame DEF CmInv, StackOK, TopOK, Frame
    <3>2. QED BY <3>1 DEF Base
  <2>3. \A c \in components : missed'[c] \subseteq changes \cup ev
    BY <1>3, <1>8, <2>2, RefreshBase, NoRefresh DEF CmInv
  <2>4. changes \cup ev \in SUBSET Key /\ calls' \in 0 .. MaxCalls
    BY <1>2, <1>3 DEF CmInv, ChangesOK
  <2>5. UNCHANGED components
    BY <1>3 DEF registry
  <2>6. StackOK' /\ ChangesOK'
    BY <1>1, <1>3, <1>9, <2>1, <2>2, <2>3, <2>4, <2>5, StartStep DEF Refresh
  <2>7. QED BY <1>6, <1>7, <2>6 DEF CmInv
<1>11. CASE gui_suspend_counter # 0
  <2>1. /\ changes' = changes \cup ev
        /\ late' = IF Refreshing THEN late \cup ev ELSE late
        /\ UNCHANGED <<gui_suspend_counter, frames, changes_backup>>
    BY <1>11 DEF CmEvent, ev
  <2>2. StackOK'
    <3>1. frames # <<>> => TopOK(Head(frames))'
      BY <1>5, <2>1 DEF CmInv, StackOK, TopOK
    <3>2. \A f \in InStack(frames) : f.kind = "close" => f.todo \subseteq components'
      BY <1>3 DEF CmInv, StackOK, FrameOK, registry
    <3>3. QED BY <2>1, <3>1, <3>2, StackSame DEF CmInv
  <2>3. (Refreshing' <=> Refreshing) /\ ToVisit' = ToVisit
    BY <2>1, LoopsSame
  <2>4. ASSUME NEW c \in components PROVE Kept(c)'
    <3>1. missed'[c] \subseteq missed[c] \cup ev
      BY <1>3, <1>8
    <3>2. Kept(c) BY DEF CmInv, ChangesOK
    <3>3. QED BY <1>3, <2>1, <2>3, <3>1, <3>2 DEF Kept, Pending
  <2>5. ChangesOK'
    BY <1>2, <1>3, <1>11, <2>1, <2>3, <2>4 DEF CmInv, ChangesOK, registry
  <2>6. QED BY <1>6, <1>7, <2>2, <2>5 DEF CmInv
<1>12. QED BY <1>10, <1>11

-----------------------------------------------------------------------------
(* The loops over the components.                                          *)

\* The component a loop visits is the newest of those it has to visit.
LEMMA NewestVisited ==
    ASSUME Assumptions, StackOK, frames # <<>>, Head(frames).todo # {}
    PROVE  /\ Max(Head(frames).todo) \in Head(frames).todo
           /\ Head(frames).todo \subseteq Component
           /\ Max(Head(frames).todo) \in Nat \ {0}
           /\ \A d \in Head(frames).todo \ {Max(Head(frames).todo)} :
                 d < Max(Head(frames).todo)
PROOF
<1> DEFINE todo == Head(frames).todo
<1>1. todo \subseteq 1 .. MaxComponent /\ MaxComponent \in Nat
  BY PopFrame DEF StackOK, Frame, Component, Assumptions, ComponentManagerAssumption
<1> HIDE DEF todo
<1>2. CASE todo # {}
  <2>1. \E x \in todo : \A y \in todo : y <= x
    BY <1>1, <1>2, Greatest
  <2>2. \E x \in todo : \A y \in todo : x >= y
    BY <1>1, <2>1
  <2>3. Max(todo) \in todo /\ \A y \in todo : Max(todo) >= y
    BY <2>2 DEF Max
  <2>4. QED BY <1>1, <2>3 DEF todo, Component
<1>3. QED BY <1>2 DEF todo

\* The frame on top when a loop visits component c, and the rest of the step.
LEMMA VisitComponentStep ==
    ASSUME Assumptions, CmInv, Innermost, Head(frames).todo # {}, NEW isCalled \in BOOLEAN,
           VisitComponent(Max(Head(frames).todo), isCalled),
           UNCHANGED <<components, walks, gui_suspend_counter>>
    PROVE  /\ StackOK'
           /\ \E g \in Frame :
                /\ InStack(frames') = {g} \cup InStack(Tail(frames))
                /\ g.kind = Head(frames).kind
                /\ g.todo = Head(frames).todo \ {Max(Head(frames).todo)}
PROOF
<1> DEFINE c == Max(Head(frames).todo)
           h == Head(frames)
           g == [h EXCEPT !.todo = @ \ {c}, !.at = IF isCalled THEN c ELSE 0]
<1>1. frames # <<>> /\ h.level = Len(walks)
  BY DEF Innermost
<1>2. h \in Frame /\ FrameOK(h)
  BY <1>1, PopFrame DEF CmInv, StackOK
<1>3. c \in h.todo /\ h.todo \subseteq Component /\ c \in Nat \ {0}
      /\ \A d \in h.todo \ {c} : d < c
  BY <1>1, NewestVisited DEF CmInv
<1> HIDE DEF c
<1>4. /\ g \in Frame /\ g.kind = h.kind /\ g.level = h.level /\ g.base = h.base
      /\ g.todo = h.todo \ {c} /\ g.at = IF isCalled THEN c ELSE 0
  BY <1>2, <1>3 DEF Frame
<1>5. frames' = <<g>> \o Tail(frames)
  BY DEF VisitComponent, c
<1> HIDE DEF g, h
<1>6. FrameOK(g)
  BY <1>2, <1>3, <1>4 DEF FrameOK
<1>7. StackOK' /\ InStack(frames') = {g} \cup InStack(Tail(frames))
  BY <1>1, <1>4, <1>5, <1>6, StackReplace DEF CmInv, h
<1>8. QED BY <1>4, <1>7 DEF h, c

\* A refresh is the only one.
LEMMA OneRefresh ==
    ASSUME StackOK, frames # <<>>, Head(frames).kind \in Refresh
    PROVE  /\ \A f \in InStack(Tail(frames)) : f.kind = "close" /\ f.base = 0
           /\ Refreshing /\ ToVisit = Head(frames).todo /\ Head(frames).base = 1
PROOF
<1>1. /\ InStack(frames) = {Head(frames)} \cup InStack(Tail(frames))
      /\ \A f \in InStack(Tail(frames)) : Above(Head(frames), f) /\ f \in Frame
  <2>1. /\ InStack(frames) = {Head(frames)} \cup InStack(Tail(frames))
        /\ \A f \in InStack(Tail(frames)) : Above(Head(frames), f)
        /\ Tail(frames) \in Seq(Frame)
    BY PopFrame DEF StackOK
  <2>2. QED BY <2>1 DEF InStack
<1>2. \A f \in InStack(Tail(frames)) : f.base = 0
  BY <1>1 DEF Above
<1>3. \A f \in InStack(Tail(frames)) : f.kind \notin Refresh
  BY <1>1, <1>2 DEF StackOK, FrameOK
<1>4. \A f \in InStack(Tail(frames)) : f.kind = "close"
  BY <1>1, <1>3 DEF Frame, Refresh
<1>5. Refreshing
  BY <1>1, LoopsAre DEF LoopFacts, Refresh
<1>6. ToVisit = Head(frames).todo
  BY <1>1, <1>3, LoopsAre DEF LoopFacts
<1>7. Head(frames).base = 1
  BY <1>1 DEF StackOK, FrameOK
<1>8. QED BY <1>2, <1>4, <1>5, <1>6, <1>7

LEMMA RefreshComponentStep ==
    ASSUME Assumptions, CmInv, RefreshComponent PROVE CmInv'
PROOF
<1> DEFINE c == Max(Head(frames).todo)
           forced == Head(frames).kind = "all"
           told == c \in components /\ (forced \/ watches[c] \cap changes_backup # {})
<1>1. /\ Innermost /\ Head(frames).kind \in Refresh /\ Head(frames).todo # {}
      /\ VisitComponent(c, told)
      /\ missed' = [missed EXCEPT ![c] = IF ~ told THEN @
                                         ELSE IF forced THEN {} ELSE @ \ changes_backup]
      /\ UNCHANGED <<eventVars, registry, gui_suspend_counter, collected, event, calls, late>>
  BY DEF RefreshComponent, Looping
<1>2. frames # <<>> BY <1>1 DEF Innermost
<1>3. c \in Component
  BY <1>1, <1>2, NewestVisited DEF CmInv
<1>4. EventsOK'
  BY <1>1, EventsSame DEF CmInv
<1>5. RegistryOK'
  <2> HIDE DEF c, told, forced
  <2>1. missed' \in [Component -> SUBSET Key] /\ \A d \in Component : missed'[d] \subseteq missed[d]
    BY <1>1, <1>3 DEF CmInv, RegistryOK
  <2>2. QED BY <1>1, <2>1 DEF CmInv, RegistryOK, registry
<1>6. StackOK' /\ \E g \in Frame : /\ InStack(frames') = {g} \cup InStack(Tail(frames))
                                   /\ g.kind = Head(frames).kind
                                   /\ g.todo = Head(frames).todo \ {c}
  <2>1. told \in BOOLEAN OBVIOUS
  <2> HIDE DEF told
  <2>2. QED BY <1>1, <2>1, VisitComponentStep DEF registry, eventVars
<1>7. Refreshing /\ ToVisit = Head(frames).todo
      /\ \A f \in InStack(Tail(frames)) : f.kind = "close"
  BY <1>1, <1>2, OneRefresh DEF CmInv
<1>8. Refreshing' /\ ToVisit' = ToVisit \ {c}
  <2> HIDE DEF c
  <2>1. PICK g \in Frame : /\ InStack(frames') = {g} \cup InStack(Tail(frames))
                           /\ g.kind = Head(frames).kind
                           /\ g.todo = Head(frames).todo \ {c}
    BY <1>6
  <2>2. Refreshing'
    BY <1>1, <2>1, LoopsAreNext DEF LoopFacts, Refresh
  <2>3. \A d : d \in ToVisit' <=> d \in ToVisit \ {c}
    BY <1>1, <1>7, <2>1, LoopsAreNext DEF LoopFacts, Refresh
  <2>4. QED BY <2>2, <2>3
<1>9. ASSUME NEW d \in components PROVE Kept(d)'
  <2>1. Kept(d) /\ missed[d] \subseteq watches[d] /\ d \in Component
    BY DEF CmInv, ChangesOK, RegistryOK, Component, Assumptions, ComponentManagerAssumption
  <2>2. CASE d # c
    <3>1. missed'[d] = missed[d] BY <1>1, <2>1, <2>2 DEF CmInv, RegistryOK
    <3>2. Pending(d)' = Pending(d)
      BY <1>1, <1>8, <2>2 DEF Pending, collected
    <3>3. QED BY <1>1, <1>7, <1>8, <2>1, <3>1, <3>2 DEF Kept, collected
  <2>3. CASE d = c
    <3> HIDE DEF forced
    <3>1. missed'[d] \cap changes_backup = {} /\ missed'[d] \subseteq missed[d]
      BY <1>1, <1>3, <2>1, <2>3 DEF CmInv, RegistryOK
    <3>2. Pending(d) \subseteq changes_backup BY DEF Pending
    <3>3. missed'[d] \subseteq changes /\ missed'[d] \subseteq late
      BY <1>7, <2>1, <3>1, <3>2 DEF Kept
    <3>4. QED BY <1>1, <1>8, <3>3 DEF Kept, collected
  <2>4. QED BY <2>2, <2>3
<1>10. ChangesOK'
  BY <1>1, <1>8, <1>9 DEF CmInv, ChangesOK, collected, registry
<1>11. QED BY <1>4, <1>5, <1>6, <1>10 DEF CmInv

LEMMA ComponentReturnsStep ==
    ASSUME Assumptions, CmInv, ComponentReturns PROVE CmInv'
PROOF
<1> DEFINE h == Head(frames)
           g == [h EXCEPT !.at = 0]
<1>1. /\ Innermost /\ frames # <<>> /\ h.level = Len(walks)
      /\ frames' = <<g>> \o Tail(frames)
      /\ UNCHANGED <<eventVars, registry, gui_suspend_counter, collected, event,
                     calls, missed, late>>
  BY DEF ComponentReturns, Innermost
<1>2. h \in Frame /\ FrameOK(h) /\ InStack(frames) = {h} \cup InStack(Tail(frames))
  BY <1>1, PopFrame DEF CmInv, StackOK
<1>3. /\ g \in Frame /\ g.kind = h.kind /\ g.level = h.level /\ g.base = h.base
      /\ g.todo = h.todo /\ g.at = 0
  BY <1>2 DEF Frame
<1>4. FrameOK(g)
  BY <1>2, <1>3 DEF FrameOK
<1>5. StackOK' /\ InStack(frames') = {g} \cup InStack(Tail(frames))
  <2> HIDE DEF g
  <2>1. UNCHANGED <<components, walks, gui_suspend_counter>>
    BY <1>1 DEF registry, eventVars
  <2>2. QED BY <1>1, <1>3, <1>4, <2>1, StackReplace DEF CmInv
<1>6. (Refreshing' <=> Refreshing) /\ ToVisit' = ToVisit
  <2> HIDE DEF g, h
  <2> QED BY <1>2, <1>3, <1>5, LoopsSame
<1>7. EventsOK' /\ RegistryOK'
  BY <1>1, EventsSame, RegistrySame DEF CmInv
<1>8. ChangesOK'
  BY <1>1, <1>6, ChangesSame DEF CmInv, ChangesOK, registry, collected
<1>9. QED BY <1>5, <1>7, <1>8 DEF CmInv

LEMMA RefreshDoneStep ==
    ASSUME Assumptions, CmInv, RefreshDone PROVE CmInv'
PROOF
<1>1. /\ Innermost /\ frames # <<>> /\ Head(frames).kind \in Refresh
      /\ Head(frames).todo = {} /\ Head(frames).level = Len(walks)
      /\ changes_backup' = {} /\ got_events' = FALSE
      /\ gui_suspend_counter' = gui_suspend_counter - 1
      /\ frames' = Tail(frames)
      /\ walks' = IF Head(frames).kind = "event" THEN Returned ELSE walks
      /\ UNCHANGED <<handlers, handler, next_handler_id, pending_deletes,
                     suspend_counter, registry, changes, event, calls, missed, late>>
  BY DEF RefreshDone, Looping, Innermost
<1>2. /\ \A f \in InStack(Tail(frames)) : f.kind = "close" /\ f.base = 0
      /\ Refreshing /\ ToVisit = {}
  BY <1>1, OneRefresh DEF CmInv
<1>3. Head(frames).kind = "event" => walks # <<>>
  BY <1>1, PopFrame, WalksTyped DEF CmInv, StackOK, FrameOK
<1>4. EventInv' /\ Len(walks') = Len(walks)
  <2>1. CASE Head(frames).kind = "event"
    BY <1>1, <1>3, <2>1, ReturnStep, ReturnedLength DEF CmInv, EventsOK
  <2>2. CASE Head(frames).kind # "event"
    BY <1>1, <2>2, EventStep DEF CmInv, EventsOK, Assumptions, eventVars
  <2>3. QED BY <2>1, <2>2
<1>5. EventsOK' /\ RegistryOK'
  BY <1>1, <1>4, RegistrySame DEF CmInv, EventsOK
<1>6. gui_suspend_counter' \in Nat
  <2>1. gui_suspend_counter \in Nat /\ gui_suspend_counter # 0
    <3>1. Head(frames).base = 1 /\ Head(frames).base <= gui_suspend_counter
      BY <1>1, OneRefresh DEF CmInv, StackOK, TopOK
    <3>2. QED BY <3>1 DEF CmInv, ChangesOK
  <2>2. QED BY <1>1, <2>1
<1>7. StackOK' /\ InStack(frames) = {Head(frames)} \cup InStack(frames')
  <2>1. \A g \in InStack(Tail(frames)) : g.base <= gui_suspend_counter'
    BY <1>2, <1>6
  <2>2. UNCHANGED components BY <1>1 DEF registry
  <2>3. QED BY <1>1, <1>4, <2>1, <2>2, WalksTyped, StackPop DEF CmInv
<1>8. ~ Refreshing'
  BY <1>1, <1>2, LoopsAreNext DEF LoopFacts
<1>9. ASSUME NEW c \in components PROVE Kept(c)'
  <2>1. missed[c] \subseteq changes /\ missed[c] \subseteq late
    BY <1>2 DEF CmInv, ChangesOK, Kept, Pending
  <2>2. QED BY <1>1, <1>8, <2>1 DEF Kept
<1>10. ChangesOK'
  BY <1>1, <1>6, <1>8, <1>9 DEF CmInv, ChangesOK, registry
<1>11. QED BY <1>5, <1>7, <1>10 DEF CmInv

LEMMA CloseBySessionStep ==
    ASSUME Assumptions, CmInv, NEW s \in Session, CloseBySession(s) PROVE CmInv'
PROOF
<1> DEFINE f == [kind |-> "close", todo |-> {c \in components : session[c] = s},
                 at |-> 0, level |-> Len(walks), base |-> gui_suspend_counter]
<1>1. /\ frames' = <<f>> \o frames
      /\ UNCHANGED <<eventVars, registry, gui_suspend_counter, collected, event,
                     missed, late>>
  BY DEF CloseBySession
<1>2. ClientRuns /\ calls' \in 0 .. MaxCalls
  BY CallsType DEF CloseBySession
<1>3. Len(walks) \in 0 .. MaxWalks /\ gui_suspend_counter \in Nat
  BY WalksTyped DEF CmInv, EventsOK, ChangesOK, Assumptions, QofEventAssumption
<1>4. components \subseteq Component
  BY DEF CmInv, RegistryOK, Component, Assumptions, ComponentManagerAssumption
<1>5. /\ f \in Frame /\ f.kind = "close" /\ f.todo \subseteq components /\ f.at = 0
      /\ f.level = Len(walks) /\ f.base = gui_suspend_counter
  BY <1>3, <1>4 DEF Frame
<1> HIDE DEF f
<1>6. FrameOK(f) /\ f.kind \notin Refresh
  BY <1>5 DEF FrameOK, Refresh
<1>7. Base <= gui_suspend_counter
  BY <1>3 DEF Base, CmInv, StackOK, TopOK
<1>8. frames # <<>> => Head(frames).at # 0
  BY <1>2, CallerIsCalled, PopFrame DEF CmInv, StackOK
<1>9. StackOK' /\ InStack(frames') = {f} \cup InStack(frames)
  <2>1. UNCHANGED <<components, walks, gui_suspend_counter>>
    BY <1>1 DEF registry, eventVars
  <2>2. f.base <= gui_suspend_counter' BY <1>3, <1>5, <2>1
  <2>3. Len(walks) \in Nat BY <1>3
  <2>4. QED BY <1>1, <1>5, <1>6, <1>7, <1>8, <2>1, <2>2, <2>3, StackPush DEF CmInv
<1>10. (Refreshing' <=> Refreshing) /\ ToVisit' = ToVisit
  BY <1>5, <1>9, LoopsSame
<1>11. EventsOK' /\ RegistryOK'
  BY <1>1, EventsSame, RegistrySame DEF CmInv
<1>12. ChangesOK'
  BY <1>1, <1>2, <1>10, ChangesSame DEF CmInv, ChangesOK, registry, collected
<1>13. QED BY <1>9, <1>11, <1>12 DEF CmInv

LEMMA CloseComponentStep ==
    ASSUME Assumptions, CmInv, CloseComponent PROVE CmInv'
PROOF
<1>1. /\ Innermost /\ frames # <<>> /\ Head(frames).kind = "close"
      /\ Head(frames).todo # {}
      /\ VisitComponent(Max(Head(frames).todo), TRUE)
      /\ UNCHANGED <<eventVars, registry, gui_suspend_counter, collected, event,
                     calls, missed, late>>
  BY DEF CloseComponent, Looping, Innermost
<1>2. UNCHANGED <<components, walks, gui_suspend_counter>>
  BY <1>1 DEF registry, eventVars
<1>3. StackOK' /\ \E g \in Frame : /\ InStack(frames') = {g} \cup InStack(Tail(frames))
                                   /\ g.kind = Head(frames).kind
  BY <1>1, <1>2, VisitComponentStep
<1>4. InStack(frames) = {Head(frames)} \cup InStack(Tail(frames))
  BY <1>1, PopFrame DEF CmInv, StackOK
<1>5. (Refreshing' <=> Refreshing) /\ ToVisit' = ToVisit
  BY <1>1, <1>3, <1>4, LoopsSame
<1>6. EventsOK' /\ RegistryOK'
  BY <1>1, EventsSame, RegistrySame DEF CmInv
<1>7. ChangesOK'
  BY <1>1, <1>5, ChangesSame DEF CmInv, ChangesOK, registry, collected
<1>8. QED BY <1>3, <1>6, <1>7 DEF CmInv

LEMMA CloseDoneStep ==
    ASSUME Assumptions, CmInv, CloseDone PROVE CmInv'
PROOF
<1>1. /\ frames # <<>> /\ Head(frames).kind = "close" /\ frames' = Tail(frames)
      /\ UNCHANGED <<eventVars, registry, gui_suspend_counter, collected, event,
                     calls, missed, late>>
  BY DEF CloseDone, Looping, Innermost
<1>2. ASSUME NEW g \in InStack(Tail(frames)) PROVE g.base <= gui_suspend_counter'
  <2>1. Head(frames) \in Frame /\ Above(Head(frames), g)
    BY <1>1, PopFrame DEF CmInv, StackOK
  <2>2. g \in Frame
    BY <1>1, PopFrame DEF CmInv, StackOK, InStack
  <2>3. Head(frames).base <= gui_suspend_counter /\ gui_suspend_counter \in Nat
    BY <1>1 DEF CmInv, StackOK, TopOK, ChangesOK
  <2>4. g.base <= Head(frames).base /\ g.base \in Nat /\ Head(frames).base \in Nat
    BY <2>1, <2>2 DEF Above, Frame
  <2>5. QED BY <1>1, <2>3, <2>4
<1>3. StackOK' /\ InStack(frames) = {Head(frames)} \cup InStack(frames')
  <2>1. UNCHANGED components /\ Len(walks') = Len(walks)
    BY <1>1 DEF registry, eventVars
  <2>2. QED BY <1>1, <1>2, <2>1, WalksTyped, StackPop DEF CmInv
<1>4. (Refreshing' <=> Refreshing) /\ ToVisit' = ToVisit
  BY <1>1, <1>3, LoopsSame
<1>5. EventsOK' /\ RegistryOK'
  BY <1>1, EventsSame, RegistrySame DEF CmInv
<1>6. ChangesOK'
  BY <1>1, <1>4, ChangesSame DEF CmInv, ChangesOK, registry, collected
<1>7. QED BY <1>3, <1>5, <1>6 DEF CmInv

-----------------------------------------------------------------------------
LEMMA InitCmInv == Assumptions /\ CmInit => CmInv
PROOF
<1> SUFFICES ASSUME Assumptions, CmInit PROVE CmInv
  OBVIOUS
<1> USE DEF Assumptions, QofEventAssumption, ComponentManagerAssumption, CmInit
<1>1. InStack(frames) = {}
  BY DEF InStack
<1>2. ~ Refreshing /\ \A c : c \notin ToVisit
  BY <1>1, LoopsAre DEF LoopFacts
<1>3. EventsOK
  BY DEF EventsOK, EventInv, EventTypeOK, WalksValid, NodesPending, Id, CmNode, Walk
<1>4. RegistryOK
  BY DEF RegistryOK, Component
<1>5. StackOK
  BY <1>1 DEF StackOK, Stacked
<1>6. ChangesOK
  <2>1. \A c \in components : Kept(c) OBVIOUS
  <2>2. got_events \in BOOLEAN /\ ~ got_events OBVIOUS
  <2>3. gui_suspend_counter \in Nat /\ calls \in 0 .. MaxCalls OBVIOUS
  <2>4. changes = {} /\ changes_backup = {} /\ late = {} OBVIOUS
  <2>5. QED BY ONLY <2>1, <2>2, <2>3, <2>4 DEF ChangesOK
<1>7. QED BY <1>3, <1>4, <1>5, <1>6 DEF CmInv

LEMMA CmStep ==
    ASSUME Assumptions, CmInv, [CmNext]_cmVars PROVE CmInv'
PROOF
<1>1. CASE UNCHANGED cmVars
  <2>1. EventsOK' /\ RegistryOK'
    BY <1>1, EventsSame, RegistrySame DEF CmInv, cmVars
  <2>2. QED
    BY <1>1, <2>1, CallStep
       DEF CmInv, ChangesOK, StackOK, TopOK, cmVars, eventVars, registry, collected
<1>2. QED
  BY <1>1, RegisterComponentStep, WatchStep, ClearWatchesStep, UnregisterComponentStep,
     SuspendGuiStep, ResumeGuiStep, RefreshAllStep, RaiseEventStep, ChangeHandlersStep,
     DeliverOnStep, HandlerReturnsStep, CmEventStep, RefreshComponentStep,
     ComponentReturnsStep, RefreshDoneStep, CloseBySessionStep, CloseComponentStep,
     CloseDoneStep DEF CmNext

LEMMA CmInvImplies ==
    ASSUME Assumptions, CmInv
    PROVE  /\ CmTypeOK /\ WalksValid /\ ListIsClean
           /\ NothingLost /\ ShownPromptly /\ CloseValid
PROOF
<1>1. CmTypeOK
  BY DEF CmTypeOK, CmInv, EventsOK, EventInv, RegistryOK, StackOK, ChangesOK, Component,
         Assumptions, ComponentManagerAssumption
<1>2. WalksValid /\ ListIsClean
  BY EventInvImplies DEF CmInv, EventsOK
<1>3. NothingLost
  BY DEF NothingLost, CmInv, ChangesOK, Kept, Pending
<1>4. ShownPromptly
  <2>1. AtRest => ~ Refreshing
    BY DEF AtRest, Refreshing
  <2>2. QED BY <2>1 DEF ShownPromptly, AtRest, CmInv, ChangesOK, Kept
<1>5. CloseValid
  <2>1. \A i \in DOMAIN frames : FrameOK(frames[i])
    BY DEF CmInv, StackOK, InStack
  <2>2. QED BY <2>1 DEF CloseValid, FrameOK
<1>6. QED BY <1>1, <1>2, <1>3, <1>4, <1>5

\* What the component manager does is, for the handlers, one of QofEvent's steps.
LEMMA CmStepDelivers ==
    ASSUME Assumptions, CmInv, [CmNext]_cmVars PROVE Delivers
PROOF
<1>1. CASE [EventNext]_eventVars
  BY <1>1, EventDelivers DEF CmInv, EventsOK, Assumptions
<1>2. CASE walks # <<>> /\ walks' = Returned /\ UNCHANGED <<handlers, handler>>
  BY <1>2, ReturnDelivers DEF CmInv, EventsOK
<1>3. CASE CmEvent
  <2>1. walks # <<>> /\ UNCHANGED <<handlers, handler>>
        /\ (walks' = walks \/ walks' = Returned)
    BY <1>3 DEF CmEvent, Called
  <2>2. CASE walks' = walks
    BY <2>1, <2>2, Undelivered
  <2>3. QED BY <1>2, <2>1, <2>2
<1>4. CASE RefreshDone
  <2>1. /\ UNCHANGED <<handlers, handler>>
        /\ walks' = IF Head(frames).kind = "event" THEN Returned ELSE walks
        /\ frames # <<>> /\ Head(frames).level = Len(walks)
    BY <1>4 DEF RefreshDone, Looping, Innermost
  <2>2. CASE Head(frames).kind = "event"
    <3>1. walks # <<>>
      BY <2>1, <2>2, PopFrame, WalksTyped DEF CmInv, StackOK, FrameOK
    <3>2. QED BY <1>2, <2>1, <2>2, <3>1
  <2>3. CASE Head(frames).kind # "event"
    BY <2>1, <2>3, Undelivered
  <2>4. QED BY <2>2, <2>3
<1>5. CASE UNCHANGED cmVars
  BY <1>1, <1>5 DEF cmVars
<1>6. CASE \E ev \in Event, forced \in BOOLEAN : RaiseEvent(ev, forced)
  BY <1>1, <1>6 DEF RaiseEvent, EventNext
<1>7. CASE ChangeHandlers \/ DeliverOn \/ HandlerReturns
  BY <1>1, <1>7 DEF ChangeHandlers, DeliverOn, HandlerReturns, EventNext
<1>8. CASE \/ \E s \in Session : RegisterComponent(s) \/ CloseBySession(s)
           \/ \E c \in Component : \/ UnregisterComponent(c) \/ ClearWatches(c)
                                   \/ \E subject \in Subject :
                                        \E mask \in SUBSET subject :
                                            Watch(c, subject, mask)
           \/ SuspendGui \/ ResumeGui \/ RefreshAll
           \/ RefreshComponent \/ ComponentReturns \/ CloseComponent \/ CloseDone
  BY <1>1, <1>8 DEF RegisterComponent, CloseBySession, UnregisterComponent, ClearWatches,
     Watch, SuspendGui, ResumeGui, RefreshAll, RefreshComponent, ComponentReturns,
     CloseComponent, CloseDone
<1>9. QED
  BY <1>3, <1>4, <1>5, <1>6, <1>7, <1>8 DEF CmNext

(* gnc-component-manager.c: whatever handlers do when they are called, no  *)
(* change a component watches is lost, all are shown but those made while  *)
(* a refresh ran, components that are to be closed exist, and the walks of *)
(* qofevent.cpp below stay valid.                                          *)
THEOREM ComponentManagerSafety ==
    CmSpec => []CmTypeOK /\ []WalksValid /\ []ListIsClean
              /\ []NothingLost /\ []ShownPromptly /\ []CloseValid
PROOF
<1>1. CmInit => CmInv
  BY InitCmInv, QofEventAssumption, ComponentManagerAssumption DEF Assumptions
<1>2. CmInv /\ [CmNext]_cmVars => CmInv'
  BY CmStep, QofEventAssumption, ComponentManagerAssumption DEF Assumptions
<1>3. CmInv => /\ CmTypeOK /\ WalksValid /\ ListIsClean
               /\ NothingLost /\ ShownPromptly /\ CloseValid
  BY CmInvImplies, QofEventAssumption, ComponentManagerAssumption DEF Assumptions
<1>4. QED BY <1>1, <1>2, <1>3, PTL DEF CmSpec

(* Every variable has its type; there is one event for each walk.          *)
THEOREM CmTypeCorrect == CmSpec => []CmTypeOK
BY ComponentManagerSafety, PTL

(* gnc_gui_refresh_internal swaps and clears the tables of changes: a      *)
(* change a component watches stays in one of them until it was told.      *)
THEOREM ChangesKept == CmSpec => []NothingLost
BY ComponentManagerSafety, PTL

(* gnc_resume_gui_refresh: at rest, all was shown that was recorded before *)
(* the last refresh began.                                                 *)
THEOREM ChangesShown == CmSpec => []ShownPromptly
BY ComponentManagerSafety, PTL

(* gnc_close_gui_component_by_session: the components on its list exist.   *)
THEOREM ClosedOnesExist == CmSpec => []CloseValid
BY ComponentManagerSafety, PTL

(* Events go to the handlers as EventDelivery says also when the component *)
(* manager is one of them and refreshes from within.                       *)
THEOREM CmEventsDelivered == CmSpec => Delivered
PROOF
<1>1. CmInit => CmInv /\ D!InitDelivery
  <2> SUFFICES ASSUME CmInit PROVE CmInv /\ D!InitDelivery
    OBVIOUS
  <2>1. Assumptions
    BY QofEventAssumption, ComponentManagerAssumption DEF Assumptions
  <2>2. CmInv BY <2>1, InitCmInv
  <2>3. walks = <<>> BY DEF CmInit
  <2>4. QED BY <2>1, <2>2, <2>3, InitDelivers DEF CmInv, EventsOK, Assumptions
<1>2. CmInv /\ [CmNext]_cmVars => CmInv'
  BY CmStep, QofEventAssumption, ComponentManagerAssumption DEF Assumptions
<1>3. CmInv /\ [CmNext]_cmVars => Delivers
  BY CmStepDelivers, QofEventAssumption, ComponentManagerAssumption DEF Assumptions
<1>4. QED
  BY <1>1, <1>2, <1>3, PTL DEF CmSpec, Delivered, Delivers, D!DeliverySpec

=============================================================================
