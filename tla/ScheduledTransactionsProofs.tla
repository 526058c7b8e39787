-------------------- MODULE ScheduledTransactionsProofs --------------------
(***************************************************************************)
(* Theorems about ScheduledTransactions, for any number of dialogs, any    *)
(* limits, leads and length of the schedule.                               *)
(*                                                                         *)
(* An occurrence is not after the last date exactly when it was dealt      *)
(* with. A list goes on, without a gap, from that date, and has each day   *)
(* once but for postponed ones; so that what a run passes follows what was *)
(* past, and it enters only what was not. When the schedule moves, every   *)
(* other list is merged with one that is generated anew: it keeps its      *)
(* entries, which are right whatever the schedule is, and its dates are    *)
(* those of the new list. As long as nothing is postponed, the numbers and *)
(* what remains follow the last date day by day.                           *)
(*                                                                         *)
(* What a run does is shown turn by turn (RunLast to RunRem), then what it *)
(* leaves to the schedule (RunSettles), to its own list (RunEntries,       *)
(* RunFresh) and to the lists of the other dialogs (NotifiedOK).           *)
(***************************************************************************)
EXTENDS ScheduledTransactions, SumsProofs, SequenceTheorems

-----------------------------------------------------------------------------
(* Numbers: the least and the greatest of a set, and the days.             *)

LEMMA MinOf ==
    ASSUME NEW S \in SUBSET Nat, S # {}
    PROVE  Min(S) \in S /\ \A n \in S : Min(S) <= n
BY Least DEF Min

LEMMA MaxOf ==
    ASSUME NEW S \in SUBSET Nat, S # {}, NEW b \in Nat, \A n \in S : n <= b
    PROVE  Max(S) \in S /\ \A n \in S : n <= Max(S)
<1> DEFINE T == {j \in Nat : b - j \in S}
<1>1. T \in SUBSET Nat /\ T # {}
  <2>1. PICK n \in S : TRUE
    OBVIOUS
  <2>2. n \in Nat /\ n <= b
    BY <2>1
  <2>3. b - n \in Nat /\ b - (b - n) = n
    BY <2>2
  <2>4. b - n \in T
    BY <2>3
  <2>5. QED
    BY <2>4
<1>2. PICK m \in T : \A n \in T : m <= n
  <2>1. T \in SUBSET Nat /\ T # {}
    BY <1>1
  <2> HIDE DEF T
  <2>2. QED
    BY <2>1, Least
<1>3. m \in Nat /\ b - m \in S
  BY <1>2
<1>4. \A n \in S : n <= b - m
  <2>1. TAKE n \in S
  <2>2. n \in Nat /\ n <= b
    OBVIOUS
  <2>3. b - n \in Nat /\ b - (b - n) = n
    BY <2>2
  <2>4. b - n \in T
    BY <2>3
  <2>5. m <= b - n
    BY <1>2, <2>4
  <2> HIDE DEF T
  <2>6. QED
    BY <1>3, <2>2, <2>5
<1>5. \E x \in S : \A y \in S : x >= y
  BY <1>3, <1>4
<1>6. QED
  BY <1>5 DEF Max

LEMMA LeadsBounded == \E b \in Nat : \A l \in Leads : l[1] + l[2] <= b
<1> DEFINE H == {T \in SUBSET Leads : \E b \in Nat : \A l \in T : l[1] + l[2] <= b}
<1>0. \A l \in Leads : l[1] + l[2] \in Nat
  BY SxAssumption
<1>1. ASSUME NEW T \in SUBSET Leads, \A U \in SUBSET T : U # T => U \in H
      PROVE  T \in H
  <2>1. CASE T = {}
    BY <2>1
  <2>2. CASE T # {}
    <3>1. PICK t \in T : TRUE
      BY <2>2
    <3>2. T \ {t} \in H
      BY <1>1, <3>1
    <3>3. PICK b \in Nat : \A l \in T \ {t} : l[1] + l[2] <= b
      BY <3>2
    <3> DEFINE c == t[1] + t[2]
    <3>4. c \in Nat /\ b + c \in Nat /\ b <= b + c /\ c <= b + c
      BY <1>0, <3>1
    <3>5. \A l \in T : l[1] + l[2] <= b + c
      <4>1. ASSUME NEW l \in T \ {t} PROVE l[1] + l[2] <= b + c
        BY <1>0, <3>3, <3>4
      <4>2. QED
        BY <3>4, <4>1
    <3>6. QED
      BY <3>4, <3>5
  <2>3. QED
    BY <2>1, <2>2
<1> HIDE DEF H
<1>2. \A T \in SUBSET Leads : T \in H
  BY <1>1, SetInduction, SxAssumption
<1>3. QED
  BY <1>2 DEF H

LEMMA HorizonFacts ==
    /\ Horizon \in Nat /\ LastDay \in Nat /\ 1 <= Horizon /\ LastDay <= Horizon
    /\ \A l \in Leads : l[1] \in Nat /\ l[2] \in Nat /\ LastDay + l[1] + l[2] <= Horizon
<1> DEFINE S == {l[1] + l[2] : l \in Leads}
<1>1. \A l \in Leads : l[1] \in Nat /\ l[2] \in Nat
  BY SxAssumption
<1>2. S \in SUBSET Nat /\ S # {}
  BY <1>1, SxAssumption
<1>3. PICK b \in Nat : \A n \in S : n <= b
  BY LeadsBounded
<1>5. Max(S) \in S /\ \A n \in S : n <= Max(S)
  <2> HIDE DEF S
  <2>1. QED
    BY <1>2, <1>3, MaxOf
<1>6. \A l \in Leads : l[1] + l[2] \in S
  OBVIOUS
<1>7. Horizon = LastDay + Max(S)
  BY DEF Horizon
<1> HIDE DEF S
<1>8. LastDay \in Nat \ {0} /\ Max(S) \in Nat
  BY <1>2, <1>5, SxAssumption
<1>9. QED
  BY <1>1, <1>5, <1>6, <1>7, <1>8
-----------------------------------------------------------------------------
(* Types.  What is in a list or postponed stands before a day.             *)

\* Where the schedule may stand before an occurrence.
Position == [last : {NoDay} \cup 0 .. Horizon - 1, rem : Int, num : Nat]

Shown == {e \in [date : {NoDay} \cup Days, tsd : Position, state : States, orig : States] :
             e.date \in {NoDay, Occurrence(e.tsd)}}

Schedule ==
    [last : {NoDay} \cup Days, num : Nat, rem : Nat, total : Nat, enabled : BOOLEAN,
     auto : BOOLEAN, notify : BOOLEAN, lead : Leads, deferred : Seq(Position)]

Window == [open : BOOLEAN, until : {NoDay} \cup Days, list : Seq(Shown)]

History ==
    [ignored : SUBSET Days, postponed : SUBSET Days, lost : SUBSET Days,
     flawed : SUBSET Days, limited : BOOLEAN, shared : BOOLEAN, crashed : BOOLEAN]

\* What a dialog shows while it is open, up to a day that has come.
WindowOK(d) == IF d.open THEN d.until \in 1 .. LastDay ELSE d.list = <<>>

TypeInv ==
    /\ today \in 1 .. LastDay
    /\ sx \in Schedule
    /\ dialog \in [Dialogs -> Window]
    /\ \A x \in Dialogs : WindowOK(dialog[x])
    /\ transactions \in [Days -> 0 .. 2]
    /\ done \in History
    /\ events \in 0 .. MaxEvents

LEMMA NoDayFacts == NoDay \in Int /\ NoDay < 0 /\ BeforeAll = 0 /\ NoDay = -1
BY DEF NoDay, BeforeAll

LEMMA DayFacts == \A d \in Days : d \in Nat /\ 1 <= d /\ d <= Horizon /\ d # NoDay
BY HorizonFacts, NoDayFacts DEF Days

LEMMA OccurrenceType ==
    ASSUME NEW p \in Position
    PROVE  /\ Occurrence(p) \in Days
           /\ p.last # NoDay => p.last \in Nat /\ Occurrence(p) = p.last + 1
BY HorizonFacts DEF Position, Occurrence, Days, NoDay

LEMMA PositionTemporal == Position \subseteq Temporal
BY HorizonFacts DEF Position, Temporal, Dates, Days, BeforeAll, NoDay

LEMMA TypeInvTypes == TypeInv => SxTypeOK
<1>1. Seq(Position) \subseteq Seq(Temporal)
  BY PositionTemporal, SeqMonotonic
<1>2. Shown \subseteq Instance
  BY PositionTemporal DEF Shown, Instance
<1>3. Seq(Shown) \subseteq Seq(Instance)
  BY <1>2, SeqMonotonic
<1>4. sx \in Schedule =>
        sx \in [last : {NoDay} \cup Days, num : Int, rem : Nat, total : Nat, enabled : BOOLEAN,
                auto : BOOLEAN, notify : BOOLEAN, lead : Leads, deferred : Seq(Temporal)]
  BY <1>1 DEF Schedule
<1>5. Window \subseteq [open : BOOLEAN, until : {NoDay} \cup Days, list : Seq(Instance)]
  BY <1>3 DEF Window
<1>6. dialog \in [Dialogs -> Window] =>
        dialog \in [Dialogs -> [open : BOOLEAN, until : {NoDay} \cup Days, list : Seq(Instance)]]
  BY <1>5
<1>7. QED
  BY <1>4, <1>6 DEF TypeInv, SxTypeOK, History

-----------------------------------------------------------------------------
(* The occurrences that are generated.                                     *)

\* Where the schedule may stand after an occurrence.
After == [last : {NoDay} \cup 0 .. Horizon, rem : Int, num : Nat]

LEMMA AfterFacts ==
    ASSUME NEW p \in After
    PROVE  /\ Occurrence(p) \in Nat /\ 1 <= Occurrence(p)
           /\ p.last # NoDay => p.last \in Nat /\ Occurrence(p) = p.last + 1
           /\ Occurrence(p) <= Horizon => p \in Position
BY HorizonFacts DEF After, Occurrence, NoDay, Position

LEMMA StartType ==
    ASSUME NEW s \in Schedule
    PROVE  Start(s) \in After
<1>1. CASE s.deferred = <<>>
  <2>1. Start(s) = [last |-> IF s.last = NoDay THEN BeforeAll ELSE s.last, rem |-> s.rem, num |-> s.num]
    BY <1>1 DEF Start, TemporalState
  <2>2. s.last \in {NoDay} \cup Days /\ s.rem \in Int /\ s.num \in Nat
    BY DEF Schedule
  <2>3. QED
    BY <2>1, <2>2, HorizonFacts DEF After, Days, BeforeAll
<1>2. CASE s.deferred # <<>>
  <2> DEFINE p == Last(s.deferred)
  <2>1. p \in Position
    <3>1. s.deferred \in Seq(Position) /\ Len(s.deferred) \in 1 .. Len(s.deferred)
      BY <1>2, EmptySeq, LenProperties DEF Schedule
    <3>2. QED
      BY <3>1, ElementOfSeq DEF Last
  <2>2. Start(s) = Incremented(s, p)
    BY <1>2 DEF Start
  <2> HIDE DEF p
  <2>3. NextInstance(s, p) \in {NoDay} \cup Days
    BY <2>1, OccurrenceType DEF NextInstance
  <2>4. NextInstance(s, p) \in {NoDay} \cup 0 .. Horizon
    BY <2>3, HorizonFacts DEF Days
  <2>5. p.rem \in Int /\ p.rem - 1 \in Int /\ p.num + 1 \in Nat
    BY <2>1 DEF Position
  <2>6. QED
    BY <2>2, <2>4, <2>5 DEF Incremented, After
<1>3. QED
  BY <1>1, <1>2

LEMMA FollowingFacts ==
    ASSUME NEW s \in Schedule, NEW p \in After, NEW day \in Nat
    PROVE  /\ Following(s, p, day) \in Nat
           /\ \A k \in 1 .. Following(s, p, day) : Occurrence(p) + k - 1 <= day
           /\ s.total # 0 /\ p.rem >= 0 => Following(s, p, day) <= p.rem
           /\ s.total = 0 => \A d \in Nat : Occurrence(p) <= d /\ d <= day =>
                                d - Occurrence(p) + 1 \in 1 .. Following(s, p, day)
<1> DEFINE span == IF day < Occurrence(p) THEN 0 ELSE day + 1 - Occurrence(p)
<1>1. Occurrence(p) \in Nat /\ p.rem \in Int
  BY AfterFacts DEF After
<1>2. span \in Nat /\ \A k \in 1 .. span : Occurrence(p) + k - 1 <= day
  BY <1>1
<1>3. Following(s, p, day) = IF s.total # 0 /\ p.rem >= 0 THEN Min({span, p.rem}) ELSE span
  BY DEF Following
<1>4. CASE s.total # 0 /\ p.rem >= 0
  <2>1. {span, p.rem} \in SUBSET Nat /\ {span, p.rem} # {}
    BY <1>1, <1>2, <1>4
  <2> HIDE DEF span
  <2>2. Min({span, p.rem}) \in {span, p.rem} /\ Min({span, p.rem}) <= span
        /\ Min({span, p.rem}) <= p.rem
    BY <2>1, MinOf
  <2>3. /\ Following(s, p, day) \in Nat /\ Following(s, p, day) <= span
        /\ Following(s, p, day) <= p.rem
    BY <1>1, <1>2, <1>3, <1>4, <2>2
  <2>4. \A k \in 1 .. Following(s, p, day) : k \in 1 .. span
    BY <1>2, <2>3
  <2>5. QED
    BY <1>2, <1>4, <2>3, <2>4
<1>5. CASE ~(s.total # 0 /\ p.rem >= 0)
  BY <1>1, <1>2, <1>3, <1>5
<1>6. QED
  BY <1>4, <1>5

LEMMA AdvancedFacts ==
    ASSUME NEW s \in Schedule, NEW p \in After, NEW k \in Nat
    PROVE  /\ Advanced(s, p, k) \in [last : {NoDay} \cup Nat, rem : Int, num : Nat]
           /\ Occurrence(Advanced(s, p, k)) = Occurrence(p) + k
           /\ p.last # NoDay \/ k # 0 => Advanced(s, p, k).last # NoDay
           /\ Advanced(s, p, k).num = p.num + k
           /\ Advanced(s, p, k).rem = IF s.total # 0 THEN p.rem - k ELSE p.rem
<1>1. /\ Occurrence(p) \in Nat /\ 1 <= Occurrence(p) /\ p.rem \in Int /\ p.num \in Nat
      /\ p.last \in {NoDay} \cup Nat
      /\ p.last # NoDay => Occurrence(p) = p.last + 1
      /\ p.last = NoDay => Occurrence(p) = 1
  BY AfterFacts DEF After, Occurrence
<1>2. Advanced(s, p, k) = [last |-> IF k = 0 THEN p.last ELSE Occurrence(p) + k - 1,
                           num |-> p.num + k,
                           rem |-> IF s.total # 0 THEN p.rem - k ELSE p.rem]
  BY DEF Advanced
<1>3. CASE k = 0
  BY <1>1, <1>2, <1>3 DEF Occurrence
<1>4. CASE k # 0
  <2>1. Occurrence(p) + k - 1 \in Nat /\ Occurrence(p) + k - 1 # NoDay
    BY <1>1, <1>4, NoDayFacts
  <2>2. QED
    BY <1>1, <1>2, <1>4, <2>1 DEF Occurrence
<1>5. QED
  BY <1>3, <1>4

Coming(s, day) == Following(s, Start(s), day + s.lead[1] + s.lead[2])
Due(s, k) == Advanced(s, Start(s), k - 1)
DueState(s, day, k) == IF Occurrence(Due(s, k)) <= day + s.lead[1] THEN "to-create" ELSE "reminder"

LEMMA DueFacts ==
    ASSUME NEW s \in Schedule, NEW day \in 1 .. LastDay
    PROVE  /\ Coming(s, day) \in Nat
           /\ \A k \in 1 .. Coming(s, day) :
                /\ Due(s, k) \in Position
                /\ Occurrence(Due(s, k)) = Occurrence(Start(s)) + k - 1
           /\ day \in Nat /\ s.lead[1] \in Nat /\ s.lead[2] \in Nat
<1>1. Start(s) \in After /\ Occurrence(Start(s)) \in Nat
  BY StartType, AfterFacts
<1>2. /\ day \in Nat /\ s.lead[1] \in Nat /\ s.lead[2] \in Nat
      /\ day + s.lead[1] + s.lead[2] \in Nat /\ day + s.lead[1] + s.lead[2] <= Horizon
  <2>1. s.lead \in Leads
    BY DEF Schedule
  <2>2. day \in Nat /\ day <= LastDay
    BY HorizonFacts
  <2>3. QED
    BY <2>1, <2>2, HorizonFacts
<1>3. /\ Coming(s, day) \in Nat
      /\ \A k \in 1 .. Coming(s, day) : Occurrence(Start(s)) + k - 1 <= Horizon
  <2>1. /\ Coming(s, day) \in Nat
        /\ \A k \in 1 .. Coming(s, day) :
             Occurrence(Start(s)) + k - 1 <= day + s.lead[1] + s.lead[2]
    BY <1>1, <1>2, FollowingFacts DEF Coming
  <2>2. QED
    BY <1>1, <1>2, <2>1, HorizonFacts
<1>4. ASSUME NEW k \in 1 .. Coming(s, day)
      PROVE  Due(s, k) \in Position /\ Occurrence(Due(s, k)) = Occurrence(Start(s)) + k - 1
  <2>1. k - 1 \in Nat /\ k \in Nat
    BY <1>3
  <2>2. /\ Due(s, k) \in [last : {NoDay} \cup Nat, rem : Int, num : Nat]
        /\ Occurrence(Due(s, k)) = Occurrence(Start(s)) + (k - 1)
    BY <1>1, <2>1, AdvancedFacts DEF Due
  <2>3. Occurrence(Due(s, k)) = Occurrence(Start(s)) + k - 1
    BY <1>1, <2>1, <2>2
  <2>4. Occurrence(Due(s, k)) <= Horizon
    BY <1>3, <2>3
  <2>5. Due(s, k).last \in {NoDay} \cup 0 .. Horizon - 1
    BY <2>2, <2>4, HorizonFacts DEF Occurrence
  <2>6. QED
    BY <2>2, <2>3, <2>5 DEF Position
<1>5. QED
  BY <1>2, <1>3, <1>4

\* The list: what is postponed, and what follows it.
LEMMA GeneratedFacts ==
    ASSUME NEW s \in Schedule, NEW day \in 1 .. LastDay
    PROVE  /\ Generated(s, day) \in Seq(Shown)
           /\ ~s.enabled => Generated(s, day) = <<>>
           /\ s.enabled =>
                /\ Len(Generated(s, day)) = Len(s.deferred) + Coming(s, day)
                /\ \A i \in 1 .. Len(s.deferred) :
                     Generated(s, day)[i] = NewInstance(s, s.deferred[i], "postponed")
                /\ \A k \in 1 .. Coming(s, day) :
                     Generated(s, day)[Len(s.deferred) + k]
                       = NewInstance(s, Due(s, k), DueState(s, day, k))
           /\ Len(s.deferred) \in Nat
<1> DEFINE m == Len(s.deferred)
           n == Coming(s, day)
           a == [i \in 1 .. m |-> NewInstance(s, s.deferred[i], "postponed")]
           b == [k \in 1 .. n |-> NewInstance(s, Due(s, k), DueState(s, day, k))]
<1>1. s.deferred \in Seq(Position) /\ m \in Nat /\ DOMAIN s.deferred = 1 .. m
  BY LenProperties DEF Schedule
<1>2. \A p \in Position, st \in States : NewInstance(s, p, st) \in Shown
  <2>1. TAKE p \in Position, st \in States
  <2>2. NextInstance(s, p) \in {NoDay, Occurrence(p)} /\ Occurrence(p) \in Days
    BY OccurrenceType DEF NextInstance
  <2>3. QED
    BY <2>2 DEF NewInstance, Shown
<1>3. n \in Nat /\ \A k \in 1 .. n : Due(s, k) \in Position
  BY DueFacts
<1>4. Generated(s, day) = IF s.enabled THEN a \o b ELSE <<>>
  BY <1>1 DEF Generated, Coming, Due, DueState
<1>5. \A i \in 1 .. m : NewInstance(s, s.deferred[i], "postponed") \in Shown
  <2>1. \A i \in 1 .. m : s.deferred[i] \in Position
    BY <1>1, ElementOfSeq
  <2>2. QED
    BY <1>2, <2>1 DEF States
<1>6. \A k \in 1 .. n : NewInstance(s, Due(s, k), DueState(s, day, k)) \in Shown
  BY <1>2, <1>3 DEF States, DueState
<1>7. a \in Seq(Shown) /\ Len(a) = m /\ \A i \in 1 .. m : a[i] = NewInstance(s, s.deferred[i], "postponed")
  BY <1>1, <1>5, IsASeq
<1>8. b \in Seq(Shown) /\ Len(b) = n
      /\ \A k \in 1 .. n : b[k] = NewInstance(s, Due(s, k), DueState(s, day, k))
  BY <1>3, <1>6, IsASeq
<1> HIDE DEF a, b, m, n
<1>9. /\ a \o b \in Seq(Shown) /\ Len(a \o b) = m + n
      /\ \A i \in 1 .. m + n : (a \o b)[i] = IF i <= m THEN a[i] ELSE b[i - m]
  BY <1>7, <1>8, ConcatProperties
<1>10. \A i \in 1 .. m : (a \o b)[i] = a[i]
  BY <1>1, <1>3, <1>9
<1>11. \A k \in 1 .. n : (a \o b)[m + k] = b[k]
  <2>1. TAKE k \in 1 .. n
  <2>2. m + k \in 1 .. m + n /\ ~(m + k <= m) /\ (m + k) - m = k
    BY <1>1, <1>3
  <2>3. QED
    BY <1>9, <2>2
<1>12. /\ s.enabled => Generated(s, day) = a \o b
       /\ ~s.enabled => Generated(s, day) = <<>>
  BY <1>4
<1>13. <<>> \in Seq(Shown)
  BY EmptySeq
<1>14. QED
  BY <1>1, <1>7, <1>8, <1>9, <1>10, <1>11, <1>12, <1>13 DEF m, n

-----------------------------------------------------------------------------
(* Merging a list with a new one.                                          *)

LEMMA MergedFacts ==
    ASSUME NEW old \in Seq(Shown), NEW new \in Seq(Shown)
    PROVE  /\ Merged(old, new) \in Seq(Shown)
           /\ Len(Merged(old, new)) = Len(new)
           /\ \E kept \in Nat :
                /\ kept <= Len(old) /\ kept <= Len(new)
                /\ \A i \in 1 .. kept : /\ Merged(old, new)[i] = old[i]
                                        /\ Compare(old[i].date, new[i].date) = 0
                /\ \A i \in kept + 1 .. Len(new) : Merged(old, new)[i] = new[i]
<1> DEFINE most == Min({Len(old), Len(new)})
           agree == {k \in 0 .. most :
                       \A i \in 1 .. k : Compare(old[i].date, new[i].date) = 0}
           kept == Max(agree)
<1>1. Len(old) \in Nat /\ Len(new) \in Nat
  BY LenProperties
<1>2. most \in Nat /\ most <= Len(old) /\ most <= Len(new)
  <2>1. {Len(old), Len(new)} \in SUBSET Nat /\ {Len(old), Len(new)} # {}
    BY <1>1
  <2>2. QED
    BY <2>1, MinOf
<1>6. Merged(old, new) = SubSeq(old, 1, kept) \o SubSeq(new, kept + 1, Len(new))
  BY DEF Merged
<1> HIDE DEF most
<1>3. agree \in SUBSET Nat /\ agree # {} /\ \A k \in agree : k <= most
  <2>1. 0 \in agree
    BY <1>2
  <2>2. \A k \in 0 .. most : k \in Nat /\ k <= most
    BY <1>2
  <2>3. QED
    BY <2>1, <2>2
<1>4. kept \in agree
  <2> HIDE DEF agree
  <2>1. QED
    BY <1>2, <1>3, MaxOf
<1>5. /\ kept \in Nat /\ kept <= Len(old) /\ kept <= Len(new)
      /\ \A i \in 1 .. kept : Compare(old[i].date, new[i].date) = 0
  <2>1. kept \in 0 .. most /\ \A i \in 1 .. kept : Compare(old[i].date, new[i].date) = 0
    BY <1>4
  <2> HIDE DEF kept
  <2>2. QED
    BY <1>1, <1>2, <2>1
<1> HIDE DEF kept, agree
<1> DEFINE a == SubSeq(old, 1, kept)
           b == SubSeq(new, kept + 1, Len(new))
<1>7. a \in Seq(Shown) /\ Len(a) = kept /\ \A i \in 1 .. kept : a[i] = old[i]
  <2>1. \A i \in 1 .. kept : old[i] \in Shown
    BY <1>1, <1>5, ElementOfSeq
  <2>2. QED
    BY <1>5, <2>1, SubSeqProperties
<1>8. b \in Seq(Shown) /\ Len(b) = Len(new) - kept /\ \A i \in 1 .. Len(new) - kept : b[i] = new[kept + i]
  <2>1. \A i \in kept + 1 .. Len(new) : new[i] \in Shown
    BY <1>1, <1>5, ElementOfSeq
  <2>2. /\ b \in Seq(Shown)
        /\ Len(b) = IF kept + 1 <= Len(new) THEN Len(new) - (kept + 1) + 1 ELSE 0
        /\ \A i \in 1 .. Len(new) - (kept + 1) + 1 : b[i] = new[kept + 1 + i - 1]
    BY <1>1, <1>5, <2>1, SubSeqProperties
  <2> HIDE DEF b
  <2>3. Len(b) = Len(new) - kept
    BY <1>1, <1>5, <2>2
  <2>4. ASSUME NEW i \in 1 .. Len(new) - kept PROVE b[i] = new[kept + i]
    <3>1. i \in 1 .. Len(new) - (kept + 1) + 1 /\ kept + 1 + i - 1 = kept + i
      BY <1>1, <1>5
    <3>2. QED
      BY <2>2, <3>1
  <2>5. QED
    BY <2>2, <2>3, <2>4
<1> HIDE DEF a, b
<1>9. /\ a \o b \in Seq(Shown) /\ Len(a \o b) = kept + (Len(new) - kept)
      /\ \A i \in 1 .. kept + (Len(new) - kept) : (a \o b)[i] = IF i <= kept THEN a[i] ELSE b[i - kept]
  BY <1>7, <1>8, ConcatProperties
<1>10. Len(a \o b) = Len(new) /\ kept + (Len(new) - kept) = Len(new)
  BY <1>1, <1>5, <1>9
<1>11. \A i \in 1 .. kept : (a \o b)[i] = old[i]
  BY <1>1, <1>5, <1>7, <1>9, <1>10
<1>12. ASSUME NEW i \in kept + 1 .. Len(new) PROVE (a \o b)[i] = new[i]
  <2>1. i \in 1 .. Len(new) /\ ~(i <= kept) /\ i - kept \in 1 .. Len(new) - kept /\ kept + (i - kept) = i
    BY <1>1, <1>5
  <2>2. QED
    BY <1>8, <1>9, <1>10, <2>1
<1>13. QED
  BY <1>5, <1>6, <1>9, <1>10, <1>11, <1>12 DEF a, b

LEMMA UpdatedFacts ==
    ASSUME NEW d \in Window, WindowOK(d), NEW s \in Schedule
    PROVE  /\ Updated(d, s) \in Window /\ WindowOK(Updated(d, s))
           /\ Updated(d, s).open = d.open /\ Updated(d, s).until = d.until
           /\ ~d.open => Updated(d, s) = d
           /\ d.open /\ s.enabled =>
                Updated(d, s).list = Merged(d.list, Generated(s, d.until))
           /\ d.open /\ ~s.enabled => Updated(d, s).list = <<>>
<1>1. d.open \in BOOLEAN /\ d.until \in {NoDay} \cup Days /\ d.list \in Seq(Shown)
  BY DEF Window
<1>2. CASE ~d.open
  BY <1>2 DEF Updated
<1>3. CASE d.open /\ s.enabled
  <2>1. d.until \in 1 .. LastDay
    BY <1>3 DEF WindowOK
  <2>2. Merged(d.list, Generated(s, d.until)) \in Seq(Shown)
    BY <1>1, <2>1, GeneratedFacts, MergedFacts
  <2>3. Updated(d, s) = [d EXCEPT !.list = Merged(d.list, Generated(s, d.until))]
    BY <1>3 DEF Updated
  <2>4. QED
    BY <1>1, <1>3, <2>1, <2>2, <2>3 DEF Window, WindowOK
<1>4. CASE d.open /\ ~s.enabled
  <2>1. Updated(d, s) = [d EXCEPT !.list = <<>>]
    BY <1>4 DEF Updated
  <2>2. <<>> \in Seq(Shown)
    BY EmptySeq
  <2>3. QED
    BY <1>1, <1>4, <2>1, <2>2 DEF Window, WindowOK
<1>5. QED
  BY <1>2, <1>3, <1>4

-----------------------------------------------------------------------------
(* What is postponed: insertion and removal.                               *)

In(e, q) == \E i \in DOMAIN q : q[i] = e

LEMMA JoinIn ==
    ASSUME NEW S, NEW a \in Seq(S), NEW b \in Seq(S)
    PROVE  a \o b \in Seq(S) /\ \A e : In(e, a \o b) <=> In(e, a) \/ In(e, b)
<1> DEFINE r == a \o b
<1>1. /\ r \in Seq(S) /\ Len(r) = Len(a) + Len(b)
      /\ \A i \in 1 .. Len(a) + Len(b) : r[i] = IF i <= Len(a) THEN a[i] ELSE b[i - Len(a)]
  BY ConcatProperties
<1> HIDE DEF r
<1>2. /\ Len(a) \in Nat /\ Len(b) \in Nat /\ DOMAIN a = 1 .. Len(a) /\ DOMAIN b = 1 .. Len(b)
      /\ DOMAIN r = 1 .. Len(a) + Len(b)
  BY <1>1, LenProperties
<1>3. ASSUME NEW e PROVE In(e, r) <=> In(e, a) \/ In(e, b)
  <2>1. ASSUME In(e, r) PROVE In(e, a) \/ In(e, b)
    <3>1. PICK i \in 1 .. Len(a) + Len(b) : r[i] = e
      BY <1>2, <2>1 DEF In
    <3>2. CASE i <= Len(a)
      BY <1>1, <1>2, <3>1, <3>2 DEF In
    <3>3. CASE ~(i <= Len(a))
      <4>1. i - Len(a) \in 1 .. Len(b) /\ b[i - Len(a)] = e
        BY <1>1, <1>2, <3>1, <3>3
      <4>2. QED
        BY <1>2, <4>1 DEF In
    <3>4. QED
      BY <3>2, <3>3
  <2>2. ASSUME In(e, a) PROVE In(e, r)
    <3>1. PICK i \in 1 .. Len(a) : a[i] = e
      BY <1>2, <2>2 DEF In
    <3>2. i \in 1 .. Len(a) + Len(b) /\ r[i] = e
      BY <1>1, <1>2, <3>1
    <3>3. QED
      BY <1>2, <3>2 DEF In
  <2>3. ASSUME In(e, b) PROVE In(e, r)
    <3>1. PICK i \in 1 .. Len(b) : b[i] = e
      BY <1>2, <2>3 DEF In
    <3>2. Len(a) + i \in 1 .. Len(a) + Len(b) /\ ~(Len(a) + i <= Len(a)) /\ (Len(a) + i) - Len(a) = i
      BY <1>2
    <3>3. r[Len(a) + i] = e
      BY <1>1, <3>1, <3>2
    <3>4. QED
      BY <1>2, <3>2, <3>3 DEF In
  <2>4. QED
    BY <2>1, <2>2, <2>3
<1>4. QED
  BY <1>1, <1>3 DEF r

LEMMA PartIn ==
    ASSUME NEW S, NEW q \in Seq(S), NEW m \in Nat, NEW n \in Nat, m # 0, n <= Len(q)
    PROVE  SubSeq(q, m, n) \in Seq(S) /\ \A e : In(e, SubSeq(q, m, n)) <=> \E i \in m .. n : q[i] = e
<1> DEFINE r == SubSeq(q, m, n)
<1>1. Len(q) \in Nat /\ \A i \in m .. n : q[i] \in S
  <2>1. Len(q) \in Nat
    BY LenProperties
  <2>2. \A i \in m .. n : i \in 1 .. Len(q)
    BY <2>1
  <2>3. QED
    BY <2>1, <2>2, ElementOfSeq
<1>2. /\ r \in Seq(S) /\ Len(r) = IF m <= n THEN n - m + 1 ELSE 0
      /\ \A i \in 1 .. n - m + 1 : r[i] = q[m + i - 1]
  BY <1>1, SubSeqProperties
<1>3. DOMAIN r = 1 .. Len(r) /\ Len(r) \in Nat
  BY <1>2, LenProperties
<1> HIDE DEF r
<1>4. ASSUME NEW e, In(e, r) PROVE \E i \in m .. n : q[i] = e
  <2>1. PICK i \in 1 .. Len(r) : r[i] = e
    BY <1>3, <1>4 DEF In
  <2>2. i \in 1 .. n - m + 1 /\ m + i - 1 \in m .. n
    BY <1>2, <1>3
  <2>3. QED
    BY <1>2, <2>1, <2>2
<1>5. ASSUME NEW e, NEW i \in m .. n, q[i] = e PROVE In(e, r)
  <2>1. i - m + 1 \in 1 .. n - m + 1 /\ m + (i - m + 1) - 1 = i /\ m <= n
    OBVIOUS
  <2>2. i - m + 1 \in DOMAIN r /\ r[i - m + 1] = e
    BY <1>2, <1>3, <1>5, <2>1
  <2>3. QED
    BY <2>2 DEF In
<1>6. QED
  BY <1>2, <1>4, <1>5 DEF r

LEMMA InsertIn ==
    ASSUME NEW S, NEW q \in Seq(S), NEW e \in S, NEW at \in 1 .. Len(q) + 1
    PROVE  InsertAt(q, at, e) \in Seq(S) /\ \A x : In(x, InsertAt(q, at, e)) <=> x = e \/ In(x, q)
<1> DEFINE a == SubSeq(q, 1, at - 1)
           b == <<e>>
           c == SubSeq(q, at, Len(q))
<1>1. /\ Len(q) \in Nat /\ at \in Nat /\ DOMAIN q = 1 .. Len(q)
      /\ at - 1 \in Nat /\ at - 1 <= Len(q) /\ at # 0
  BY LenProperties
<1>2. a \in Seq(S) /\ \A x : In(x, a) <=> \E i \in 1 .. at - 1 : q[i] = x
  BY <1>1, PartIn
<1>3. c \in Seq(S) /\ \A x : In(x, c) <=> \E i \in at .. Len(q) : q[i] = x
  BY <1>1, PartIn
<1>4. b \in Seq(S) /\ \A x : In(x, b) <=> x = e
  BY DEF In
<1>5. InsertAt(q, at, e) = (a \o b) \o c
  BY DEF InsertAt
<1> HIDE DEF a, b, c
<1>6. a \o b \in Seq(S) /\ \A x : In(x, a \o b) <=> In(x, a) \/ In(x, b)
  BY <1>2, <1>4, JoinIn
<1>7. (a \o b) \o c \in Seq(S) /\ \A x : In(x, (a \o b) \o c) <=> In(x, a \o b) \/ In(x, c)
  BY <1>3, <1>6, JoinIn
<1>8. ASSUME NEW x PROVE In(x, q) <=> In(x, a) \/ In(x, c)
  <2>1. \A i : i \in 1 .. Len(q) <=> i \in 1 .. at - 1 \/ i \in at .. Len(q)
    BY <1>1
  <2>2. QED
    BY <1>1, <1>2, <1>3, <2>1 DEF In
<1>9. QED
  BY <1>4, <1>5, <1>6, <1>7, <1>8

LEMMA RemoveIn ==
    ASSUME NEW S, NEW q \in Seq(S), NEW at \in 1 .. Len(q)
    PROVE  /\ RemoveAt(q, at) \in Seq(S)
           /\ \A x : In(x, RemoveAt(q, at)) => In(x, q)
           /\ \A x : In(x, q) /\ x # q[at] => In(x, RemoveAt(q, at))
<1> DEFINE a == SubSeq(q, 1, at - 1)
           c == SubSeq(q, at + 1, Len(q))
<1>1. /\ Len(q) \in Nat /\ at \in Nat /\ DOMAIN q = 1 .. Len(q)
      /\ at - 1 \in Nat /\ at - 1 <= Len(q) /\ at + 1 \in Nat /\ at + 1 # 0
  BY LenProperties
<1>2. a \in Seq(S) /\ \A x : In(x, a) <=> \E i \in 1 .. at - 1 : q[i] = x
  BY <1>1, PartIn
<1>3. c \in Seq(S) /\ \A x : In(x, c) <=> \E i \in at + 1 .. Len(q) : q[i] = x
  BY <1>1, PartIn
<1>4. RemoveAt(q, at) = a \o c
  BY DEF RemoveAt
<1> HIDE DEF a, c
<1>5. a \o c \in Seq(S) /\ \A x : In(x, a \o c) <=> In(x, a) \/ In(x, c)
  BY <1>2, <1>3, JoinIn
<1>6. \A i : i \in 1 .. Len(q) <=> i \in 1 .. at - 1 \/ i = at \/ i \in at + 1 .. Len(q)
  BY <1>1
<1>7. QED
  BY <1>1, <1>2, <1>3, <1>4, <1>5, <1>6 DEF In

LEMMA CompareFacts ==
    \A m, n \in {NoDay} \cup Nat :
       /\ Compare(m, n) \in Int
       /\ m # NoDay /\ n # NoDay => Compare(m, n) = m - n
       /\ m = NoDay \/ n = NoDay => Compare(m, n) = 0
BY NoDayFacts DEF Compare

\* An occurrence is postponed.
LEMMA AddDeferredFacts ==
    ASSUME NEW q \in Seq(Position), NEW p \in Position
    PROVE  /\ AddDeferred(q, p) \in Seq(Position)
           /\ \A x : In(x, AddDeferred(q, p)) <=> x = p \/ In(x, q)
<1> DEFINE later == {i \in DOMAIN q : Compare(p.last, q[i].last) <= 0} \cup {Len(q) + 1}
           at == Min(later)
<1>1. Len(q) \in Nat /\ DOMAIN q = 1 .. Len(q)
  BY LenProperties
<1>2. later \in SUBSET Nat /\ later # {} /\ \A i \in later : i \in 1 .. Len(q) + 1
  BY <1>1
<1>3. AddDeferred(q, p) = InsertAt(q, at, p)
  BY DEF AddDeferred
<1>4. at \in later
  <2> HIDE DEF later
  <2>1. QED
    BY <1>2, MinOf
<1>5. at \in 1 .. Len(q) + 1
  BY <1>2, <1>4
<1> HIDE DEF later, at
<1>6. InsertAt(q, at, p) \in Seq(Position) /\ \A x : In(x, InsertAt(q, at, p)) <=> x = p \/ In(x, q)
  BY <1>5, InsertIn
<1>7. QED
  BY <1>3, <1>6

\* A postponed occurrence is taken out: one that has the date, if any.
LEMMA RemoveDeferredFacts ==
    ASSUME NEW q \in Seq(Position), NEW p \in Position
    PROVE  /\ RemoveDeferred(q, p) \in Seq(Position)
           /\ \A x : In(x, RemoveDeferred(q, p)) => In(x, q)
           /\ \A x : In(x, q) /\ Compare(p.last, x.last) # 0 => In(x, RemoveDeferred(q, p))
<1> DEFINE same == {i \in DOMAIN q : Compare(p.last, q[i].last) = 0}
<1>1. Len(q) \in Nat /\ DOMAIN q = 1 .. Len(q)
  BY LenProperties
<1>2. RemoveDeferred(q, p) = IF same = {} THEN q ELSE RemoveAt(q, Min(same))
  BY DEF RemoveDeferred
<1>3. CASE same = {}
  BY <1>2, <1>3
<1>4. CASE same # {}
  <2>1. same \in SUBSET Nat /\ same \subseteq 1 .. Len(q)
    BY <1>1
  <2>2. Min(same) \in same
    <3> HIDE DEF same
    <3>1. QED
      BY <1>4, <2>1, MinOf
  <2> DEFINE at == Min(same)
  <2>3. at \in 1 .. Len(q) /\ Compare(p.last, q[at].last) = 0
    BY <2>1, <2>2
  <2>4. RemoveDeferred(q, p) = RemoveAt(q, at)
    BY <1>2, <1>4
  <2> HIDE DEF same, at
  <2>5. /\ RemoveAt(q, at) \in Seq(Position)
        /\ \A x : In(x, RemoveAt(q, at)) => In(x, q)
        /\ \A x : In(x, q) /\ x # q[at] => In(x, RemoveAt(q, at))
    BY <2>3, RemoveIn
  <2>6. QED
    BY <2>3, <2>4, <2>5
<1>5. QED
  BY <1>3, <1>4

-----------------------------------------------------------------------------
(* Carrying out what was chosen: the states of the run, turn by turn.      *)

\* Where a run starts.
Started(list, s) ==
    [list |-> list, last |-> s.last, num |-> s.num, rem |-> s.rem,
     deferred |-> s.deferred, made |-> <<>>, ignored |-> {}, postponed |-> {}, left |-> {}]

\* f[k] is the run after k turns.
Turns(list, s, n, trouble, f) ==
    f = [k \in 0 .. n |-> IF k = 0 THEN Started(list, s)
                          ELSE Effected(f[k - 1], k, trouble.missing, trouble.flawed)]

LEMMA TurnsExist ==
    ASSUME NEW list, NEW s, NEW trouble, NEW n \in Nat
    PROVE  \E f : Turns(list, s, n, trouble, f)
<1> DEFINE K == {m \in Nat : \E f : Turns(list, s, m, trouble, f)}
<1>1. 0 \in K
  <2> DEFINE f == [k \in 0 .. 0 |-> Started(list, s)]
  <2>1. \A k \in 0 .. 0 : k = 0
    OBVIOUS
  <2>2. Turns(list, s, 0, trouble, f)
    BY <2>1 DEF Turns
  <2> HIDE DEF f
  <2>3. QED
    BY <2>2
<1>2. ASSUME NEW m \in K PROVE m + 1 \in K
  <2>1. m \in Nat /\ m + 1 \in Nat
    OBVIOUS
  <2>2. PICK g : Turns(list, s, m, trouble, g)
    OBVIOUS
  <2> DEFINE f == [k \in 0 .. m + 1 |-> IF k = 0 THEN Started(list, s)
                          ELSE Effected(g[k - 1], k, trouble.missing, trouble.flawed)]
  <2>3. \A k \in 0 .. m : k \in 0 .. m + 1 /\ f[k] = g[k]
    BY <2>1, <2>2 DEF Turns
  <2>4. \A k \in 0 .. m + 1 : k # 0 => k - 1 \in 0 .. m /\ g[k - 1] = f[k - 1]
    <3>1. \A k \in 0 .. m + 1 : k # 0 => k - 1 \in 0 .. m
      BY <2>1
    <3> HIDE DEF f
    <3>2. QED
      BY <2>3, <3>1
  <2>5. Turns(list, s, m + 1, trouble, f)
    BY <2>4 DEF Turns
  <2> HIDE DEF f
  <2>6. QED
    BY <2>1, <2>5
<1>3. K = Nat
  <2>1. K \in SUBSET Nat
    OBVIOUS
  <2> HIDE DEF K
  <2>2. QED
    BY <1>1, <1>2, <2>1, CountInduction
<1>4. QED
  BY <1>3

LEMMA EffectTurns ==
    ASSUME NEW list, NEW s, NEW trouble, NEW n \in Nat
    PROVE  \E f : /\ Effect(list, s, n, trouble) = f[n]
                  /\ f[0] = Started(list, s)
                  /\ \A k \in 1 .. n :
                       f[k] = Effected(f[k - 1], k, trouble.missing, trouble.flawed)
<1> DEFINE f == CHOOSE g : Turns(list, s, n, trouble, g)
<1>1. Turns(list, s, n, trouble, f)
  BY TurnsExist
<1>2. Effect(list, s, n, trouble) = f[n]
  BY DEF Effect, Turns, Started
<1> HIDE DEF f
<1>3. f[0] = Started(list, s)
  BY <1>1 DEF Turns
<1>4. \A k \in 1 .. n : f[k] = Effected(f[k - 1], k, trouble.missing, trouble.flawed)
  <2>1. \A k \in 1 .. n : k \in 0 .. n /\ k # 0
    OBVIOUS
  <2>2. QED
    BY <1>1, <2>1 DEF Turns
<1>5. QED
  BY <1>2, <1>3, <1>4

-----------------------------------------------------------------------------
(* One turn.                                                               *)

Run == [list : Seq(Shown), last : {NoDay} \cup Days, num : Nat, rem : Nat,
        deferred : Seq(Position), made : Seq(Days),
        ignored : SUBSET Days, postponed : SUBSET Days, left : SUBSET Days]

\* What is kept when an instance gets another state.
SameButState(a, b) == a.date = b.date /\ a.tsd = b.tsd /\ a.orig = b.orig

LEMMA WithStateFacts ==
    ASSUME NEW list \in Seq(Shown), NEW i \in 1 .. Len(list), NEW new \in States
    PROVE  /\ WithState(list, i, new) \in Seq(Shown)
           /\ Len(WithState(list, i, new)) = Len(list)
           /\ \A j \in 1 .. Len(list) :
                /\ SameButState(WithState(list, i, new)[j], list[j])
                /\ WithState(list, i, new)[j].state = "created" =>
                     list[j].state = "created" \/ (j = i /\ new = "created")
                /\ new = "created" /\ list[j].state = "created" =>
                     WithState(list, i, new)[j].state = "created"
                /\ new = "created" /\ j > i => WithState(list, i, new)[j] = list[j]
           /\ WithState(list, i, new)[i].state = new
<1> DEFINE n == Len(list)
           w == [j \in 1 .. n |->
            CASE j = i -> [list[j] EXCEPT !.state = new]
              [] j < i /\ new # "reminder" /\ list[j].state = "reminder" -> [list[j] EXCEPT !.state = "postponed"]
              [] j > i /\ new = "reminder" -> [list[j] EXCEPT !.state = "reminder"]
              [] OTHER -> list[j]]
<1>1. n \in Nat /\ DOMAIN list = 1 .. n /\ \A j \in 1 .. n : list[j] \in Shown
  BY LenProperties, ElementOfSeq
<1>2. WithState(list, i, new) = IF list[i].state = new THEN list ELSE w
  BY <1>1 DEF WithState
<1>3. \A e \in Shown, st \in States : /\ [e EXCEPT !.state = st] \in Shown
                                      /\ [e EXCEPT !.state = st].state = st
                                      /\ SameButState([e EXCEPT !.state = st], e)
  BY DEF Shown, SameButState
<1>4. {"created", "reminder", "postponed"} \subseteq States
  BY DEF States
<1>5. ASSUME NEW j \in 1 .. n
      PROVE  /\ w[j] \in Shown /\ SameButState(w[j], list[j])
             /\ j = i => w[j].state = new
             /\ w[j].state = "created" => list[j].state = "created" \/ (j = i /\ new = "created")
             /\ new = "created" /\ list[j].state = "created" => w[j].state = "created"
             /\ new = "created" /\ j > i => w[j] = list[j]
  <2>1. list[j] \in Shown /\ j \in Int /\ i \in Int
    BY <1>1
  <2>2. CASE j = i
    <3>1. w[j] = [list[j] EXCEPT !.state = new]
      BY <2>2
    <3> HIDE DEF w
    <3>2. QED
      BY <1>3, <2>1, <2>2, <3>1
  <2>3. CASE j # i /\ j < i /\ new # "reminder" /\ list[j].state = "reminder"
    <3>1. w[j] = [list[j] EXCEPT !.state = "postponed"]
      BY <2>3
    <3> HIDE DEF w
    <3>2. QED
      BY <1>3, <1>4, <2>1, <2>3, <3>1
  <2>4. CASE j # i /\ j > i /\ new = "reminder"
    <3>1. w[j] = [list[j] EXCEPT !.state = "reminder"]
      BY <2>1, <2>4
    <3> HIDE DEF w
    <3>2. QED
      BY <1>3, <1>4, <2>1, <2>4, <3>1
  <2>5. CASE ~(j = i) /\ ~(j < i /\ new # "reminder" /\ list[j].state = "reminder")
             /\ ~(j > i /\ new = "reminder")
    <3>1. w[j] = list[j]
      BY <2>5
    <3> HIDE DEF w
    <3>2. QED
      BY <2>1, <2>5, <3>1 DEF SameButState
  <2>6. QED
    BY <2>2, <2>3, <2>4, <2>5
<1>6. w \in Seq(Shown) /\ Len(w) = n
  <2>1. \A j \in 1 .. n : w[j] \in Shown
    BY <1>5
  <2>2. w \in [1 .. n -> Shown]
    <3>1. w = [j \in 1 .. n |-> w[j]]
      OBVIOUS
    <3> HIDE DEF w
    <3>2. QED
      BY <2>1, <3>1
  <2> HIDE DEF w
  <2>3. QED
    BY <1>1, <2>2
<1> HIDE DEF w
<1>7. CASE list[i].state = new
  <2>1. WithState(list, i, new) = list
    BY <1>2, <1>7
  <2>2. \A j \in 1 .. n : SameButState(list[j], list[j])
    BY DEF SameButState
  <2>3. QED
    BY <1>7, <2>1, <2>2
<1>8. CASE list[i].state # new
  <2>1. WithState(list, i, new) = w
    BY <1>2, <1>8
  <2>2. QED
    BY <1>5, <1>6, <2>1
<1>9. QED
  BY <1>7, <1>8

\* The instance is entered, or left for another time, or dealt with for good.
Enters(inst, missing) == inst.state = "to-create" /\ ~missing
Waits(inst, missing, flawed) ==
    \/ inst.state = "reminder"
    \/ inst.state = "to-create" /\ (missing \/ Occurrence(inst.tsd) \in flawed)
Passes(inst, missing, flawed) ==
    \/ inst.state \in {"ignored", "postponed"}
    \/ inst.state = "to-create" /\ ~missing /\ Occurrence(inst.tsd) \notin flawed

Later(m, n) == IF Compare(m, n) <= 0 THEN n ELSE m

\* What the turn leaves of what is postponed.
Kept(run, inst) ==
    IF inst.orig = "postponed"
    THEN IF inst.state = "postponed" THEN run.deferred ELSE RemoveDeferred(run.deferred, inst.tsd)
    ELSE IF inst.state = "postponed" THEN AddDeferred(run.deferred, inst.tsd) ELSE run.deferred

\* The run after the turn of inst.
Turn(run, i, inst, missing, flawed) ==
    [list |-> IF Passes(inst, missing, flawed) /\ inst.state = "to-create"
              THEN WithState(run.list, i, "created") ELSE run.list,
     last |-> IF Passes(inst, missing, flawed) THEN Later(run.last, inst.date) ELSE run.last,
     num |-> IF Passes(inst, missing, flawed) THEN inst.tsd.num + 1 ELSE run.num,
     rem |-> IF Passes(inst, missing, flawed)
             THEN (IF run.rem > 0 THEN run.rem - 1 ELSE run.rem) ELSE run.rem,
     deferred |-> Kept(run, inst),
     made |-> IF Enters(inst, missing) THEN Append(run.made, Occurrence(inst.tsd)) ELSE run.made,
     ignored |-> IF inst.state = "ignored" THEN run.ignored \cup {Occurrence(inst.tsd)} ELSE run.ignored,
     postponed |-> IF inst.state = "postponed" THEN run.postponed \cup {Occurrence(inst.tsd)}
                   ELSE run.postponed,
     left |-> IF Waits(inst, missing, flawed) THEN run.left \cup {Occurrence(inst.tsd)} ELSE run.left]

\* A run by its parts.
RunOf(list, last, num, rem, deferred, made, ignored, postponed, left) ==
    [list |-> list, last |-> last, num |-> num, rem |-> rem, deferred |-> deferred,
     made |-> made, ignored |-> ignored, postponed |-> postponed, left |-> left]

LEMMA RunOfParts ==
    ASSUME NEW a, NEW b, NEW c, NEW d, NEW e, NEW f, NEW g, NEW h, NEW k
    PROVE  LET R == RunOf(a, b, c, d, e, f, g, h, k) IN
           /\ R.list = a
           /\ R.last = b
           /\ R.num = c
           /\ R.rem = d
           /\ R.deferred = e
           /\ R.made = f
           /\ R.ignored = g
           /\ R.postponed = h
           /\ R.left = k
BY DEF RunOf

LEMMA ExceptTwo ==
    ASSUME NEW r, NEW v, NEW w
    PROVE  /\ [r EXCEPT !.deferred = v, !.postponed = w] = [[r EXCEPT !.deferred = v] EXCEPT !.postponed = w]
           /\ [r EXCEPT !.made = v, !.left = w] = [[r EXCEPT !.made = v] EXCEPT !.left = w]
           /\ [r EXCEPT !.made = v, !.list = w] = [[r EXCEPT !.made = v] EXCEPT !.list = w]
<1>1. [r EXCEPT !.deferred = v, !.postponed = w] = [[r EXCEPT !.deferred = v] EXCEPT !.postponed = w]
  OBVIOUS
<1>2. [r EXCEPT !.made = v, !.left = w] = [[r EXCEPT !.made = v] EXCEPT !.left = w]
  OBVIOUS
<1>3. [r EXCEPT !.made = v, !.list = w] = [[r EXCEPT !.made = v] EXCEPT !.list = w]
  OBVIOUS
<1>4. QED
  BY <1>1, <1>2, <1>3

LEMMA PassedFields ==
    ASSUME NEW inst, NEW a, NEW b, NEW c, NEW d, NEW e, NEW f, NEW g, NEW h, NEW k
    PROVE  Passed(RunOf(a, b, c, d, e, f, g, h, k), inst)
             = RunOf(a, Later(b, inst.date), inst.tsd.num + 1, IF d > 0 THEN d - 1 ELSE d, e, f, g, h, k)
<1> DEFINE R == RunOf(a, b, c, d, e, f, g, h, k)
           l == Later(b, inst.date)
           n == inst.tsd.num + 1
           m == IF d > 0 THEN d - 1 ELSE d
<1>1. R.last = b /\ R.rem = d
  BY RunOfParts
<1>2. Passed(R, inst) = [R EXCEPT !.last = l, !.num = n, !.rem = m]
  BY <1>1 DEF Passed, Later
<1> HIDE DEF R, l, n, m
<1>3. [R EXCEPT !.last = l, !.num = n, !.rem = m]
        = [[[R EXCEPT !.last = l] EXCEPT !.num = n] EXCEPT !.rem = m]
  OBVIOUS
<1>4. [R EXCEPT !.last = l] = RunOf(a, l, c, d, e, f, g, h, k)
  BY DEF RunOf, R
<1>5. [RunOf(a, l, c, d, e, f, g, h, k) EXCEPT !.num = n] = RunOf(a, l, n, d, e, f, g, h, k)
  BY DEF RunOf
<1>6. [RunOf(a, l, n, d, e, f, g, h, k) EXCEPT !.rem = m] = RunOf(a, l, n, m, e, f, g, h, k)
  BY DEF RunOf
<1>7. Passed(R, inst) = RunOf(a, l, n, m, e, f, g, h, k)
  BY <1>2, <1>3, <1>4, <1>5, <1>6
<1>8. QED
  BY <1>7 DEF R, l, n, m

LEMMA EffectedFields ==
    ASSUME NEW run \in Run, NEW i \in 1 .. Len(run.list), NEW missing \in BOOLEAN,
           NEW flawed \in SUBSET Days
    PROVE  Effected(run, i, missing, flawed) = Turn(run, i, run.list[i], missing, flawed)
<1> DEFINE inst == run.list[i]
           day == Occurrence(inst.tsd)
           r == IF inst.orig = "postponed" /\ inst.state # "postponed"
                THEN [run EXCEPT !.deferred = RemoveDeferred(@, inst.tsd)] ELSE run
           go == Passes(inst, missing, flawed)
           in == Enters(inst, missing)
           wait == Waits(inst, missing, flawed)
           E == Effected(run, i, missing, flawed)
           T == Turn(run, i, inst, missing, flawed)
           kept == Kept(run, inst)
           Of(a, f, g, h, k) == RunOf(a, run.last, run.num, run.rem, kept, f, g, h, k)
           PassedOf(a, f, g, h, k) ==
             RunOf(a, Later(run.last, inst.date), inst.tsd.num + 1,
                   IF run.rem > 0 THEN run.rem - 1 ELSE run.rem, kept, f, g, h, k)
<1>1. inst \in Shown
  BY ElementOfSeq DEF Run
<1>2. inst.state \in States
  BY <1>1 DEF Shown
<1>3. run = RunOf(run.list, run.last, run.num, run.rem, run.deferred, run.made, run.ignored,
                  run.postponed, run.left)
  BY DEF Run, RunOf
<1>6. E = CASE inst.state = "created" -> r
            [] inst.state = "reminder" -> [r EXCEPT !.left = @ \cup {day}]
            [] inst.state = "ignored" -> Passed([r EXCEPT !.ignored = @ \cup {day}], inst)
            [] inst.state = "postponed" ->
                 Passed([r EXCEPT !.deferred = IF inst.orig # "postponed" THEN AddDeferred(@, inst.tsd) ELSE @,
                                  !.postponed = @ \cup {day}], inst)
            [] inst.state = "to-create" /\ missing -> [r EXCEPT !.left = @ \cup {day}]
            [] inst.state = "to-create" /\ ~missing /\ day \in flawed ->
                 [r EXCEPT !.made = Append(@, day), !.left = @ \cup {day}]
            [] OTHER ->
                 Passed([r EXCEPT !.made = Append(@, day), !.list = WithState(@, i, "created")], inst)
  BY DEF Effected
<1>15. /\ go \in BOOLEAN /\ in \in BOOLEAN /\ wait \in BOOLEAN
       /\ go <=> \/ inst.state \in {"ignored", "postponed"}
                 \/ inst.state = "to-create" /\ ~missing /\ day \notin flawed
       /\ in <=> inst.state = "to-create" /\ ~missing
       /\ wait <=> \/ inst.state = "reminder"
                   \/ inst.state = "to-create" /\ (missing \/ day \in flawed)
  BY DEF Passes, Waits, Enters
<1>16. T = RunOf(IF go /\ inst.state = "to-create" THEN WithState(run.list, i, "created") ELSE run.list,
                 IF go THEN Later(run.last, inst.date) ELSE run.last,
                 IF go THEN inst.tsd.num + 1 ELSE run.num,
                 IF go THEN (IF run.rem > 0 THEN run.rem - 1 ELSE run.rem) ELSE run.rem,
                 kept,
                 IF in THEN Append(run.made, day) ELSE run.made,
                 IF inst.state = "ignored" THEN run.ignored \cup {day} ELSE run.ignored,
                 IF inst.state = "postponed" THEN run.postponed \cup {day} ELSE run.postponed,
                 IF wait THEN run.left \cup {day} ELSE run.left)
  BY DEF Turn, RunOf
<1>17. \A a, f, g, h, k : Passed(Of(a, f, g, h, k), inst) = PassedOf(a, f, g, h, k)
  BY PassedFields
<1>4. inst.state # "postponed" => r = Of(run.list, run.made, run.ignored, run.postponed, run.left)
  <2>1. CASE inst.orig = "postponed" /\ inst.state # "postponed"
    <3> DEFINE q == RemoveDeferred(run.deferred, inst.tsd)
    <3>1. r = [run EXCEPT !.deferred = q] /\ kept = q
      BY <2>1 DEF Kept
    <3> HIDE DEF q, kept, r, inst
    <3>2. [RunOf(run.list, run.last, run.num, run.rem, run.deferred, run.made, run.ignored,
                 run.postponed, run.left) EXCEPT !.deferred = q]
            = RunOf(run.list, run.last, run.num, run.rem, q, run.made, run.ignored,
                    run.postponed, run.left)
      BY DEF RunOf
    <3>3. QED
      BY <1>3, <3>1, <3>2
  <2>2. CASE inst.orig # "postponed" /\ inst.state # "postponed"
    <3>1. r = run /\ kept = run.deferred
      BY <2>2 DEF Kept
    <3> HIDE DEF kept, r, inst
    <3>2. QED
      BY <1>3, <3>1
  <2>3. QED
    BY <2>1, <2>2
<1>5. inst.state = "postponed" => r = run
  OBVIOUS
<1> HIDE DEF inst, day, go, in, wait, r, E, T, kept
<1>18. inst.state # "postponed" =>
         r.list = run.list /\ r.made = run.made /\ r.ignored = run.ignored /\ r.left = run.left
  BY <1>4, RunOfParts
<1>7. CASE inst.state = "created"
  <2>1. ~go /\ ~in /\ ~wait /\ E = r
    BY <1>6, <1>7, <1>15
  <2>2. E = T
    BY <1>4, <1>7, <1>16, <2>1
  <2>3. QED
    BY <2>2 DEF E, T, inst
<1>19. inst.state # "postponed" =>
         [r EXCEPT !.left = run.left \cup {day}]
           = Of(run.list, run.made, run.ignored, run.postponed, run.left \cup {day})
  <2> DEFINE l == run.left \cup {day}
  <2> HIDE DEF l
  <2>1. [Of(run.list, run.made, run.ignored, run.postponed, run.left) EXCEPT !.left = l]
          = Of(run.list, run.made, run.ignored, run.postponed, l)
    BY DEF RunOf
  <2>2. QED
    BY <1>4, <2>1 DEF l
<1>8. CASE inst.state = "reminder"
  <2>1. ~go /\ ~in /\ wait /\ E = [r EXCEPT !.left = run.left \cup {day}]
    BY <1>6, <1>8, <1>15, <1>18
  <2>2. E = T
    BY <1>8, <1>16, <1>19, <2>1
  <2>3. QED
    BY <2>2 DEF E, T, inst
<1>9. CASE inst.state = "ignored"
  <2>1. go /\ ~in /\ ~wait /\ E = Passed([r EXCEPT !.ignored = run.ignored \cup {day}], inst)
    BY <1>6, <1>9, <1>15, <1>18
  <2>2. [r EXCEPT !.ignored = run.ignored \cup {day}]
          = Of(run.list, run.made, run.ignored \cup {day}, run.postponed, run.left)
    <3> DEFINE l == run.ignored \cup {day}
    <3> HIDE DEF l
    <3>1. [Of(run.list, run.made, run.ignored, run.postponed, run.left) EXCEPT !.ignored = l]
            = Of(run.list, run.made, l, run.postponed, run.left)
      BY DEF RunOf
    <3>2. QED
      BY <1>4, <1>9, <3>1 DEF l
  <2>3. E = PassedOf(run.list, run.made, run.ignored \cup {day}, run.postponed, run.left)
    BY <1>17, <2>1, <2>2
  <2>4. E = T
    BY <1>9, <1>16, <2>1, <2>3
  <2>5. QED
    BY <2>4 DEF E, T, inst
<1>10. CASE inst.state = "postponed"
  <2> DEFINE q == IF inst.orig # "postponed" THEN AddDeferred(run.deferred, inst.tsd) ELSE run.deferred
             p == run.postponed \cup {day}
  <2>1. go /\ ~in /\ ~wait /\ E = Passed([run EXCEPT !.deferred = q, !.postponed = p], inst)
    BY <1>5, <1>6, <1>10, <1>15
  <2>2. q = kept
    BY <1>10 DEF Kept, kept
  <2> HIDE DEF q, p
  <2>3. [run EXCEPT !.deferred = q]
          = RunOf(run.list, run.last, run.num, run.rem, q, run.made, run.ignored, run.postponed, run.left)
    <3>1. [RunOf(run.list, run.last, run.num, run.rem, run.deferred, run.made, run.ignored,
                 run.postponed, run.left) EXCEPT !.deferred = q]
            = RunOf(run.list, run.last, run.num, run.rem, q, run.made, run.ignored,
                    run.postponed, run.left)
      BY DEF RunOf
    <3>2. QED
      BY <1>3, <3>1
  <2>4. [RunOf(run.list, run.last, run.num, run.rem, q, run.made, run.ignored, run.postponed, run.left)
           EXCEPT !.postponed = p]
          = RunOf(run.list, run.last, run.num, run.rem, q, run.made, run.ignored, p, run.left)
    BY DEF RunOf
  <2>5. [run EXCEPT !.deferred = q, !.postponed = p]
          = Of(run.list, run.made, run.ignored, p, run.left)
    BY <2>2, <2>3, <2>4, ExceptTwo
  <2>6. E = PassedOf(run.list, run.made, run.ignored, p, run.left)
    BY <1>17, <2>1, <2>5
  <2>7. E = T
    BY <1>10, <1>16, <2>1, <2>6 DEF p
  <2>8. QED
    BY <2>7 DEF E, T, inst
<1>11. CASE inst.state = "to-create" /\ missing
  <2>1. ~go /\ ~in /\ wait /\ E = [r EXCEPT !.left = run.left \cup {day}]
    BY <1>6, <1>11, <1>15, <1>18
  <2>2. E = T
    BY <1>11, <1>16, <1>19, <2>1
  <2>3. QED
    BY <2>2 DEF E, T, inst
<1>20. inst.state # "postponed" =>
         [r EXCEPT !.made = Append(run.made, day)]
           = Of(run.list, Append(run.made, day), run.ignored, run.postponed, run.left)
  <2> DEFINE m == Append(run.made, day)
  <2> HIDE DEF m
  <2>1. [Of(run.list, run.made, run.ignored, run.postponed, run.left) EXCEPT !.made = m]
          = Of(run.list, m, run.ignored, run.postponed, run.left)
    BY DEF RunOf
  <2>2. QED
    BY <1>4, <2>1 DEF m
<1>12. CASE inst.state = "to-create" /\ ~missing /\ day \in flawed
  <2> DEFINE m == Append(run.made, day)
             l == run.left \cup {day}
  <2>1. ~go /\ in /\ wait /\ E = [r EXCEPT !.made = m, !.left = l]
    BY <1>6, <1>12, <1>15, <1>18
  <2>0. [r EXCEPT !.made = m] = Of(run.list, m, run.ignored, run.postponed, run.left)
    BY <1>12, <1>20
  <2> HIDE DEF l, m
  <2>2. [Of(run.list, m, run.ignored, run.postponed, run.left) EXCEPT !.left = l]
          = Of(run.list, m, run.ignored, run.postponed, l)
    BY DEF RunOf
  <2>3. E = Of(run.list, m, run.ignored, run.postponed, l)
    BY <2>1, <2>2, <2>0, ExceptTwo
  <2>4. E = T
    BY <1>12, <1>16, <2>1, <2>3 DEF l, m
  <2>5. QED
    BY <2>4 DEF E, T, inst
<1>13. CASE inst.state = "to-create" /\ ~missing /\ day \notin flawed
  <2> DEFINE m == Append(run.made, day)
             l == WithState(run.list, i, "created")
  <2>1. /\ go /\ in /\ ~wait
        /\ E = Passed([r EXCEPT !.made = m, !.list = l], inst)
    BY <1>6, <1>13, <1>15, <1>18
  <2>0. [r EXCEPT !.made = m] = Of(run.list, m, run.ignored, run.postponed, run.left)
    BY <1>13, <1>20
  <2> HIDE DEF l, m
  <2>2. [Of(run.list, m, run.ignored, run.postponed, run.left) EXCEPT !.list = l]
          = Of(l, m, run.ignored, run.postponed, run.left)
    BY DEF RunOf
  <2>3. [r EXCEPT !.made = m, !.list = l] = Of(l, m, run.ignored, run.postponed, run.left)
    BY <2>2, <2>0, ExceptTwo
  <2>4. E = PassedOf(l, m, run.ignored, run.postponed, run.left)
    BY <1>17, <2>1, <2>3
  <2>5. E = T
    BY <1>13, <1>16, <2>1, <2>4 DEF l, m
  <2>6. QED
    BY <2>5 DEF E, T, inst
<1>14. QED
  BY <1>2, <1>7, <1>8, <1>9, <1>10, <1>11, <1>12, <1>13 DEF States

LEMMA LaterFacts ==
    \A m, n \in {NoDay} \cup Days :
       /\ Later(m, n) \in {m, n}
       /\ m = NoDay => Later(m, n) = n
       /\ n # NoDay => Later(m, n) # NoDay /\ n <= Later(m, n) /\ (m # NoDay => m <= Later(m, n))
<1>1. TAKE m, n \in {NoDay} \cup Days
<1>2. m \in {NoDay} \cup Nat /\ n \in {NoDay} \cup Nat
  BY DayFacts
<1>3. /\ Compare(m, n) \in Int
      /\ m # NoDay /\ n # NoDay => Compare(m, n) = m - n
      /\ m = NoDay \/ n = NoDay => Compare(m, n) = 0
  BY <1>2, CompareFacts
<1>4. QED
  BY <1>2, <1>3, NoDayFacts DEF Later

LEMMA ShownFacts ==
    ASSUME NEW e \in Shown
    PROVE  /\ e.tsd \in Position /\ e.tsd.num \in Nat /\ e.tsd.rem \in Int
           /\ e.date \in {NoDay} \cup Days /\ e.state \in States /\ e.orig \in States
           /\ Occurrence(e.tsd) \in Days /\ e.date \in {NoDay, Occurrence(e.tsd)}
           /\ e.tsd.last \in {NoDay} \cup Nat
<1>1. e.tsd \in Position
  BY DEF Shown
<1>2. e.tsd.num \in Nat /\ e.tsd.rem \in Int /\ e.tsd.last \in {NoDay} \cup Nat
  BY <1>1 DEF Position
<1>3. Occurrence(e.tsd) \in Days
  BY <1>1, OccurrenceType
<1>4. QED
  BY <1>1, <1>2, <1>3 DEF Shown

LEMMA TurnType ==
    ASSUME NEW run \in Run, NEW i \in 1 .. Len(run.list), NEW inst \in Shown,
           NEW missing \in BOOLEAN, NEW flawed \in SUBSET Days
    PROVE  Turn(run, i, inst, missing, flawed) \in Run
<1> DEFINE go == Passes(inst, missing, flawed)
           day == Occurrence(inst.tsd)
           T == Turn(run, i, inst, missing, flawed)
<1>1. /\ run.list \in Seq(Shown) /\ run.last \in {NoDay} \cup Days /\ run.num \in Nat /\ run.rem \in Nat
      /\ run.deferred \in Seq(Position) /\ run.made \in Seq(Days) /\ run.ignored \in SUBSET Days
      /\ run.postponed \in SUBSET Days /\ run.left \in SUBSET Days
  BY DEF Run
<1>2. day \in Days /\ inst.tsd \in Position /\ inst.tsd.num \in Nat /\ inst.date \in {NoDay} \cup Days
  BY ShownFacts
<1>3. WithState(run.list, i, "created") \in Seq(Shown)
  BY <1>1, WithStateFacts DEF States
<1>4. Later(run.last, inst.date) \in {NoDay} \cup Days
  BY <1>1, <1>2, LaterFacts
<1>5. inst.tsd.num + 1 \in Nat /\ (run.rem > 0 => run.rem - 1 \in Nat)
  BY <1>1, <1>2
<1>6. Kept(run, inst) \in Seq(Position)
  BY <1>1, <1>2, AddDeferredFacts, RemoveDeferredFacts DEF Kept
<1>7. Append(run.made, day) \in Seq(Days)
  BY <1>1, <1>2, AppendProperties
<1> HIDE DEF go, day
<1>8. /\ (IF go /\ inst.state = "to-create" THEN WithState(run.list, i, "created") ELSE run.list) \in Seq(Shown)
      /\ (IF go THEN Later(run.last, inst.date) ELSE run.last) \in {NoDay} \cup Days
      /\ (IF go THEN inst.tsd.num + 1 ELSE run.num) \in Nat
  BY <1>1, <1>3, <1>4, <1>5
<1>9. (IF go THEN (IF run.rem > 0 THEN run.rem - 1 ELSE run.rem) ELSE run.rem) \in Nat
  BY <1>1, <1>5
<1>10. /\ (IF Enters(inst, missing) THEN Append(run.made, day) ELSE run.made) \in Seq(Days)
       /\ (IF inst.state = "ignored" THEN run.ignored \cup {day} ELSE run.ignored) \in SUBSET Days
       /\ (IF inst.state = "postponed" THEN run.postponed \cup {day} ELSE run.postponed) \in SUBSET Days
       /\ (IF Waits(inst, missing, flawed) THEN run.left \cup {day} ELSE run.left) \in SUBSET Days
  BY <1>1, <1>2, <1>7
<1>11. QED
  BY <1>6, <1>8, <1>9, <1>10 DEF Turn, Run, go, day

Trouble == [missing : BOOLEAN, flawed : SUBSET Days]

\* f[k] is the run after k turns, of the instances of list.
IsRun(f, list, s, n, trouble) ==
    /\ f[0] = Started(list, s)
    /\ \A k \in 0 .. n :
         /\ f[k] \in Run /\ Len(f[k].list) = Len(list)
         /\ \A j \in 1 .. Len(list) : /\ SameButState(f[k].list[j], list[j])
                                      /\ j > k => f[k].list[j] = list[j]
    /\ \A k \in 1 .. n : f[k] = Turn(f[k - 1], k, list[k], trouble.missing, trouble.flawed)

LEMMA RunExists ==
    ASSUME NEW list \in Seq(Shown), NEW s \in Schedule, NEW trouble \in Trouble,
           NEW n \in 0 .. Len(list)
    PROVE  \E f : IsRun(f, list, s, n, trouble) /\ Effect(list, s, n, trouble) = f[n]
<1>1. Len(list) \in Nat /\ n \in Nat /\ n <= Len(list)
  <2>1. Len(list) \in Nat
    BY LenProperties
  <2>2. QED
    BY <2>1
<1>2. PICK f : /\ Effect(list, s, n, trouble) = f[n]
               /\ f[0] = Started(list, s)
               /\ \A k \in 1 .. n : f[k] = Effected(f[k - 1], k, trouble.missing, trouble.flawed)
  BY <1>1, EffectTurns
<1>3. trouble.missing \in BOOLEAN /\ trouble.flawed \in SUBSET Days
  BY DEF Trouble
<1> DEFINE OK(k) == /\ f[k] \in Run /\ Len(f[k].list) = Len(list)
                    /\ \A j \in 1 .. Len(list) : /\ SameButState(f[k].list[j], list[j])
                                                 /\ j > k => f[k].list[j] = list[j]
           K == {k \in Nat : k <= n => OK(k)}
<1>4. 0 \in K
  <2>1. Started(list, s) \in Run
    <3>1. <<>> \in Seq(Days)
      BY EmptySeq
    <3>2. QED
      BY <3>1 DEF Started, Run, Schedule
  <2>2. Started(list, s).list = list
    BY DEF Started
  <2>3. \A j : SameButState(list[j], list[j])
    BY DEF SameButState
  <2>4. QED
    BY <1>2, <2>1, <2>2, <2>3
<1>5. ASSUME NEW k \in Nat, OK(k), k + 1 <= n
      PROVE  OK(k + 1) /\ f[k + 1] = Turn(f[k], k + 1, list[k + 1], trouble.missing, trouble.flawed)
  <2> DEFINE i == k + 1
  <2>1. i \in 1 .. n /\ i - 1 = k /\ i \in 1 .. Len(list) /\ i > k
    BY <1>1, <1>5
  <2>2. f[i] = Effected(f[k], i, trouble.missing, trouble.flawed)
    BY <1>2, <2>1
  <2> HIDE DEF i
  <2>3. f[k] \in Run /\ Len(f[k].list) = Len(list) /\ f[k].list[i] = list[i]
    BY <1>5, <2>1
  <2>4. f[i] = Turn(f[k], i, list[i], trouble.missing, trouble.flawed)
    BY <1>3, <2>1, <2>2, <2>3, EffectedFields
  <2>5. list[i] \in Shown
    BY <2>1, ElementOfSeq
  <2>6. f[i] \in Run
    BY <1>3, <2>1, <2>3, <2>4, <2>5, TurnType
  <2>7. f[i].list \in {f[k].list, WithState(f[k].list, i, "created")}
    BY <2>4 DEF Turn
  <2>8. /\ f[k].list \in Seq(Shown) /\ i \in 1 .. Len(f[k].list) /\ "created" \in States
    BY <2>1, <2>3 DEF Run, States
  <2>9. /\ Len(WithState(f[k].list, i, "created")) = Len(list)
        /\ \A j \in 1 .. Len(list) :
             /\ SameButState(WithState(f[k].list, i, "created")[j], f[k].list[j])
             /\ j > i => WithState(f[k].list, i, "created")[j] = f[k].list[j]
    BY <2>3, <2>8, WithStateFacts
  <2>10. Len(f[i].list) = Len(list)
    BY <2>3, <2>7, <2>9
  <2>11. ASSUME NEW j \in 1 .. Len(list)
         PROVE  SameButState(f[i].list[j], list[j]) /\ (j > i => f[i].list[j] = list[j])
    <3>1. SameButState(f[k].list[j], list[j]) /\ (j > i => f[k].list[j] = list[j])
      BY <1>1, <1>5, <2>1
    <3>2. SameButState(f[i].list[j], f[k].list[j]) /\ (j > i => f[i].list[j] = f[k].list[j])
      BY <2>7, <2>9 DEF SameButState
    <3>3. QED
      BY <3>1, <3>2 DEF SameButState
  <2>12. OK(i)
    BY <2>6, <2>10, <2>11
  <2>13. QED
    BY <2>4, <2>12 DEF i
<1>6. ASSUME NEW k \in K PROVE k + 1 \in K
  <2>1. k \in Nat /\ k + 1 \in Nat /\ (k + 1 <= n => k <= n)
    BY <1>1
  <2>2. QED
    BY <1>5, <2>1
<1>7. K = Nat
  <2>1. K \in SUBSET Nat
    OBVIOUS
  <2> HIDE DEF K
  <2>2. QED
    BY <1>4, <1>6, <2>1, CountInduction
<1>8. \A k \in 0 .. n : OK(k)
  <2>1. \A k \in 0 .. n : k \in Nat /\ k <= n
    BY <1>1
  <2>2. QED
    BY <1>7, <2>1
<1>9. ASSUME NEW k \in 1 .. n
      PROVE  f[k] = Turn(f[k - 1], k, list[k], trouble.missing, trouble.flawed)
  <2>1. k - 1 \in Nat /\ k - 1 \in 0 .. n /\ (k - 1) + 1 <= n /\ (k - 1) + 1 = k
    BY <1>1
  <2> HIDE DEF OK
  <2>2. OK(k - 1)
    BY <1>8, <2>1
  <2>3. QED
    BY <1>5, <2>1, <2>2
<1>10. QED
  BY <1>2, <1>8, <1>9 DEF IsRun

-----------------------------------------------------------------------------
(* The setters at the end, and what the dialogs are told.                  *)

LEMMA ScheduleParts ==
    ASSUME NEW s \in Schedule
    PROVE  /\ s.last \in {NoDay} \cup Days /\ s.num \in Nat /\ s.rem \in Nat /\ s.total \in Nat
           /\ s.enabled \in BOOLEAN /\ s.auto \in BOOLEAN /\ s.notify \in BOOLEAN /\ s.lead \in Leads
           /\ s.deferred \in Seq(Position)
BY DEF Schedule

\* What two versions of the scheduled transaction have in common.
SameSettings(a, b) ==
    a.total = b.total /\ a.enabled = b.enabled /\ a.auto = b.auto /\ a.notify = b.notify /\ a.lead = b.lead

Moved(m, n) == IF m # NoDay /\ Compare(m, n) = 0 THEN m ELSE n

LEMMA CommittedFacts ==
    ASSUME NEW s \in Schedule, NEW run \in Run
    PROVE  LET vs == Committed(s, run) IN
           /\ Last(vs) = vs[4]
           /\ \A v \in 1 .. 4 : vs[v] \in Schedule /\ SameSettings(vs[v], s) /\ vs[v].deferred = run.deferred
           /\ vs[1].last = s.last /\ vs[1].num = s.num /\ vs[1].rem = s.rem
           /\ \A v \in 2 .. 4 : vs[v].last = Moved(s.last, run.last)
           /\ vs[2].num = s.num /\ vs[2].rem = s.rem
           /\ vs[3].num = run.num /\ vs[3].rem = s.rem
           /\ vs[4].num = run.num /\ vs[4].rem = IF run.rem > s.total THEN s.rem ELSE run.rem
<1> DEFINE s0 == [s EXCEPT !.deferred = run.deferred]
           s1 == SetLast(s0, run.last)
           s2 == SetCount(s1, run.num)
           s3 == SetRemaining(s2, run.rem)
           vs == Committed(s, run)
<1>1. /\ run.last \in {NoDay} \cup Days /\ run.num \in Nat /\ run.rem \in Nat
      /\ run.deferred \in Seq(Position)
  BY DEF Run
<1>2. vs = <<s0, s1, s2, s3>>
  BY DEF Committed
<1>3. /\ s0 \in Schedule /\ SameSettings(s0, s) /\ s0.deferred = run.deferred
      /\ s0.last = s.last /\ s0.num = s.num /\ s0.rem = s.rem
  BY <1>1 DEF Schedule, SameSettings
<1> HIDE DEF s0
<1>4. /\ s1 \in Schedule /\ SameSettings(s1, s0) /\ s1.deferred = s0.deferred
      /\ s1.last = Moved(s0.last, run.last) /\ s1.num = s0.num /\ s1.rem = s0.rem
  <2>1. CASE s0.last # NoDay /\ Compare(s0.last, run.last) = 0
    BY <1>3, <2>1 DEF SetLast, Moved, SameSettings
  <2>2. CASE ~(s0.last # NoDay /\ Compare(s0.last, run.last) = 0)
    <3>1. s1 = [s0 EXCEPT !.last = run.last]
      BY <2>2 DEF SetLast
    <3>2. Moved(s0.last, run.last) = run.last
      BY <2>2 DEF Moved
    <3> HIDE DEF s1
    <3>3. QED
      BY <1>1, <1>3, <3>1, <3>2 DEF Schedule, SameSettings
  <2>3. QED
    BY <2>1, <2>2
<1> HIDE DEF s1
<1>5. /\ s2 \in Schedule /\ SameSettings(s2, s1) /\ s2.deferred = s1.deferred
      /\ s2.last = s1.last /\ s2.num = run.num /\ s2.rem = s1.rem
  <2>1. s2 = [s1 EXCEPT !.num = run.num]
    BY DEF SetCount
  <2> HIDE DEF s2
  <2>2. QED
    BY <1>1, <1>4, <2>1 DEF Schedule, SameSettings
<1> HIDE DEF s2
<1>6. /\ s3 \in Schedule /\ SameSettings(s3, s2) /\ s3.deferred = s2.deferred
      /\ s3.last = s2.last /\ s3.num = s2.num /\ s3.rem = IF run.rem > s2.total THEN s2.rem ELSE run.rem
  <2>1. CASE run.rem > s2.total
    BY <1>5, <2>1 DEF SetRemaining, SameSettings
  <2>2. CASE ~(run.rem > s2.total)
    <3>1. s3 = [s2 EXCEPT !.rem = run.rem]
      BY <2>2 DEF SetRemaining
    <3> HIDE DEF s3
    <3>2. QED
      BY <1>1, <1>5, <2>2, <3>1 DEF Schedule, SameSettings
  <2>3. QED
    BY <2>1, <2>2
<1> HIDE DEF s3
<1>7. vs[1] = s0 /\ vs[2] = s1 /\ vs[3] = s2 /\ vs[4] = s3 /\ Len(vs) = 4
  BY <1>2
<1>8. Last(vs) = vs[4]
  BY <1>7 DEF Last
<1>9. \A v \in 1 .. 4 : v = 1 \/ v = 2 \/ v = 3 \/ v = 4
  OBVIOUS
<1>10. /\ s1.last = Moved(s.last, run.last) /\ s2.last = Moved(s.last, run.last)
       /\ s3.last = Moved(s.last, run.last)
  BY <1>3, <1>4, <1>5, <1>6
<1>11. SameSettings(s1, s) /\ SameSettings(s2, s) /\ SameSettings(s3, s)
  BY <1>3, <1>4, <1>5, <1>6 DEF SameSettings
<1>12. \A v \in 1 .. 4 : vs[v] \in Schedule /\ SameSettings(vs[v], s) /\ vs[v].deferred = run.deferred
  BY <1>3, <1>4, <1>5, <1>6, <1>7, <1>9, <1>11
<1>13. \A v \in 2 .. 4 : vs[v].last = Moved(s.last, run.last)
  <2>1. \A v \in 2 .. 4 : v = 2 \/ v = 3 \/ v = 4
    OBVIOUS
  <2>2. QED
    BY <1>7, <1>10, <2>1
<1>14. s3.rem = IF run.rem > s.total THEN s.rem ELSE run.rem
  BY <1>3, <1>4, <1>5, <1>6, <1>11 DEF SameSettings
<1> HIDE DEF vs
<1>15. QED
  BY <1>3, <1>4, <1>5, <1>6, <1>7, <1>8, <1>12, <1>13, <1>14 DEF vs

\* A dialog hears of nothing, or in the end of the last version.
LEMMA NotifiedFacts ==
    ASSUME NEW ds, NEW vs, NEW x \in Dialogs
    PROVE  LET e == Notified(ds, vs)[x] IN
           \/ e = ds[x] /\ vs[4] = vs[1] /\ vs[1].last # NoDay
           \/ \E a \in {ds[x], Updated(ds[x], vs[2])} :
                \E b \in {a, Updated(a, vs[3])} : e = Updated(b, vs[4])
<1> DEFINE first == IF vs[1].last = NoDay THEN Updated(ds[x], vs[2]) ELSE Told(ds[x], vs[1], vs[2])
           second == Told(first, vs[2], vs[3])
           e == Told(second, vs[3], vs[4])
<1>1. Notified(ds, vs)[x] = e
  BY DEF Notified
<1>2. first = ds[x] \/ first = Updated(ds[x], vs[2])
  BY DEF Told
<1>3. second = first \/ second = Updated(first, vs[3])
  BY DEF Told
<1>4. CASE vs[4] # vs[3]
  <2>1. e = Updated(second, vs[4])
    BY <1>4 DEF Told
  <2> HIDE DEF e, second, first
  <2>2. QED
    BY <1>1, <1>2, <1>3, <2>1
<1>5. CASE vs[4] = vs[3] /\ vs[3] # vs[2]
  <2>1. e = Updated(first, vs[4])
    BY <1>5 DEF Told
  <2> HIDE DEF e, second, first
  <2>2. QED
    BY <1>1, <1>2, <2>1
<1>6. CASE vs[4] = vs[3] /\ vs[3] = vs[2]
  <2>1. e = first
    BY <1>6 DEF Told
  <2>2. first = Updated(ds[x], vs[4]) \/ (first = ds[x] /\ vs[1] = vs[2] /\ vs[1].last # NoDay)
    BY <1>6 DEF Told
  <2> HIDE DEF e, second, first
  <2>3. QED
    BY <1>1, <1>6, <2>1, <2>2
<1>7. QED
  BY <1>4, <1>5, <1>6

LEMMA NotifiedTypes ==
    ASSUME NEW ds \in [Dialogs -> Window], \A y \in Dialogs : WindowOK(ds[y]),
           NEW vs, \A v \in 1 .. 4 : vs[v] \in Schedule
    PROVE  /\ Notified(ds, vs) \in [Dialogs -> Window]
           /\ \A y \in Dialogs : /\ WindowOK(Notified(ds, vs)[y])
                                 /\ Notified(ds, vs)[y].open = ds[y].open
                                 /\ Notified(ds, vs)[y].until = ds[y].until
                                 /\ ~ds[y].open => Notified(ds, vs)[y] = ds[y]
<1> DEFINE OK(y, e) == /\ e \in Window /\ WindowOK(e)
                       /\ e.open = ds[y].open /\ e.until = ds[y].until
                       /\ ~ds[y].open => e = ds[y]
<1>1. \A y \in Dialogs : OK(y, ds[y])
  OBVIOUS
<1>2. ASSUME NEW y \in Dialogs, NEW e, OK(y, e), NEW v \in 1 .. 4
      PROVE  OK(y, Updated(e, vs[v]))
  BY <1>2, UpdatedFacts
<1>3. ASSUME NEW y \in Dialogs PROVE OK(y, Notified(ds, vs)[y])
  <2> HIDE DEF OK
  <2>1. CASE Notified(ds, vs)[y] = ds[y]
    BY <1>1, <2>1
  <2>2. ASSUME NEW a \in {ds[y], Updated(ds[y], vs[2])}, NEW b \in {a, Updated(a, vs[3])},
               Notified(ds, vs)[y] = Updated(b, vs[4])
        PROVE  OK(y, Notified(ds, vs)[y])
    <3>1. OK(y, a)
      BY <1>1, <1>2
    <3>2. OK(y, b)
      BY <1>2, <3>1
    <3>3. QED
      BY <1>2, <2>2, <3>2
  <2>3. QED
    BY <2>1, <2>2, NotifiedFacts
<1>4. DOMAIN Notified(ds, vs) = Dialogs /\ Notified(ds, vs) = [y \in Dialogs |-> Notified(ds, vs)[y]]
  BY DEF Notified
<1>5. QED
  BY <1>3, <1>4

-----------------------------------------------------------------------------
(* What a run adds to the transactions and to the history.                 *)

LEMMA AtMost2 ==
    \A n \in Nat : Min({2, n}) \in 0 .. 2 /\ (n <= 2 => Min({2, n}) = n) /\ (2 <= n => Min({2, n}) = 2)
<1>1. TAKE n \in Nat
<1>2. {2, n} \in SUBSET Nat /\ {2, n} # {}
  OBVIOUS
<1>3. Min({2, n}) \in {2, n} /\ Min({2, n}) <= 2 /\ Min({2, n}) <= n
  BY <1>2, MinOf
<1>4. QED
  BY <1>3

\* made[m] and made[n] are the same day only if m = n.
Once(made, d) == \A m, n \in DOMAIN made : made[m] = d /\ made[n] = d => m = n

LEMMA AddedFacts ==
    ASSUME transactions \in [Days -> 0 .. 2], NEW made \in Seq(Days)
    PROVE  /\ Added(made) \in [Days -> 0 .. 2]
           /\ \A d \in Days :
                /\ Added(made)[d] \in 0 .. 2 /\ transactions[d] \in 0 .. 2
                /\ transactions[d] > 0 => Added(made)[d] > 0
                /\ In(d, made) => Added(made)[d] > 0
                /\ ~In(d, made) => Added(made)[d] = transactions[d]
                /\ transactions[d] = 0 /\ Once(made, d) => Added(made)[d] <= 1
<1>1. ASSUME NEW d \in Days
      PROVE  /\ Added(made)[d] \in 0 .. 2 /\ transactions[d] \in 0 .. 2
             /\ transactions[d] > 0 => Added(made)[d] > 0
             /\ In(d, made) => Added(made)[d] > 0
             /\ ~In(d, made) => Added(made)[d] = transactions[d]
             /\ transactions[d] = 0 /\ Once(made, d) => Added(made)[d] <= 1
  <2> DEFINE K == {k \in DOMAIN made : made[k] = d}
             t == transactions[d]
             c == Cardinality(K)
  <2>1. Added(made)[d] = Min({2, t + c})
    BY DEF Added
  <2>2. t \in 0 .. 2
    OBVIOUS
  <2>3. DOMAIN made = 1 .. Len(made) /\ Len(made) \in Nat
    BY LenProperties
  <2>4. IsFiniteSet(K)
    <3>1. IsFiniteSet(1 .. Len(made))
      BY <2>3, FS_Interval
    <3>2. K \in SUBSET (1 .. Len(made))
      BY <2>3
    <3> HIDE DEF K
    <3>3. QED
      BY <3>1, <3>2, FS_Subset
  <2>5. In(d, made) <=> K # {}
    BY DEF In
  <2>6. Once(made, d) => \A m, n \in K : m = n
    BY DEF Once
  <2> HIDE DEF K
  <2>7. c \in Nat /\ (c = 0 <=> K = {})
    BY <2>4, FS_CardinalityType, FS_EmptySet
  <2>8. (\A m, n \in K : m = n) => c <= 1
    <3>1. CASE K = {}
      BY <2>7, <3>1
    <3>2. ASSUME NEW k \in K, \A m, n \in K : m = n PROVE c <= 1
      <4>1. K = {k}
        BY <3>2
      <4>2. c = 1
        BY <4>1, FS_Singleton
      <4>3. QED
        BY <4>2
    <3>3. QED
      BY <3>1, <3>2
  <2> HIDE DEF t, c
  <2>9. t + c \in Nat /\ t \in Nat
    BY <2>2, <2>7
  <2>10. /\ Min({2, t + c}) \in 0 .. 2
         /\ t + c <= 2 => Min({2, t + c}) = t + c
         /\ 2 <= t + c => Min({2, t + c}) = 2
    BY <2>9, AtMost2
  <2> DEFINE m == Min({2, t + c})
  <2> HIDE DEF m
  <2>11. /\ m \in 0 .. 2 /\ (t > 0 => m > 0) /\ (c > 0 => m > 0) /\ (c = 0 => m = t)
         /\ t = 0 /\ c <= 1 => m <= 1
    BY <2>2, <2>7, <2>9, <2>10 DEF m
  <2>12. (K # {} <=> c > 0)
    BY <2>7
  <2>13. Added(made)[d] = m
    BY <2>1 DEF m
  <2>14. /\ m \in 0 .. 2 /\ t \in 0 .. 2
         /\ t > 0 => m > 0
         /\ In(d, made) => m > 0
         /\ ~In(d, made) => m = t
         /\ t = 0 /\ Once(made, d) => m <= 1
    BY <2>2, <2>5, <2>6, <2>7, <2>8, <2>11, <2>12
  <2>15. QED
    BY <2>13, <2>14 DEF t
<1>2. DOMAIN Added(made) = Days /\ Added(made) = [d \in Days |-> Added(made)[d]]
  BY DEF Added
<1>3. QED
  BY <1>1, <1>2

\* What was left and is not after the last date.
LEMMA OvertakenFacts ==
    ASSUME NEW left \in SUBSET Days, NEW last \in {NoDay} \cup Days
    PROVE  /\ Overtaken(left, last) \in SUBSET Days
           /\ left = {} => Overtaken(left, last) = {}
           /\ \A e \in left : e <= last => e \in Overtaken(left, last)
BY DEF Overtaken

\* What happened in a run, if anything did.
NotedFacts(d, run, x, flawed) ==
    /\ d \in History
    /\ d.ignored = done.ignored \cup run.ignored
    /\ d.postponed = done.postponed \cup run.postponed
    /\ d.lost = done.lost \cup Overtaken(run.left, run.last)
    /\ d.flawed = done.flawed \cup {e \in flawed : In(e, run.made)}
    /\ d.limited = done.limited /\ d.crashed = done.crashed
    /\ done.shared => d.shared
    /\ OthersOpen(x) => d.shared \/ (run.made = <<>> /\ run.ignored \cup run.postponed \cup run.left = {})

LEMMA NotedHolds ==
    ASSUME done \in History, NEW run \in Run, NEW x \in Dialogs, NEW flawed \in SUBSET Days
    PROVE  NotedFacts(Noted(run, x, flawed), run, x, flawed)
<1> DEFINE idle == run.made = <<>> /\ run.ignored \cup run.postponed \cup run.left = {}
           F == {d \in flawed : \E k \in DOMAIN run.made : run.made[k] = d}
<1>1. F = {e \in flawed : In(e, run.made)}
  BY DEF In
<1>2. /\ run.ignored \in SUBSET Days /\ run.postponed \in SUBSET Days
      /\ Overtaken(run.left, run.last) \in SUBSET Days
      /\ run.left = {} => Overtaken(run.left, run.last) = {}
  BY OvertakenFacts DEF Run
<1>3. CASE idle
  <2>1. Noted(run, x, flawed) = done
    BY <1>3 DEF Noted
  <2>2. run.ignored = {} /\ run.postponed = {} /\ Overtaken(run.left, run.last) = {}
    BY <1>2, <1>3
  <2>3. F = {}
    BY <1>3
  <2>4. QED
    BY <1>1, <1>3, <2>1, <2>2, <2>3 DEF NotedFacts
<1>4. CASE ~idle
  <2> DEFINE sh == done.shared \/ OthersOpen(x)
  <2>1. Noted(run, x, flawed) = [done EXCEPT !.ignored = done.ignored \cup run.ignored,
                 !.postponed = done.postponed \cup run.postponed,
                 !.lost = done.lost \cup Overtaken(run.left, run.last),
                 !.flawed = done.flawed \cup F,
                 !.shared = sh]
    BY <1>4 DEF Noted
  <2>2. /\ done.ignored \cup run.ignored \in SUBSET Days
        /\ done.postponed \cup run.postponed \in SUBSET Days
        /\ done.lost \cup Overtaken(run.left, run.last) \in SUBSET Days
        /\ done.flawed \cup F \in SUBSET Days /\ sh \in BOOLEAN
    BY <1>2 DEF History, OthersOpen
  <2> DEFINE a == done.ignored \cup run.ignored
             b == done.postponed \cup run.postponed
             c == done.lost \cup Overtaken(run.left, run.last)
             g == done.flawed \cup F
             N == Noted(run, x, flawed)
  <2>3. (OthersOpen(x) => sh) /\ (done.shared => sh)
    OBVIOUS
  <2> HIDE DEF F, sh
  <2>4. /\ N \in History /\ N.ignored = a /\ N.postponed = b /\ N.lost = c /\ N.flawed = g
        /\ N.limited = done.limited /\ N.crashed = done.crashed /\ N.shared = sh
    <3> HIDE DEF a, b, c, g, N
    <3>1. N = [done EXCEPT !.ignored = a, !.postponed = b, !.lost = c, !.flawed = g, !.shared = sh]
      BY <2>1 DEF a, b, c, g, N
    <3>2. /\ a \in SUBSET Days /\ b \in SUBSET Days /\ c \in SUBSET Days /\ g \in SUBSET Days
          /\ sh \in BOOLEAN
      BY <2>2 DEF a, b, c, g
    <3>3. QED
      BY <3>1, <3>2 DEF History
  <2>5. QED
    BY <1>1, <2>3, <2>4 DEF NotedFacts
<1>5. QED
  BY <1>3, <1>4

-----------------------------------------------------------------------------
(* Every action keeps the types.                                           *)

LEMMA EffectFacts ==
    ASSUME NEW list \in Seq(Shown), NEW s \in Schedule, NEW trouble \in Trouble, NEW n \in 0 .. Len(list)
    PROVE  LET run == Effect(list, s, n, trouble) IN
           /\ run \in Run /\ run.list \in Seq(Shown) /\ Len(run.list) = Len(list)
           /\ \A v \in 1 .. 4 : Committed(s, run)[v] \in Schedule
           /\ Last(Committed(s, run)) = Committed(s, run)[4]
<1>1. Len(list) \in Nat
  BY LenProperties
<1>2. PICK f : IsRun(f, list, s, n, trouble) /\ Effect(list, s, n, trouble) = f[n]
  BY RunExists
<1>3. n \in 0 .. n
  BY <1>1
<1>4. f[n] \in Run /\ Len(f[n].list) = Len(list)
  BY <1>2, <1>3 DEF IsRun
<1>5. f[n].list \in Seq(Shown)
  BY <1>4 DEF Run
<1>6. /\ \A v \in 1 .. 4 : Committed(s, f[n])[v] \in Schedule
      /\ Last(Committed(s, f[n])) = Committed(s, f[n])[4]
  BY <1>4, CommittedFacts
<1>7. QED
  BY <1>2, <1>4, <1>5, <1>6

LEMMA TroubleFacts ==
    ASSUME NEW spent \in Nat
    PROVE  /\ Troubles(spent) \subseteq Trouble
           /\ \A t \in Troubles(spent) : Cost(t) \in {0, 1} /\ (spent >= MaxEvents => Cost(t) = 0)
<1>1. Troubles(spent) \subseteq Trouble
  <2>1. [missing |-> FALSE, flawed |-> {}] \in Trouble /\ [missing |-> TRUE, flawed |-> {}] \in Trouble
    BY DEF Trouble
  <2>2. \A d \in Days : [missing |-> FALSE, flawed |-> {d}] \in Trouble
    BY DEF Trouble
  <2>3. QED
    BY <2>1, <2>2 DEF Troubles
<1>2. ASSUME NEW t \in Troubles(spent) PROVE Cost(t) \in {0, 1}
  BY DEF Cost
<1>3. ASSUME NEW t \in Troubles(spent), spent >= MaxEvents PROVE Cost(t) = 0
  <2>1. t = [missing |-> FALSE, flawed |-> {}]
    BY <1>3 DEF Troubles
  <2>2. QED
    BY <2>1 DEF Cost
<1>4. QED
  BY <1>1, <1>2, <1>3

LEMMA TypeTimes == TypeInv => /\ today \in Nat /\ 1 <= today /\ today <= LastDay /\ MaxEvents \in Nat
                              /\ events \in Nat /\ events <= MaxEvents
BY HorizonFacts, SxAssumption DEF TypeInv

LEMMA InitType == Init => TypeInv
<1> SUFFICES ASSUME Init PROVE TypeInv
  OBVIOUS
<1>1. LastDay \in Nat \ {0} /\ MaxEvents \in Nat /\ Limits \subseteq Nat
  BY SxAssumption
<1>2. <<>> \in Seq(Position) /\ <<>> \in Seq(Shown)
  BY EmptySeq
<1>3. sx \in Schedule
  BY <1>1, <1>2 DEF Init, Schedule
<1>4. Closed \in Window /\ WindowOK(Closed)
  BY <1>2 DEF Closed, Window, WindowOK
<1>5. dialog \in [Dialogs -> Window] /\ \A x \in Dialogs : WindowOK(dialog[x])
  BY <1>4 DEF Init
<1>6. done \in History
  BY DEF Init, History
<1>7. today \in 1 .. LastDay /\ events \in 0 .. MaxEvents /\ transactions \in [Days -> 0 .. 2]
  BY <1>1 DEF Init
<1>8. QED
  BY <1>3, <1>5, <1>6, <1>7 DEF TypeInv

LEMMA ClosedWindow == Closed \in Window /\ WindowOK(Closed) /\ Closed.list = <<>> /\ Closed.open = FALSE
<1>1. <<>> \in Seq(Shown)
  BY EmptySeq
<1>2. QED
  BY <1>1 DEF Closed, Window, WindowOK

LEMMA SinceLastRunType == ASSUME TypeInv, NEW x \in Dialogs, SinceLastRun(x) PROVE TypeInv'
<1> DEFINE list == Generated(sx, today)
           n == Automatic(list, sx)
<1>1. sx \in Schedule /\ today \in 1 .. LastDay /\ done \in History /\ transactions \in [Days -> 0 .. 2]
      /\ dialog \in [Dialogs -> Window] /\ \A y \in Dialogs : WindowOK(dialog[y])
  BY DEF TypeInv
<1>2. list \in Seq(Shown)
  BY <1>1, GeneratedFacts
<1>3. n \in 0 .. Len(list)
  <2>1. Len(list) \in Nat
    BY <1>2, LenProperties
  <2>2. QED
    BY <2>1 DEF Automatic
<1>4. PICK trouble \in Troubles(events + 1) :
        LET run == Effect(list, sx, n, trouble)
            versions == Committed(sx, run)
            told == Notified(dialog, versions)
        IN  /\ events' = events + 1 + Cost(trouble)
            /\ dialog' = IF NeedDialog(list)
                         THEN [told EXCEPT ![x] = [open |-> TRUE, until |-> today, list |-> run.list]]
                         ELSE told
            /\ sx' = Last(versions)
            /\ transactions' = Added(run.made)
            /\ done' = Noted(run, x, trouble.flawed)
  BY DEF SinceLastRun
<1> HIDE DEF list, n
<1> DEFINE run == Effect(list, sx, n, trouble)
           versions == Committed(sx, run)
           told == Notified(dialog, versions)
           shown == [open |-> TRUE, until |-> today, list |-> run.list]
<1>5. events < MaxEvents /\ today' = today
  BY DEF SinceLastRun
<1>6. trouble \in Trouble /\ Cost(trouble) \in {0, 1} /\ (events + 1 >= MaxEvents => Cost(trouble) = 0)
  <2>1. events + 1 \in Nat
    BY TypeTimes
  <2>2. QED
    BY <2>1, TroubleFacts
<1>7. /\ run \in Run /\ run.list \in Seq(Shown)
      /\ \A v \in 1 .. 4 : versions[v] \in Schedule
      /\ Last(versions) = versions[4]
  BY <1>1, <1>2, <1>3, <1>6, EffectFacts
<1>8. events' \in 0 .. MaxEvents
  BY <1>4, <1>5, <1>6, TypeTimes
<1>9. sx' \in Schedule
  BY <1>4, <1>7
<1>10. transactions' \in [Days -> 0 .. 2]
  <2>1. run.made \in Seq(Days)
    BY <1>7 DEF Run
  <2>2. QED
    BY <1>1, <1>4, <2>1, AddedFacts
<1>11. done' \in History
  <2>1. trouble.flawed \in SUBSET Days
    BY <1>6 DEF Trouble
  <2>2. QED
    BY <1>1, <1>4, <1>7, <2>1, NotedHolds DEF NotedFacts
<1>12. told \in [Dialogs -> Window] /\ \A y \in Dialogs : WindowOK(told[y])
  <2> HIDE DEF versions
  <2>1. QED
    BY <1>1, <1>7, NotifiedTypes
<1>13. shown \in Window /\ WindowOK(shown)
  <2>1. today \in {NoDay} \cup Days
    BY TypeTimes, HorizonFacts, <1>1 DEF Days
  <2> HIDE DEF run
  <2>2. QED
    BY <1>1, <1>7, <2>1 DEF Window, WindowOK
<1>14. dialog' \in [Dialogs -> Window] /\ \A y \in Dialogs : WindowOK(dialog'[y])
  <2>1. dialog' = IF NeedDialog(list) THEN [told EXCEPT ![x] = shown] ELSE told
    BY <1>4
  <2> HIDE DEF told, shown
  <2>2. QED
    BY <1>12, <1>13, <2>1
<1>15. QED
  BY <1>1, <1>5, <1>8, <1>9, <1>10, <1>11, <1>14 DEF TypeInv

LEMMA RespondType == ASSUME TypeInv, NEW x \in Dialogs, Respond(x) PROVE TypeInv'
<1> DEFINE list == dialog[x].list
           n == Len(list)
<1>1. sx \in Schedule /\ today \in 1 .. LastDay /\ done \in History /\ transactions \in [Days -> 0 .. 2]
      /\ dialog \in [Dialogs -> Window] /\ \A y \in Dialogs : WindowOK(dialog[y])
  BY DEF TypeInv
<1>2. list \in Seq(Shown)
  BY <1>1 DEF Window
<1>3. n \in 0 .. Len(list)
  <2>1. Len(list) \in Nat
    BY <1>2, LenProperties
  <2>2. QED
    BY <2>1
<1>4. PICK trouble \in Troubles(events) :
        LET run == Effect(list, sx, n, trouble)
            versions == Committed(sx, run)
        IN  /\ events' = events + Cost(trouble)
            /\ dialog' = [Notified(dialog, versions) EXCEPT ![x] = Closed]
            /\ IF list = <<>> THEN UNCHANGED <<sx, transactions, done>>
               ELSE /\ sx' = Last(versions)
                    /\ transactions' = Added(run.made)
                    /\ done' = Noted(run, x, trouble.flawed)
  BY DEF Respond
<1> HIDE DEF list, n
<1> DEFINE run == Effect(list, sx, n, trouble)
           versions == Committed(sx, run)
           told == Notified(dialog, versions)
<1>5. today' = today
  BY DEF Respond
<1>6. trouble \in Trouble /\ Cost(trouble) \in {0, 1} /\ (events >= MaxEvents => Cost(trouble) = 0)
  <2>1. events \in Nat
    BY TypeTimes
  <2>2. QED
    BY <2>1, TroubleFacts
<1>7. /\ run \in Run
      /\ \A v \in 1 .. 4 : versions[v] \in Schedule
      /\ Last(versions) = versions[4]
  BY <1>1, <1>2, <1>3, <1>6, EffectFacts
<1>8. events' \in 0 .. MaxEvents
  BY <1>4, <1>6, TypeTimes
<1>9. sx' \in Schedule
  BY <1>1, <1>4, <1>7
<1>10. transactions' \in [Days -> 0 .. 2]
  <2>1. run.made \in Seq(Days)
    BY <1>7 DEF Run
  <2>2. QED
    BY <1>1, <1>4, <2>1, AddedFacts
<1>11. done' \in History
  <2>1. trouble.flawed \in SUBSET Days
    BY <1>6 DEF Trouble
  <2>2. QED
    BY <1>1, <1>4, <1>7, <2>1, NotedHolds DEF NotedFacts
<1>12. told \in [Dialogs -> Window] /\ \A y \in Dialogs : WindowOK(told[y])
  <2> HIDE DEF versions
  <2>1. QED
    BY <1>1, <1>7, NotifiedTypes
<1>13. dialog' \in [Dialogs -> Window] /\ \A y \in Dialogs : WindowOK(dialog'[y])
  <2>1. dialog' = [told EXCEPT ![x] = Closed]
    BY <1>4
  <2> HIDE DEF told
  <2>2. QED
    BY <1>12, <2>1, ClosedWindow
<1>14. QED
  BY <1>1, <1>5, <1>8, <1>9, <1>10, <1>11, <1>13 DEF TypeInv

\* A dialog in which the user changed a state, before the dialog is updated.
Restated(d, i, new) == [d EXCEPT !.list = WithState(d.list, i, new)]

LEMMA ChangeStateFacts ==
    ASSUME TypeInv, NEW x \in Dialogs, NEW i \in 1 .. Horizon + MaxDeferred,
           NEW new \in States \ {"created"}, ChangeState(x, i, new)
    PROVE  /\ dialog[x].open /\ i \in 1 .. Len(dialog[x].list)
           /\ Restated(dialog[x], i, new) \in Window /\ WindowOK(Restated(dialog[x], i, new))
           /\ Restated(dialog[x], i, new).open = dialog[x].open
           /\ Restated(dialog[x], i, new).until = dialog[x].until
           /\ Restated(dialog[x], i, new).list = WithState(dialog[x].list, i, new)
           /\ dialog' = [dialog EXCEPT ![x] = Updated(Restated(dialog[x], i, new), sx)]
<1>1. dialog \in [Dialogs -> Window] /\ WindowOK(dialog[x])
  BY DEF TypeInv
<1>2. dialog[x].list \in Seq(Shown) /\ DOMAIN dialog[x].list = 1 .. Len(dialog[x].list)
  <2>1. dialog[x].list \in Seq(Shown)
    BY <1>1 DEF Window
  <2>2. QED
    BY <2>1, LenProperties
<1>3. i \in 1 .. Len(dialog[x].list) /\ dialog[x].list # <<>>
  <2>1. i \in 1 .. Len(dialog[x].list)
    BY <1>2 DEF ChangeState
  <2>2. Len(<<>>) = 0 /\ ~(i \in 1 .. 0)
    OBVIOUS
  <2>3. QED
    BY <2>1, <2>2
<1>4. dialog[x].open
  BY <1>1, <1>3 DEF WindowOK
<1>5. WithState(dialog[x].list, i, new) \in Seq(Shown)
  BY <1>2, <1>3, WithStateFacts
<1>6. /\ Restated(dialog[x], i, new) \in Window
      /\ Restated(dialog[x], i, new).open = dialog[x].open
      /\ Restated(dialog[x], i, new).until = dialog[x].until
      /\ Restated(dialog[x], i, new).list = WithState(dialog[x].list, i, new)
  BY <1>1, <1>5 DEF Restated, Window
<1>7. WindowOK(Restated(dialog[x], i, new))
  BY <1>1, <1>4, <1>6 DEF WindowOK
<1>8. dialog' = [dialog EXCEPT ![x] = Updated(Restated(dialog[x], i, new), sx)]
  BY DEF ChangeState, Restated
<1>9. QED
  BY <1>3, <1>4, <1>6, <1>7, <1>8

LEMMA ChangeStateType ==
    ASSUME TypeInv, NEW x \in Dialogs, NEW i \in 1 .. Horizon + MaxDeferred,
           NEW new \in States \ {"created"}, ChangeState(x, i, new)
    PROVE  TypeInv'
<1> DEFINE d == Restated(dialog[x], i, new)
<1>1. d \in Window /\ WindowOK(d) /\ dialog' = [dialog EXCEPT ![x] = Updated(d, sx)]
  BY ChangeStateFacts
<1> HIDE DEF d
<1>2. Updated(d, sx) \in Window /\ WindowOK(Updated(d, sx))
  BY <1>1, UpdatedFacts DEF TypeInv
<1>3. dialog' \in [Dialogs -> Window] /\ \A y \in Dialogs : WindowOK(dialog'[y])
  BY <1>1, <1>2 DEF TypeInv
<1>4. today' = today /\ sx' = sx /\ transactions' = transactions /\ done' = done /\ events' = events
  BY DEF ChangeState
<1>5. QED
  BY <1>3, <1>4 DEF TypeInv

LEMMA CancelType == ASSUME TypeInv, NEW x \in Dialogs, Cancel(x) PROVE TypeInv'
BY ClosedWindow DEF TypeInv, Cancel

\* What the editor may save.
Edit(s) ==
    \/ \E total \in Limits, rem \in 0 .. Horizon :
         s = SetRemaining([sx EXCEPT !.total = total, !.rem = IF total = sx.total THEN @ ELSE total], rem)
    \/ s = [sx EXCEPT !.enabled = ~@]
    \/ \E auto \in BOOLEAN, notify \in BOOLEAN : s = [sx EXCEPT !.auto = auto, !.notify = auto /\ notify]
    \/ \E lead \in Leads : s = [sx EXCEPT !.lead = lead]

LEMMA EditFacts ==
    ASSUME TypeInv, NEW s, Edit(s)
    PROVE  /\ s \in Schedule /\ s.last = sx.last /\ s.num = sx.num /\ s.deferred = sx.deferred
<1>1. sx \in Schedule
  BY DEF TypeInv
<1>2. ASSUME NEW total \in Limits, NEW rem \in 0 .. Horizon,
             s = SetRemaining([sx EXCEPT !.total = total, !.rem = IF total = sx.total THEN @ ELSE total], rem)
      PROVE  s \in Schedule /\ s.last = sx.last /\ s.num = sx.num /\ s.deferred = sx.deferred
  <2> DEFINE m == IF total = sx.total THEN sx.rem ELSE total
             r == [sx EXCEPT !.total = total, !.rem = m]
  <2>1. total \in Nat /\ m \in Nat /\ rem \in Nat
    BY <1>1, SxAssumption, HorizonFacts DEF Schedule
  <2>2. s = SetRemaining(r, rem)
    BY <1>2
  <2> HIDE DEF m
  <2>3. r \in Schedule /\ r.last = sx.last /\ r.num = sx.num /\ r.deferred = sx.deferred
    BY <1>1, <2>1 DEF Schedule
  <2> HIDE DEF r
  <2>4. s = r \/ s = [r EXCEPT !.rem = rem]
    BY <2>2 DEF SetRemaining
  <2>5. QED
    BY <2>1, <2>3, <2>4 DEF Schedule
<1>3. ASSUME s = [sx EXCEPT !.enabled = ~@]
      PROVE  s \in Schedule /\ s.last = sx.last /\ s.num = sx.num /\ s.deferred = sx.deferred
  BY <1>1, <1>3 DEF Schedule
<1>4. ASSUME NEW auto \in BOOLEAN, NEW notify \in BOOLEAN, s = [sx EXCEPT !.auto = auto, !.notify = auto /\ notify]
      PROVE  s \in Schedule /\ s.last = sx.last /\ s.num = sx.num /\ s.deferred = sx.deferred
  BY <1>1, <1>4 DEF Schedule
<1>5. ASSUME NEW lead \in Leads, s = [sx EXCEPT !.lead = lead]
      PROVE  s \in Schedule /\ s.last = sx.last /\ s.num = sx.num /\ s.deferred = sx.deferred
  BY <1>1, <1>5 DEF Schedule
<1>6. QED
  BY <1>2, <1>3, <1>4, <1>5 DEF Edit

LEMMA SaveSxType == ASSUME TypeInv, NEW s \in Schedule, SaveSx(s) PROVE TypeInv'
<1>1. ASSUME NEW y \in Dialogs PROVE Updated(dialog[y], s) \in Window /\ WindowOK(Updated(dialog[y], s))
  BY UpdatedFacts DEF TypeInv
<1>2. dialog' \in [Dialogs -> Window] /\ \A y \in Dialogs : WindowOK(dialog'[y])
  BY <1>1 DEF SaveSx
<1>3. done' \in History
  BY DEF SaveSx, TypeInv, History
<1>4. events' \in 0 .. MaxEvents
  BY TypeTimes DEF SaveSx
<1>5. sx' \in Schedule /\ today' = today /\ transactions' = transactions
  BY DEF SaveSx
<1>6. QED
  BY <1>2, <1>3, <1>4, <1>5 DEF TypeInv

LEMMA ReloadedFacts ==
    ASSUME NEW s \in Schedule
    PROVE  /\ Reloaded(s) \in Schedule /\ SameSettings(Reloaded(s), s)
           /\ Reloaded(s).last = s.last /\ Reloaded(s).num = s.num /\ Reloaded(s).rem = s.rem
           /\ Reloaded(s).deferred = IF Backend = "sql" THEN <<>> ELSE s.deferred
<1>1. <<>> \in Seq(Position)
  BY EmptySeq
<1>2. CASE Backend = "sql"
  BY <1>1, <1>2 DEF Reloaded, Schedule, SameSettings
<1>3. CASE Backend # "sql"
  BY <1>3 DEF Reloaded, SameSettings
<1>4. QED
  BY <1>2, <1>3

LEMMA DeferredDays ==
    ASSUME NEW s \in Schedule
    PROVE  /\ \A i \in DOMAIN s.deferred : s.deferred[i] \in Position /\ Occurrence(s.deferred[i]) \in Days
           /\ {Occurrence(s.deferred[i]) : i \in DOMAIN s.deferred} \in SUBSET Days
           /\ \A e : In(e, s.deferred) => e \in Position
<1>1. s.deferred \in Seq(Position) /\ DOMAIN s.deferred = 1 .. Len(s.deferred)
  BY LenProperties DEF Schedule
<1>2. \A i \in DOMAIN s.deferred : s.deferred[i] \in Position
  BY <1>1, ElementOfSeq
<1>3. QED
  BY <1>2, OccurrenceType DEF In

LEMMA ReloadType == ASSUME TypeInv, Reload PROVE TypeInv'
<1>1. dialog' \in [Dialogs -> Window] /\ \A y \in Dialogs : WindowOK(dialog'[y])
  BY ClosedWindow DEF Reload
<1>2. sx \in Schedule
  BY DEF TypeInv
<1>3. sx' \in Schedule
  BY <1>2, ReloadedFacts DEF Reload
<1> DEFINE lost == {Occurrence(sx.deferred[i]) : i \in IF Backend = "sql" THEN DOMAIN sx.deferred ELSE {}}
<1>4. lost \in SUBSET Days
  BY <1>2, DeferredDays
<1>5. done' = [done EXCEPT !.lost = @ \cup lost]
  BY DEF Reload
<1> HIDE DEF lost
<1>6. done' \in History
  BY <1>4, <1>5 DEF TypeInv, History
<1>7. today' = today /\ transactions' = transactions /\ events' = events
  BY DEF Reload
<1>8. QED
  BY <1>1, <1>3, <1>6, <1>7 DEF TypeInv

LEMMA CrashFacts ==
    ASSUME TypeInv, Crash
    PROVE  \E list \in {dialog[x].list : x \in Dialogs} \cup (IF sx.auto THEN {Generated(sx, today)} ELSE {}) :
             LET run == Effect(list, sx, Len(list), [missing |-> FALSE, flawed |-> {}])
                 versions == Committed(sx, run)
             IN  /\ list \in Seq(Shown) /\ Len(list) \in Nat
                 /\ [missing |-> FALSE, flawed |-> {}] \in Trouble
                 /\ run \in Run
                 /\ \E k \in 0 .. Len(run.made), v \in 1 .. 3 :
                      /\ v > 1 => k = Len(run.made)
                      /\ sx' \in Schedule /\ sx'.deferred = <<>> /\ sx'.last = versions[v].last
                      /\ sx'.num = versions[v].num /\ sx'.rem = versions[v].rem
                      /\ SubSeq(run.made, 1, k) \in Seq(Days)
                      /\ transactions' = Added(SubSeq(run.made, 1, k))
                      /\ done' \in History /\ done'.crashed = TRUE
                      /\ done'.limited = done.limited /\ done'.shared = done.shared
                      /\ done'.postponed = done.postponed /\ done'.flawed = done.flawed
                      /\ done'.ignored = done.ignored \cup IF v > 1 THEN run.ignored ELSE {}
                      /\ done'.lost = done.lost \cup (IF v > 1 THEN Overtaken(run.left, run.last) \cup run.postponed ELSE {})
                                        \cup {Occurrence(sx.deferred[i]) : i \in DOMAIN sx.deferred}
<1>1. /\ sx \in Schedule /\ today \in 1 .. LastDay /\ done \in History
      /\ dialog \in [Dialogs -> Window]
  BY DEF TypeInv
<1>2. PICK list \in {dialog[x].list : x \in Dialogs} \cup (IF sx.auto THEN {Generated(sx, today)} ELSE {}) :
         LET run == Effect(list, sx, Len(list), [missing |-> FALSE, flawed |-> {}])
             versions == Committed(sx, run)
         IN  \E k \in 0 .. Len(run.made), v \in 1 .. 3 :
               /\ v > 1 => k = Len(run.made)
               /\ sx' = Reloaded([versions[v] EXCEPT !.deferred = sx.deferred])
               /\ transactions' = Added(SubSeq(run.made, 1, k))
               /\ done' = [done EXCEPT !.crashed = TRUE,
                             !.ignored = @ \cup IF v > 1 THEN run.ignored ELSE {},
                             !.lost = @ \cup (IF v > 1 THEN Overtaken(run.left, run.last) \cup run.postponed ELSE {})
                                        \cup {Occurrence(sx.deferred[i]) : i \in DOMAIN sx.deferred}]
  BY DEF Crash
<1> DEFINE trouble == [missing |-> FALSE, flawed |-> {}]
<1>3. trouble \in Trouble
  BY DEF Trouble
<1>4. list \in Seq(Shown) /\ Len(list) \in Nat /\ Len(list) \in 0 .. Len(list)
  <2>1. \A x \in Dialogs : dialog[x].list \in Seq(Shown)
    BY <1>1 DEF Window
  <2>2. Generated(sx, today) \in Seq(Shown)
    BY <1>1, GeneratedFacts
  <2>3. list \in Seq(Shown)
    BY <2>1, <2>2
  <2>4. Len(list) \in Nat
    BY <2>3, LenProperties
  <2>5. QED
    BY <2>3, <2>4
<1> DEFINE run == Effect(list, sx, Len(list), trouble)
           versions == Committed(sx, run)
           out == {Occurrence(sx.deferred[i]) : i \in DOMAIN sx.deferred}
<1>5. run \in Run /\ \A v \in 1 .. 4 : versions[v] \in Schedule
  <2> HIDE DEF trouble
  <2>1. QED
    BY <1>1, <1>3, <1>4, EffectFacts
<1>6. PICK k \in 0 .. Len(run.made), v \in 1 .. 3 :
               /\ v > 1 => k = Len(run.made)
               /\ sx' = Reloaded([versions[v] EXCEPT !.deferred = sx.deferred])
               /\ transactions' = Added(SubSeq(run.made, 1, k))
               /\ done' = [done EXCEPT !.crashed = TRUE,
                             !.ignored = @ \cup IF v > 1 THEN run.ignored ELSE {},
                             !.lost = @ \cup (IF v > 1 THEN Overtaken(run.left, run.last) \cup run.postponed ELSE {}) \cup out]
  BY <1>2
<1> HIDE DEF trouble, run, out
<1>7. /\ sx' \in Schedule /\ sx'.deferred = <<>> /\ sx'.last = versions[v].last
      /\ sx'.num = versions[v].num /\ sx'.rem = versions[v].rem
  <2> DEFINE w == versions[v]
             u == [w EXCEPT !.deferred = sx.deferred]
  <2>1. w \in Schedule
    <3>1. v \in 1 .. 4
      OBVIOUS
    <3>2. QED
      BY <1>5, <3>1
  <2> HIDE DEF w
  <2>2. u \in Schedule /\ u.last = w.last /\ u.num = w.num /\ u.rem = w.rem
    BY <1>1, <2>1 DEF Schedule
  <2>3. Backend = "sql" /\ sx' = Reloaded(u)
    BY <1>6 DEF Crash, w
  <2> HIDE DEF u
  <2>4. /\ Reloaded(u) \in Schedule /\ Reloaded(u).last = u.last /\ Reloaded(u).num = u.num
        /\ Reloaded(u).rem = u.rem /\ Reloaded(u).deferred = <<>>
    BY <2>2, <2>3, ReloadedFacts
  <2>5. QED
    BY <2>2, <2>3, <2>4 DEF w
<1>8. SubSeq(run.made, 1, k) \in Seq(Days)
  <2>1. run.made \in Seq(Days)
    BY <1>5 DEF Run
  <2>2. Len(run.made) \in Nat
    BY <2>1, LenProperties
  <2>3. k \in Nat /\ k <= Len(run.made)
    BY <2>2
  <2>4. QED
    BY <2>1, <2>3, PartIn
<1> DEFINE a == done.ignored \cup IF v > 1 THEN run.ignored ELSE {}
           b == done.lost \cup (IF v > 1 THEN Overtaken(run.left, run.last) \cup run.postponed ELSE {}) \cup out
<1>9. a \in SUBSET Days /\ b \in SUBSET Days
  <2>1. out \in SUBSET Days
    BY <1>1, DeferredDays DEF out
  <2>2. /\ run.ignored \in SUBSET Days /\ run.postponed \in SUBSET Days
        /\ Overtaken(run.left, run.last) \in SUBSET Days
    BY <1>5, OvertakenFacts DEF Run
  <2>3. done.ignored \in SUBSET Days /\ done.lost \in SUBSET Days
    BY <1>1 DEF History
  <2>4. QED
    BY <2>1, <2>2, <2>3
<1>10. done' = [done EXCEPT !.crashed = TRUE, !.ignored = a, !.lost = b]
  BY <1>6
<1>11. /\ done' \in History /\ done'.crashed = TRUE
       /\ done'.limited = done.limited /\ done'.shared = done.shared
       /\ done'.postponed = done.postponed /\ done'.flawed = done.flawed
       /\ done'.ignored = a /\ done'.lost = b
  <2> HIDE DEF a, b
  <2>1. QED
    BY <1>1, <1>9, <1>10 DEF History
<1> USE DEF trouble, run
<1>12. \E kk \in 0 .. Len(run.made), vv \in 1 .. 3 :
         /\ vv > 1 => kk = Len(run.made)
         /\ sx' \in Schedule /\ sx'.deferred = <<>> /\ sx'.last = versions[vv].last
         /\ sx'.num = versions[vv].num /\ sx'.rem = versions[vv].rem
         /\ SubSeq(run.made, 1, kk) \in Seq(Days)
         /\ transactions' = Added(SubSeq(run.made, 1, kk))
         /\ done' \in History /\ done'.crashed = TRUE
         /\ done'.limited = done.limited /\ done'.shared = done.shared
         /\ done'.postponed = done.postponed /\ done'.flawed = done.flawed
         /\ done'.ignored = done.ignored \cup IF vv > 1 THEN run.ignored ELSE {}
         /\ done'.lost = done.lost \cup (IF vv > 1 THEN Overtaken(run.left, run.last) \cup run.postponed ELSE {}) \cup out
  <2> HIDE DEF run, versions
  <2>1. QED
    BY <1>6, <1>7, <1>8, <1>11
<1>13. QED
  BY <1>3, <1>4, <1>5, <1>12 DEF out

LEMMA CrashType == ASSUME TypeInv, Crash PROVE TypeInv'
<1>1. dialog' \in [Dialogs -> Window] /\ \A y \in Dialogs : WindowOK(dialog'[y])
  BY ClosedWindow DEF Crash
<1>2. today' = today /\ events' \in 0 .. MaxEvents
  BY TypeTimes DEF Crash
<1>3. PICK made \in Seq(Days) : sx' \in Schedule /\ done' \in History /\ transactions' = Added(made)
  BY CrashFacts
<1>4. transactions' \in [Days -> 0 .. 2]
  BY <1>3, AddedFacts DEF TypeInv
<1>5. QED
  BY <1>1, <1>2, <1>3, <1>4 DEF TypeInv

LEMMA TomorrowType == ASSUME TypeInv, Tomorrow PROVE TypeInv'
<1>1. today' \in 1 .. LastDay
  BY TypeTimes, HorizonFacts DEF Tomorrow
<1>2. QED
  BY <1>1 DEF TypeInv, Tomorrow

LEMMA StutterType == ASSUME TypeInv, UNCHANGED vars PROVE TypeInv'
BY DEF TypeInv, vars

\* The four ways to edit are one.
LEMMA EditsAre ==
    ASSUME EditLimit \/ EditEnabled \/ EditCreation \/ EditLead
    PROVE  \E s : Edit(s) /\ SaveSx(s)
<1>1. CASE EditLimit
  BY <1>1 DEF EditLimit, Edit
<1>2. CASE EditEnabled
  BY <1>2 DEF EditEnabled, Edit
<1>3. CASE EditCreation
  BY <1>3 DEF EditCreation, Edit
<1>4. CASE EditLead
  BY <1>4 DEF EditLead, Edit
<1>5. QED
  BY <1>1, <1>2, <1>3, <1>4

LEMMA NextType == TypeInv /\ [Next]_vars => TypeInv'
<1> SUFFICES ASSUME TypeInv, [Next]_vars PROVE TypeInv'
  OBVIOUS
<1>1. CASE Tomorrow
  BY <1>1, TomorrowType
<1>2. ASSUME NEW x \in Dialogs, SinceLastRun(x) PROVE TypeInv'
  BY <1>2, SinceLastRunType
<1>3. ASSUME NEW x \in Dialogs, NEW i \in 1 .. Horizon + MaxDeferred, NEW new \in States \ {"created"},
             ChangeState(x, i, new)
      PROVE  TypeInv'
  BY <1>3, ChangeStateType
<1>4. ASSUME NEW x \in Dialogs, Respond(x) PROVE TypeInv'
  BY <1>4, RespondType
<1>5. ASSUME NEW x \in Dialogs, Cancel(x) PROVE TypeInv'
  BY <1>5, CancelType
<1>6. CASE EditLimit \/ EditEnabled \/ EditCreation \/ EditLead
  BY <1>6, EditsAre, EditFacts, SaveSxType
<1>7. CASE Reload
  BY <1>7, ReloadType
<1>8. CASE Crash
  BY <1>8, CrashType
<1>9. CASE UNCHANGED vars
  BY <1>9, StutterType
<1>10. QED
  BY <1>1, <1>2, <1>3, <1>4, <1>5, <1>6, <1>7, <1>8, <1>9 DEF Next

\* The types of the state are kept: nothing is shown or postponed that does not stand before
\* a day of the schedule, and what remains is never negative.
THEOREM SxTypeOKHolds == SxSpec => []SxTypeOK
<1>1. TypeInv => SxTypeOK
  BY TypeInvTypes
<1>2. QED
  BY <1>1, InitType, NextType, PTL DEF SxSpec

-----------------------------------------------------------------------------
(* The invariant of a schedule s, its transactions t and its history d.    *)

Last0(last) == IF last = NoDay THEN 0 ELSE last

LimitKeptIn(d) == d.limited => d.postponed = {}

\* An occurrence that is postponed, or one after it.
Escaped(day, d) == \E e \in d.postponed : e <= day

Fresh(day, s, d) == day > Last0(s.last) \/ day \in d.flawed \/ Escaped(day, d)

\* A day until the last date is not after it.
LEMMA LastReached == \A last : Last0(last) \in Nat => \A e \in 1 .. Last0(last) : e <= last
BY NoDayFacts DEF Last0

\* What is postponed stands before a day that is past, and before the end of the schedule.
DeferredOK(s, d) ==
    \A e : In(e, s.deferred) =>
      /\ e.last # NoDay /\ Occurrence(e) \in d.postponed /\ Occurrence(e) <= Last0(s.last)
      /\ ~d.limited /\ s.total # 0 => e.rem >= 1

Covered(day, s, t, d) ==
    \/ t[day] > 0 \/ day \in d.ignored \cup d.lost
    \/ \E e : In(e, s.deferred) /\ Occurrence(e) = day

\* What is past was dealt with, and nothing else was; and outside of the exceptions
\* nothing was entered twice.
Settled(s, t, d) ==
    /\ DeferredOK(s, d)
    /\ d.postponed \cup d.ignored \subseteq 1 .. Last0(s.last)
    /\ \A day \in 1 .. Last0(s.last) : Covered(day, s, t, d)
    /\ ~d.crashed => \A day \in Days \ d.flawed :
          ~Escaped(day, d) => t[day] <= 1 /\ (t[day] > 0 => day <= Last0(s.last))

\* What an entry of a list keeps, whatever happens to the schedule.
EntryOK(e, s, t, d) ==
    /\ e.tsd.last # NoDay /\ e.date = Occurrence(e.tsd)
    /\ ~d.limited /\ s.total # 0 => e.tsd.rem >= 1
    /\ e.orig = "postponed" => e.date \in d.postponed
    /\ e.state = "created" => t[e.date] > 0

EntriesOK(list, s, t, d) == \A i \in 1 .. Len(list) : EntryOK(list[i], s, t, d)

\* The days of a list: none after what is past is left out, and they are different, one after
\* the other, but for what is postponed.
DatesOK(list, s, d) ==
    /\ \A i \in 1 .. Len(list), e \in Days :
         Last0(s.last) < e /\ e <= list[i].date => \E k \in 1 .. i : list[k].date = e
    /\ \A i, j \in 1 .. Len(list) : list[i].date = list[j].date => i = j \/ list[i].date \in d.postponed
    /\ d.postponed = {} => \A i, j \in 1 .. Len(list) : list[j].date - list[i].date = j - i

FreshOK(list, s, d) == \A i \in 1 .. Len(list) : list[i].state # "created" => Fresh(list[i].date, s, d)

ListOK(list, s, t, d) == EntriesOK(list, s, t, d) /\ DatesOK(list, s, d) /\ FreshOK(list, s, d)

\* The numbers of a list, and how far it may go.
NumbersOK(list) == \A i \in 1 .. Len(list) : list[i].tsd.num = list[i].date
BoundOK(list, s) == \A i \in 1 .. Len(list) : list[i].date <= Last0(s.last) + s.rem

LEMMA Last0Facts ==
    ASSUME NEW s \in Schedule
    PROVE  Last0(s.last) \in 0 .. Horizon /\ Last0(s.last) \in Nat
BY HorizonFacts, NoDayFacts DEF Schedule, Last0, Days

LEMMA DayNumbers ==
    ASSUME NEW d \in History
    PROVE  /\ \A e \in d.postponed : e \in Nat /\ 1 <= e /\ e <= Horizon
           /\ \A e \in d.ignored : e \in Nat /\ 1 <= e
BY DayFacts DEF History

LEMMA StartFacts ==
    ASSUME NEW s \in Schedule, NEW d \in History, LimitKeptIn(d), DeferredOK(s, d)
    PROVE  /\ Start(s).last # NoDay /\ Occurrence(Start(s)) = Start(s).last + 1
           /\ Occurrence(Start(s)) \in Nat /\ Occurrence(Start(s)) <= Last0(s.last) + 1
           /\ s.total # 0 => Start(s).rem >= 0
           /\ s.deferred = <<>> => /\ Occurrence(Start(s)) = Last0(s.last) + 1
                                   /\ Start(s).rem = s.rem /\ Start(s).num = s.num
           /\ s.deferred # <<>> => \E e \in d.postponed : Occurrence(Start(s)) = e + 1
<1>1. Start(s) \in After
  BY StartType
<1>2. /\ Start(s).last # NoDay => Start(s).last \in Nat /\ Occurrence(Start(s)) = Start(s).last + 1
      /\ Start(s).rem \in Int
  BY <1>1, AfterFacts DEF After
<1>3. CASE s.deferred = <<>>
  <2>1. Start(s) = [last |-> IF s.last = NoDay THEN BeforeAll ELSE s.last, rem |-> s.rem, num |-> s.num]
    BY <1>3 DEF Start, TemporalState
  <2>2. Start(s).last = Last0(s.last) /\ Start(s).rem = s.rem /\ Start(s).num = s.num
    BY <2>1, NoDayFacts DEF Last0
  <2>3. Start(s).last # NoDay /\ s.rem \in Nat
    BY <2>2, Last0Facts, NoDayFacts, ScheduleParts
  <2>4. QED
    BY <1>2, <1>3, <2>2, <2>3
<1>4. CASE s.deferred # <<>>
  <2> DEFINE p == Last(s.deferred)
  <2>1. p \in Position /\ In(p, s.deferred)
    <3>1. /\ s.deferred \in Seq(Position) /\ Len(s.deferred) \in 1 .. Len(s.deferred)
          /\ DOMAIN s.deferred = 1 .. Len(s.deferred)
      BY <1>4, EmptySeq, LenProperties DEF Schedule
    <3>2. QED
      BY <3>1, ElementOfSeq DEF Last, In
  <2>2. Start(s) = Incremented(s, p)
    BY <1>4 DEF Start
  <2> HIDE DEF p
  <2>3. /\ p.last # NoDay /\ Occurrence(p) \in d.postponed /\ Occurrence(p) <= Last0(s.last)
        /\ ~d.limited /\ s.total # 0 => p.rem >= 1
    BY <2>1 DEF DeferredOK
  <2>4. ~d.limited
    BY <2>3 DEF LimitKeptIn
  <2>5. NextInstance(s, p) = Occurrence(p)
    BY <2>1, <2>3, <2>4 DEF NextInstance, Position
  <2>6. Start(s).last = Occurrence(p) /\ Start(s).rem = IF s.total # 0 THEN p.rem - 1 ELSE p.rem
    BY <2>2, <2>5 DEF Incremented
  <2>7. Occurrence(p) \in Nat /\ Occurrence(p) # NoDay /\ p.rem \in Int
    BY <2>1, OccurrenceType, DayFacts DEF Position
  <2>8. /\ Occurrence(Start(s)) = Occurrence(p) + 1 /\ Start(s).last # NoDay
    BY <1>2, <2>6, <2>7
  <2>9. QED
    BY <1>2, <1>4, <2>3, <2>4, <2>6, <2>7, <2>8, Last0Facts
<1>5. QED
  BY <1>3, <1>4

\* The list that is generated: its days, its numbers and its states.
GeneratedAre(L, m, s, d, t, day) ==
    /\ m \in Nat /\ Len(L) = m + Coming(s, day) /\ Coming(s, day) \in Nat
    /\ \A i \in 1 .. Len(L) : L[i].state # "created" /\ EntryOK(L[i], s, t, d)
    /\ \A i \in 1 .. m : L[i].date \in d.postponed /\ L[i].state = "postponed"
                         /\ L[i].date <= Last0(s.last)
    /\ \A i \in 1 .. m : L[i].date = Occurrence(s.deferred[i])
    /\ \A i \in m + 1 .. Len(L) :
         /\ L[i].date = Occurrence(Start(s)) + (i - m) - 1
         /\ L[i].tsd.num = Start(s).num + (i - m) - 1
         /\ L[i].state = IF L[i].date <= day + s.lead[1] THEN "to-create" ELSE "reminder"
         /\ L[i].orig # "postponed"
         /\ s.total # 0 => i - m <= Start(s).rem

LEMMA GeneratedDays ==
    ASSUME NEW s \in Schedule, NEW d \in History, LimitKeptIn(d), DeferredOK(s, d),
           NEW day \in 1 .. LastDay, s.enabled, NEW t
    PROVE  GeneratedAre(Generated(s, day), Len(s.deferred), s, d, t, day)
<1> DEFINE L == Generated(s, day)
           m == Len(s.deferred)
           n == Coming(s, day)
<1>1. /\ L \in Seq(Shown) /\ Len(L) = m + n /\ m \in Nat
      /\ \A i \in 1 .. m : L[i] = NewInstance(s, s.deferred[i], "postponed")
      /\ \A k \in 1 .. n : L[m + k] = NewInstance(s, Due(s, k), DueState(s, day, k))
  BY GeneratedFacts
<1>2. /\ n \in Nat
      /\ \A k \in 1 .. n : Due(s, k) \in Position /\ Occurrence(Due(s, k)) = Occurrence(Start(s)) + k - 1
      /\ day \in Nat /\ s.lead[1] \in Nat /\ s.lead[2] \in Nat
  BY DueFacts
<1>3. /\ Start(s).last # NoDay /\ Occurrence(Start(s)) \in Nat
      /\ s.total # 0 => Start(s).rem >= 0
      /\ Start(s) \in After /\ Start(s).rem \in Int /\ Start(s).num \in Nat
  BY StartFacts, StartType DEF After
<1>4. s.total # 0 => n <= Start(s).rem
  <2>1. day + s.lead[1] + s.lead[2] \in Nat
    BY <1>2
  <2>2. QED
    BY <1>3, <2>1, FollowingFacts DEF Coming
<1> HIDE DEF L, n
<1>5. ASSUME NEW i \in 1 .. m
      PROVE  /\ L[i].date \in d.postponed /\ L[i].state = "postponed" /\ L[i].date <= Last0(s.last)
             /\ L[i].date = Occurrence(s.deferred[i])
             /\ L[i].state # "created" /\ EntryOK(L[i], s, t, d)
  <2> DEFINE p == s.deferred[i]
  <2>1. p \in Position /\ In(p, s.deferred)
    <3>1. s.deferred \in Seq(Position) /\ DOMAIN s.deferred = 1 .. m
      BY LenProperties DEF Schedule
    <3>2. QED
      BY <3>1, ElementOfSeq DEF In
  <2>2. L[i] = NewInstance(s, p, "postponed")
    BY <1>1
  <2> HIDE DEF p, m
  <2>3. /\ p.last # NoDay /\ Occurrence(p) \in d.postponed /\ Occurrence(p) <= Last0(s.last)
        /\ ~d.limited /\ s.total # 0 => p.rem >= 1
    BY <2>1 DEF DeferredOK
  <2>4. ~d.limited
    BY <2>3 DEF LimitKeptIn
  <2>5. NextInstance(s, p) = Occurrence(p)
    BY <2>1, <2>3, <2>4 DEF NextInstance, Position
  <2>6. L[i].date = Occurrence(p) /\ L[i].tsd = p /\ L[i].state = "postponed" /\ L[i].orig = "postponed"
    BY <2>2, <2>5 DEF NewInstance
  <2>7. QED
    BY <2>3, <2>6 DEF EntryOK, p
<1>6. ASSUME NEW k \in 1 .. n
      PROVE  /\ L[m + k].date = Occurrence(Start(s)) + k - 1
             /\ L[m + k].tsd.num = Start(s).num + k - 1
             /\ L[m + k].state = IF L[m + k].date <= day + s.lead[1] THEN "to-create" ELSE "reminder"
             /\ L[m + k].orig # "postponed" /\ L[m + k].state # "created"
             /\ s.total # 0 => k <= Start(s).rem
             /\ EntryOK(L[m + k], s, t, d)
  <2> DEFINE p == Due(s, k)
  <2>1. k \in Nat /\ k - 1 \in Nat /\ k >= 1 /\ k <= n
    BY <1>2
  <2>2. p \in Position /\ Occurrence(p) = Occurrence(Start(s)) + k - 1
    BY <1>2
  <2>3. /\ Advanced(s, Start(s), k - 1).last # NoDay
        /\ Advanced(s, Start(s), k - 1).num = Start(s).num + (k - 1)
        /\ Advanced(s, Start(s), k - 1).rem = IF s.total # 0 THEN Start(s).rem - (k - 1) ELSE Start(s).rem
    BY <1>3, <2>1, AdvancedFacts
  <2>4. /\ p.last # NoDay /\ p.num = Start(s).num + k - 1
        /\ s.total # 0 => p.rem >= 1 /\ k <= Start(s).rem
    BY <1>2, <1>3, <1>4, <2>1, <2>3 DEF Due
  <2> HIDE DEF p
  <2>5. NextInstance(s, p) = Occurrence(p)
    BY <2>2, <2>4 DEF NextInstance, Position
  <2>6. DueState(s, day, k) = IF Occurrence(p) <= day + s.lead[1] THEN "to-create" ELSE "reminder"
    BY DEF DueState, p
  <2>7. L[m + k] = NewInstance(s, p, DueState(s, day, k))
    BY <1>1 DEF p
  <2>8. /\ L[m + k].date = Occurrence(p) /\ L[m + k].tsd = p
        /\ L[m + k].state = DueState(s, day, k) /\ L[m + k].orig = DueState(s, day, k)
    BY <2>5, <2>7 DEF NewInstance
  <2>9. L[m + k].state \notin {"created", "postponed"}
    BY <2>6, <2>8
  <2>10. EntryOK(L[m + k], s, t, d)
    BY <2>4, <2>8, <2>9 DEF EntryOK
  <2>11. QED
    BY <2>2, <2>4, <2>6, <2>8, <2>9, <2>10
<1>7. ASSUME NEW i \in m + 1 .. m + n
      PROVE  i - m \in 1 .. n /\ m + (i - m) = i
  BY <1>1, <1>2
<1>8. ASSUME NEW i \in m + 1 .. m + n
      PROVE  /\ L[i].date = Occurrence(Start(s)) + (i - m) - 1
             /\ L[i].tsd.num = Start(s).num + (i - m) - 1
             /\ L[i].state = IF L[i].date <= day + s.lead[1] THEN "to-create" ELSE "reminder"
             /\ L[i].orig # "postponed" /\ L[i].state # "created"
             /\ s.total # 0 => i - m <= Start(s).rem
             /\ EntryOK(L[i], s, t, d)
  BY <1>6, <1>7
<1>9. \A i \in 1 .. m + n : i \in 1 .. m \/ i \in m + 1 .. m + n
  BY <1>1, <1>2
<1>10. QED
  BY <1>1, <1>2, <1>5, <1>8, <1>9 DEF L, n, GeneratedAre

LEMMA GeneratedOK ==
    ASSUME NEW s \in Schedule, NEW d \in History, LimitKeptIn(d), DeferredOK(s, d),
           NEW day \in 1 .. LastDay, NEW t
    PROVE  LET L == Generated(s, day) IN
           /\ ListOK(L, s, t, d)
           /\ \A i \in 1 .. Len(L) : Fresh(L[i].date, s, d)
           /\ s.deferred = <<>> /\ s.num = Last0(s.last) + 1 => NumbersOK(L)
           /\ s.deferred = <<>> /\ s.total # 0 => BoundOK(L, s)
<1> DEFINE L == Generated(s, day)
           m == Len(s.deferred)
           o == Occurrence(Start(s))
<1>1. CASE ~s.enabled
  <2>1. L = <<>>
    BY <1>1, GeneratedFacts
  <2>2. 1 .. Len(L) = {}
    BY <2>1
  <2> HIDE DEF L
  <2>3. QED
    BY <2>2 DEF ListOK, EntriesOK, DatesOK, FreshOK, NumbersOK, BoundOK, L
<1>2. CASE s.enabled
  <2>1. /\ m \in Nat /\ Len(L) = m + Coming(s, day) /\ Coming(s, day) \in Nat
        /\ \A i \in 1 .. Len(L) : L[i].state # "created" /\ EntryOK(L[i], s, t, d)
        /\ \A i \in 1 .. m : L[i].date \in d.postponed /\ L[i].date <= Last0(s.last)
        /\ \A i \in m + 1 .. Len(L) : /\ L[i].date = o + (i - m) - 1
                                      /\ L[i].tsd.num = Start(s).num + (i - m) - 1
                                      /\ s.total # 0 => i - m <= Start(s).rem
    <3>1. GeneratedAre(L, m, s, d, t, day)
      BY <1>2, GeneratedDays
    <3> HIDE DEF L, m
    <3>2. QED
      BY <3>1 DEF GeneratedAre
  <2>2. /\ o \in Nat /\ o <= Last0(s.last) + 1
        /\ s.deferred = <<>> => o = Last0(s.last) + 1 /\ Start(s).rem = s.rem /\ Start(s).num = s.num
        /\ s.deferred # <<>> => \E e \in d.postponed : o = e + 1
    BY StartFacts
  <2>3. Last0(s.last) \in Nat /\ s.rem \in Nat
    BY Last0Facts, ScheduleParts
  <2>4. /\ \A e \in d.postponed : e \in Nat
        /\ \A e \in Days : e \in Nat
    BY DayNumbers, DayFacts
  <2>5. s.deferred = <<>> <=> m = 0
    BY EmptySeq, LenProperties, ScheduleParts
  <2>6. \A i \in 1 .. Len(L) : L[i].date \in Nat
    <3>1. L \in Seq(Shown)
      BY GeneratedFacts
    <3>2. \A i \in 1 .. Len(L) : L[i] \in Shown
      BY <3>1, ElementOfSeq, LenProperties
    <3>3. \A i \in 1 .. Len(L) : Occurrence(L[i].tsd) \in Nat /\ L[i].date = Occurrence(L[i].tsd)
      BY <2>1, <2>4, <3>2, ShownFacts DEF EntryOK
    <3>4. QED
      BY <3>3
  <2> HIDE DEF L, m, o
  <2>7. \A i \in 1 .. Len(L) : i \in 1 .. m \/ i \in m + 1 .. Len(L)
    BY <2>1
  <2>8. ASSUME NEW i \in 1 .. Len(L) PROVE Fresh(L[i].date, s, d)
    <3>1. CASE i \in 1 .. m
      BY <2>1, <2>4, <3>1 DEF Fresh, Escaped
    <3>2. CASE i \in m + 1 .. Len(L)
      <4>1. L[i].date >= o
        BY <2>1, <2>2, <3>2
      <4>2. CASE s.deferred = <<>>
        BY <2>2, <2>3, <2>6, <4>1, <4>2 DEF Fresh
      <4>3. CASE s.deferred # <<>>
        <5>1. PICK e \in d.postponed : o = e + 1
          BY <2>2, <4>3
        <5>2. e <= L[i].date
          BY <2>4, <2>6, <4>1, <5>1
        <5>3. QED
          BY <5>2 DEF Fresh, Escaped
      <4>4. QED
        BY <4>2, <4>3
    <3>3. QED
      BY <2>7, <3>1, <3>2
  <2>9. ASSUME NEW i \in 1 .. Len(L), NEW e \in Days, Last0(s.last) < e, e <= L[i].date
        PROVE  \E k \in 1 .. i : L[k].date = e
    <3>1. i \in m + 1 .. Len(L)
      BY <2>1, <2>3, <2>4, <2>6, <2>7, <2>9
    <3> DEFINE k == m + (e - o) + 1
    <3>2. k \in m + 1 .. i /\ k \in m + 1 .. Len(L) /\ k \in 1 .. i /\ k - m - 1 = e - o
      BY <2>1, <2>2, <2>3, <2>4, <2>9, <3>1
    <3> HIDE DEF k
    <3>3. L[k].date = o + (k - m) - 1
      BY <2>1, <3>2
    <3>4. L[k].date = e
      <4>1. k \in Int /\ m \in Int /\ o \in Int /\ e \in Int /\ k - m - 1 = e - o
        BY <2>1, <2>2, <2>4, <3>2
      <4>2. o + (k - m) - 1 = e
        BY <4>1
      <4>3. QED
        BY <3>3, <4>2
    <3>5. QED
      BY <3>2, <3>4
  <2>10. ASSUME NEW i \in 1 .. Len(L), NEW j \in 1 .. Len(L), L[i].date = L[j].date
         PROVE  i = j \/ L[i].date \in d.postponed
    <3>1. CASE i \in 1 .. m \/ j \in 1 .. m
      BY <2>1, <2>10, <3>1
    <3>2. CASE i \in m + 1 .. Len(L) /\ j \in m + 1 .. Len(L)
      BY <2>1, <2>2, <2>10, <3>2
    <3>3. QED
      BY <2>7, <3>1, <3>2
  <2>11. ASSUME d.postponed = {}, NEW i \in 1 .. Len(L), NEW j \in 1 .. Len(L)
         PROVE  L[j].date - L[i].date = j - i
    <3>1. i \in m + 1 .. Len(L) /\ j \in m + 1 .. Len(L)
      BY <2>1, <2>7, <2>11
    <3>2. QED
      BY <2>1, <2>2, <3>1
  <2>12. ListOK(L, s, t, d)
    BY <2>1, <2>8, <2>9, <2>10, <2>11 DEF ListOK, EntriesOK, DatesOK, FreshOK
  <2>13. ASSUME s.deferred = <<>> PROVE \A i \in 1 .. Len(L) : i - m = i /\ i \in m + 1 .. Len(L)
    BY <2>1, <2>5, <2>13
  <2>14. ASSUME s.deferred = <<>>, s.num = Last0(s.last) + 1 PROVE NumbersOK(L)
    <3>1. ASSUME NEW i \in 1 .. Len(L) PROVE L[i].tsd.num = L[i].date
      BY <2>1, <2>2, <2>3, <2>13, <2>14
    <3>2. QED
      BY <3>1 DEF NumbersOK
  <2>15. ASSUME s.deferred = <<>>, s.total # 0 PROVE BoundOK(L, s)
    <3>1. ASSUME NEW i \in 1 .. Len(L) PROVE L[i].date <= Last0(s.last) + s.rem
      BY <2>1, <2>2, <2>3, <2>13, <2>15
    <3>2. QED
      BY <3>1 DEF BoundOK
  <2>16. QED
    BY <2>8, <2>12, <2>14, <2>15 DEF L
<1>3. QED
  BY <1>1, <1>2

\* What is said of the dates of a list.
LEMMA SameDates ==
    ASSUME NEW a, NEW b, NEW s, NEW d, Len(a) = Len(b), \A i \in 1 .. Len(b) : a[i].date = b[i].date
    PROVE  /\ DatesOK(b, s, d) => DatesOK(a, s, d)
           /\ BoundOK(b, s) => BoundOK(a, s)
           /\ (\A i \in 1 .. Len(b) : Fresh(b[i].date, s, d)) => \A i \in 1 .. Len(a) : Fresh(a[i].date, s, d)
<1>1. ASSUME DatesOK(b, s, d) PROVE DatesOK(a, s, d)
  <2>1. ASSUME NEW i \in 1 .. Len(a), NEW e \in Days, Last0(s.last) < e, e <= a[i].date
        PROVE  \E k \in 1 .. i : a[k].date = e
    <3>1. PICK k \in 1 .. i : b[k].date = e
      BY <1>1, <2>1 DEF DatesOK
    <3>2. k \in 1 .. Len(b)
      OBVIOUS
    <3>3. QED
      BY <3>1, <3>2
  <2>2. QED
    BY <1>1, <2>1 DEF DatesOK
<1>2. QED
  BY <1>1 DEF BoundOK

LEMMA EmptyListOK ==
    ASSUME NEW s, NEW t, NEW d
    PROVE  ListOK(<<>>, s, t, d) /\ NumbersOK(<<>>) /\ BoundOK(<<>>, s) /\ EntriesOK(<<>>, s, t, d)
<1>1. 1 .. Len(<<>>) = {}
  OBVIOUS
<1>2. QED
  BY <1>1 DEF ListOK, EntriesOK, DatesOK, FreshOK, NumbersOK, BoundOK

\* What a dialog that is told of s shows.
LEMMA UpdatedOK ==
    ASSUME NEW s \in Schedule, NEW d \in History, LimitKeptIn(d), DeferredOK(s, d), NEW t,
           NEW w \in Window, WindowOK(w), EntriesOK(w.list, s, t, d)
    PROVE  /\ ListOK(Updated(w, s).list, s, t, d)
           /\ s.deferred = <<>> /\ s.num = Last0(s.last) + 1 /\ NumbersOK(w.list) =>
                NumbersOK(Updated(w, s).list)
           /\ s.deferred = <<>> /\ s.total # 0 => BoundOK(Updated(w, s).list, s)
<1> DEFINE u == Updated(w, s).list
<1>1. CASE ~w.open
  <2>1. u = <<>>
    BY <1>1, UpdatedFacts DEF WindowOK
  <2> HIDE DEF u
  <2>2. QED
    BY <2>1, EmptyListOK DEF u
<1>2. CASE w.open /\ ~s.enabled
  <2>1. u = <<>>
    BY <1>2, UpdatedFacts
  <2> HIDE DEF u
  <2>2. QED
    BY <2>1, EmptyListOK DEF u
<1>3. CASE w.open /\ s.enabled
  <2> DEFINE old == w.list
             new == Generated(s, w.until)
  <2>1. u = Merged(old, new)
    BY <1>3, UpdatedFacts
  <2>2. old \in Seq(Shown) /\ w.until \in 1 .. LastDay
    BY <1>3 DEF Window, WindowOK
  <2>3. /\ new \in Seq(Shown) /\ ListOK(new, s, t, d)
        /\ \A i \in 1 .. Len(new) : Fresh(new[i].date, s, d)
        /\ s.deferred = <<>> /\ s.num = Last0(s.last) + 1 => NumbersOK(new)
        /\ s.deferred = <<>> /\ s.total # 0 => BoundOK(new, s)
    BY <2>2, GeneratedOK, GeneratedFacts
  <2> HIDE DEF old, new, u
  <2>4. /\ Len(u) = Len(new) /\ Len(new) \in Nat /\ Len(old) \in Nat
        /\ \E kept \in Nat :
             /\ kept <= Len(old) /\ kept <= Len(new)
             /\ \A i \in 1 .. kept : /\ u[i] = old[i]
                                     /\ Compare(old[i].date, new[i].date) = 0
             /\ \A i \in kept + 1 .. Len(new) : u[i] = new[i]
    BY <2>1, <2>2, <2>3, MergedFacts, LenProperties
  <2>5. \A i \in 1 .. Len(new) : EntryOK(new[i], s, t, d) /\ new[i] \in Shown
    BY <2>3, ElementOfSeq, LenProperties DEF ListOK, EntriesOK
  <2>6. \A i \in 1 .. Len(old) : EntryOK(old[i], s, t, d) /\ old[i] \in Shown
    BY <2>2, ElementOfSeq, LenProperties DEF EntriesOK, old
  <2>7. \A a, b \in Shown : EntryOK(a, s, t, d) /\ EntryOK(b, s, t, d) /\ Compare(a.date, b.date) = 0
                              => a.date = b.date
    <3>1. \A a \in Shown : EntryOK(a, s, t, d) => a.date \in Nat /\ a.date # NoDay
      BY ShownFacts, DayFacts DEF EntryOK
    <3>2. ASSUME NEW a \in Nat, NEW b \in Nat, a # NoDay, b # NoDay, Compare(a, b) = 0 PROVE a = b
      <4>1. Compare(a, b) = a - b
        BY <3>2, CompareFacts
      <4>2. a - b = 0
        BY <3>2, <4>1
      <4>3. QED
        BY <4>2
    <3>3. QED
      BY <3>1, <3>2
  <2>8. \A i \in 1 .. Len(new) : /\ u[i].date = new[i].date
                                 /\ u[i] = new[i] \/ (i \in 1 .. Len(old) /\ u[i] = old[i])
    <3>1. PICK kept \in Nat :
             /\ kept <= Len(old) /\ kept <= Len(new)
             /\ \A i \in 1 .. kept : /\ u[i] = old[i]
                                     /\ Compare(old[i].date, new[i].date) = 0
             /\ \A i \in kept + 1 .. Len(new) : u[i] = new[i]
      BY <2>4
    <3>2. TAKE i \in 1 .. Len(new)
    <3>3. CASE i \in 1 .. kept
      <4>1. i \in 1 .. Len(old)
        BY <2>4, <3>1, <3>3
      <4>2. u[i] = old[i] /\ Compare(old[i].date, new[i].date) = 0
        BY <3>1, <3>3
      <4>3. old[i].date = new[i].date
        BY <2>5, <2>6, <2>7, <4>1, <4>2
      <4>4. QED
        BY <4>1, <4>2, <4>3
    <3>4. CASE i \in kept + 1 .. Len(new)
      BY <3>1, <3>4
    <3>5. i \in 1 .. kept \/ i \in kept + 1 .. Len(new)
      BY <2>4, <3>1
    <3>6. QED
      BY <3>3, <3>4, <3>5
  <2>9. \A i \in 1 .. Len(u) : EntryOK(u[i], s, t, d)
    BY <2>4, <2>5, <2>6, <2>8
  <2>10. DatesOK(u, s, d) /\ \A i \in 1 .. Len(u) : Fresh(u[i].date, s, d)
    <3>1. DatesOK(new, s, d)
      BY <2>3 DEF ListOK
    <3>2. QED
      BY <2>3, <2>4, <2>8, <3>1, SameDates
  <2>11. ListOK(u, s, t, d)
    BY <2>9, <2>10 DEF ListOK, EntriesOK, FreshOK
  <2>12. ASSUME s.deferred = <<>>, s.num = Last0(s.last) + 1, NumbersOK(old) PROVE NumbersOK(u)
    <3>1. NumbersOK(new)
      BY <2>3, <2>12
    <3>2. QED
      BY <2>4, <2>8, <2>12, <3>1 DEF NumbersOK
  <2>13. ASSUME s.deferred = <<>>, s.total # 0 PROVE BoundOK(u, s)
    <3>1. BoundOK(new, s)
      BY <2>3, <2>13
    <3>2. QED
      BY <2>4, <2>8, <3>1, SameDates
  <2>14. QED
    BY <2>11, <2>12, <2>13 DEF u, old
<1>4. QED
  BY <1>1, <1>2, <1>3

-----------------------------------------------------------------------------
(* What a step keeps of a list that it does not change.                    *)

\* A step adds transactions and history; a limit is changed by an edit only.
Grows(s, t, d, r, u, g) ==
    /\ g.postponed \in SUBSET Days /\ d.postponed \subseteq g.postponed /\ d.flawed \subseteq g.flawed
    /\ \A e \in Days : t[e] > 0 => u[e] > 0
    /\ d.limited => g.limited
    /\ ~g.limited => r.total = s.total

LEMMA EntriesKept ==
    ASSUME NEW s, NEW t, NEW d, NEW r, NEW u, NEW g, Grows(s, t, d, r, u, g),
           NEW list \in Seq(Shown), EntriesOK(list, s, t, d)
    PROVE  EntriesOK(list, r, u, g)
<1>1. \A i \in 1 .. Len(list) : list[i] \in Shown
  BY ElementOfSeq, LenProperties
<1>2. ASSUME NEW i \in 1 .. Len(list) PROVE EntryOK(list[i], r, u, g)
  <2>1. EntryOK(list[i], s, t, d)
    BY DEF EntriesOK
  <2>2. list[i].date \in Days
    BY <1>1, <2>1, ShownFacts DEF EntryOK
  <2>3. QED
    BY <2>1, <2>2 DEF EntryOK, Grows
<1>3. QED
  BY <1>2 DEF EntriesOK

LEMMA FreshKept ==
    ASSUME NEW s, NEW t, NEW d, NEW r, NEW u, NEW g, Grows(s, t, d, r, u, g),
           NEW e, Fresh(e, s, d), r.last = s.last
    PROVE  Fresh(e, r, g)
BY DEF Fresh, Escaped, Grows

LEMMA ListKept ==
    ASSUME NEW s, NEW t, NEW d, NEW r, NEW u, NEW g, Grows(s, t, d, r, u, g),
           NEW list \in Seq(Shown), ListOK(list, s, t, d), r.last = s.last
    PROVE  ListOK(list, r, u, g)
<1>1. EntriesOK(list, r, u, g)
  BY EntriesKept DEF ListOK
<1>2. DatesOK(list, r, g)
  <2>1. DatesOK(list, s, d)
    BY DEF ListOK
  <2>2. g.postponed = {} => d.postponed = {}
    BY DEF Grows
  <2>3. \A e : e \in d.postponed => e \in g.postponed
    BY DEF Grows
  <2>4. QED
    BY <2>1, <2>2, <2>3 DEF DatesOK
<1>3. FreshOK(list, r, g)
  BY FreshKept DEF ListOK, FreshOK
<1>4. QED
  BY <1>1, <1>2, <1>3 DEF ListOK

-----------------------------------------------------------------------------
(* What a run over a list has done after k turns.                          *)

\* The runs to speak of: f over the list of a settled schedule.
RunFrom(f, list, s, t, d, n, tr) ==
    /\ s \in Schedule /\ d \in History /\ LimitKeptIn(d) /\ Settled(s, t, d)
    /\ list \in Seq(Shown) /\ ListOK(list, s, t, d) /\ tr \in Trouble /\ n \in 0 .. Len(list)
    /\ IsRun(f, list, s, n, tr)

Goes(list, tr, i) == Passes(list[i], tr.missing, tr.flawed)
Makes(list, tr, i) == Enters(list[i], tr.missing)

\* The run b is the run a after the turn of e.
TurnIs(a, b, k, e, tr) ==
    LET go == Passes(e, tr.missing, tr.flawed) IN
    /\ b.list = IF go /\ e.state = "to-create" THEN WithState(a.list, k, "created") ELSE a.list
    /\ b.last = IF go THEN Later(a.last, e.date) ELSE a.last
    /\ b.num = IF go THEN e.tsd.num + 1 ELSE a.num
    /\ b.rem = IF go THEN (IF a.rem > 0 THEN a.rem - 1 ELSE a.rem) ELSE a.rem
    /\ b.deferred = Kept(a, e)
    /\ b.made = IF Enters(e, tr.missing) THEN Append(a.made, e.date) ELSE a.made
    /\ b.ignored = IF e.state = "ignored" THEN a.ignored \cup {e.date} ELSE a.ignored
    /\ b.postponed = IF e.state = "postponed" THEN a.postponed \cup {e.date} ELSE a.postponed
    /\ b.left = IF Waits(e, tr.missing, tr.flawed) THEN a.left \cup {e.date} ELSE a.left

\* An instance of a list.
InstanceOK(e, s, t, d) ==
    /\ e \in Shown /\ EntryOK(e, s, t, d) /\ e.date = Occurrence(e.tsd) /\ e.date \in Days
    /\ e.tsd \in Position /\ e.tsd.last # NoDay /\ e.tsd.num \in Nat
    /\ e.state \in States /\ e.orig \in States

LEMMA InstancesOK ==
    ASSUME NEW s, NEW t, NEW d, NEW list \in Seq(Shown), EntriesOK(list, s, t, d)
    PROVE  \A i \in 1 .. Len(list) : InstanceOK(list[i], s, t, d)
<1>1. TAKE i \in 1 .. Len(list)
<1>2. list[i] \in Shown
  BY ElementOfSeq, LenProperties
<1>3. EntryOK(list[i], s, t, d)
  BY DEF EntriesOK
<1>4. QED
  BY <1>2, <1>3, ShownFacts DEF InstanceOK, EntryOK

LEMMA RunTurns ==
    ASSUME NEW f, NEW list, NEW s, NEW t, NEW d, NEW n, NEW tr, RunFrom(f, list, s, t, d, n, tr)
    PROVE  /\ n \in Nat /\ Len(list) \in Nat /\ n <= Len(list)
           /\ f[0] = Started(list, s)
           /\ \A k \in 0 .. n : f[k] \in Run /\ Len(f[k].list) = Len(list)
           /\ \A i \in 1 .. Len(list) : InstanceOK(list[i], s, t, d)
           /\ \A k \in 0 .. n - 1 : /\ k + 1 \in 1 .. n /\ k + 1 \in 1 .. Len(list) /\ k \in 0 .. n
                                    /\ TurnIs(f[k], f[k + 1], k + 1, list[k + 1], tr)
<1>1. /\ list \in Seq(Shown) /\ EntriesOK(list, s, t, d) /\ n \in 0 .. Len(list)
      /\ IsRun(f, list, s, n, tr)
  BY DEF RunFrom, ListOK
<1>2. Len(list) \in Nat /\ n \in Nat /\ n <= Len(list)
  BY <1>1, LenProperties
<1>3. \A i \in 1 .. Len(list) : InstanceOK(list[i], s, t, d)
  BY <1>1, InstancesOK
<1>4. ASSUME NEW k \in 0 .. n - 1
      PROVE  /\ k + 1 \in 1 .. n /\ k + 1 \in 1 .. Len(list) /\ k \in 0 .. n
             /\ TurnIs(f[k], f[k + 1], k + 1, list[k + 1], tr)
  <2> DEFINE i == k + 1
             e == list[i]
  <2>1. i \in 1 .. n /\ i \in 1 .. Len(list) /\ k \in 0 .. n /\ i - 1 = k
    BY <1>2
  <2> HIDE DEF i
  <2>2. f[i] = Turn(f[k], i, e, tr.missing, tr.flawed)
    BY <1>1, <2>1 DEF IsRun
  <2>3. e.date = Occurrence(e.tsd)
    BY <1>3, <2>1 DEF InstanceOK
  <2> HIDE DEF e
  <2>4. TurnIs(f[k], f[i], i, e, tr)
    <3>1. TurnIs(f[k], Turn(f[k], i, e, tr.missing, tr.flawed), i, e, tr)
      BY <2>3 DEF Turn, TurnIs
    <3>2. QED
      BY <2>2, <3>1
  <2>5. QED
    BY <2>1, <2>4 DEF i, e
<1>5. QED
  BY <1>1, <1>2, <1>3, <1>4 DEF IsRun

LEMMA RunStart ==
    ASSUME NEW f, NEW list, NEW s, NEW t, NEW d, NEW n, NEW tr, RunFrom(f, list, s, t, d, n, tr)
    PROVE  /\ f[0].list = list /\ f[0].last = s.last /\ f[0].num = s.num /\ f[0].rem = s.rem
           /\ f[0].deferred = s.deferred /\ f[0].made = <<>>
           /\ f[0].ignored = {} /\ f[0].postponed = {} /\ f[0].left = {}
<1>1. f[0] = Started(list, s)
  BY RunTurns
<1>2. QED
  BY <1>1 DEF Started

LEMMA UpTo ==
    ASSUME NEW n \in Nat, NEW K \in SUBSET Nat, 0 \in K, \A k \in K : k < n => k + 1 \in K
    PROVE  \A k \in 0 .. n : k \in K
<1> DEFINE H == {k \in Nat : k <= n => k \in K}
<1>1. 0 \in H /\ H \in SUBSET Nat
  OBVIOUS
<1>2. \A k \in H : k + 1 \in H
  OBVIOUS
<1>3. H = Nat
  <2> HIDE DEF H
  <2>1. QED
    BY <1>1, <1>2, CountInduction
<1>4. QED
  BY <1>3

\* The last date is that of the schedule or of an instance that was passed.
LastSoFar(r, k, list, s, tr) ==
    /\ r.last \in {NoDay} \cup Days
    /\ Last0(s.last) <= Last0(r.last)
    /\ r.last = s.last \/ \E i \in 1 .. k : Goes(list, tr, i) /\ r.last = list[i].date
    /\ \A i \in 1 .. k : Goes(list, tr, i) => list[i].date <= Last0(r.last)

LEMMA RunLast ==
    ASSUME NEW f, NEW list, NEW s, NEW t, NEW d, NEW n, NEW tr, RunFrom(f, list, s, t, d, n, tr)
    PROVE  \A k \in 0 .. n : LastSoFar(f[k], k, list, s, tr)
<1> DEFINE K == {k \in Nat : LastSoFar(f[k], k, list, s, tr)}
<1>1. s \in Schedule /\ s.last \in {NoDay} \cup Days
  BY ScheduleParts DEF RunFrom
<1>2. 0 \in K
  <2>1. f[0].last = s.last
    BY RunStart
  <2>2. Last0(s.last) <= Last0(s.last)
    BY <1>1, Last0Facts
  <2>3. QED
    BY <1>1, <2>1, <2>2 DEF LastSoFar
<1>3. ASSUME NEW k \in Nat, k + 1 <= n, LastSoFar(f[k], k, list, s, tr)
      PROVE  LastSoFar(f[k + 1], k + 1, list, s, tr)
  <2> DEFINE i == k + 1
             e == list[i]
             a == f[k]
             b == f[i]
  <2>1. i \in 1 .. n /\ i \in 1 .. Len(list) /\ TurnIs(a, b, i, e, tr) /\ InstanceOK(e, s, t, d)
    <3>1. k \in 0 .. n - 1
      BY <1>3, RunTurns
    <3>2. QED
      BY <3>1, RunTurns
  <2>2. b.last = IF Goes(list, tr, i) THEN Later(a.last, e.date) ELSE a.last
    BY <2>1 DEF TurnIs, Goes
  <2>3. \A j \in 1 .. i : j \in 1 .. k \/ j = i
    OBVIOUS
  <2>4. a.last \in {NoDay} \cup Days /\ e.date \in Days
    BY <1>3, <2>1 DEF LastSoFar, InstanceOK
  <2>5. /\ Last0(a.last) \in Nat /\ Last0(s.last) \in Nat /\ e.date \in Nat
        /\ Last0(Later(a.last, e.date)) \in Nat
        /\ Later(a.last, e.date) \in {a.last, e.date}
        /\ Last0(a.last) <= Last0(Later(a.last, e.date)) /\ e.date <= Last0(Later(a.last, e.date))
    <3>1. e.date \in Nat /\ e.date # NoDay /\ (a.last # NoDay => a.last \in Nat) /\ (s.last # NoDay => s.last \in Nat)
      BY <1>1, <2>4, DayFacts
    <3>2. /\ Later(a.last, e.date) \in {a.last, e.date}
          /\ a.last = NoDay => Later(a.last, e.date) = e.date
          /\ Later(a.last, e.date) # NoDay /\ e.date <= Later(a.last, e.date)
          /\ a.last # NoDay => a.last <= Later(a.last, e.date)
      BY <2>4, <3>1, LaterFacts
    <3>3. QED
      BY <3>1, <3>2 DEF Last0
  <2> HIDE DEF i, e, a, b
  <2>6. CASE Goes(list, tr, i)
    <3>1. b.last = Later(a.last, e.date)
      BY <2>2, <2>6
    <3>2. b.last \in {NoDay} \cup Days /\ Last0(s.last) <= Last0(b.last)
      BY <1>3, <2>4, <2>5, <3>1 DEF LastSoFar, a
    <3>3. b.last = s.last \/ \E j \in 1 .. i : Goes(list, tr, j) /\ b.last = list[j].date
      <4>1. CASE b.last = a.last
        <5>1. \A j \in 1 .. k : j \in 1 .. i
          BY DEF i
        <5>2. QED
          BY <1>3, <4>1, <5>1 DEF LastSoFar, a
      <4>2. CASE b.last = e.date
        BY <2>1, <2>6, <4>2 DEF e, i
      <4>3. QED
        BY <2>5, <3>1, <4>1, <4>2
    <3>4. ASSUME NEW j \in 1 .. i, Goes(list, tr, j) PROVE list[j].date <= Last0(b.last)
      <4>1. CASE j \in 1 .. k
        <5>1. list[j].date <= Last0(a.last)
          BY <1>3, <3>4, <4>1 DEF LastSoFar, a
        <5>2. list[j].date \in Nat
          <6>1. j \in 1 .. Len(list)
            BY <2>1, RunTurns
          <6>2. list[j].date \in Days
            BY <6>1, RunTurns DEF InstanceOK
          <6>3. QED
            BY <6>2, DayFacts
        <5>3. QED
          BY <2>5, <3>1, <5>1, <5>2
      <4>2. CASE j = i
        BY <2>5, <3>1, <4>2 DEF e
      <4>3. QED
        BY <2>3, <4>1, <4>2
    <3>5. QED
      BY <3>2, <3>3, <3>4 DEF LastSoFar, b, i
  <2>7. CASE ~Goes(list, tr, i)
    <3>1. b.last = a.last
      BY <2>2, <2>7
    <3>2. \A j \in 1 .. k : j \in 1 .. i
      BY DEF i
    <3>3. LastSoFar(b, i, list, s, tr)
      BY <1>3, <2>3, <2>7, <3>1, <3>2 DEF LastSoFar, a
    <3>4. QED
      BY <3>3 DEF b, i
  <2>8. QED
    BY <2>6, <2>7
<1>4. n \in Nat /\ \A k \in Nat : k < n => k + 1 <= n
  BY RunTurns
<1>5. K \in SUBSET Nat /\ \A k \in K : k < n => k + 1 \in K
  BY <1>3, <1>4
<1>6. \A k \in 0 .. n : k \in K
  <2> HIDE DEF K
  <2>1. QED
    BY <1>2, <1>4, <1>5, UpTo
<1>7. QED
  BY <1>6

\* The transactions made are those of the instances entered.
MadeByOne(k, list, tr, e) ==
    \A i, j \in 1 .. k :
      Makes(list, tr, i) /\ list[i].date = e /\ Makes(list, tr, j) /\ list[j].date = e => i = j

MadeSoFar(r, k, list, tr) ==
    /\ \A e \in Days : In(e, r.made) <=> \E i \in 1 .. k : Makes(list, tr, i) /\ list[i].date = e
    /\ \A e \in Days : MadeByOne(k, list, tr, e) => Once(r.made, e)

LEMMA AppendIn ==
    ASSUME NEW q \in Seq(Days), NEW e
    PROVE  /\ \A x : In(x, Append(q, e)) <=> x = e \/ In(x, q)
           /\ \A x : Once(q, x) /\ (x = e => ~In(x, q)) => Once(Append(q, e), x)
<1> DEFINE l == Len(q)
           w == Append(q, e)
<1>1. /\ l \in Nat /\ DOMAIN q = 1 .. l /\ DOMAIN w = 1 .. l + 1
      /\ \A i \in 1 .. l : w[i] = q[i]
      /\ w[l + 1] = e
  <2>1. l \in Nat /\ DOMAIN q = 1 .. l
    BY LenProperties
  <2>2. /\ w \in Seq(Days \cup {e}) /\ Len(w) = l + 1
        /\ \A i \in 1 .. l : w[i] = q[i]
        /\ w[l + 1] = e
    <3>1. q \in Seq(Days \cup {e})
      BY SeqMonotonic, Zenon
    <3>2. QED
      BY <3>1, AppendProperties
  <2>3. DOMAIN w = 1 .. Len(w)
    BY <2>2, LenProperties
  <2>4. QED
    BY <2>1, <2>2, <2>3
<1> HIDE DEF w, l
<1>2. \A i \in 1 .. l + 1 : i \in 1 .. l \/ i = l + 1
  BY <1>1
<1>3. \A i \in 1 .. l : i \in 1 .. l + 1
  BY <1>1
<1>4. l + 1 \in 1 .. l + 1
  BY <1>1
<1>5. \A x : In(x, w) <=> x = e \/ In(x, q)
  BY <1>1, <1>2, <1>3, <1>4 DEF In
<1>6. \A x : Once(q, x) /\ (x = e => ~In(x, q)) => Once(w, x)
  BY <1>1, <1>2, <1>3, <1>4 DEF In, Once
<1>7. QED
  BY <1>5, <1>6 DEF w

LEMMA RunMade ==
    ASSUME NEW f, NEW list, NEW s, NEW t, NEW d, NEW n, NEW tr, RunFrom(f, list, s, t, d, n, tr)
    PROVE  \A k \in 0 .. n : MadeSoFar(f[k], k, list, tr)
<1> DEFINE K == {k \in Nat : MadeSoFar(f[k], k, list, tr)}
<1>1. 0 \in K
  <2>1. f[0].made = <<>>
    BY RunStart
  <2>2. DOMAIN <<>> = {} /\ 1 .. 0 = {}
    OBVIOUS
  <2>3. QED
    BY <2>1, <2>2 DEF MadeSoFar, In, Once
<1>2. ASSUME NEW k \in Nat, k + 1 <= n, MadeSoFar(f[k], k, list, tr)
      PROVE  MadeSoFar(f[k + 1], k + 1, list, tr)
  <2> DEFINE i == k + 1
             e == list[i]
             a == f[k]
             b == f[i]
  <2>1. i \in 1 .. n /\ i \in 1 .. Len(list) /\ TurnIs(a, b, i, e, tr) /\ InstanceOK(e, s, t, d)
        /\ a \in Run
    <3>1. k \in 0 .. n - 1
      BY <1>2, RunTurns
    <3>2. QED
      BY <3>1, RunTurns
  <2>2. b.made = IF Makes(list, tr, i) THEN Append(a.made, e.date) ELSE a.made
    BY <2>1 DEF TurnIs, Makes
  <2>3. (\A j \in 1 .. i : j \in 1 .. k \/ j = i) /\ (\A j \in 1 .. k : j \in 1 .. i) /\ i \in 1 .. i
    OBVIOUS
  <2>4. a.made \in Seq(Days)
    BY <2>1 DEF Run
  <2> HIDE DEF i, a, b
  <2>5. CASE Makes(list, tr, i)
    <3>1. b.made = Append(a.made, e.date)
      BY <2>2, <2>5
    <3>2. /\ \A x : In(x, b.made) <=> x = e.date \/ In(x, a.made)
          /\ \A x : Once(a.made, x) /\ (x = e.date => ~In(x, a.made)) => Once(b.made, x)
      BY <2>4, <3>1, AppendIn
    <3>3. \A x \in Days : In(x, b.made) <=> \E j \in 1 .. i : Makes(list, tr, j) /\ list[j].date = x
      BY <1>2, <2>3, <2>5, <3>2 DEF MadeSoFar, a
    <3>4. ASSUME NEW x \in Days, MadeByOne(i, list, tr, x)
          PROVE  Once(b.made, x)
      <4>1. Once(a.made, x)
        <5>1. MadeByOne(k, list, tr, x)
          BY <2>3, <3>4 DEF MadeByOne
        <5>2. QED
          BY <1>2, <5>1 DEF MadeSoFar, a
      <4>2. ASSUME x = e.date, In(x, a.made) PROVE FALSE
        <5>1. PICK j \in 1 .. k : Makes(list, tr, j) /\ list[j].date = x
          BY <1>2, <4>2 DEF MadeSoFar, a
        <5>2. j = i
          BY <2>3, <2>5, <3>4, <4>2, <5>1 DEF MadeByOne
        <5>3. QED
          BY <5>1, <5>2 DEF i
      <4>3. QED
        BY <3>2, <4>1, <4>2
    <3>5. QED
      BY <3>3, <3>4 DEF MadeSoFar, b, i
  <2>6. CASE ~Makes(list, tr, i)
    <3>1. b.made = a.made
      BY <2>2, <2>6
    <3>2. \A x : MadeByOne(i, list, tr, x) => MadeByOne(k, list, tr, x)
      BY <2>3 DEF MadeByOne
    <3>3. MadeSoFar(b, i, list, tr)
      BY <1>2, <2>3, <2>6, <3>1, <3>2 DEF MadeSoFar, a
    <3>4. QED
      BY <3>3 DEF b, i
  <2>7. QED
    BY <2>5, <2>6
<1>3. n \in Nat /\ \A k \in Nat : k < n => k + 1 <= n
  BY RunTurns
<1>4. K \in SUBSET Nat /\ \A k \in K : k < n => k + 1 \in K
  BY <1>2, <1>3
<1>5. \A k \in 0 .. n : k \in K
  <2> HIDE DEF K
  <2>1. QED
    BY <1>1, <1>3, <1>4, UpTo
<1>6. QED
  BY <1>5

\* What was ignored or postponed are the days of such instances, and so is what is
\* postponed now unless it was before.
PickedSoFar(r, k, s, list) ==
    /\ \A e : e \in r.ignored <=> \E i \in 1 .. k : list[i].state = "ignored" /\ list[i].date = e
    /\ \A e : e \in r.postponed <=> \E i \in 1 .. k : list[i].state = "postponed" /\ list[i].date = e
    /\ \A x : In(x, r.deferred) =>
         In(x, s.deferred) \/ \E i \in 1 .. k : list[i].state = "postponed" /\ list[i].tsd = x

LEMMA RunPicked ==
    ASSUME NEW f, NEW list, NEW s, NEW t, NEW d, NEW n, NEW tr, RunFrom(f, list, s, t, d, n, tr)
    PROVE  \A k \in 0 .. n : PickedSoFar(f[k], k, s, list)
<1> DEFINE K == {k \in Nat : PickedSoFar(f[k], k, s, list)}
<1>1. 0 \in K
  <2>1. f[0].ignored = {} /\ f[0].postponed = {} /\ f[0].deferred = s.deferred
    BY RunStart
  <2>2. 1 .. 0 = {}
    OBVIOUS
  <2>3. QED
    BY <2>1, <2>2 DEF PickedSoFar
<1>2. ASSUME NEW k \in Nat, k + 1 <= n, PickedSoFar(f[k], k, s, list)
      PROVE  PickedSoFar(f[k + 1], k + 1, s, list)
  <2> DEFINE i == k + 1
             e == list[i]
             a == f[k]
             b == f[i]
  <2>1. i \in 1 .. n /\ i \in 1 .. Len(list) /\ TurnIs(a, b, i, e, tr) /\ InstanceOK(e, s, t, d)
        /\ a \in Run
    <3>1. k \in 0 .. n - 1
      BY <1>2, RunTurns
    <3>2. QED
      BY <3>1, RunTurns
  <2>2. /\ b.ignored = IF e.state = "ignored" THEN a.ignored \cup {e.date} ELSE a.ignored
        /\ b.postponed = IF e.state = "postponed" THEN a.postponed \cup {e.date} ELSE a.postponed
        /\ b.deferred = Kept(a, e)
    BY <2>1 DEF TurnIs
  <2>3. (\A j \in 1 .. i : j \in 1 .. k \/ j = i) /\ (\A j \in 1 .. k : j \in 1 .. i) /\ i \in 1 .. i
    OBVIOUS
  <2>4. a.deferred \in Seq(Position) /\ e.tsd \in Position
    BY <2>1 DEF Run, InstanceOK
  <2> HIDE DEF i, a, b
  <2>5. \A x : In(x, b.deferred) => In(x, a.deferred) \/ (e.state = "postponed" /\ x = e.tsd)
    <3>1. \A x : In(x, RemoveDeferred(a.deferred, e.tsd)) => In(x, a.deferred)
      BY <2>4, RemoveDeferredFacts
    <3>2. \A x : In(x, AddDeferred(a.deferred, e.tsd)) => x = e.tsd \/ In(x, a.deferred)
      BY <2>4, AddDeferredFacts
    <3>3. QED
      BY <2>2, <3>1, <3>2 DEF Kept
  <2>6. \A x : x \in b.ignored <=> \E j \in 1 .. i : list[j].state = "ignored" /\ list[j].date = x
    <3>1. \A x : x \in b.ignored <=> x \in a.ignored \/ (e.state = "ignored" /\ x = e.date)
      BY <2>2
    <3>2. QED
      BY <1>2, <2>3, <3>1 DEF PickedSoFar, a
  <2>7. \A x : x \in b.postponed <=> \E j \in 1 .. i : list[j].state = "postponed" /\ list[j].date = x
    <3>1. \A x : x \in b.postponed <=> x \in a.postponed \/ (e.state = "postponed" /\ x = e.date)
      BY <2>2
    <3>2. QED
      BY <1>2, <2>3, <3>1 DEF PickedSoFar, a
  <2>8. \A x : In(x, b.deferred) =>
           In(x, s.deferred) \/ \E j \in 1 .. i : list[j].state = "postponed" /\ list[j].tsd = x
    BY <1>2, <2>3, <2>5 DEF PickedSoFar, a
  <2>9. QED
    BY <2>6, <2>7, <2>8 DEF PickedSoFar, b, i
<1>3. n \in Nat /\ \A k \in Nat : k < n => k + 1 <= n
  BY RunTurns
<1>4. K \in SUBSET Nat /\ \A k \in K : k < n => k + 1 \in K
  BY <1>2, <1>3
<1>5. \A k \in 0 .. n : k \in K
  <2> HIDE DEF K
  <2>1. QED
    BY <1>1, <1>3, <1>4, UpTo
<1>6. QED
  BY <1>5

\* Whatever was dealt with, or has had its turn, is dealt with.
DealtWith(e, r, t, d) ==
    \/ t[e] > 0 \/ e \in d.ignored \cup d.lost \cup r.ignored \cup r.left \/ In(e, r.made)
    \/ \E x : In(x, r.deferred) /\ Occurrence(x) = e

CoveredSoFar(r, k, list, s, t, d) ==
    \A e \in Days : Covered(e, s, t, d) \/ (\E i \in 1 .. k : list[i].date = e) => DealtWith(e, r, t, d)

LEMMA RunCovers ==
    ASSUME NEW f, NEW list, NEW s, NEW t, NEW d, NEW n, NEW tr, RunFrom(f, list, s, t, d, n, tr)
    PROVE  \A k \in 0 .. n : CoveredSoFar(f[k], k, list, s, t, d)
<1> DEFINE K == {k \in Nat : CoveredSoFar(f[k], k, list, s, t, d)}
<1>0. /\ s \in Schedule /\ DeferredOK(s, d) /\ d \in History
      /\ \A e \in d.postponed : e \in Days /\ e \in 1 .. Last0(s.last)
      /\ \A e \in 1 .. Last0(s.last) : Covered(e, s, t, d)
  BY DEF RunFrom, Settled, History
<1>1. 0 \in K
  <2>1. f[0].deferred = s.deferred
    BY RunStart
  <2>2. 1 .. 0 = {}
    OBVIOUS
  <2>3. QED
    BY <2>1, <2>2 DEF CoveredSoFar, DealtWith, Covered
<1>2. ASSUME NEW k \in Nat, k + 1 <= n, CoveredSoFar(f[k], k, list, s, t, d)
      PROVE  CoveredSoFar(f[k + 1], k + 1, list, s, t, d)
  <2> DEFINE i == k + 1
             e == list[i]
             a == f[k]
             b == f[i]
  <2>1. i \in 1 .. n /\ i \in 1 .. Len(list) /\ TurnIs(a, b, i, e, tr) /\ InstanceOK(e, s, t, d)
        /\ a \in Run /\ PickedSoFar(a, k, s, list)
        /\ \A j \in 1 .. k : InstanceOK(list[j], s, t, d)
    <3>1. k \in 0 .. n - 1
      BY <1>2, RunTurns
    <3>2. k \in 0 .. n /\ \A j \in 1 .. k : j \in 1 .. Len(list)
      BY <1>2, RunTurns
    <3>3. QED
      BY <3>1, <3>2, RunTurns, RunPicked
  <2>2. /\ b.ignored = IF e.state = "ignored" THEN a.ignored \cup {e.date} ELSE a.ignored
        /\ b.left = IF Waits(e, tr.missing, tr.flawed) THEN a.left \cup {e.date} ELSE a.left
        /\ b.made = IF Enters(e, tr.missing) THEN Append(a.made, e.date) ELSE a.made
        /\ b.deferred = Kept(a, e)
    BY <2>1 DEF TurnIs
  <2>3. (\A j \in 1 .. i : j \in 1 .. k \/ j = i) /\ (\A j \in 1 .. k : j \in 1 .. i) /\ i \in 1 .. i
    OBVIOUS
  <2>4. /\ a.deferred \in Seq(Position) /\ a.made \in Seq(Days)
        /\ e.tsd \in Position /\ e.tsd.last # NoDay
        /\ e.date = Occurrence(e.tsd) /\ e.date \in Days /\ EntryOK(e, s, t, d) /\ e.state \in States
    BY <2>1 DEF Run, InstanceOK
  <2>5. \A x : In(x, a.deferred) => x \in Position /\ x.last # NoDay
    <3>1. \A x : In(x, s.deferred) => x \in Position /\ x.last # NoDay
      BY <1>0, DeferredDays DEF DeferredOK
    <3>2. \A j \in 1 .. k : list[j].tsd \in Position /\ list[j].tsd.last # NoDay
      BY <2>1 DEF InstanceOK
    <3>3. QED
      BY <2>1, <3>1, <3>2 DEF PickedSoFar
  <2>6. \A x \in Days : In(x, a.made) => In(x, b.made)
    BY <2>2, <2>4, AppendIn
  <2>7. Enters(e, tr.missing) => In(e.date, b.made)
    BY <2>2, <2>4, AppendIn
  <2> HIDE DEF i, a, b
  <2>8. \A x \in Days : (t[x] > 0 \/ x \in d.ignored \cup d.lost \cup a.ignored \cup a.left \/ In(x, a.made))
                          => DealtWith(x, b, t, d)
    BY <2>2, <2>6 DEF DealtWith
  <2>9. DealtWith(e.date, b, t, d)
    <3>1. CASE e.state = "created"
      BY <2>4, <3>1 DEF EntryOK, DealtWith
    <3>2. CASE e.state = "reminder"
      BY <2>2, <3>2 DEF Waits, DealtWith
    <3>3. CASE e.state = "ignored"
      BY <2>2, <3>3 DEF DealtWith
    <3>4. CASE e.state = "to-create" /\ tr.missing
      BY <2>2, <3>4 DEF Waits, DealtWith
    <3>5. CASE e.state = "to-create" /\ ~tr.missing
      BY <2>7, <3>5 DEF Enters, DealtWith
    <3>6. CASE e.state = "postponed" /\ e.orig # "postponed"
      <4>1. b.deferred = AddDeferred(a.deferred, e.tsd)
        BY <2>2, <3>6 DEF Kept
      <4>2. In(e.tsd, b.deferred)
        BY <2>4, <4>1, AddDeferredFacts
      <4>3. QED
        BY <2>4, <4>2 DEF DealtWith
    <3>7. CASE e.state = "postponed" /\ e.orig = "postponed"
      <4>1. Covered(e.date, s, t, d)
        BY <1>0, <2>4, <3>7 DEF EntryOK
      <4>2. DealtWith(e.date, a, t, d)
        BY <1>2, <2>4, <4>1 DEF CoveredSoFar, a
      <4>3. b.deferred = a.deferred
        BY <2>2, <3>7 DEF Kept
      <4>4. QED
        BY <2>4, <2>8, <4>2, <4>3 DEF DealtWith
    <3>8. QED
      BY <2>4, <3>1, <3>2, <3>3, <3>4, <3>5, <3>6, <3>7 DEF States
  <2>10. ASSUME NEW x \in Days, NEW p, In(p, a.deferred), Occurrence(p) = x PROVE DealtWith(x, b, t, d)
    <3>1. CASE e.orig = "postponed" /\ e.state # "postponed"
      <4>1. b.deferred = RemoveDeferred(a.deferred, e.tsd)
        BY <2>2, <3>1 DEF Kept
      <4>2. p \in Position /\ p.last # NoDay
        BY <2>5, <2>10
      <4>3. CASE Compare(e.tsd.last, p.last) # 0
        <5>1. In(p, b.deferred)
          BY <2>4, <2>10, <4>1, <4>3, RemoveDeferredFacts
        <5>2. QED
          BY <2>10, <5>1 DEF DealtWith
      <4>4. CASE Compare(e.tsd.last, p.last) = 0
        <5>1. /\ e.tsd.last \in Nat /\ p.last \in Nat
              /\ Occurrence(p) = p.last + 1 /\ Occurrence(e.tsd) = e.tsd.last + 1
          BY <2>4, <4>2, OccurrenceType
        <5>2. Compare(e.tsd.last, p.last) = e.tsd.last - p.last
          BY <2>4, <4>2, <5>1, CompareFacts
        <5>3. e.tsd.last = p.last
          BY <4>4, <5>1, <5>2
        <5>4. x = e.date
          BY <2>4, <2>10, <5>1, <5>3
        <5>5. QED
          BY <2>9, <5>4
      <4>5. QED
        BY <4>3, <4>4
    <3>2. CASE ~(e.orig = "postponed" /\ e.state # "postponed")
      <4>1. b.deferred = a.deferred \/ b.deferred = AddDeferred(a.deferred, e.tsd)
        BY <2>2, <3>2 DEF Kept
      <4>2. In(p, b.deferred)
        BY <2>4, <2>10, <4>1, AddDeferredFacts
      <4>3. QED
        BY <2>10, <4>2 DEF DealtWith
    <3>3. QED
      BY <3>1, <3>2
  <2>11. \A x \in Days : DealtWith(x, a, t, d) => DealtWith(x, b, t, d)
    <3>1. ASSUME NEW x \in Days, DealtWith(x, a, t, d) PROVE DealtWith(x, b, t, d)
      <4>1. CASE \E p : In(p, a.deferred) /\ Occurrence(p) = x
        BY <2>10, <4>1
      <4>2. CASE ~\E p : In(p, a.deferred) /\ Occurrence(p) = x
        <5>1. t[x] > 0 \/ x \in d.ignored \cup d.lost \cup a.ignored \cup a.left \/ In(x, a.made)
          BY <3>1, <4>2 DEF DealtWith
        <5>2. QED
          BY <2>8, <5>1
      <4>3. QED
        BY <4>1, <4>2
    <3>2. QED
      BY <3>1
  <2>12. ASSUME NEW x \in Days, Covered(x, s, t, d) \/ \E j \in 1 .. i : list[j].date = x
         PROVE  DealtWith(x, b, t, d)
    <3>1. CASE x = e.date
      BY <2>9, <3>1
    <3>2. CASE x # e.date
      <4>1. Covered(x, s, t, d) \/ \E j \in 1 .. k : list[j].date = x
        BY <2>3, <2>12, <3>2
      <4>2. DealtWith(x, a, t, d)
        BY <1>2, <4>1 DEF CoveredSoFar, a
      <4>3. QED
        BY <2>11, <4>2
    <3>3. QED
      BY <3>1, <3>2
  <2>13. CoveredSoFar(b, i, list, s, t, d)
    BY <2>12 DEF CoveredSoFar
  <2>14. QED
    BY <2>13 DEF b, i
<1>3. n \in Nat /\ \A k \in Nat : k < n => k + 1 <= n
  BY RunTurns
<1>4. K \in SUBSET Nat /\ \A k \in K : k < n => k + 1 \in K
  BY <1>2, <1>3
<1>5. \A k \in 0 .. n : k \in K
  <2> HIDE DEF K
  <2>1. QED
    BY <1>1, <1>3, <1>4, UpTo
<1>6. QED
  BY <1>5

\* The instances keep all but their states; created are those that were and those passed as such.
ListSoFar(r, k, list, tr) ==
    /\ r.list \in Seq(Shown) /\ Len(r.list) = Len(list)
    /\ \A j \in 1 .. Len(list) :
         /\ SameButState(r.list[j], list[j])
         /\ r.list[j].state = "created" =>
              list[j].state = "created" \/ (j \in 1 .. k /\ Makes(list, tr, j))
    /\ \A j \in 1 .. k : Goes(list, tr, j) /\ list[j].state = "to-create" => r.list[j].state = "created"

LEMMA RunList ==
    ASSUME NEW f, NEW list, NEW s, NEW t, NEW d, NEW n, NEW tr, RunFrom(f, list, s, t, d, n, tr)
    PROVE  \A k \in 0 .. n : ListSoFar(f[k], k, list, tr)
<1> DEFINE K == {k \in Nat : ListSoFar(f[k], k, list, tr)}
<1>1. 0 \in K
  <2>1. f[0].list = list /\ list \in Seq(Shown)
    BY RunStart DEF RunFrom
  <2>2. 1 .. 0 = {}
    OBVIOUS
  <2>3. QED
    BY <2>1, <2>2 DEF ListSoFar, SameButState
<1>2. ASSUME NEW k \in Nat, k + 1 <= n, ListSoFar(f[k], k, list, tr)
      PROVE  ListSoFar(f[k + 1], k + 1, list, tr)
  <2> DEFINE i == k + 1
             e == list[i]
             a == f[k]
             b == f[i]
  <2>1. i \in 1 .. n /\ i \in 1 .. Len(list) /\ TurnIs(a, b, i, e, tr)
        /\ a.list \in Seq(Shown) /\ Len(a.list) = Len(list) /\ n <= Len(list)
    <3>1. k \in 0 .. n - 1
      BY <1>2, RunTurns
    <3>2. QED
      BY <1>2, <3>1, RunTurns DEF ListSoFar
  <2>2. b.list = IF Goes(list, tr, i) /\ e.state = "to-create" THEN WithState(a.list, i, "created") ELSE a.list
    BY <2>1 DEF TurnIs, Goes
  <2>3. (\A j \in 1 .. i : j \in 1 .. k \/ j = i) /\ (\A j \in 1 .. k : j \in 1 .. i) /\ i \in 1 .. i
    OBVIOUS
  <2>4. \A j \in 1 .. k : j \in 1 .. Len(list)
    BY <2>1, <1>2, RunTurns
  <2> HIDE DEF i, a, b
  <2>5. CASE Goes(list, tr, i) /\ e.state = "to-create"
    <3>1. b.list = WithState(a.list, i, "created")
      BY <2>2, <2>5
    <3>2. "created" \in States
      BY DEF States
    <3>3. /\ b.list \in Seq(Shown) /\ Len(b.list) = Len(list)
          /\ \A j \in 1 .. Len(list) :
               /\ SameButState(b.list[j], a.list[j])
               /\ b.list[j].state = "created" => a.list[j].state = "created" \/ j = i
               /\ a.list[j].state = "created" => b.list[j].state = "created"
          /\ b.list[i].state = "created"
      BY <2>1, <3>1, <3>2, WithStateFacts
    <3>4. Makes(list, tr, i)
      BY <2>5 DEF Makes, Enters, Goes, Passes
    <3>5. \A j \in 1 .. Len(list) : SameButState(b.list[j], list[j])
      BY <1>2, <3>3 DEF ListSoFar, SameButState, a
    <3>6. QED
      BY <1>2, <2>3, <2>4, <3>3, <3>4, <3>5 DEF ListSoFar, a, b, i
  <2>6. CASE ~(Goes(list, tr, i) /\ e.state = "to-create")
    <3>1. b.list = a.list
      BY <2>2, <2>6
    <3>2. ListSoFar(b, i, list, tr)
      BY <1>2, <2>3, <2>6, <3>1 DEF ListSoFar, a
    <3>3. QED
      BY <3>2 DEF b, i
  <2>7. QED
    BY <2>5, <2>6
<1>3. n \in Nat /\ \A k \in Nat : k < n => k + 1 <= n
  BY RunTurns
<1>4. K \in SUBSET Nat /\ \A k \in K : k < n => k + 1 \in K
  BY <1>2, <1>3
<1>5. \A k \in 0 .. n : k \in K
  <2> HIDE DEF K
  <2>1. QED
    BY <1>1, <1>3, <1>4, UpTo
<1>6. QED
  BY <1>5

-----------------------------------------------------------------------------
(* Runs in which nothing is postponed and no formula fails.                *)

Plain(list, tr, d, n) ==
    /\ d.postponed = {} /\ d.flawed = {} /\ d.crashed = FALSE
    /\ \A i \in 1 .. n : list[i].state # "postponed" /\ (Makes(list, tr, i) => Goes(list, tr, i))

\* What is passed is after all that was past or passed before.
LEMMA RunOrder ==
    ASSUME NEW f, NEW list, NEW s, NEW t, NEW d, NEW n, NEW tr, RunFrom(f, list, s, t, d, n, tr),
           Plain(list, tr, d, n), NEW k \in 0 .. n - 1, Goes(list, tr, k + 1)
    PROVE  /\ list[k + 1].date \in Nat /\ Last0(f[k].last) \in Nat /\ Last0(s.last) \in Nat
           /\ Last0(f[k].last) < list[k + 1].date /\ Last0(s.last) < list[k + 1].date
           /\ \A j \in 1 .. k : list[j].date # list[k + 1].date
           /\ list[k + 1].state \in {"ignored", "to-create"}
<1> DEFINE i == k + 1
           e == list[i]
<1>1. /\ i \in 1 .. n /\ i \in 1 .. Len(list) /\ k \in 0 .. n /\ InstanceOK(e, s, t, d)
      /\ Len(list) \in Nat /\ n \in Nat /\ n <= Len(list)
      /\ \A j \in 1 .. Len(list) : InstanceOK(list[j], s, t, d)
  BY RunTurns
<1>2. LastSoFar(f[k], k, list, s, tr)
  BY <1>1, RunLast
<1>3. \A j \in 1 .. Len(list) : list[j].date \in Nat /\ list[j].date # NoDay
  BY <1>1, DayFacts DEF InstanceOK
<1>4. s.last \in {NoDay} \cup Days /\ Last0(s.last) \in Nat
  BY ScheduleParts, Last0Facts DEF RunFrom
<1>5. Last0(f[k].last) \in Nat
  BY <1>2, DayFacts DEF LastSoFar, Last0
<1>6. e.state \in {"ignored", "to-create"}
  BY <1>1 DEF Goes, Passes, Plain
<1>7. Last0(s.last) < e.date
  <2>1. Fresh(e.date, s, d)
    BY <1>1, <1>6 DEF RunFrom, ListOK, FreshOK
  <2>2. ~Escaped(e.date, d) /\ e.date \notin d.flawed
    BY DEF Plain, Escaped
  <2>3. QED
    BY <1>1, <1>3, <1>4, <2>1, <2>2 DEF Fresh
<1>8. ASSUME NEW j \in 1 .. k PROVE list[j].date < e.date
  <2>1. j \in 1 .. Len(list) /\ j \in Nat /\ j < i
    BY <1>1
  <2>2. e.date - list[j].date = i - j
    BY <1>1, <2>1 DEF RunFrom, ListOK, DatesOK, Plain
  <2>3. e.date \in Nat /\ list[j].date \in Nat /\ i \in Nat
    BY <1>1, <1>3, <2>1
  <2> HIDE DEF e, i
  <2>4. QED
    BY <2>1, <2>2, <2>3
<1>9. Last0(f[k].last) < e.date
  <2>1. CASE f[k].last = s.last
    BY <1>7, <2>1
  <2>2. CASE \E j \in 1 .. k : f[k].last = list[j].date
    <3>1. PICK j \in 1 .. k : f[k].last = list[j].date
      BY <2>2
    <3>2. j \in 1 .. Len(list)
      BY <1>1
    <3>3. f[k].last # NoDay
      BY <1>3, <3>1, <3>2
    <3>4. QED
      BY <1>8, <3>1, <3>3 DEF Last0
  <2>3. QED
    BY <1>2, <2>1, <2>2 DEF LastSoFar
<1>10. \A j \in 1 .. k : list[j].date # e.date
  <2>1. TAKE j \in 1 .. k
  <2>2. j \in 1 .. Len(list)
    BY <1>1
  <2>3. list[j].date \in Nat /\ e.date \in Nat
    BY <1>1, <1>3, <2>2
  <2>4. QED
    BY <1>8, <2>3
<1>11. QED
  BY <1>1, <1>3, <1>4, <1>5, <1>6, <1>7, <1>9, <1>10

LEMMA LaterIs ==
    ASSUME NEW m \in {NoDay} \cup Days, NEW e \in Days, Last0(m) < e
    PROVE  Later(m, e) = e /\ Last0(e) = e
<1>1. e \in Nat /\ e # NoDay /\ (m # NoDay => m \in Nat)
  BY DayFacts
<1>2. Later(m, e) \in {m, e} /\ e <= Later(m, e)
  BY <1>1, LaterFacts
<1>3. CASE m = NoDay
  BY <1>1, <1>3, LaterFacts DEF Last0
<1>4. CASE m # NoDay
  BY <1>1, <1>2, <1>4 DEF Last0
<1>5. QED
  BY <1>3, <1>4

NumSoFar(r) == r.num = Last0(r.last) + 1

LEMMA RunNum ==
    ASSUME NEW f, NEW list, NEW s, NEW t, NEW d, NEW n, NEW tr, RunFrom(f, list, s, t, d, n, tr),
           Plain(list, tr, d, n), s.num = Last0(s.last) + 1, NumbersOK(list)
    PROVE  \A k \in 0 .. n : NumSoFar(f[k])
<1> DEFINE K == {k \in Nat : NumSoFar(f[k])}
<1>1. 0 \in K
  <2>1. f[0].last = s.last /\ f[0].num = s.num
    BY RunStart
  <2>2. QED
    BY <2>1 DEF NumSoFar
<1>2. ASSUME NEW k \in Nat, k + 1 <= n, NumSoFar(f[k])
      PROVE  NumSoFar(f[k + 1])
  <2> DEFINE i == k + 1
             e == list[i]
             a == f[k]
             b == f[i]
  <2>0. k \in 0 .. n - 1
    BY <1>2, RunTurns
  <2>1. i \in 1 .. Len(list) /\ TurnIs(a, b, i, e, tr) /\ InstanceOK(e, s, t, d)
        /\ LastSoFar(a, k, list, s, tr)
    BY <2>0, RunTurns, RunLast
  <2>2. /\ b.last = IF Goes(list, tr, i) THEN Later(a.last, e.date) ELSE a.last
        /\ b.num = IF Goes(list, tr, i) THEN e.tsd.num + 1 ELSE a.num
    BY <2>1 DEF TurnIs, Goes
  <2>3. e.tsd.num = e.date /\ e.date \in Days /\ a.last \in {NoDay} \cup Days
    BY <2>1 DEF NumbersOK, InstanceOK, LastSoFar
  <2>4. Goes(list, tr, i) => Last0(a.last) < e.date
    BY <2>0, RunOrder
  <2> HIDE DEF i, a, b, e
  <2>5. Goes(list, tr, i) => Later(a.last, e.date) = e.date /\ Last0(e.date) = e.date
    BY <2>3, <2>4, LaterIs
  <2>6. NumSoFar(b)
    BY <1>2, <2>2, <2>3, <2>5 DEF NumSoFar, a
  <2>7. QED
    BY <2>6 DEF b, i
<1>3. n \in Nat /\ \A k \in Nat : k < n => k + 1 <= n
  BY RunTurns
<1>4. K \in SUBSET Nat /\ \A k \in K : k < n => k + 1 \in K
  BY <1>2, <1>3
<1>5. \A k \in 0 .. n : k \in K
  <2> HIDE DEF K
  <2>1. QED
    BY <1>1, <1>3, <1>4, UpTo
<1>6. QED
  BY <1>5

HandledSoFar(r, t, d) == {e \in Days : t[e] > 0 \/ In(e, r.made) \/ e \in d.ignored \cup r.ignored}

RemSoFar(r, s, t, d) ==
    /\ r.rem \in Nat /\ r.rem + Cardinality(HandledSoFar(r, t, d)) = s.total
    /\ Last0(s.last) + s.rem <= Last0(r.last) + r.rem

LEMMA RunRem ==
    ASSUME NEW f, NEW list, NEW s, NEW t, NEW d, NEW n, NEW tr, RunFrom(f, list, s, t, d, n, tr),
           Plain(list, tr, d, n), BoundOK(list, s),
           s.rem + Cardinality({e \in Days : t[e] > 0 \/ e \in d.ignored}) = s.total
    PROVE  \A k \in 0 .. n : RemSoFar(f[k], s, t, d)
<1> DEFINE K == {k \in Nat : RemSoFar(f[k], s, t, d)}
<1>0. /\ s.rem \in Nat /\ s.total \in Nat /\ Last0(s.last) \in Nat
      /\ \A e \in d.ignored : e <= Last0(s.last)
      /\ \A e \in Days : t[e] > 0 => e <= Last0(s.last)
  <2>1. s \in Schedule /\ Settled(s, t, d)
    BY DEF RunFrom
  <2>2. \A e \in Days : ~Escaped(e, d) /\ e \notin d.flawed
    BY DEF Plain, Escaped
  <2>3. ~d.crashed
    BY DEF Plain
  <2>4. \A e \in Days : t[e] > 0 => e <= Last0(s.last)
    BY <2>1, <2>2, <2>3 DEF Settled
  <2>5. s.rem \in Nat /\ s.total \in Nat /\ Last0(s.last) \in Nat
    BY <2>1, ScheduleParts, Last0Facts
  <2>6. \A e \in d.ignored : e \in 1 .. Last0(s.last)
    BY <2>1 DEF Settled
  <2>7. QED
    BY <2>4, <2>5, <2>6
<1>1. 0 \in K
  <2>1. f[0].last = s.last /\ f[0].rem = s.rem /\ f[0].made = <<>> /\ f[0].ignored = {}
    BY RunStart
  <2>2. \A e : ~In(e, <<>>)
    BY DEF In
  <2>3. HandledSoFar(f[0], t, d) = {e \in Days : t[e] > 0 \/ e \in d.ignored}
    BY <2>1, <2>2 DEF HandledSoFar
  <2>4. f[0].rem + Cardinality(HandledSoFar(f[0], t, d)) = s.total
    BY <2>1, <2>3
  <2>5. f[0].rem \in Nat /\ Last0(s.last) + s.rem <= Last0(f[0].last) + f[0].rem
    BY <1>0, <2>1
  <2>6. QED
    BY <2>4, <2>5 DEF RemSoFar
<1>2. ASSUME NEW k \in Nat, k + 1 <= n, RemSoFar(f[k], s, t, d)
      PROVE  RemSoFar(f[k + 1], s, t, d)
  <2> DEFINE i == k + 1
             e == list[i]
             a == f[k]
             b == f[i]
             A == HandledSoFar(a, t, d)
             B == HandledSoFar(b, t, d)
  <2>0. k \in 0 .. n - 1 /\ k \in 0 .. n
    BY <1>2, RunTurns
  <2>1. i \in 1 .. n /\ i \in 1 .. Len(list) /\ TurnIs(a, b, i, e, tr) /\ InstanceOK(e, s, t, d)
        /\ LastSoFar(a, k, list, s, tr) /\ MadeSoFar(a, k, list, tr) /\ PickedSoFar(a, k, s, list)
        /\ a \in Run
    BY <2>0, RunTurns, RunLast, RunMade, RunPicked
  <2>2. /\ b.last = IF Goes(list, tr, i) THEN Later(a.last, e.date) ELSE a.last
        /\ b.rem = IF Goes(list, tr, i) THEN (IF a.rem > 0 THEN a.rem - 1 ELSE a.rem) ELSE a.rem
        /\ b.made = IF Makes(list, tr, i) THEN Append(a.made, e.date) ELSE a.made
        /\ b.ignored = IF e.state = "ignored" THEN a.ignored \cup {e.date} ELSE a.ignored
    BY <2>1 DEF TurnIs, Goes, Makes
  <2>3. e.date \in Days /\ e.date \in Nat /\ a.last \in {NoDay} \cup Days /\ a.made \in Seq(Days)
    BY <2>1, DayFacts DEF InstanceOK, LastSoFar, Run
  <2>4. e.date <= Last0(s.last) + s.rem
    BY <2>1 DEF BoundOK
  <2>5. Makes(list, tr, i) => Goes(list, tr, i)
    BY <2>1 DEF Plain
  <2>6. e.state = "ignored" => Goes(list, tr, i)
    BY DEF Goes, Passes
  <2>7. e.state = "to-create" /\ Goes(list, tr, i) => Makes(list, tr, i)
    BY DEF Goes, Passes, Makes, Enters
  <2>8. Goes(list, tr, i) => /\ Last0(a.last) < e.date /\ Last0(s.last) < e.date
                             /\ Last0(a.last) \in Nat
                             /\ \A j \in 1 .. k : list[j].date # e.date
                             /\ e.state \in {"ignored", "to-create"}
    BY <2>0, RunOrder
  <2>9. IsFiniteSet(A)
    <3>1. IsFiniteSet(Days)
      BY HorizonFacts, FS_Interval DEF Days
    <3>2. A \in SUBSET Days
      BY DEF HandledSoFar
    <3> HIDE DEF A
    <3>3. QED
      BY <3>1, <3>2, FS_Subset
  <2>10. ASSUME Goes(list, tr, i) PROVE e.date \notin A
    <3>1. ~(t[e.date] > 0) /\ e.date \notin d.ignored
      BY <1>0, <2>3, <2>8, <2>10
    <3>2. ~In(e.date, a.made) /\ e.date \notin a.ignored
      BY <2>1, <2>3, <2>8, <2>10 DEF MadeSoFar, PickedSoFar
    <3>3. QED
      BY <3>1, <3>2 DEF HandledSoFar
  <2>11. ASSUME Goes(list, tr, i) PROVE B = A \cup {e.date}
    <3>1. \A x : x \in b.ignored \/ In(x, b.made) <=> x \in a.ignored \/ In(x, a.made) \/ x = e.date
      <4> HIDE DEF a, b, i, e
      <4>1. \A x : In(x, Append(a.made, e.date)) <=> x = e.date \/ In(x, a.made)
        BY <2>3, AppendIn
      <4>2. e.state = "ignored" \/ Makes(list, tr, i)
        BY <2>7, <2>8, <2>11
      <4>3. \A x : x \in b.ignored <=> x \in a.ignored \/ (e.state = "ignored" /\ x = e.date)
        BY <2>2
      <4>4. \A x : In(x, b.made) <=> In(x, a.made) \/ (Makes(list, tr, i) /\ x = e.date)
        BY <2>2, <4>1
      <4>5. QED
        BY <4>2, <4>3, <4>4
    <3>2. QED
      BY <2>3, <3>1 DEF HandledSoFar
  <2>12. ASSUME ~Goes(list, tr, i) PROVE B = A /\ b.last = a.last /\ b.rem = a.rem
    <3>1. b.made = a.made /\ b.ignored = a.ignored
      BY <2>2, <2>5, <2>6, <2>12
    <3>2. QED
      BY <2>2, <2>12, <3>1 DEF HandledSoFar
  <2>13. a.rem \in Nat /\ a.rem + Cardinality(A) = s.total /\ Last0(s.last) + s.rem <= Last0(a.last) + a.rem
    BY <1>2 DEF RemSoFar
  <2>14. Goes(list, tr, i) => Last0(b.last) = e.date
    BY <2>2, <2>3, <2>8, LaterIs
  <2>15. Cardinality(A) \in Nat
    BY <2>9, FS_CardinalityType
  <2> HIDE DEF A, B, a, b, i, e
  <2>16. CASE Goes(list, tr, i)
    <3>1. a.rem > 0 /\ b.rem = a.rem - 1
      BY <1>0, <2>2, <2>3, <2>4, <2>8, <2>13, <2>16
    <3>2. Cardinality(B) = Cardinality(A) + 1
      BY <2>9, <2>10, <2>11, <2>16, FS_AddElement
    <3>3. b.rem \in Nat /\ b.rem + Cardinality(B) = s.total
      BY <2>13, <2>15, <3>1, <3>2
    <3>4. Last0(s.last) + s.rem <= Last0(b.last) + b.rem
      BY <1>0, <2>3, <2>8, <2>13, <2>14, <2>16, <3>1
    <3>5. QED
      BY <3>3, <3>4 DEF RemSoFar, B, b, i
  <2>17. CASE ~Goes(list, tr, i)
    <3>1. B = A /\ b.last = a.last /\ b.rem = a.rem
      BY <2>12, <2>17
    <3>2. QED
      BY <2>13, <3>1 DEF RemSoFar, B, b, i
  <2>18. QED
    BY <2>16, <2>17
<1>3. n \in Nat /\ \A k \in Nat : k < n => k + 1 <= n
  BY RunTurns
<1>4. K \in SUBSET Nat /\ \A k \in K : k < n => k + 1 \in K
  BY <1>2, <1>3
<1>5. \A k \in 0 .. n : k \in K
  <2> HIDE DEF K
  <2>1. QED
    BY <1>1, <1>3, <1>4, UpTo
<1>6. QED
  BY <1>5

-----------------------------------------------------------------------------
(* What a run leaves.                                                      *)

\* u is t with the transactions made.
AddedTo(t, u, made) ==
    \A e \in Days :
      /\ u[e] \in 0 .. 2 /\ t[e] \in 0 .. 2
      /\ t[e] > 0 => u[e] > 0
      /\ In(e, made) => u[e] > 0
      /\ ~In(e, made) => u[e] = t[e]
      /\ t[e] = 0 /\ Once(made, e) => u[e] <= 1

\* v, u and g are what the run r made of s, t and d.
Outcome(r, s, t, d, v, u, g, flawed) ==
    /\ v \in Schedule /\ SameSettings(v, s) /\ v.last = Moved(s.last, r.last) /\ v.deferred = r.deferred
    /\ AddedTo(t, u, r.made)
    /\ g \in History /\ g.limited = d.limited /\ g.crashed = d.crashed
    /\ g.ignored = d.ignored \cup r.ignored /\ g.postponed = d.postponed \cup r.postponed
    /\ g.lost = d.lost \cup Overtaken(r.left, r.last)
    /\ g.flawed = d.flawed \cup {e \in flawed : In(e, r.made)}

LEMMA MovedIs ==
    ASSUME NEW s \in Schedule, NEW r, NEW k, NEW list, NEW tr, LastSoFar(r, k, list, s, tr)
    PROVE  Moved(s.last, r.last) = r.last
<1>1. /\ s.last \in {NoDay} \cup Days /\ r.last \in {NoDay} \cup Days
      /\ Last0(s.last) <= Last0(r.last)
  BY ScheduleParts DEF LastSoFar
<1>2. \A e \in Days : e \in Nat /\ 1 <= e /\ e # NoDay
  BY DayFacts
<1>3. CASE s.last = NoDay
  BY <1>3 DEF Moved
<1>4. CASE s.last # NoDay
  <2>1. s.last \in Nat /\ 1 <= s.last
    BY <1>1, <1>2, <1>4
  <2>2. r.last # NoDay
    BY <1>1, <1>4, <2>1 DEF Last0
  <2>3. r.last \in Nat
    BY <1>1, <1>2, <2>2
  <2>4. Compare(s.last, r.last) = s.last - r.last
    BY <1>4, <2>1, <2>2, <2>3, CompareFacts
  <2>5. Compare(s.last, r.last) = 0 => s.last = r.last
    BY <2>1, <2>3, <2>4
  <2>6. QED
    BY <2>5 DEF Moved
<1>5. QED
  BY <1>3, <1>4

LEMMA RunGrows ==
    ASSUME NEW r, NEW s, NEW t, NEW d, NEW v, NEW u, NEW g, NEW flawed, Outcome(r, s, t, d, v, u, g, flawed)
    PROVE  Grows(s, t, d, v, u, g)
BY DEF Outcome, Grows, SameSettings, AddedTo, History

\* What is passed until some date was dealt with.
LEMMA RunDealt ==
    ASSUME NEW f, NEW list, NEW s, NEW t, NEW d, NEW n, NEW tr, RunFrom(f, list, s, t, d, n, tr)
    PROVE  /\ \A e \in 1 .. Last0(f[n].last) : e \in Days /\ DealtWith(e, f[n], t, d)
           /\ Last0(f[n].last) \in Nat /\ Last0(s.last) \in Nat /\ Last0(s.last) <= Last0(f[n].last)
           /\ \A e \in f[n].postponed \cup f[n].ignored : e \in 1 .. Last0(f[n].last)
           /\ f[n].last \in {NoDay} \cup Days
<1> DEFINE r == f[n]
<1>1. /\ n \in Nat /\ Len(list) \in Nat /\ n <= Len(list) /\ n \in 0 .. n
      /\ \A i \in 1 .. Len(list) : InstanceOK(list[i], s, t, d)
  BY RunTurns
<1>2. LastSoFar(r, n, list, s, tr) /\ PickedSoFar(r, n, s, list) /\ CoveredSoFar(r, n, list, s, t, d)
  BY <1>1, RunLast, RunPicked, RunCovers
<1>3. s \in Schedule /\ Settled(s, t, d) /\ DatesOK(list, s, d) /\ Last0(s.last) \in Nat
  BY Last0Facts DEF RunFrom, ListOK
<1> HIDE DEF r
<1>4. r.last \in {NoDay} \cup Days /\ Last0(r.last) \in Nat /\ Last0(r.last) <= Horizon
      /\ Last0(s.last) <= Last0(r.last)
  BY <1>2, DayFacts, HorizonFacts DEF LastSoFar, Last0
<1>5. ASSUME NEW e \in 1 .. Last0(r.last) PROVE e \in Days /\ DealtWith(e, r, t, d)
  <2>1. e \in Days
    BY <1>4, HorizonFacts DEF Days
  <2>2. CASE e \in 1 .. Last0(s.last)
    BY <1>2, <1>3, <2>1, <2>2 DEF Settled, CoveredSoFar
  <2>3. CASE ~(e \in 1 .. Last0(s.last))
    <3>1. Last0(s.last) < e
      BY <1>3, <1>4, <2>3
    <3>2. r.last # s.last
      BY <1>3, <1>4, <3>1
    <3>3. PICK i \in 1 .. n : r.last = list[i].date
      BY <1>2, <3>2 DEF LastSoFar
    <3>4. i \in 1 .. Len(list)
      BY <1>1
    <3>5. list[i].date # NoDay
      BY <1>1, <3>4, DayFacts DEF InstanceOK
    <3>6. e <= list[i].date
      BY <1>4, <3>3, <3>5 DEF Last0
    <3>7. \E k \in 1 .. i : list[k].date = e
      BY <1>3, <2>1, <3>1, <3>4, <3>6 DEF DatesOK
    <3>8. \E k \in 1 .. n : list[k].date = e
      BY <1>1, <3>7
    <3>9. QED
      BY <1>2, <2>1, <3>8 DEF CoveredSoFar
  <2>4. QED
    BY <2>2, <2>3
<1>6. ASSUME NEW e \in r.postponed \cup r.ignored PROVE e \in 1 .. Last0(r.last)
  <2>1. PICK i \in 1 .. n : list[i].state \in {"postponed", "ignored"} /\ list[i].date = e
    BY <1>2 DEF PickedSoFar
  <2>2. Goes(list, tr, i)
    BY <2>1 DEF Goes, Passes
  <2>3. e <= Last0(r.last)
    BY <1>2, <2>1, <2>2 DEF LastSoFar
  <2>4. i \in 1 .. Len(list)
    BY <1>1
  <2>5. e \in Nat /\ 1 <= e
    BY <1>1, <2>1, <2>4, DayFacts DEF InstanceOK
  <2>6. QED
    BY <1>4, <2>3, <2>5
<1>7. QED
  BY <1>3, <1>4, <1>5, <1>6 DEF r

LEMMA RunSettles ==
    ASSUME NEW f, NEW list, NEW s, NEW t, NEW d, NEW n, NEW tr, RunFrom(f, list, s, t, d, n, tr),
           NEW v, NEW u, NEW g, Outcome(f[n], s, t, d, v, u, g, tr.flawed)
    PROVE  v.last = f[n].last /\ Settled(v, u, g)
<1> DEFINE r == f[n]
<1>1. /\ n \in Nat /\ Len(list) \in Nat /\ n <= Len(list) /\ n \in 0 .. n
      /\ \A i \in 1 .. Len(list) : InstanceOK(list[i], s, t, d)
  BY RunTurns
<1>2. /\ LastSoFar(r, n, list, s, tr) /\ PickedSoFar(r, n, s, list) /\ MadeSoFar(r, n, list, tr)
  BY <1>1, RunLast, RunPicked, RunMade
<1>3. /\ s \in Schedule /\ d \in History /\ LimitKeptIn(d) /\ Settled(s, t, d) /\ DatesOK(list, s, d)
      /\ FreshOK(list, s, d) /\ EntriesOK(list, s, t, d)
  BY DEF RunFrom, ListOK
<1>4. /\ \A e \in 1 .. Last0(r.last) : e \in Days /\ DealtWith(e, r, t, d)
      /\ Last0(r.last) \in Nat /\ Last0(s.last) \in Nat /\ Last0(s.last) <= Last0(r.last)
      /\ \A e \in r.postponed \cup r.ignored : e \in 1 .. Last0(r.last)
  BY RunDealt
<1> HIDE DEF r
<1>5. /\ v.last = r.last /\ v.total = s.total /\ v.deferred = r.deferred
      /\ g \in History /\ g.limited = d.limited /\ g.crashed = d.crashed
      /\ g.ignored = d.ignored \cup r.ignored /\ g.postponed = d.postponed \cup r.postponed
      /\ g.lost = d.lost \cup Overtaken(r.left, r.last) /\ g.flawed = d.flawed \cup {e \in tr.flawed : In(e, r.made)}
      /\ AddedTo(t, u, r.made)
  BY <1>2, <1>3, MovedIs DEF Outcome, SameSettings, r
<1>6. DeferredOK(v, g)
  <2>1. ASSUME NEW x, In(x, v.deferred)
        PROVE  /\ x.last # NoDay /\ Occurrence(x) \in g.postponed /\ Occurrence(x) <= Last0(v.last)
               /\ ~g.limited /\ v.total # 0 => x.rem >= 1
    <3>1. CASE In(x, s.deferred)
      <4>1. /\ x.last # NoDay /\ Occurrence(x) \in d.postponed /\ Occurrence(x) <= Last0(s.last)
            /\ ~d.limited /\ s.total # 0 => x.rem >= 1
        BY <1>3, <3>1 DEF Settled, DeferredOK
      <4>2. Occurrence(x) \in Nat
        BY <1>3, <4>1, DayNumbers
      <4>3. QED
        BY <1>4, <1>5, <4>1, <4>2
    <3>2. CASE \E i \in 1 .. n : list[i].state = "postponed" /\ list[i].tsd = x
      <4>1. PICK i \in 1 .. n : list[i].state = "postponed" /\ list[i].tsd = x
        BY <3>2
      <4>2. i \in 1 .. Len(list)
        BY <1>1
      <4>3. EntryOK(list[i], s, t, d)
        BY <1>3, <4>2 DEF EntriesOK
      <4>4. Goes(list, tr, i)
        BY <4>1 DEF Goes, Passes
      <4>5. list[i].date = Occurrence(x) /\ x.last # NoDay
            /\ (~d.limited /\ s.total # 0 => x.rem >= 1)
        BY <4>1, <4>3 DEF EntryOK
      <4>6. Occurrence(x) \in r.postponed /\ Occurrence(x) <= Last0(r.last)
        BY <1>2, <4>1, <4>4, <4>5 DEF PickedSoFar, LastSoFar
      <4>7. QED
        BY <1>5, <4>5, <4>6
    <3>3. QED
      BY <1>2, <1>5, <2>1, <3>1, <3>2 DEF PickedSoFar
  <2>2. QED
    BY <2>1 DEF DeferredOK
<1>7. g.postponed \cup g.ignored \subseteq 1 .. Last0(v.last)
  <2>1. \A e \in d.postponed \cup d.ignored : e \in 1 .. Last0(s.last)
    BY <1>3 DEF Settled
  <2>2. \A e \in 1 .. Last0(s.last) : e \in 1 .. Last0(r.last)
    BY <1>4
  <2>3. QED
    BY <1>4, <1>5, <2>1, <2>2
<1>8. \A e \in 1 .. Last0(v.last) : Covered(e, v, u, g)
  <2>1. ASSUME NEW e \in 1 .. Last0(r.last) PROVE Covered(e, v, u, g)
    <3>1. e \in Days /\ DealtWith(e, r, t, d)
      BY <1>4
    <3>2. e \in r.left => e \in Overtaken(r.left, r.last)
      BY <1>4, LastReached DEF Overtaken
    <3>3. QED
      BY <1>5, <3>1, <3>2 DEF DealtWith, Covered, AddedTo
  <2>2. QED
    BY <1>5, <2>1
<1>9. ASSUME ~g.crashed, NEW e \in Days \ g.flawed, ~Escaped(e, g)
      PROVE  u[e] <= 1 /\ (u[e] > 0 => e <= Last0(v.last))
  <2>1. e \notin d.flawed /\ ~Escaped(e, d) /\ e \in Nat
    BY <1>5, <1>9, DayFacts DEF Escaped
  <2>2. t[e] <= 1 /\ (t[e] > 0 => e <= Last0(s.last)) /\ t[e] \in 0 .. 2
    BY <1>3, <1>5, <1>9, <2>1 DEF Settled, AddedTo
  <2>3. CASE ~In(e, r.made)
    <3>1. u[e] = t[e]
      BY <1>5, <2>3 DEF AddedTo
    <3>2. QED
      BY <1>4, <1>5, <2>1, <2>2, <3>1
  <2>4. CASE In(e, r.made)
    <3>1. PICK i \in 1 .. n : Makes(list, tr, i) /\ list[i].date = e
      BY <1>2, <2>4 DEF MadeSoFar
    <3>2. i \in 1 .. Len(list)
      BY <1>1
    <3>3. Fresh(e, s, d)
      BY <1>3, <3>1, <3>2 DEF Makes, Enters, FreshOK
    <3>4. e > Last0(s.last)
      BY <2>1, <3>3 DEF Fresh
    <3>5. t[e] = 0
      BY <1>4, <2>1, <2>2, <3>4
    <3>6. Once(r.made, e)
      <4>1. ASSUME NEW j \in 1 .. n, NEW m \in 1 .. n, list[j].date = e, list[m].date = e PROVE j = m
        <5>1. j \in 1 .. Len(list) /\ m \in 1 .. Len(list)
          BY <1>1
        <5>2. e \notin d.postponed
          BY <2>1 DEF Escaped
        <5>3. QED
          BY <1>3, <4>1, <5>1, <5>2 DEF DatesOK
      <4>2. MadeByOne(n, list, tr, e)
        BY <4>1 DEF MadeByOne
      <4>3. QED
        BY <1>2, <4>2 DEF MadeSoFar
    <3>7. u[e] <= 1
      BY <1>5, <3>5, <3>6 DEF AddedTo
    <3>8. e <= Last0(v.last)
      <4>1. e \notin tr.flawed
        BY <1>5, <1>9, <2>4
      <4>2. InstanceOK(list[i], s, t, d)
        BY <1>1, <3>2
      <4>3. Goes(list, tr, i)
        BY <3>1, <4>1, <4>2 DEF Makes, Enters, Goes, Passes, InstanceOK
      <4>4. QED
        BY <1>2, <1>5, <3>1, <4>3 DEF LastSoFar
    <3>9. QED
      BY <3>7, <3>8
  <2>5. QED
    BY <2>3, <2>4
<1>10. QED
  BY <1>5, <1>6, <1>7, <1>8, <1>9 DEF Settled, r

\* The list a dialog shows after what is automatic was carried out.
LEMMA RunEntries ==
    ASSUME NEW f, NEW list, NEW s, NEW t, NEW d, NEW n, NEW tr, RunFrom(f, list, s, t, d, n, tr),
           NEW v, NEW u, NEW g, Outcome(f[n], s, t, d, v, u, g, tr.flawed)
    PROVE  /\ f[n].list \in Seq(Shown) /\ Len(f[n].list) = Len(list)
           /\ EntriesOK(f[n].list, v, u, g) /\ DatesOK(f[n].list, v, g)
           /\ \A j \in 1 .. Len(list) : f[n].list[j].date = list[j].date
           /\ NumbersOK(list) => NumbersOK(f[n].list)
<1> DEFINE r == f[n]
<1>1. /\ n \in Nat /\ Len(list) \in Nat /\ n <= Len(list) /\ n \in 0 .. n
      /\ \A i \in 1 .. Len(list) : InstanceOK(list[i], s, t, d)
  BY RunTurns
<1>2. ListSoFar(r, n, list, tr) /\ MadeSoFar(r, n, list, tr)
  BY <1>1, RunList, RunMade
<1>3. DatesOK(list, s, d) /\ EntriesOK(list, s, t, d) /\ d \in History /\ list \in Seq(Shown)
  BY DEF RunFrom, ListOK
<1>4. /\ Last0(s.last) \in Nat /\ Last0(v.last) \in Nat /\ Last0(s.last) <= Last0(v.last)
  BY RunDealt, RunSettles
<1>5. /\ AddedTo(t, u, r.made) /\ d.postponed \subseteq g.postponed
  BY DEF Outcome
<1>6. Grows(s, t, d, v, u, g)
  BY RunGrows
<1> HIDE DEF r
<1>7. EntriesOK(list, v, u, g)
  BY <1>3, <1>6, EntriesKept
<1>8. DatesOK(list, v, g)
  <2>1. \A e \in Days : Last0(v.last) < e => Last0(s.last) < e
    BY <1>4, DayFacts
  <2>2. g.postponed = {} => d.postponed = {}
    BY <1>5
  <2>3. \A e : e \in d.postponed => e \in g.postponed
    BY <1>5
  <2>4. QED
    BY <1>3, <2>1, <2>2, <2>3 DEF DatesOK
<1>9. /\ r.list \in Seq(Shown) /\ Len(r.list) = Len(list)
      /\ \A j \in 1 .. Len(list) : /\ r.list[j].date = list[j].date /\ r.list[j].tsd = list[j].tsd
                                   /\ r.list[j].orig = list[j].orig
  BY <1>2 DEF ListSoFar, SameButState
<1>10. ASSUME NEW j \in 1 .. Len(list) PROVE EntryOK(r.list[j], v, u, g)
  <2>1. EntryOK(list[j], v, u, g)
    BY <1>7 DEF EntriesOK
  <2>2. r.list[j].state = "created" => u[list[j].date] > 0
    <3>1. CASE list[j].state = "created"
      BY <2>1, <3>1 DEF EntryOK
    <3>2. CASE j \in 1 .. n /\ Makes(list, tr, j)
      <4>1. list[j].date \in Days
        BY <1>1 DEF InstanceOK
      <4>2. In(list[j].date, r.made)
        BY <1>2, <3>2, <4>1 DEF MadeSoFar
      <4>3. QED
        BY <1>5, <4>1, <4>2 DEF AddedTo
    <3>3. QED
      BY <1>2, <3>1, <3>2 DEF ListSoFar
  <2>3. QED
    BY <1>9, <2>1, <2>2 DEF EntryOK
<1>11. DatesOK(r.list, v, g)
  BY <1>8, <1>9, SameDates
<1>12. NumbersOK(list) => NumbersOK(r.list)
  BY <1>9 DEF NumbersOK
<1>13. QED
  BY <1>9, <1>10, <1>11, <1>12 DEF EntriesOK, r

LEMMA RunFresh ==
    ASSUME NEW f, NEW list, NEW s, NEW t, NEW d, NEW n, NEW tr, RunFrom(f, list, s, t, d, n, tr),
           NEW day \in 1 .. LastDay, list = Generated(s, day), n \in {0, Len(list)},
           NEW v, NEW u, NEW g, Outcome(f[n], s, t, d, v, u, g, tr.flawed)
    PROVE  FreshOK(f[n].list, v, g)
<1> DEFINE r == f[n]
           m == Len(s.deferred)
           due == day + s.lead[1]
<1>1. /\ n \in Nat /\ Len(list) \in Nat /\ n <= Len(list) /\ n \in 0 .. n
      /\ \A i \in 1 .. Len(list) : InstanceOK(list[i], s, t, d)
  BY RunTurns
<1>2. /\ ListSoFar(r, n, list, tr) /\ MadeSoFar(r, n, list, tr) /\ LastSoFar(r, n, list, s, tr)
  BY <1>1, RunList, RunMade, RunLast
<1>3. /\ s \in Schedule /\ d \in History /\ LimitKeptIn(d) /\ DeferredOK(s, d) /\ tr \in Trouble
  BY DEF RunFrom, Settled
<1>4. v.last = r.last /\ Grows(s, t, d, v, u, g)
  BY RunSettles, RunGrows
<1>5. /\ d.postponed \subseteq g.postponed
      /\ g.flawed = d.flawed \cup {e \in tr.flawed : In(e, r.made)}
  BY DEF Outcome
<1>6. /\ Len(r.list) = Len(list)
      /\ \A j \in 1 .. Len(list) : r.list[j].date = list[j].date
  BY <1>2 DEF ListSoFar, SameButState
<1>7. \A j \in 1 .. Len(list) : Fresh(list[j].date, s, d)
  BY <1>3, GeneratedOK
<1>8. day \in Nat /\ s.lead[1] \in Nat /\ due \in Nat
  BY <1>3, DueFacts
<1>9. ASSUME NEW j \in 1 .. Len(list) PROVE s.enabled /\ list[j].date \in Nat /\ list[j].date # NoDay
  <2>1. ~s.enabled => list = <<>>
    BY <1>3, GeneratedFacts
  <2>2. Len(<<>>) = 0 /\ ~(j \in 1 .. 0)
    OBVIOUS
  <2>3. s.enabled
    BY <2>1, <2>2
  <2>4. QED
    BY <1>1, <2>3, DayFacts DEF InstanceOK
<1> HIDE DEF r
<1>10. ASSUME NEW j \in 1 .. Len(list), r.list[j].state # "created"
       PROVE  Fresh(list[j].date, v, g)
  <2> DEFINE e == list[j].date
  <2>0. e \in Nat /\ e # NoDay /\ s.enabled
    BY <1>9
  <2>1. GeneratedAre(list, m, s, d, t, day)
    BY <1>3, <2>0, GeneratedDays
  <2>2. CASE r.last = s.last
    BY <1>4, <1>7, <2>2, FreshKept
  <2>3. CASE r.last # s.last /\ s.deferred # <<>>
    <3>1. PICK p \in d.postponed : Occurrence(Start(s)) = p + 1
      BY <1>3, <2>3, StartFacts
    <3>2. p \in Nat
      BY <1>3, DayNumbers
    <3>3. CASE j \in 1 .. m
      <4>1. e \in d.postponed
        BY <2>1, <3>3 DEF GeneratedAre
      <4>2. e <= e
        BY <2>0
      <4>3. QED
        BY <1>5, <4>1, <4>2 DEF Fresh, Escaped
    <3>4. CASE j \in m + 1 .. Len(list)
      <4>1. e = p + 1 + (j - m) - 1 /\ m \in Nat
        BY <2>1, <3>1, <3>4 DEF GeneratedAre
      <4>2. p <= e
        BY <1>1, <3>2, <3>4, <4>1
      <4>3. QED
        BY <1>5, <4>2 DEF Fresh, Escaped
    <3>5. j \in 1 .. m \/ j \in m + 1 .. Len(list)
      BY <1>1, <2>1 DEF GeneratedAre
    <3>6. QED
      BY <3>3, <3>4, <3>5
  <2>4. CASE r.last # s.last /\ s.deferred = <<>>
    <3>1. m = 0
      BY <2>4
    <3> HIDE DEF m, due
    <3>2. \A i \in 1 .. Len(list) : list[i].state = IF list[i].date <= due THEN "to-create" ELSE "reminder"
      <4>1. \A i \in 1 .. Len(list) : i \in m + 1 .. Len(list)
        BY <1>1, <3>1
      <4>2. QED
        BY <2>1, <4>1 DEF GeneratedAre, due
    <3>3. PICK i \in 1 .. n : Goes(list, tr, i) /\ r.last = list[i].date
      BY <1>2, <2>4 DEF LastSoFar
    <3>4. i \in 1 .. Len(list) /\ n # 0
      BY <1>1
    <3>5. list[i].state = "to-create" /\ ~tr.missing /\ list[i].date <= due
      BY <3>2, <3>3, <3>4 DEF Goes, Passes
    <3>6. Last0(v.last) = list[i].date
      BY <1>4, <1>9, <3>3, <3>4 DEF Last0
    <3>7. CASE list[j].state = "reminder"
      <4>1. ~(e <= due) /\ list[i].date \in Nat
        BY <1>9, <3>2, <3>4, <3>7
      <4>2. e > Last0(v.last)
        BY <1>8, <2>0, <3>5, <3>6, <4>1
      <4>3. QED
        BY <4>2 DEF Fresh
    <3>8. CASE list[j].state = "to-create"
      <4>1. j \in 1 .. n
        BY <1>1, <3>4
      <4>2. ~Goes(list, tr, j)
        BY <1>2, <1>10, <3>8, <4>1 DEF ListSoFar
      <4>3. InstanceOK(list[j], s, t, d)
        BY <1>1
      <4>4. e \in tr.flawed /\ e \in Days
        BY <3>5, <3>8, <4>2, <4>3 DEF Goes, Passes, InstanceOK
      <4>5. Makes(list, tr, j)
        BY <3>5, <3>8 DEF Makes, Enters
      <4>6. In(e, r.made)
        BY <1>2, <4>1, <4>4, <4>5 DEF MadeSoFar
      <4>7. QED
        BY <1>5, <4>4, <4>6 DEF Fresh
    <3>9. QED
      BY <3>2, <3>7, <3>8
  <2>5. QED
    BY <2>2, <2>3, <2>4
<1>11. QED
  BY <1>6, <1>10 DEF FreshOK, r

-----------------------------------------------------------------------------
(* What a run leaves to the dialogs.                                       *)

\* The lists of the dialogs that are told of the three commits of a run.
LEMMA NotifiedOK ==
    ASSUME NEW f, NEW list, NEW s, NEW t, NEW d, NEW n, NEW tr, RunFrom(f, list, s, t, d, n, tr),
           NEW vs, vs = Committed(s, f[n]), NEW u, NEW g,
           Outcome(f[n], s, t, d, vs[4], u, g, tr.flawed), LimitKeptIn(g),
           NEW ds \in [Dialogs -> Window], \A z \in Dialogs : WindowOK(ds[z]),
           NEW y \in Dialogs, ListOK(ds[y].list, s, t, d)
    PROVE  /\ ListOK(Notified(ds, vs)[y].list, vs[4], u, g)
           /\ vs[4].deferred = <<>> /\ vs[4].total # 0 /\ BoundOK(ds[y].list, s) =>
                BoundOK(Notified(ds, vs)[y].list, vs[4])
           /\ vs[4].deferred = <<>> /\ NumbersOK(ds[y].list)
              /\ (\A v \in 2 .. 4 : vs[v].num = Last0(vs[v].last) + 1) => NumbersOK(Notified(ds, vs)[y].list)
<1> DEFINE e == Notified(ds, vs)[y]
           w == ds[y]
<1>1. s \in Schedule /\ f[n] \in Run /\ n \in 0 .. n
  <2>1. n \in Nat /\ \A k \in 0 .. n : f[k] \in Run
    BY RunTurns
  <2>2. QED
    BY <2>1 DEF RunFrom
<1>2. /\ \A v \in 1 .. 4 : vs[v] \in Schedule /\ SameSettings(vs[v], s) /\ vs[v].deferred = f[n].deferred
      /\ vs[1].last = s.last /\ vs[1].rem = s.rem
      /\ \A v \in 2 .. 4 : vs[v].last = Moved(s.last, f[n].last)
  BY <1>1, CommittedFacts
<1>3. Settled(vs[4], u, g) /\ g \in History
  BY RunSettles DEF Outcome
<1>4. \A v \in 2 .. 4 : /\ vs[v] \in Schedule /\ vs[v].last = vs[4].last /\ vs[v].total = vs[4].total
                        /\ vs[v].deferred = vs[4].deferred
  <2>1. \A v \in 2 .. 4 : v \in 1 .. 4 /\ 4 \in 1 .. 4 /\ 4 \in 2 .. 4
    OBVIOUS
  <2>2. QED
    BY <1>2, <2>1 DEF SameSettings
<1>5. \A v \in 2 .. 4 : DeferredOK(vs[v], g)
  BY <1>3, <1>4 DEF Settled, DeferredOK
<1>6. Grows(s, t, d, vs[4], u, g)
  BY RunGrows
<1>7. w \in Window /\ WindowOK(w) /\ w.list \in Seq(Shown) /\ EntriesOK(w.list, vs[4], u, g)
  <2>1. w \in Window /\ WindowOK(w) /\ w.list \in Seq(Shown)
    BY DEF Window
  <2>2. QED
    BY <1>6, <2>1, EntriesKept DEF ListOK
<1> DEFINE Fits(a) == /\ a \in Window /\ WindowOK(a) /\ EntriesOK(a.list, vs[4], u, g)
           Counts == \A v \in 2 .. 4 : vs[v].num = Last0(vs[v].last) + 1
           Numbered(a) == vs[4].deferred = <<>> /\ NumbersOK(w.list) /\ Counts => NumbersOK(a.list)
<1> HIDE DEF w
<1>8. ASSUME NEW a, Fits(a), Numbered(a), NEW v \in 2 .. 4
      PROVE  /\ Fits(Updated(a, vs[v])) /\ Numbered(Updated(a, vs[v]))
             /\ ListOK(Updated(a, vs[v]).list, vs[v], u, g)
             /\ vs[v].deferred = <<>> /\ vs[v].total # 0 => BoundOK(Updated(a, vs[v]).list, vs[v])
  <2>1. EntriesOK(a.list, vs[v], u, g)
    BY <1>4, <1>8 DEF EntriesOK, EntryOK
  <2>2. /\ ListOK(Updated(a, vs[v]).list, vs[v], u, g)
        /\ vs[v].deferred = <<>> /\ vs[v].num = Last0(vs[v].last) + 1 /\ NumbersOK(a.list) =>
                NumbersOK(Updated(a, vs[v]).list)
        /\ vs[v].deferred = <<>> /\ vs[v].total # 0 => BoundOK(Updated(a, vs[v]).list, vs[v])
    BY <1>3, <1>4, <1>5, <1>8, <2>1, UpdatedOK
  <2>3. Updated(a, vs[v]) \in Window /\ WindowOK(Updated(a, vs[v]))
    BY <1>4, <1>8, UpdatedFacts
  <2>4. EntriesOK(Updated(a, vs[v]).list, vs[4], u, g)
    BY <1>4, <2>2 DEF ListOK, EntriesOK, EntryOK
  <2>5. Numbered(Updated(a, vs[v]))
    BY <1>4, <1>8, <2>2
  <2>6. QED
    BY <2>2, <2>3, <2>4, <2>5
<1>9. Fits(w) /\ Numbered(w)
  BY <1>7
<1>10. CASE e = w /\ vs[4] = vs[1] /\ vs[1].last # NoDay
  <2>1. vs[4].last = s.last /\ vs[4].rem = s.rem
    BY <1>2, <1>10
  <2>2. ListOK(w.list, vs[4], u, g)
    BY <1>6, <1>7, <2>1, ListKept DEF w
  <2>3. BoundOK(w.list, s) => BoundOK(w.list, vs[4])
    BY <2>1 DEF BoundOK
  <2> HIDE DEF e
  <2>4. QED
    BY <1>10, <2>2, <2>3, <1>9 DEF w, e
<1>11. CASE \E a \in {w, Updated(w, vs[2])} : \E b \in {a, Updated(a, vs[3])} : e = Updated(b, vs[4])
  <2> HIDE DEF Fits, Numbered
  <2>1. PICK a \in {w, Updated(w, vs[2])} : \E b \in {a, Updated(a, vs[3])} : e = Updated(b, vs[4])
    BY <1>11
  <2>2. PICK b \in {a, Updated(a, vs[3])} : e = Updated(b, vs[4])
    BY <2>1
  <2>3. Fits(a) /\ Numbered(a)
    BY <1>8, <1>9, <2>1
  <2>4. Fits(b) /\ Numbered(b)
    BY <1>8, <2>2, <2>3
  <2>5. /\ Numbered(e) /\ ListOK(e.list, vs[4], u, g)
        /\ vs[4].deferred = <<>> /\ vs[4].total # 0 => BoundOK(e.list, vs[4])
    BY <1>8, <2>2, <2>4
  <2>6. QED
    BY <2>5 DEF Numbered, w
<1>12. QED
  <2> HIDE DEF e
  <2>1. \/ e = w /\ vs[4] = vs[1] /\ vs[1].last # NoDay
        \/ \E a \in {w, Updated(w, vs[2])} : \E b \in {a, Updated(a, vs[3])} : e = Updated(b, vs[4])
    BY NotifiedFacts DEF e, w
  <2>2. QED
    BY <1>10, <1>11, <2>1

\* Nothing was postponed, no formula failed and the program did not die.
Calm(d) == d.postponed = {} /\ d.flawed = {} /\ d.crashed = FALSE

LEMMA NothingDeferred ==
    ASSUME NEW s \in Schedule, NEW d, DeferredOK(s, d), d.postponed = {}
    PROVE  s.deferred = <<>>
<1>1. /\ s.deferred \in Seq(Position) /\ DOMAIN s.deferred = 1 .. Len(s.deferred)
      /\ Len(s.deferred) \in Nat
  BY ScheduleParts, LenProperties
<1>2. ~In(s.deferred[1], s.deferred)
  BY DEF DeferredOK
<1>3. ~(1 \in DOMAIN s.deferred)
  BY <1>2 DEF In
<1>4. Len(s.deferred) = 0
  BY <1>1, <1>3
<1>5. QED
  BY <1>1, <1>4, EmptySeq

LEMMA CalmPlain ==
    ASSUME NEW f, NEW list, NEW s, NEW t, NEW d, NEW n, NEW tr, RunFrom(f, list, s, t, d, n, tr),
           NEW v, NEW u, NEW g, Outcome(f[n], s, t, d, v, u, g, tr.flawed), Calm(g)
    PROVE  Plain(list, tr, d, n) /\ Calm(d)
<1> DEFINE r == f[n]
<1>1. /\ n \in Nat /\ Len(list) \in Nat /\ n <= Len(list) /\ n \in 0 .. n
      /\ \A i \in 1 .. Len(list) : InstanceOK(list[i], s, t, d)
  BY RunTurns
<1>2. PickedSoFar(r, n, s, list) /\ MadeSoFar(r, n, list, tr)
  BY <1>1, RunPicked, RunMade
<1>3. /\ g.postponed = d.postponed \cup r.postponed /\ g.crashed = d.crashed
      /\ g.flawed = d.flawed \cup {e \in tr.flawed : In(e, r.made)}
  BY DEF Outcome
<1> HIDE DEF r
<1>4. Calm(d) /\ r.postponed = {} /\ \A e \in tr.flawed : ~In(e, r.made)
  BY <1>3 DEF Calm
<1>5. ASSUME NEW i \in 1 .. n PROVE list[i].state # "postponed" /\ (Makes(list, tr, i) => Goes(list, tr, i))
  <2>1. i \in 1 .. Len(list)
    BY <1>1
  <2>2. InstanceOK(list[i], s, t, d)
    BY <1>1, <2>1
  <2>3. list[i].state # "postponed"
    BY <1>2, <1>4 DEF PickedSoFar
  <2>4. ASSUME Makes(list, tr, i) PROVE Goes(list, tr, i)
    <3>1. list[i].date \in Days /\ list[i].date = Occurrence(list[i].tsd)
      BY <2>2 DEF InstanceOK
    <3>2. In(list[i].date, r.made)
      BY <1>2, <2>4, <3>1 DEF MadeSoFar
    <3>3. list[i].date \notin tr.flawed
      BY <1>4, <3>2
    <3>4. QED
      BY <2>4, <3>1, <3>3 DEF Makes, Goes, Enters, Passes
  <2>5. QED
    BY <2>3, <2>4
<1>6. QED
  BY <1>4, <1>5 DEF Plain, Calm

-----------------------------------------------------------------------------
(* The inductive invariant.                                                *)

HandledIn(t, d) == {e \in Days : t[e] > 0 \/ e \in d.ignored}

\* The schedule is settled, and so is what every dialog shows.
SettledInv(s, t, d, ds) ==
    LimitKeptIn(d) => Settled(s, t, d) /\ \A y \in Dialogs : ListOK(ds[y].list, s, t, d)

\* The next number is that of the next occurrence, as in every dialog.
NumInv(s, d, ds) ==
    Calm(d) /\ ~d.shared =>
      s.num = Last0(s.last) + 1 /\ \A y \in Dialogs : NumbersOK(ds[y].list)

\* What remains is what was not handled, and no dialog shows more.
RemInv(s, t, d, ds) ==
    Calm(d) /\ ~d.limited /\ s.total # 0 =>
      s.rem + Cardinality(HandledIn(t, d)) = s.total /\ \A y \in Dialogs : BoundOK(ds[y].list, s)

SxInv ==
    /\ TypeInv
    /\ SettledInv(sx, transactions, done, dialog)
    /\ NumInv(sx, done, dialog)
    /\ RemInv(sx, transactions, done, dialog)

LEMMA CalmLimit == ASSUME NEW d, Calm(d) PROVE LimitKeptIn(d)
BY DEF Calm, LimitKeptIn

LEMMA HandledFinite ==
    ASSUME NEW H \in SUBSET Days
    PROVE  IsFiniteSet(H) /\ Cardinality(H) \in Nat
<1>1. IsFiniteSet(Days)
  BY HorizonFacts, FS_Interval DEF Days
<1>2. QED
  BY <1>1, FS_Subset, FS_CardinalityType

\* The run over list of the n first instances, by which the dialogs become p. The list of the
\* dialog x itself is gone, or what the run made of the list that was generated.
Carries(f, list, n, tr, x, vs, u, g, p) ==
    /\ x \in Dialogs /\ list \in Seq(Shown) /\ n \in 0 .. Len(list) /\ tr \in Trouble
    /\ IsRun(f, list, sx, n, tr) /\ vs = Committed(sx, f[n])
    /\ u = Added(f[n].made) /\ g = Noted(f[n], x, tr.flawed)
    /\ \A y \in Dialogs \ {x} : p[y] = Notified(dialog, vs)[y]
    /\ \/ p[x].list = <<>>
       \/ p[x].list = f[n].list /\ list = Generated(sx, today) /\ n \in {0, Len(list)}

LEMMA CarriesOutcome ==
    ASSUME TypeInv, NEW f, NEW list, NEW n, NEW tr, NEW x, NEW vs, NEW u, NEW g, NEW p,
           Carries(f, list, n, tr, x, vs, u, g, p)
    PROVE  /\ Outcome(f[n], sx, transactions, done, vs[4], u, g, tr.flawed)
           /\ NotedFacts(g, f[n], x, tr.flawed)
           /\ f[n] \in Run /\ sx \in Schedule /\ done \in History
           /\ n \in Nat /\ n \in 0 .. n
           /\ LimitKeptIn(g) => LimitKeptIn(done)
<1>1. /\ list \in Seq(Shown) /\ n \in 0 .. Len(list) /\ tr \in Trouble /\ x \in Dialogs
      /\ IsRun(f, list, sx, n, tr) /\ vs = Committed(sx, f[n])
      /\ u = Added(f[n].made) /\ g = Noted(f[n], x, tr.flawed)
  BY DEF Carries
<1>2. n \in Nat /\ n \in 0 .. n
  BY <1>1
<1>3. f[n] \in Run /\ f[n].made \in Seq(Days)
  <2>1. f[n] \in Run
    BY <1>1, <1>2 DEF IsRun
  <2>2. QED
    BY <2>1 DEF Run
<1>4. sx \in Schedule /\ done \in History /\ transactions \in [Days -> 0 .. 2] /\ tr.flawed \in SUBSET Days
  BY <1>1 DEF TypeInv, Trouble
<1>5. NotedFacts(g, f[n], x, tr.flawed)
  BY <1>1, <1>3, <1>4, NotedHolds
<1>6. AddedTo(transactions, u, f[n].made)
  BY <1>1, <1>3, <1>4, AddedFacts DEF AddedTo
<1>7. /\ vs[4] \in Schedule /\ SameSettings(vs[4], sx) /\ vs[4].deferred = f[n].deferred
      /\ vs[4].last = Moved(sx.last, f[n].last)
  <2>1. 4 \in 1 .. 4 /\ 4 \in 2 .. 4
    OBVIOUS
  <2>2. QED
    BY <1>1, <1>3, <1>4, <2>1, CommittedFacts
<1>8. Outcome(f[n], sx, transactions, done, vs[4], u, g, tr.flawed)
  BY <1>5, <1>6, <1>7 DEF Outcome, NotedFacts
<1>9. LimitKeptIn(g) => LimitKeptIn(done)
  BY <1>5 DEF NotedFacts, LimitKeptIn
<1>10. QED
  BY <1>2, <1>3, <1>4, <1>5, <1>8, <1>9

LEMMA CarriesFrom ==
    ASSUME SxInv, NEW f, NEW list, NEW n, NEW tr, NEW x, NEW vs, NEW u, NEW g, NEW p,
           Carries(f, list, n, tr, x, vs, u, g, p), LimitKeptIn(done),
           ListOK(list, sx, transactions, done)
    PROVE  RunFrom(f, list, sx, transactions, done, n, tr)
BY DEF Carries, RunFrom, SxInv, SettledInv, TypeInv

LEMMA RunKeepsSettled ==
    ASSUME SxInv, NEW f, NEW list, NEW n, NEW tr, NEW x, NEW vs, NEW u, NEW g, NEW p,
           Carries(f, list, n, tr, x, vs, u, g, p),
           LimitKeptIn(done) => ListOK(list, sx, transactions, done)
    PROVE  SettledInv(vs[4], u, g, p)
<1> SUFFICES ASSUME LimitKeptIn(g)
             PROVE  Settled(vs[4], u, g) /\ \A y \in Dialogs : ListOK(p[y].list, vs[4], u, g)
  BY DEF SettledInv
<1>0. TypeInv
  BY DEF SxInv
<1>1. Outcome(f[n], sx, transactions, done, vs[4], u, g, tr.flawed) /\ LimitKeptIn(done)
  BY <1>0, CarriesOutcome
<1>2. RunFrom(f, list, sx, transactions, done, n, tr)
  BY <1>1, CarriesFrom
<1>3. Settled(vs[4], u, g)
  BY <1>1, <1>2, RunSettles
<1>4. dialog \in [Dialogs -> Window] /\ (\A z \in Dialogs : WindowOK(dialog[z])) /\ today \in 1 .. LastDay
  BY <1>0 DEF TypeInv
<1>5. \A y \in Dialogs : ListOK(dialog[y].list, sx, transactions, done)
  BY <1>1 DEF SxInv, SettledInv
<1>6. vs = Committed(sx, f[n])
  BY DEF Carries
<1>7. ASSUME NEW y \in Dialogs \ {x} PROVE ListOK(p[y].list, vs[4], u, g)
  <2>1. ListOK(Notified(dialog, vs)[y].list, vs[4], u, g)
    BY <1>1, <1>2, <1>4, <1>5, <1>6, NotifiedOK
  <2>2. p[y] = Notified(dialog, vs)[y]
    BY DEF Carries
  <2>3. QED
    BY <2>1, <2>2
<1>8. ListOK(p[x].list, vs[4], u, g)
  <2>1. CASE p[x].list = <<>>
    BY <2>1, EmptyListOK
  <2>2. CASE p[x].list = f[n].list /\ list = Generated(sx, today) /\ n \in {0, Len(list)}
    <3>1. EntriesOK(f[n].list, vs[4], u, g) /\ DatesOK(f[n].list, vs[4], g)
      BY <1>1, <1>2, RunEntries
    <3>2. FreshOK(f[n].list, vs[4], g)
      BY <1>1, <1>2, <1>4, <2>2, RunFresh
    <3>3. QED
      BY <2>2, <3>1, <3>2 DEF ListOK
  <2>3. QED
    BY <2>1, <2>2 DEF Carries
<1>9. QED
  BY <1>3, <1>7, <1>8

\* A run that notes nothing passed nothing.
LEMMA IdleLast ==
    ASSUME NEW f, NEW list, NEW s, NEW t, NEW d, NEW n, NEW tr, RunFrom(f, list, s, t, d, n, tr),
           f[n].made = <<>>, f[n].ignored \cup f[n].postponed \cup f[n].left = {}
    PROVE  f[n].last = s.last
<1> DEFINE r == f[n]
<1>1. /\ n \in Nat /\ Len(list) \in Nat /\ n <= Len(list) /\ n \in 0 .. n
      /\ \A i \in 1 .. Len(list) : InstanceOK(list[i], s, t, d)
  BY RunTurns
<1>2. /\ LastSoFar(r, n, list, s, tr) /\ PickedSoFar(r, n, s, list) /\ MadeSoFar(r, n, list, tr)
  BY <1>1, RunLast, RunPicked, RunMade
<1>3. r.made = <<>> /\ r.ignored = {} /\ r.postponed = {}
  OBVIOUS
<1> HIDE DEF r
<1>4. ASSUME NEW i \in 1 .. n PROVE ~Goes(list, tr, i)
  <2>1. i \in 1 .. Len(list)
    BY <1>1
  <2>2. list[i].date \in Days
    BY <1>1, <2>1 DEF InstanceOK
  <2>3. list[i].state # "ignored" /\ list[i].state # "postponed"
    BY <1>2, <1>3 DEF PickedSoFar
  <2>4. ~In(list[i].date, r.made)
    <3>1. DOMAIN <<>> = {}
      OBVIOUS
    <3>2. QED
      BY <1>3, <3>1 DEF In
  <2>5. ~Makes(list, tr, i)
    BY <1>2, <2>2, <2>4 DEF MadeSoFar
  <2>6. QED
    BY <2>3, <2>5 DEF Goes, Makes, Passes, Enters
<1>5. QED
  BY <1>2, <1>4 DEF LastSoFar, r

LEMMA RunKeepsNum ==
    ASSUME SxInv, NEW f, NEW list, NEW n, NEW tr, NEW x, NEW vs, NEW u, NEW g, NEW p,
           Carries(f, list, n, tr, x, vs, u, g, p),
           LimitKeptIn(done) => ListOK(list, sx, transactions, done),
           Calm(done) /\ ~done.shared => NumbersOK(list)
    PROVE  NumInv(vs[4], g, p)
<1> SUFFICES ASSUME Calm(g), ~g.shared
             PROVE  vs[4].num = Last0(vs[4].last) + 1 /\ \A y \in Dialogs : NumbersOK(p[y].list)
  BY DEF NumInv
<1>0. TypeInv
  BY DEF SxInv
<1>1. /\ Outcome(f[n], sx, transactions, done, vs[4], u, g, tr.flawed) /\ LimitKeptIn(g) /\ LimitKeptIn(done)
      /\ NotedFacts(g, f[n], x, tr.flawed) /\ f[n] \in Run /\ sx \in Schedule
      /\ n \in Nat /\ n \in 0 .. n
  BY <1>0, CarriesOutcome, CalmLimit
<1>2. RunFrom(f, list, sx, transactions, done, n, tr)
  BY <1>1, CarriesFrom
<1>3. Plain(list, tr, done, n) /\ vs[4].deferred = <<>> /\ Calm(done)
  <2>1. Outcome(f[n], sx, transactions, done, vs[4], u, g, tr.flawed)
    BY <1>1
  <2>2. Plain(list, tr, done, n)
    BY <1>2, <2>1, CalmPlain
  <2>3. vs[4].deferred = <<>>
    <3>1. Settled(vs[4], u, g)
      BY <1>2, <2>1, RunSettles
    <3>2. vs[4] \in Schedule
      BY <2>1 DEF Outcome
    <3>3. QED
      BY <3>1, <3>2, NothingDeferred DEF Settled, Calm
  <2>4. Calm(done)
    BY <1>2, <2>1, CalmPlain
  <2>5. QED
    BY <2>2, <2>3, <2>4
<1>4. ~done.shared /\ (OthersOpen(x) =>
        f[n].made = <<>> /\ f[n].ignored \cup f[n].postponed \cup f[n].left = {})
  BY <1>1 DEF NotedFacts
<1>5. /\ sx.num = Last0(sx.last) + 1 /\ NumbersOK(list)
      /\ \A y \in Dialogs : NumbersOK(dialog[y].list)
      /\ \A y \in Dialogs : ListOK(dialog[y].list, sx, transactions, done)
  BY <1>1, <1>3, <1>4 DEF SxInv, NumInv, SettledInv
<1>6. f[n].num = Last0(f[n].last) + 1
  BY <1>1, <1>2, <1>3, <1>5, RunNum DEF NumSoFar
<1>7. vs = Committed(sx, f[n])
  BY DEF Carries
<1>8. /\ vs[2].num = sx.num /\ vs[3].num = f[n].num /\ vs[4].num = f[n].num
      /\ vs[2].last = vs[4].last /\ vs[3].last = vs[4].last /\ vs[4].last = f[n].last
  <2>1. 2 \in 2 .. 4 /\ 3 \in 2 .. 4 /\ 4 \in 2 .. 4
    OBVIOUS
  <2>2. vs[4].last = f[n].last
    BY <1>1, <1>2, RunSettles
  <2>3. QED
    BY <1>1, <1>7, <2>1, <2>2, CommittedFacts
<1>9. dialog \in [Dialogs -> Window] /\ \A z \in Dialogs : WindowOK(dialog[z])
  BY <1>0 DEF TypeInv
<1>10. ASSUME NEW y \in Dialogs \ {x} PROVE NumbersOK(p[y].list)
  <2>1. p[y] = Notified(dialog, vs)[y]
    BY DEF Carries
  <2>2. CASE dialog[y].open
    <3>1. OthersOpen(x)
      BY <2>2 DEF OthersOpen
    <3>2. f[n].last = sx.last
      BY <1>2, <1>4, <3>1, IdleLast
    <3>3. \A v \in 2 .. 4 : vs[v].num = Last0(vs[v].last) + 1
      <4>1. \A v \in 2 .. 4 : v \in {2, 3, 4}
        OBVIOUS
      <4>2. QED
        BY <1>5, <1>6, <1>8, <3>2, <4>1
    <3>4. NumbersOK(Notified(dialog, vs)[y].list)
      BY <1>1, <1>2, <1>3, <1>5, <1>7, <1>9, <3>3, NotifiedOK
    <3>5. QED
      BY <2>1, <3>4
  <2>3. CASE ~dialog[y].open
    <3>1. \A v \in 1 .. 4 : vs[v] \in Schedule
      BY <1>1, <1>7, CommittedFacts
    <3>2. Notified(dialog, vs)[y] = dialog[y]
      BY <1>9, <2>3, <3>1, NotifiedTypes
    <3>3. QED
      BY <1>5, <2>1, <3>2
  <2>4. QED
    BY <2>2, <2>3
<1>11. NumbersOK(p[x].list)
  <2>1. NumbersOK(f[n].list)
    BY <1>1, <1>2, <1>5, RunEntries
  <2>2. QED
    BY <2>1, EmptyListOK DEF Carries
<1>12. QED
  BY <1>6, <1>8, <1>10, <1>11

LEMMA RunKeepsRem ==
    ASSUME SxInv, NEW f, NEW list, NEW n, NEW tr, NEW x, NEW vs, NEW u, NEW g, NEW p,
           Carries(f, list, n, tr, x, vs, u, g, p),
           LimitKeptIn(done) => ListOK(list, sx, transactions, done),
           Calm(done) /\ ~done.limited /\ sx.total # 0 => BoundOK(list, sx)
    PROVE  RemInv(vs[4], u, g, p)
<1> SUFFICES ASSUME Calm(g), ~g.limited, vs[4].total # 0
             PROVE  /\ vs[4].rem + Cardinality(HandledIn(u, g)) = vs[4].total
                    /\ \A y \in Dialogs : BoundOK(p[y].list, vs[4])
  BY DEF RemInv
<1>0. TypeInv
  BY DEF SxInv
<1>1. /\ Outcome(f[n], sx, transactions, done, vs[4], u, g, tr.flawed) /\ LimitKeptIn(g) /\ LimitKeptIn(done)
      /\ f[n] \in Run /\ sx \in Schedule /\ n \in Nat /\ n \in 0 .. n
  BY <1>0, CarriesOutcome, CalmLimit
<1>2. RunFrom(f, list, sx, transactions, done, n, tr)
  BY <1>1, CarriesFrom
<1>3. Plain(list, tr, done, n) /\ vs[4].deferred = <<>> /\ Calm(done)
  <2>1. Outcome(f[n], sx, transactions, done, vs[4], u, g, tr.flawed)
    BY <1>1
  <2>2. Plain(list, tr, done, n)
    BY <1>2, <2>1, CalmPlain
  <2>3. vs[4].deferred = <<>>
    <3>1. Settled(vs[4], u, g)
      BY <1>2, <2>1, RunSettles
    <3>2. vs[4] \in Schedule
      BY <2>1 DEF Outcome
    <3>3. QED
      BY <3>1, <3>2, NothingDeferred DEF Settled, Calm
  <2>4. Calm(done)
    BY <1>2, <2>1, CalmPlain
  <2>5. QED
    BY <2>2, <2>3, <2>4
<1>4. ~done.limited /\ vs[4].total = sx.total /\ sx.total # 0
  BY <1>1 DEF Outcome, SameSettings
<1>5. /\ sx.rem + Cardinality(HandledIn(transactions, done)) = sx.total /\ BoundOK(list, sx)
      /\ \A y \in Dialogs : BoundOK(dialog[y].list, sx)
      /\ \A y \in Dialogs : ListOK(dialog[y].list, sx, transactions, done)
  BY <1>1, <1>3, <1>4 DEF SxInv, RemInv, SettledInv
<1>6. /\ f[n].rem \in Nat /\ f[n].rem + Cardinality(HandledSoFar(f[n], transactions, done)) = sx.total
      /\ Last0(sx.last) + sx.rem <= Last0(f[n].last) + f[n].rem
  BY <1>1, <1>2, <1>3, <1>5, RunRem DEF RemSoFar, HandledIn
<1>7. HandledSoFar(f[n], transactions, done) = HandledIn(u, g)
  <2>1. ASSUME NEW e \in Days PROVE u[e] > 0 <=> transactions[e] > 0 \/ In(e, f[n].made)
    BY <1>1 DEF Outcome, AddedTo
  <2>2. g.ignored = done.ignored \cup f[n].ignored
    BY <1>1 DEF Outcome
  <2>3. QED
    BY <2>1, <2>2 DEF HandledSoFar, HandledIn
<1>8. vs = Committed(sx, f[n])
  BY DEF Carries
<1>9. vs[4].rem = f[n].rem /\ vs[4].last = f[n].last
  <2>1. f[n].rem <= sx.total
    <3>1. Cardinality(HandledSoFar(f[n], transactions, done)) \in Nat
      BY HandledFinite DEF HandledSoFar
    <3>2. QED
      BY <1>6, <3>1
  <2>2. ~(f[n].rem > sx.total)
    BY <1>1, <1>6, <2>1, ScheduleParts
  <2>3. vs[4].last = f[n].last
    BY <1>1, <1>2, RunSettles
  <2>4. QED
    BY <1>1, <1>8, <2>2, <2>3, CommittedFacts
<1>10. dialog \in [Dialogs -> Window] /\ \A z \in Dialogs : WindowOK(dialog[z])
  BY <1>0 DEF TypeInv
<1>11. ASSUME NEW y \in Dialogs \ {x} PROVE BoundOK(p[y].list, vs[4])
  <2>1. BoundOK(Notified(dialog, vs)[y].list, vs[4])
    BY <1>1, <1>2, <1>3, <1>5, <1>8, <1>10, NotifiedOK
  <2>2. p[y] = Notified(dialog, vs)[y]
    BY DEF Carries
  <2>3. QED
    BY <2>1, <2>2
<1>12. BoundOK(p[x].list, vs[4])
  <2>1. BoundOK(f[n].list, vs[4])
    <3>1. /\ Len(f[n].list) = Len(list)
          /\ \A j \in 1 .. Len(list) : f[n].list[j].date = list[j].date
      <4>1. ListSoFar(f[n], n, list, tr)
        BY <1>1, <1>2, RunList
      <4>2. QED
        BY <4>1 DEF ListSoFar, SameButState
    <3>2. \A j \in 1 .. Len(list) : list[j].date \in Nat
      BY <1>2, RunTurns, DayFacts DEF InstanceOK
    <3>3. sx.rem \in Nat /\ Last0(sx.last) \in Nat /\ Last0(f[n].last) \in Nat
      BY <1>1, <1>2, RunDealt, ScheduleParts
    <3>4. \A j \in 1 .. Len(list) : list[j].date <= Last0(f[n].last) + f[n].rem
      BY <1>5, <1>6, <3>2, <3>3 DEF BoundOK
    <3>5. QED
      BY <1>9, <3>1, <3>4 DEF BoundOK
  <2>2. QED
    BY <2>1, EmptyListOK DEF Carries
<1>13. QED
  BY <1>4, <1>6, <1>7, <1>9, <1>11, <1>12

-----------------------------------------------------------------------------
(* Every action keeps the invariant.                                       *)

LEMMA RunInv ==
    ASSUME SxInv, TypeInv', NEW f, NEW list, NEW n, NEW tr, NEW x, NEW vs, NEW u, NEW g,
           Carries(f, list, n, tr, x, vs, u, g, dialog'),
           sx' = vs[4], transactions' = u, done' = g,
           LimitKeptIn(done) => ListOK(list, sx, transactions, done),
           Calm(done) /\ ~done.shared => NumbersOK(list),
           Calm(done) /\ ~done.limited /\ sx.total # 0 => BoundOK(list, sx)
    PROVE  SxInv'
<1>1. SettledInv(vs[4], u, g, dialog')
  BY RunKeepsSettled
<1>2. NumInv(vs[4], g, dialog')
  BY RunKeepsNum
<1>3. RemInv(vs[4], u, g, dialog')
  BY RunKeepsRem
<1>4. QED
  BY <1>1, <1>2, <1>3 DEF SxInv

\* The list that is generated from a schedule that is settled.
LEMMA GeneratedInv ==
    ASSUME SxInv
    PROVE  LET list == Generated(sx, today) IN
           /\ LimitKeptIn(done) => ListOK(list, sx, transactions, done)
           /\ Calm(done) /\ ~done.shared => NumbersOK(list)
           /\ Calm(done) /\ ~done.limited /\ sx.total # 0 => BoundOK(list, sx)
<1> DEFINE list == Generated(sx, today)
<1>1. sx \in Schedule /\ done \in History /\ today \in 1 .. LastDay
  BY DEF SxInv, TypeInv
<1>2. ASSUME LimitKeptIn(done)
      PROVE  /\ ListOK(list, sx, transactions, done)
             /\ Calm(done) /\ sx.num = Last0(sx.last) + 1 => NumbersOK(list)
             /\ Calm(done) /\ sx.total # 0 => BoundOK(list, sx)
  <2>1. DeferredOK(sx, done)
    BY <1>2 DEF SxInv, SettledInv, Settled
  <2>2. Calm(done) => sx.deferred = <<>>
    BY <1>1, <2>1, NothingDeferred DEF Calm
  <2>3. QED
    BY <1>1, <1>2, <2>1, <2>2, GeneratedOK
<1>3. Calm(done) /\ ~done.shared => sx.num = Last0(sx.last) + 1
  BY DEF SxInv, NumInv
<1> HIDE DEF list
<1>4. /\ LimitKeptIn(done) => ListOK(list, sx, transactions, done)
      /\ Calm(done) /\ ~done.shared => NumbersOK(list)
      /\ Calm(done) /\ ~done.limited /\ sx.total # 0 => BoundOK(list, sx)
  BY <1>2, <1>3, CalmLimit
<1>5. QED
  BY <1>4 DEF list

LEMMA SinceLastRunKeeps == ASSUME SxInv, NEW x \in Dialogs, SinceLastRun(x) PROVE SxInv'
<1> DEFINE list == Generated(sx, today)
           n == Automatic(list, sx)
<1>0. TypeInv /\ TypeInv'
  BY SinceLastRunType DEF SxInv
<1>1. sx \in Schedule /\ today \in 1 .. LastDay
      /\ dialog \in [Dialogs -> Window] /\ \A y \in Dialogs : WindowOK(dialog[y])
  BY <1>0 DEF TypeInv
<1>2. list \in Seq(Shown)
  BY <1>1, GeneratedFacts
<1>3. n \in 0 .. Len(list) /\ n \in {0, Len(list)}
  <2>1. Len(list) \in Nat
    BY <1>2, LenProperties
  <2>2. QED
    BY <2>1 DEF Automatic
<1>4. /\ LimitKeptIn(done) => ListOK(list, sx, transactions, done)
      /\ Calm(done) /\ ~done.shared => NumbersOK(list)
      /\ Calm(done) /\ ~done.limited /\ sx.total # 0 => BoundOK(list, sx)
  BY GeneratedInv
<1>5. PICK trouble \in Troubles(events + 1) :
        LET run == Effect(list, sx, n, trouble)
            versions == Committed(sx, run)
            told == Notified(dialog, versions)
        IN  /\ dialog' = IF NeedDialog(list)
                         THEN [told EXCEPT ![x] = [open |-> TRUE, until |-> today, list |-> run.list]]
                         ELSE told
            /\ sx' = Last(versions)
            /\ transactions' = Added(run.made)
            /\ done' = Noted(run, x, trouble.flawed)
  BY DEF SinceLastRun
<1>6. ~dialog[x].open
  BY DEF SinceLastRun
<1>7. trouble \in Trouble
  <2>1. events + 1 \in Nat
    BY <1>0, TypeTimes
  <2>2. QED
    BY <2>1, TroubleFacts
<1> HIDE DEF n
<1>8. PICK f : IsRun(f, list, sx, n, trouble) /\ Effect(list, sx, n, trouble) = f[n]
  BY <1>1, <1>2, <1>3, <1>7, RunExists
<1> DEFINE vs == Committed(sx, f[n])
           told == Notified(dialog, vs)
<1>9. /\ dialog' = IF NeedDialog(list)
                   THEN [told EXCEPT ![x] = [open |-> TRUE, until |-> today, list |-> f[n].list]]
                   ELSE told
      /\ sx' = Last(vs) /\ transactions' = Added(f[n].made) /\ done' = Noted(f[n], x, trouble.flawed)
  BY <1>5, <1>8
<1>10. sx' = vs[4] /\ \A v \in 1 .. 4 : vs[v] \in Schedule
  <2>1. /\ \A v \in 1 .. 4 : vs[v] \in Schedule
        /\ Last(vs) = vs[4]
    BY <1>1, <1>2, <1>3, <1>7, <1>8, EffectFacts
  <2>2. QED
    BY <1>9, <2>1
<1> HIDE DEF vs
<1>11. told \in [Dialogs -> Window] /\ told[x] = dialog[x] /\ dialog[x].list = <<>>
  BY <1>1, <1>6, <1>10, NotifiedTypes DEF WindowOK
<1> HIDE DEF told
<1>12. /\ \A y \in Dialogs \ {x} : dialog'[y] = told[y]
       /\ dialog'[x].list \in {<<>>, f[n].list}
  BY <1>9, <1>11
<1>13. Carries(f, list, n, trouble, x, vs, Added(f[n].made), Noted(f[n], x, trouble.flawed), dialog')
  BY <1>2, <1>3, <1>7, <1>8, <1>12 DEF Carries, vs, told
<1> HIDE DEF list
<1>14. QED
  BY <1>0, <1>4, <1>9, <1>10, <1>13, RunInv

\* Without instances nothing changes.
LEMMA StartedChangesNothing ==
    ASSUME TypeInv, NEW list, NEW x, NEW flawed
    PROVE  LET run == Started(list, sx) IN
           /\ Committed(sx, run)[4] = sx /\ Added(run.made) = transactions /\ Noted(run, x, flawed) = done
<1> DEFINE run == Started(list, sx)
<1>1. sx \in Schedule /\ transactions \in [Days -> 0 .. 2]
  BY DEF TypeInv
<1>2. /\ run.last = sx.last /\ run.num = sx.num /\ run.rem = sx.rem /\ run.deferred = sx.deferred
      /\ run.made = <<>> /\ run.ignored = {} /\ run.postponed = {} /\ run.left = {}
  BY DEF Started
<1> HIDE DEF run
<1>3. Committed(sx, run)[4] = sx
  <2>1. [sx EXCEPT !.deferred = run.deferred] = sx
    BY <1>1, <1>2 DEF Schedule
  <2>2. SetLast(sx, run.last) = sx
    BY <1>1, <1>2 DEF SetLast, Schedule
  <2>3. SetCount(sx, run.num) = sx
    BY <1>1, <1>2 DEF SetCount, Schedule
  <2>4. SetRemaining(sx, run.rem) = sx
    BY <1>1, <1>2 DEF SetRemaining, Schedule
  <2>5. QED
    BY <2>1, <2>2, <2>3, <2>4 DEF Committed
<1>4. Added(run.made) = transactions
  <2>1. <<>> \in Seq(Days) /\ \A d : ~In(d, <<>>)
    BY EmptySeq DEF In
  <2>2. Added(<<>>) \in [Days -> 0 .. 2] /\ \A d \in Days : Added(<<>>)[d] = transactions[d]
    BY <1>1, <2>1, AddedFacts
  <2>3. QED
    BY <1>1, <1>2, <2>2
<1>5. Noted(run, x, flawed) = done
  BY <1>2 DEF Noted
<1>6. QED
  BY <1>3, <1>4, <1>5 DEF run

LEMMA RespondKeeps == ASSUME SxInv, NEW x \in Dialogs, Respond(x) PROVE SxInv'
<1> DEFINE list == dialog[x].list
           n == Len(list)
<1>0. TypeInv /\ TypeInv'
  BY RespondType DEF SxInv
<1>1. sx \in Schedule
      /\ dialog \in [Dialogs -> Window] /\ \A y \in Dialogs : WindowOK(dialog[y])
  BY <1>0 DEF TypeInv
<1>2. list \in Seq(Shown)
  BY <1>1 DEF Window
<1>3. n \in 0 .. Len(list) /\ n \in Nat
  <2>1. Len(list) \in Nat
    BY <1>2, LenProperties
  <2>2. QED
    BY <2>1
<1>4. /\ LimitKeptIn(done) => ListOK(list, sx, transactions, done)
      /\ Calm(done) /\ ~done.shared => NumbersOK(list)
      /\ Calm(done) /\ ~done.limited /\ sx.total # 0 => BoundOK(list, sx)
  BY DEF SxInv, SettledInv, NumInv, RemInv
<1>5. PICK trouble \in Troubles(events) :
        LET run == Effect(list, sx, n, trouble)
            versions == Committed(sx, run)
        IN  /\ dialog' = [Notified(dialog, versions) EXCEPT ![x] = Closed]
            /\ IF list = <<>> THEN UNCHANGED <<sx, transactions, done>>
               ELSE /\ sx' = Last(versions)
                    /\ transactions' = Added(run.made)
                    /\ done' = Noted(run, x, trouble.flawed)
  BY DEF Respond
<1>6. trouble \in Trouble
  <2>1. events \in Nat
    BY <1>0, TypeTimes
  <2>2. QED
    BY <2>1, TroubleFacts
<1>7. list = <<>> => n = 0
  OBVIOUS
<1> HIDE DEF n, list
<1>8. PICK f : IsRun(f, list, sx, n, trouble) /\ Effect(list, sx, n, trouble) = f[n]
  BY <1>1, <1>2, <1>3, <1>6, RunExists
<1> DEFINE vs == Committed(sx, f[n])
           told == Notified(dialog, vs)
<1>9. /\ dialog' = [told EXCEPT ![x] = Closed]
      /\ list # <<>> => /\ sx' = Last(vs) /\ transactions' = Added(f[n].made)
                        /\ done' = Noted(f[n], x, trouble.flawed)
      /\ list = <<>> => sx' = sx /\ transactions' = transactions /\ done' = done
  BY <1>5, <1>8
<1>10. Last(vs) = vs[4] /\ \A v \in 1 .. 4 : vs[v] \in Schedule
  <2>1. /\ \A v \in 1 .. 4 : vs[v] \in Schedule
        /\ Last(vs) = vs[4]
    BY <1>1, <1>2, <1>3, <1>6, <1>8, EffectFacts
  <2>2. QED
    BY <2>1
<1>11. sx' = vs[4] /\ transactions' = Added(f[n].made) /\ done' = Noted(f[n], x, trouble.flawed)
  <2>1. CASE list # <<>>
    BY <1>9, <1>10, <2>1
  <2>2. CASE list = <<>>
    <3>1. f[n] = Started(list, sx)
      BY <1>7, <1>8, <2>2 DEF IsRun
    <3>2. vs[4] = sx /\ Added(f[n].made) = transactions /\ Noted(f[n], x, trouble.flawed) = done
      BY <1>0, <3>1, StartedChangesNothing
    <3>3. QED
      BY <1>9, <2>2, <3>2
  <2>3. QED
    BY <2>1, <2>2
<1> HIDE DEF vs
<1>12. told \in [Dialogs -> Window]
  BY <1>1, <1>10, NotifiedTypes
<1> HIDE DEF told
<1>13. /\ \A y \in Dialogs \ {x} : dialog'[y] = told[y]
       /\ dialog'[x].list = <<>>
  BY <1>9, <1>12, ClosedWindow
<1>14. Carries(f, list, n, trouble, x, vs, Added(f[n].made), Noted(f[n], x, trouble.flawed), dialog')
  BY <1>2, <1>3, <1>6, <1>8, <1>13 DEF Carries, vs, told
<1>15. QED
  BY <1>0, <1>4, <1>11, <1>14, RunInv

\* The dialogs that are told of the schedule s, which did not move.
LEMMA ToldInv ==
    ASSUME NEW s \in Schedule, NEW t, NEW d \in History, NEW ds, NEW ws \in [Dialogs -> Window],
           \A y \in Dialogs : WindowOK(ws[y]),
           \A y \in Dialogs : ds[y] = Updated(ws[y], s),
           LimitKeptIn(d) => Settled(s, t, d) /\ \A y \in Dialogs : EntriesOK(ws[y].list, s, t, d),
           Calm(d) /\ ~d.shared => s.num = Last0(s.last) + 1 /\ \A y \in Dialogs : NumbersOK(ws[y].list),
           Calm(d) /\ ~d.limited /\ s.total # 0 => s.rem + Cardinality(HandledIn(t, d)) = s.total
    PROVE  SettledInv(s, t, d, ds) /\ NumInv(s, d, ds) /\ RemInv(s, t, d, ds)
<1>1. ASSUME LimitKeptIn(d), NEW y \in Dialogs
      PROVE  /\ ListOK(ds[y].list, s, t, d)
             /\ Calm(d) /\ s.num = Last0(s.last) + 1 /\ NumbersOK(ws[y].list) => NumbersOK(ds[y].list)
             /\ Calm(d) /\ s.total # 0 => BoundOK(ds[y].list, s)
  <2>1. DeferredOK(s, d) /\ EntriesOK(ws[y].list, s, t, d) /\ ws[y] \in Window /\ WindowOK(ws[y])
    BY <1>1 DEF Settled
  <2>2. Calm(d) => s.deferred = <<>>
    BY <2>1, NothingDeferred DEF Calm
  <2>3. /\ ListOK(Updated(ws[y], s).list, s, t, d)
        /\ s.deferred = <<>> /\ s.num = Last0(s.last) + 1 /\ NumbersOK(ws[y].list) =>
             NumbersOK(Updated(ws[y], s).list)
        /\ s.deferred = <<>> /\ s.total # 0 => BoundOK(Updated(ws[y], s).list, s)
    BY <1>1, <2>1, UpdatedOK
  <2>4. QED
    BY <2>2, <2>3
<1>2. SettledInv(s, t, d, ds)
  BY <1>1 DEF SettledInv
<1>3. NumInv(s, d, ds)
  BY <1>1, CalmLimit DEF NumInv
<1>4. RemInv(s, t, d, ds)
  BY <1>1, CalmLimit DEF RemInv
<1>5. QED
  BY <1>2, <1>3, <1>4

LEMMA ChangeStateKeeps ==
    ASSUME SxInv, NEW x \in Dialogs, NEW i \in 1 .. Horizon + MaxDeferred,
           NEW new \in States \ {"created"}, ChangeState(x, i, new)
    PROVE  SxInv'
<1> DEFINE w == Restated(dialog[x], i, new)
           list == dialog[x].list
<1>0. TypeInv /\ TypeInv'
  BY ChangeStateType DEF SxInv
<1>1. /\ sx \in Schedule /\ done \in History /\ dialog \in [Dialogs -> Window]
      /\ \A y \in Dialogs : WindowOK(dialog[y])
  BY <1>0 DEF TypeInv
<1>2. /\ i \in 1 .. Len(list) /\ w \in Window /\ WindowOK(w) /\ w.list = WithState(list, i, new)
      /\ dialog' = [dialog EXCEPT ![x] = Updated(w, sx)]
  BY <1>0, ChangeStateFacts
<1>3. list \in Seq(Shown)
  BY <1>1 DEF Window
<1>4. sx' = sx /\ transactions' = transactions /\ done' = done
  BY DEF ChangeState
<1> HIDE DEF w, list
<1>5. /\ Len(w.list) = Len(list)
      /\ \A j \in 1 .. Len(list) : /\ SameButState(w.list[j], list[j])
                                   /\ w.list[j].state = "created" => list[j].state = "created"
  <2>1. new \in States /\ new # "created"
    OBVIOUS
  <2>2. QED
    BY <1>2, <1>3, <2>1, WithStateFacts
<1>6. EntriesOK(list, sx, transactions, done) => EntriesOK(w.list, sx, transactions, done)
  BY <1>5 DEF EntriesOK, EntryOK, SameButState
<1>7. NumbersOK(list) => NumbersOK(w.list)
  BY <1>5 DEF NumbersOK, SameButState
<1>8. dialog'[x] = Updated(w, sx) /\ \A y \in Dialogs \ {x} : dialog'[y] = dialog[y]
  BY <1>1, <1>2
<1>9. ASSUME LimitKeptIn(done)
      PROVE  /\ ListOK(dialog'[x].list, sx, transactions, done)
             /\ Calm(done) /\ sx.num = Last0(sx.last) + 1 /\ NumbersOK(list) => NumbersOK(dialog'[x].list)
             /\ Calm(done) /\ sx.total # 0 => BoundOK(dialog'[x].list, sx)
  <2>1. DeferredOK(sx, done) /\ EntriesOK(w.list, sx, transactions, done)
    BY <1>6, <1>9 DEF SxInv, SettledInv, Settled, ListOK, list
  <2>2. Calm(done) => sx.deferred = <<>>
    BY <1>1, <2>1, NothingDeferred DEF Calm
  <2>3. /\ ListOK(Updated(w, sx).list, sx, transactions, done)
        /\ sx.deferred = <<>> /\ sx.num = Last0(sx.last) + 1 /\ NumbersOK(w.list) =>
             NumbersOK(Updated(w, sx).list)
        /\ sx.deferred = <<>> /\ sx.total # 0 => BoundOK(Updated(w, sx).list, sx)
    BY <1>1, <1>2, <1>9, <2>1, UpdatedOK
  <2>4. QED
    BY <1>7, <1>8, <2>2, <2>3
<1>10. SettledInv(sx, transactions, done, dialog')
  BY <1>8, <1>9 DEF SxInv, SettledInv
<1>11. NumInv(sx, done, dialog')
  BY <1>8, <1>9, CalmLimit DEF SxInv, NumInv, list
<1>12. RemInv(sx, transactions, done, dialog')
  BY <1>8, <1>9, CalmLimit DEF SxInv, RemInv
<1>13. QED
  BY <1>0, <1>4, <1>10, <1>11, <1>12 DEF SxInv

LEMMA CancelKeeps == ASSUME SxInv, NEW x \in Dialogs, Cancel(x) PROVE SxInv'
<1>0. TypeInv /\ TypeInv'
  BY CancelType DEF SxInv
<1>1. sx' = sx /\ transactions' = transactions /\ done' = done /\ dialog' = [dialog EXCEPT ![x] = Closed]
  BY DEF Cancel
<1>2. /\ dialog'[x].list = <<>> /\ \A y \in Dialogs \ {x} : dialog'[y] = dialog[y]
  BY <1>0, <1>1, ClosedWindow DEF TypeInv
<1>3. /\ ListOK(dialog'[x].list, sx, transactions, done) /\ NumbersOK(dialog'[x].list)
      /\ BoundOK(dialog'[x].list, sx)
  BY <1>2, EmptyListOK
<1>4. SettledInv(sx, transactions, done, dialog')
  BY <1>2, <1>3 DEF SxInv, SettledInv
<1>5. NumInv(sx, done, dialog')
  BY <1>2, <1>3 DEF SxInv, NumInv
<1>6. RemInv(sx, transactions, done, dialog')
  BY <1>2, <1>3 DEF SxInv, RemInv
<1>7. QED
  BY <1>0, <1>1, <1>4, <1>5, <1>6 DEF SxInv

LEMMA SaveSxKeeps == ASSUME SxInv, NEW s, Edit(s), SaveSx(s) PROVE SxInv'
<1>0. TypeInv
  BY DEF SxInv
<1>1. s \in Schedule /\ s.last = sx.last /\ s.num = sx.num /\ s.deferred = sx.deferred
  BY <1>0, EditFacts
<1>2. TypeInv'
  BY <1>0, <1>1, SaveSxType
<1>3. /\ sx' = s /\ transactions' = transactions
      /\ \A y \in Dialogs : dialog'[y] = Updated(dialog[y], s)
  BY DEF SaveSx
<1> DEFINE d == done'
<1>4. /\ d \in History /\ d.ignored = done.ignored /\ d.postponed = done.postponed /\ d.lost = done.lost
      /\ d.flawed = done.flawed /\ d.shared = done.shared /\ d.crashed = done.crashed
      /\ done.limited => d.limited
      /\ ~d.limited => s.total = sx.total /\ s.rem = sx.rem
  BY <1>0, <1>2 DEF SaveSx, TypeInv, History
<1>5. sx \in Schedule /\ dialog \in [Dialogs -> Window] /\ \A y \in Dialogs : WindowOK(dialog[y])
  BY <1>0 DEF TypeInv
<1>6. \A y \in Dialogs : dialog[y].list \in Seq(Shown)
  BY <1>5 DEF Window
<1> HIDE DEF d
<1>7. LimitKeptIn(d) => LimitKeptIn(done)
  BY <1>4 DEF LimitKeptIn
<1>8. ASSUME LimitKeptIn(d) PROVE Settled(s, transactions, d)
  <2>1. Settled(sx, transactions, done)
    BY <1>7, <1>8 DEF SxInv, SettledInv
  <2>2. DeferredOK(s, d)
    BY <1>1, <1>4, <2>1 DEF Settled, DeferredOK
  <2>3. QED
    BY <1>1, <1>4, <2>1, <2>2 DEF Settled, Covered, Escaped
<1>9. ASSUME LimitKeptIn(d), NEW y \in Dialogs PROVE EntriesOK(dialog[y].list, s, transactions, d)
  <2>1. EntriesOK(dialog[y].list, sx, transactions, done)
    BY <1>7, <1>9 DEF SxInv, SettledInv, ListOK
  <2>2. Grows(sx, transactions, done, s, transactions, d)
    BY <1>4 DEF Grows, History
  <2>3. QED
    BY <1>6, <2>1, <2>2, EntriesKept
<1>10. Calm(d) /\ ~d.shared =>
         s.num = Last0(s.last) + 1 /\ \A y \in Dialogs : NumbersOK(dialog[y].list)
  BY <1>1, <1>4 DEF SxInv, NumInv, Calm
<1>11. Calm(d) /\ ~d.limited /\ s.total # 0 =>
         s.rem + Cardinality(HandledIn(transactions, d)) = s.total
  <2>1. HandledIn(transactions, d) = HandledIn(transactions, done)
    BY <1>4 DEF HandledIn
  <2>2. QED
    BY <1>4, <2>1 DEF SxInv, RemInv, Calm
<1>12. /\ SettledInv(s, transactions, d, dialog') /\ NumInv(s, d, dialog')
       /\ RemInv(s, transactions, d, dialog')
  BY <1>1, <1>3, <1>4, <1>5, <1>8, <1>9, <1>10, <1>11, ToldInv
<1>13. QED
  BY <1>2, <1>3, <1>12 DEF SxInv, d

\* Without dialogs only the schedule has to be settled.
LEMMA ClosedInv ==
    ASSUME NEW s, NEW t, NEW d, NEW ds, \A y \in Dialogs : ds[y] = Closed,
           LimitKeptIn(d) => Settled(s, t, d),
           Calm(d) /\ ~d.shared => s.num = Last0(s.last) + 1,
           Calm(d) /\ ~d.limited /\ s.total # 0 => s.rem + Cardinality(HandledIn(t, d)) = s.total
    PROVE  SettledInv(s, t, d, ds) /\ NumInv(s, d, ds) /\ RemInv(s, t, d, ds)
<1>1. \A y \in Dialogs : ds[y].list = <<>>
  BY ClosedWindow
<1>2. \A y \in Dialogs : ListOK(ds[y].list, s, t, d) /\ NumbersOK(ds[y].list) /\ BoundOK(ds[y].list, s)
  BY <1>1, EmptyListOK
<1>3. QED
  BY <1>2 DEF SettledInv, NumInv, RemInv

LEMMA NothingIn == \A e : ~In(e, <<>>)
<1>1. DOMAIN <<>> = {}
  OBVIOUS
<1>2. QED
  BY <1>1 DEF In

LEMMA ReloadKeeps == ASSUME SxInv, Reload PROVE SxInv'
<1>0. TypeInv /\ TypeInv'
  BY ReloadType DEF SxInv
<1>1. sx \in Schedule /\ done \in History
  BY <1>0 DEF TypeInv
<1>2. /\ \A y \in Dialogs : dialog'[y] = Closed
      /\ sx' = Reloaded(sx) /\ transactions' = transactions
  BY DEF Reload
<1> DEFINE lost == {Occurrence(sx.deferred[i]) : i \in IF Backend = "sql" THEN DOMAIN sx.deferred ELSE {}}
           d == done'
<1>3. d = [done EXCEPT !.lost = @ \cup lost]
  BY DEF Reload
<1> HIDE DEF lost
<1>4. /\ d.lost = done.lost \cup lost /\ d.ignored = done.ignored /\ d.postponed = done.postponed
      /\ d.flawed = done.flawed /\ d.limited = done.limited /\ d.shared = done.shared
      /\ d.crashed = done.crashed
  BY <1>1, <1>3 DEF History
<1>5. /\ sx'.last = sx.last /\ sx'.num = sx.num /\ sx'.rem = sx.rem /\ sx'.total = sx.total
      /\ sx'.deferred = IF Backend = "sql" THEN <<>> ELSE sx.deferred
  BY <1>1, <1>2, ReloadedFacts DEF SameSettings
<1> HIDE DEF d
<1>6. ASSUME LimitKeptIn(d) PROVE Settled(sx', transactions, d)
  <2>1. Settled(sx, transactions, done)
    BY <1>4, <1>6 DEF SxInv, SettledInv, LimitKeptIn
  <2>2. \A e : In(e, sx'.deferred) => In(e, sx.deferred)
    BY <1>5, NothingIn
  <2>3. DeferredOK(sx', d)
    BY <1>4, <1>5, <2>1, <2>2 DEF Settled, DeferredOK
  <2>4. ASSUME NEW day, Covered(day, sx, transactions, done) PROVE Covered(day, sx', transactions, d)
    <3>1. CASE \E e : In(e, sx.deferred) /\ Occurrence(e) = day
      <4>1. CASE Backend = "sql"
        <5>1. day \in lost
          BY <3>1, <4>1 DEF lost, In
        <5>2. QED
          BY <1>4, <5>1 DEF Covered
      <4>2. CASE Backend # "sql"
        BY <1>5, <3>1, <4>2 DEF Covered
      <4>3. QED
        BY <4>1, <4>2
    <3>2. CASE transactions[day] > 0 \/ day \in done.ignored \cup done.lost
      BY <1>4, <3>2 DEF Covered
    <3>3. QED
      BY <2>4, <3>1, <3>2 DEF Covered
  <2>5. \A day \in 1 .. Last0(sx'.last) : Covered(day, sx', transactions, d)
    BY <1>5, <2>1, <2>4 DEF Settled
  <2>6. QED
    BY <1>4, <1>5, <2>1, <2>3, <2>5 DEF Settled, Escaped
<1>7. Calm(d) /\ ~d.shared => sx'.num = Last0(sx'.last) + 1
  BY <1>4, <1>5 DEF SxInv, NumInv, Calm
<1>8. Calm(d) /\ ~d.limited /\ sx'.total # 0 =>
        sx'.rem + Cardinality(HandledIn(transactions, d)) = sx'.total
  <2>1. HandledIn(transactions, d) = HandledIn(transactions, done)
    BY <1>4 DEF HandledIn
  <2>2. QED
    BY <1>4, <1>5, <2>1 DEF SxInv, RemInv, Calm
<1>9. /\ SettledInv(sx', transactions, d, dialog') /\ NumInv(sx', d, dialog')
      /\ RemInv(sx', transactions, d, dialog')
  BY <1>2, <1>6, <1>7, <1>8, ClosedInv
<1>10. QED
  BY <1>0, <1>2, <1>9 DEF SxInv, d

\* What a crash leaves, after the transactions of a run and one of its commits or before its commits.
Crashed(r, s, t, d, v, u, g, moved) ==
    /\ v \in Schedule /\ moved \in BOOLEAN
    /\ v.deferred = <<>> /\ v.last = IF moved THEN r.last ELSE s.last
    /\ \A e \in Days : (t[e] > 0 => u[e] > 0) /\ (moved /\ In(e, r.made) => u[e] > 0)
    /\ g.crashed = TRUE /\ g.postponed = d.postponed
    /\ g.ignored = d.ignored \cup IF moved THEN r.ignored ELSE {}
    /\ g.lost = d.lost \cup (IF moved THEN Overtaken(r.left, r.last) \cup r.postponed ELSE {})
                 \cup {Occurrence(s.deferred[i]) : i \in DOMAIN s.deferred}

LEMMA CrashSettles ==
    ASSUME NEW f, NEW list, NEW s, NEW t, NEW d, NEW n, NEW tr, RunFrom(f, list, s, t, d, n, tr),
           NEW v, NEW u, NEW g, NEW moved, Crashed(f[n], s, t, d, v, u, g, moved)
    PROVE  Settled(v, u, g)
<1> DEFINE r == f[n]
           out == {Occurrence(s.deferred[i]) : i \in DOMAIN s.deferred}
<1>1. /\ \A e \in 1 .. Last0(r.last) : e \in Days /\ DealtWith(e, r, t, d)
      /\ Last0(r.last) \in Nat /\ Last0(s.last) \in Nat /\ Last0(s.last) <= Last0(r.last)
      /\ \A e \in r.postponed \cup r.ignored : e \in 1 .. Last0(r.last)
  BY RunDealt
<1>2. Settled(s, t, d) /\ s \in Schedule
  BY DEF RunFrom
<1>3. PickedSoFar(r, n, s, list) /\ \A i \in 1 .. n : InstanceOK(list[i], s, t, d)
  <2>1. n \in Nat /\ Len(list) \in Nat /\ n <= Len(list) /\ n \in 0 .. n
    BY RunTurns
  <2>2. \A i \in 1 .. n : i \in 1 .. Len(list)
    BY <2>1
  <2>3. QED
    BY <2>1, <2>2, RunTurns, RunPicked
<1>4. \A x : In(x, s.deferred) => Occurrence(x) \in out
  BY DEF In
<1> HIDE DEF r, out
<1>5. /\ v.last = IF moved THEN r.last ELSE s.last
      /\ moved \in BOOLEAN /\ v.deferred = <<>> /\ g.crashed = TRUE /\ g.postponed = d.postponed
      /\ \A e \in Days : (t[e] > 0 => u[e] > 0) /\ (moved /\ In(e, r.made) => u[e] > 0)
      /\ g.ignored = d.ignored \cup IF moved THEN r.ignored ELSE {}
      /\ g.lost = d.lost \cup (IF moved THEN Overtaken(r.left, r.last) \cup r.postponed ELSE {}) \cup out
  BY DEF Crashed, r, out
<1>6. DeferredOK(v, g)
  BY <1>5, NothingIn DEF DeferredOK
<1>7. g.postponed \cup g.ignored \subseteq 1 .. Last0(v.last)
  <2>1. d.postponed \cup d.ignored \subseteq 1 .. Last0(s.last)
    BY <1>2 DEF Settled
  <2>2. CASE moved
    BY <1>1, <1>5, <2>1, <2>2
  <2>3. CASE ~moved
    BY <1>5, <2>1, <2>3
  <2>4. QED
    BY <2>2, <2>3
<1>8. ASSUME NEW e \in 1 .. Last0(v.last) PROVE Covered(e, v, u, g)
  <2>1. CASE moved
    <3>1. e \in Days /\ DealtWith(e, r, t, d)
      BY <1>1, <1>5, <2>1
    <3>2. CASE \E x : In(x, r.deferred) /\ Occurrence(x) = e
      <4>1. PICK x : In(x, r.deferred) /\ Occurrence(x) = e
        BY <3>2
      <4>2. CASE In(x, s.deferred)
        BY <1>4, <1>5, <4>1, <4>2 DEF Covered
      <4>3. CASE \E i \in 1 .. n : list[i].state = "postponed" /\ list[i].tsd = x
        <5>1. e \in r.postponed
          BY <1>3, <4>1, <4>3 DEF PickedSoFar, InstanceOK
        <5>2. QED
          BY <1>5, <2>1, <5>1 DEF Covered
      <4>4. QED
        BY <1>3, <4>1, <4>2, <4>3 DEF PickedSoFar
    <3>3. CASE t[e] > 0 \/ In(e, r.made)
      BY <1>5, <2>1, <3>1, <3>3 DEF Covered
    <3>4. CASE e \in d.ignored \cup d.lost \cup r.ignored \cup r.left
      <4>1. e \in r.left => e \in Overtaken(r.left, r.last)
        BY <1>1, <1>5, <2>1, LastReached DEF Overtaken
      <4>2. QED
        BY <1>5, <2>1, <3>4, <4>1 DEF Covered
    <3>5. QED
      BY <3>1, <3>2, <3>3, <3>4 DEF DealtWith
  <2>2. CASE ~moved
    <3>1. e \in 1 .. Last0(s.last)
      BY <1>5, <2>2
    <3>2. e \in Days /\ Covered(e, s, t, d)
      BY <1>1, <1>2, <3>1 DEF Settled
    <3>3. CASE \E x : In(x, s.deferred) /\ Occurrence(x) = e
      BY <1>4, <1>5, <3>3 DEF Covered
    <3>4. CASE t[e] > 0 \/ e \in d.ignored \cup d.lost
      BY <1>5, <3>2, <3>4 DEF Covered
    <3>5. QED
      BY <3>2, <3>3, <3>4 DEF Covered
  <2>3. QED
    BY <2>1, <2>2
<1>9. QED
  BY <1>5, <1>6, <1>7, <1>8 DEF Settled

LEMMA CrashKeeps == ASSUME SxInv, Crash PROVE SxInv'
<1> DEFINE trouble == [missing |-> FALSE, flawed |-> {}]
<1>0. TypeInv /\ TypeInv'
  BY CrashType DEF SxInv
<1>1. sx \in Schedule /\ done \in History /\ today \in 1 .. LastDay /\ transactions \in [Days -> 0 .. 2]
  BY <1>0 DEF TypeInv
<1>2. PICK list \in {dialog[x].list : x \in Dialogs} \cup (IF sx.auto THEN {Generated(sx, today)} ELSE {}) :
         LET run == Effect(list, sx, Len(list), trouble)
             versions == Committed(sx, run)
         IN  /\ list \in Seq(Shown) /\ Len(list) \in Nat
             /\ trouble \in Trouble
             /\ run \in Run
             /\ \E k \in 0 .. Len(run.made), v \in 1 .. 3 :
                  /\ v > 1 => k = Len(run.made)
                  /\ sx' \in Schedule /\ sx'.deferred = <<>> /\ sx'.last = versions[v].last
                  /\ sx'.num = versions[v].num /\ sx'.rem = versions[v].rem
                  /\ SubSeq(run.made, 1, k) \in Seq(Days)
                  /\ transactions' = Added(SubSeq(run.made, 1, k))
                  /\ done' \in History /\ done'.crashed = TRUE
                  /\ done'.limited = done.limited /\ done'.shared = done.shared
                  /\ done'.postponed = done.postponed /\ done'.flawed = done.flawed
                  /\ done'.ignored = done.ignored \cup IF v > 1 THEN run.ignored ELSE {}
                  /\ done'.lost = done.lost \cup (IF v > 1 THEN Overtaken(run.left, run.last) \cup run.postponed ELSE {})
                                    \cup {Occurrence(sx.deferred[i]) : i \in DOMAIN sx.deferred}
  BY <1>0, CrashFacts
<1> DEFINE n == Len(list)
<1>3. list \in Seq(Shown) /\ n \in Nat /\ n \in 0 .. Len(list) /\ trouble \in Trouble
  BY <1>2
<1>4. LimitKeptIn(done) => ListOK(list, sx, transactions, done)
  BY <1>2, GeneratedInv DEF SxInv, SettledInv
<1> HIDE DEF trouble
<1>5. PICK f : IsRun(f, list, sx, n, trouble) /\ Effect(list, sx, n, trouble) = f[n]
  BY <1>1, <1>3, RunExists
<1> DEFINE vs == Committed(sx, f[n])
<1>6. PICK k \in 0 .. Len(f[n].made), v \in 1 .. 3 :
        /\ f[n] \in Run
        /\ v > 1 => k = Len(f[n].made)
        /\ sx' \in Schedule /\ sx'.deferred = <<>> /\ sx'.last = vs[v].last
        /\ SubSeq(f[n].made, 1, k) \in Seq(Days)
        /\ transactions' = Added(SubSeq(f[n].made, 1, k))
        /\ done' \in History /\ done'.crashed = TRUE
        /\ done'.limited = done.limited /\ done'.postponed = done.postponed
        /\ done'.ignored = done.ignored \cup IF v > 1 THEN f[n].ignored ELSE {}
        /\ done'.lost = done.lost \cup (IF v > 1 THEN Overtaken(f[n].left, f[n].last) \cup f[n].postponed ELSE {})
                          \cup {Occurrence(sx.deferred[i]) : i \in DOMAIN sx.deferred}
  BY <1>2, <1>5
<1> DEFINE moved == v > 1
<1>7. ASSUME LimitKeptIn(done') PROVE Settled(sx', transactions', done')
  <2>1. LimitKeptIn(done)
    BY <1>6, <1>7 DEF LimitKeptIn
  <2>2. RunFrom(f, list, sx, transactions, done, n, trouble)
    <3> HIDE DEF n
    <3>1. Settled(sx, transactions, done)
      BY <2>1 DEF SxInv, SettledInv
    <3>2. QED
      BY <1>1, <1>3, <1>4, <1>5, <2>1, <3>1 DEF RunFrom
  <2> HIDE DEF n
  <2>3. sx'.last = IF moved THEN f[n].last ELSE sx.last
    <3>1. CASE moved
      <4>1. v \in 2 .. 4
        BY <3>1
      <4>2. vs[v].last = Moved(sx.last, f[n].last)
        BY <1>1, <1>6, <4>1, CommittedFacts
      <4>3. LastSoFar(f[n], n, list, sx, trouble)
        BY <2>2, RunLast, RunTurns
      <4>4. QED
        BY <1>1, <1>6, <3>1, <4>2, <4>3, MovedIs
    <3>2. CASE ~moved
      <4>1. v = 1
        BY <3>2
      <4>2. QED
        BY <1>1, <1>6, <3>2, <4>1, CommittedFacts
    <3>3. QED
      BY <3>1, <3>2
  <2>4. ASSUME NEW e \in Days
        PROVE  /\ transactions[e] > 0 => transactions'[e] > 0
               /\ moved /\ In(e, f[n].made) => transactions'[e] > 0
    <3> DEFINE part == SubSeq(f[n].made, 1, k)
    <3>1. /\ transactions[e] > 0 => Added(part)[e] > 0
          /\ In(e, part) => Added(part)[e] > 0
      BY <1>1, <1>6, AddedFacts
    <3>2. moved => part = f[n].made
      <4>1. f[n].made \in Seq(Days)
        BY <1>6 DEF Run
      <4>2. QED
        BY <1>6, <4>1, SubSeqFull
    <3>3. transactions' = Added(part)
      BY <1>6
    <3> HIDE DEF part, moved
    <3>4. QED
      BY <3>1, <3>2, <3>3
  <2>5. /\ moved \in BOOLEAN /\ sx' \in Schedule /\ sx'.deferred = <<>> /\ done'.crashed = TRUE
        /\ done'.postponed = done.postponed
        /\ done'.ignored = done.ignored \cup IF moved THEN f[n].ignored ELSE {}
        /\ done'.lost = done.lost \cup (IF moved THEN Overtaken(f[n].left, f[n].last) \cup f[n].postponed ELSE {})
                          \cup {Occurrence(sx.deferred[i]) : i \in DOMAIN sx.deferred}
    BY <1>6
  <2> HIDE DEF moved
  <2>6. Crashed(f[n], sx, transactions, done, sx', transactions', done', moved)
    BY <2>3, <2>4, <2>5 DEF Crashed
  <2>7. QED
    BY <2>2, <2>6, CrashSettles
<1>8. ~Calm(done')
  BY <1>6 DEF Calm
<1>9. \A y \in Dialogs : dialog'[y] = Closed
  BY DEF Crash
<1>10. /\ SettledInv(sx', transactions', done', dialog') /\ NumInv(sx', done', dialog')
       /\ RemInv(sx', transactions', done', dialog')
  BY <1>7, <1>8, <1>9, ClosedInv
<1>11. QED
  BY <1>0, <1>10 DEF SxInv

LEMMA InitInv == Init => SxInv
<1> SUFFICES ASSUME Init PROVE SxInv
  OBVIOUS
<1>1. TypeInv
  BY InitType
<1>2. /\ sx.last = NoDay /\ sx.num = 1 /\ sx.rem = sx.total /\ sx.deferred = <<>>
  BY DEF Init
<1>3. /\ \A y \in Dialogs : dialog[y] = Closed
      /\ \A e \in Days : transactions[e] = 0
      /\ done.ignored = {} /\ done.postponed = {}
  BY DEF Init
<1>4. Last0(sx.last) = 0
  BY <1>2 DEF Last0
<1>5. Settled(sx, transactions, done)
  <2>1. DeferredOK(sx, done)
    BY <1>2, NothingIn DEF DeferredOK
  <2>2. 1 .. Last0(sx.last) = {}
    BY <1>4
  <2>3. QED
    BY <1>3, <2>1, <2>2 DEF Settled
<1>6. HandledIn(transactions, done) = {}
  BY <1>3 DEF HandledIn
<1>7. sx.rem + Cardinality(HandledIn(transactions, done)) = sx.total
  <2>1. Cardinality({}) = 0
    BY FS_EmptySet
  <2>2. sx.total \in Nat
    BY <1>1 DEF TypeInv, Schedule
  <2>3. QED
    BY <1>2, <1>6, <2>1, <2>2
<1>8. /\ SettledInv(sx, transactions, done, dialog) /\ NumInv(sx, done, dialog)
      /\ RemInv(sx, transactions, done, dialog)
  BY <1>2, <1>3, <1>4, <1>5, <1>7, ClosedInv
<1>9. QED
  BY <1>1, <1>8 DEF SxInv

LEMMA NextInv == SxInv /\ [Next]_vars => SxInv'
<1> SUFFICES ASSUME SxInv, [Next]_vars PROVE SxInv'
  OBVIOUS
<1>0. TypeInv /\ TypeInv'
  BY NextType DEF SxInv
<1>1. CASE Tomorrow
  BY <1>0, <1>1 DEF Tomorrow, SxInv
<1>2. ASSUME NEW x \in Dialogs, SinceLastRun(x) PROVE SxInv'
  BY <1>2, SinceLastRunKeeps
<1>3. ASSUME NEW x \in Dialogs, NEW i \in 1 .. Horizon + MaxDeferred, NEW new \in States \ {"created"},
             ChangeState(x, i, new)
      PROVE  SxInv'
  BY <1>3, ChangeStateKeeps
<1>4. ASSUME NEW x \in Dialogs, Respond(x) PROVE SxInv'
  BY <1>4, RespondKeeps
<1>5. ASSUME NEW x \in Dialogs, Cancel(x) PROVE SxInv'
  BY <1>5, CancelKeeps
<1>6. CASE EditLimit \/ EditEnabled \/ EditCreation \/ EditLead
  BY <1>6, EditsAre, SaveSxKeeps
<1>7. CASE Reload
  BY <1>7, ReloadKeeps
<1>8. CASE Crash
  BY <1>8, CrashKeeps
<1>9. CASE UNCHANGED vars
  BY <1>0, <1>9 DEF vars, SxInv
<1>10. QED
  BY <1>1, <1>2, <1>3, <1>4, <1>5, <1>6, <1>7, <1>8, <1>9 DEF Next

LEMMA SxInvHolds == SxSpec => []SxInv
BY InitInv, NextInv, PTL DEF SxSpec

-----------------------------------------------------------------------------
(* The properties.                                                         *)

\* No occurrence is entered twice, however many dialogs show it and in whatever order they are
\* answered, but for the three ways that the property names (a formula that fails, a crash
\* before the setters, a postponed occurrence before it): the merge of the lists in
\* gnc_sx_instance_model_update_sx_instances takes away what another dialog dealt with.
THEOREM CreatedOnceHolds == SxSpec => []CreatedOnce
<1>1. SxInv => CreatedOnce
  <2> SUFFICES ASSUME SxInv, NEW d \in Days, transactions[d] > 1, d \notin done.flawed, ~done.crashed,
                      ~(\E e \in done.postponed : e <= d \/ done.limited)
               PROVE  FALSE
    BY DEF CreatedOnce
  <2>1. LimitKeptIn(done) /\ ~Escaped(d, done)
    BY DEF LimitKeptIn, Escaped
  <2>2. Settled(sx, transactions, done)
    BY <2>1 DEF SxInv, SettledInv
  <2>3. transactions[d] <= 1
    BY <2>1, <2>2 DEF Settled
  <2>4. transactions[d] \in 0 .. 2
    BY DEF SxInv, TypeInv
  <2>5. QED
    BY <2>3, <2>4
<1>2. QED
  BY <1>1, SxInvHolds, PTL

\* Whatever is not after the last date was entered, ignored, is postponed or was lost on a day
\* that is counted; and the next list (_gnc_sx_gen_instances) shows whatever is due and was not,
\* a reminder or an error that no later date has passed included: neither the three commits at
\* the end of a run nor the loss of one of them passes over an occurrence in any other way.
THEOREM NoneSkippedHolds == SxSpec => []NoneSkipped
<1>1. SxInv => NoneSkipped
  <2> SUFFICES ASSUME SxInv, LimitKept
               PROVE  /\ \A d \in Days : d <= sx.last =>
                           transactions[d] > 0 \/ d \in done.ignored \cup done.lost \/ Deferred(d)
                      /\ sx.enabled /\ sx.total = 0 =>
                           \A d \in 1 .. today :
                             \/ transactions[d] > 0 \/ d \in done.ignored \cup done.lost
                             \/ \E i \in DOMAIN Generated(sx, today) : Occurrence(Generated(sx, today)[i].tsd) = d
    BY DEF NoneSkipped
  <2> DEFINE L == Generated(sx, today)
             m == Len(sx.deferred)
  <2>1. /\ sx \in Schedule /\ done \in History /\ today \in 1 .. LastDay /\ today \in Nat
    BY TypeTimes DEF SxInv, TypeInv
  <2>2. LimitKeptIn(done)
    BY DEF LimitKept, LimitKeptIn
  <2>3. Settled(sx, transactions, done)
    BY <2>2 DEF SxInv, SettledInv
  <2>4. Last0(sx.last) \in Nat
    BY <2>1, Last0Facts
  <2>5. sx.deferred \in Seq(Position) /\ DOMAIN sx.deferred = 1 .. m /\ m \in Nat
    BY <2>1, ScheduleParts, LenProperties
  <2>6. ASSUME NEW d \in Days, d <= sx.last
        PROVE  transactions[d] > 0 \/ d \in done.ignored \cup done.lost \/ Deferred(d)
    <3>1. d \in Nat /\ 1 <= d
      BY DayFacts
    <3>2. sx.last # NoDay
      BY <2>6, <3>1, NoDayFacts
    <3>3. d \in 1 .. Last0(sx.last)
      BY <2>4, <2>6, <3>1, <3>2 DEF Last0
    <3>4. Covered(d, sx, transactions, done)
      BY <2>3, <3>3 DEF Settled
    <3>5. QED
      BY <3>4 DEF Covered, Deferred, In
  <2>7. ASSUME sx.enabled, sx.total = 0, NEW d \in 1 .. today
        PROVE  \/ transactions[d] > 0 \/ d \in done.ignored \cup done.lost
               \/ \E i \in DOMAIN L : Occurrence(L[i].tsd) = d
    <3>1. /\ L \in Seq(Shown) /\ Len(L) = m + Coming(sx, today)
          /\ \A i \in 1 .. m : L[i] = NewInstance(sx, sx.deferred[i], "postponed")
          /\ \A k \in 1 .. Coming(sx, today) : L[m + k] = NewInstance(sx, Due(sx, k), DueState(sx, today, k))
      BY <2>1, <2>7, GeneratedFacts
    <3>2. DOMAIN L = 1 .. Len(L)
      BY <3>1, LenProperties
    <3>3. /\ Coming(sx, today) \in Nat
          /\ \A k \in 1 .. Coming(sx, today) : Occurrence(Due(sx, k)) = Occurrence(Start(sx)) + k - 1
          /\ sx.lead[1] \in Nat /\ sx.lead[2] \in Nat
      BY <2>1, DueFacts
    <3> HIDE DEF L, m
    <3>4. CASE d <= Last0(sx.last)
      <4>1. Covered(d, sx, transactions, done)
        BY <2>1, <2>3, <2>4, <3>4 DEF Settled
      <4>2. ASSUME NEW e, In(e, sx.deferred), Occurrence(e) = d
            PROVE  \E i \in DOMAIN L : Occurrence(L[i].tsd) = d
        <5>1. PICK i \in 1 .. m : sx.deferred[i] = e
          BY <2>5, <4>2 DEF In
        <5>2. i \in DOMAIN L
          BY <2>5, <3>1, <3>2, <3>3
        <5>3. L[i] = NewInstance(sx, sx.deferred[i], "postponed")
          BY <3>1
        <5>4. L[i].tsd = e
          BY <5>1, <5>3 DEF NewInstance
        <5>5. QED
          BY <4>2, <5>2, <5>4
      <4>3. QED
        BY <4>1, <4>2 DEF Covered
    <3>5. CASE ~(d <= Last0(sx.last))
      <4> DEFINE o == Occurrence(Start(sx))
                 k == d - o + 1
                 until == today + sx.lead[1] + sx.lead[2]
      <4>1. DeferredOK(sx, done) /\ Start(sx) \in After
        BY <2>1, <2>3, StartType DEF Settled
      <4>2. o \in Nat /\ o <= Last0(sx.last) + 1
        BY <2>1, <2>2, <4>1, StartFacts
      <4>3. d \in Nat /\ o <= d /\ d <= until /\ until \in Nat
        BY <2>1, <2>4, <3>3, <3>5, <4>2
      <4> HIDE DEF o, until
      <4>4. k \in 1 .. Coming(sx, today)
        BY <2>1, <2>7, <4>1, <4>3, FollowingFacts DEF Coming, o, until
      <4>5. m + k \in DOMAIN L
        BY <2>5, <3>1, <3>2, <3>3, <4>4
      <4> HIDE DEF k
      <4>6. L[m + k].tsd = Due(sx, k)
        <5>1. L[m + k] = NewInstance(sx, Due(sx, k), DueState(sx, today, k))
          BY <3>1, <4>4
        <5>2. QED
          BY <5>1 DEF NewInstance
      <4>7. Occurrence(Due(sx, k)) = d
        <5>1. Occurrence(Due(sx, k)) = o + k - 1
          BY <3>3, <4>4 DEF o
        <5>2. QED
          BY <4>2, <4>3, <5>1 DEF k
      <4>8. QED
        BY <4>5, <4>6, <4>7
    <3>6. QED
      BY <3>4, <3>5
  <2>8. QED
    BY <2>6, <2>7
<1>2. QED
  BY <1>1, SxInvHolds, PTL

\* increment_sx_state keeps the counts right as long as nothing is postponed and no formula
\* fails: the number is that of the next occurrence unless two dialogs were open at once, and
\* what remains is what was neither entered nor ignored.
THEOREM CountsExactHolds == SxSpec => []CountsExact
<1>1. SxInv => CountsExact
  <2> SUFFICES ASSUME SxInv, Undisturbed
               PROVE  /\ ~done.shared => sx.num = Occurrence(TemporalState(sx))
                      /\ ~done.limited /\ sx.total # 0 => sx.rem + Handled = sx.total
    BY DEF CountsExact
  <2>1. sx \in Schedule /\ done \in History
    BY DEF SxInv, TypeInv
  <2>2. Calm(done)
    BY <2>1 DEF Undisturbed, Calm, History
  <2>3. ~done.shared => sx.num = Last0(sx.last) + 1
    BY <2>2 DEF SxInv, NumInv
  <2>4. Occurrence(TemporalState(sx)) = Last0(sx.last) + 1
    <3>1. TemporalState(sx).last = Last0(sx.last)
      BY NoDayFacts DEF TemporalState, Last0
    <3>2. Last0(sx.last) # NoDay
      BY <2>1, Last0Facts, NoDayFacts
    <3>3. QED
      BY <3>1, <3>2 DEF Occurrence
  <2>5. ~done.limited /\ sx.total # 0 => sx.rem + Cardinality(HandledIn(transactions, done)) = sx.total
    BY <2>2 DEF SxInv, RemInv
  <2>6. QED
    BY <2>3, <2>4, <2>5 DEF Handled, HandledIn
<1>2. QED
  BY <1>1, SxInvHolds, PTL

=============================================================================
