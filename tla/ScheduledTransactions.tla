----------------------- MODULE ScheduledTransactions -----------------------
(***************************************************************************)
(* One scheduled transaction, the "Since Last Run" dialogs over it, the    *)
(* editor, and the transactions created from it.                           *)
(*                                                                         *)
(* SchedXaction.cpp keeps the date of the last occurrence dealt with, the  *)
(* number of the next one, how many remain, and a list of postponed ones.  *)
(* gnc-sx-instance-model.c generates from these the list of occurrences a  *)
(* dialog shows, merges it with the list already shown whenever the        *)
(* scheduled transaction changes, and carries out what the user chose.     *)
(* The dialog is not modal: several may be open (dialog-sx-since-last-     *)
(* run.c, gnc-plugin-basic-commands.c), each with a list of its own.       *)
(*                                                                         *)
(* The schedule is daily from day 1, so that the occurrences are the days. *)
(***************************************************************************)
EXTENDS Integers, Sequences, FiniteSetsExt, SequencesExt

CONSTANTS
    Dialogs,     \* "Since Last Run" dialogs that may be open
    LastDay,     \* the days that pass
    Limits,      \* numbers of occurrences a schedule may be limited to, 0 for none
    Leads,       \* days ahead that occurrences are created, and further days that they are shown
    Backend,     \* "xml" or "sql"
    MaxEvents,   \* runs of "Since Last Run", edits, creations gone wrong and crashes, together
    MaxDeferred  \* how many occurrences are postponed at a time

ASSUME SxAssumption ==
    /\ Backend \in {"xml", "sql"}
    /\ LastDay \in Nat \ {0}
    /\ Limits \subseteq Nat
    /\ Leads \subseteq Nat \X Nat /\ Leads # {} /\ IsFiniteSet(Leads)
    /\ {MaxEvents, MaxDeferred} \subseteq Nat

VARIABLES
    today,       \* the date the program sees
    sx,          \* the scheduled transaction
    dialog,      \* what each dialog shows
    transactions, \* how many transactions of each day exist
    done,        \* the days dealt with, and how, and those lost: history for the properties
    events       \* what MaxEvents bounds

vars == <<today, sx, dialog, transactions, done, events>>

\* A GDate that was cleared, and a date before the schedule (1 January 1970 in the code).
NoDay == -1
BeforeAll == 0

Horizon == LastDay + Max({l[1] + l[2] : l \in Leads})
Days == 1 .. Horizon
States == {"ignored", "postponed", "to-create", "reminder", "created"}

\* SXTmpStateData: where the schedule stands before an occurrence.
Dates == {NoDay, BeforeAll} \cup Days
Temporal == [last : Dates, rem : Int, num : Int]
Instance == [date : {NoDay} \cup Days, tsd : Temporal, state : States, orig : States]
Closed == [open |-> FALSE, until |-> NoDay, list |-> <<>>]

SxTypeOK ==
    /\ today \in 1 .. LastDay
    /\ sx \in [last : {NoDay} \cup Days, num : Int, rem : Nat, total : Nat, enabled : BOOLEAN,
               auto : BOOLEAN, notify : BOOLEAN, lead : Leads, deferred : Seq(Temporal)]
    /\ dialog \in [Dialogs -> [open : BOOLEAN, until : {NoDay} \cup Days, list : Seq(Instance)]]
    /\ transactions \in [Days -> 0 .. 2]
    /\ done \in [ignored : SUBSET Days, postponed : SUBSET Days, lost : SUBSET Days,
                 flawed : SUBSET Days, limited : BOOLEAN, shared : BOOLEAN, crashed : BOOLEAN]
    /\ events \in 0 .. MaxEvents

---------------------------------------------------------------------------
(* The schedule.                                                           *)

\* xaccSchedXactionGetNextInstance, and the day it is about whether or not the limit is reached.
Occurrence(tsd) == IF tsd.last = NoDay THEN 1 ELSE tsd.last + 1
NextInstance(s, tsd) == IF s.total # 0 /\ tsd.rem = 0 THEN NoDay ELSE Occurrence(tsd)

\* gnc_sx_create_temporal_state
TemporalState(s) ==
    [last |-> IF s.last = NoDay THEN BeforeAll ELSE s.last, rem |-> s.rem, num |-> s.num]

\* gnc_sx_incr_temporal_state
Incremented(s, tsd) ==
    [last |-> NextInstance(s, tsd), num |-> tsd.num + 1,
     rem |-> IF s.total # 0 THEN tsd.rem - 1 ELSE tsd.rem]

\* Mutant of Advanced: every occurrence has the number of the first.
AdvancedUnnumbered(s, tsd, k) ==
    [last |-> IF k = 0 THEN tsd.last ELSE Occurrence(tsd) + k - 1, num |-> tsd.num,
     rem |-> IF s.total # 0 THEN tsd.rem - k ELSE tsd.rem]

\* k increments at once, none of which meets the end of the schedule.
Advanced(s, tsd, k) ==
    [last |-> IF k = 0 THEN tsd.last ELSE Occurrence(tsd) + k - 1, num |-> tsd.num + k,
     rem |-> IF s.total # 0 THEN tsd.rem - k ELSE tsd.rem]

\* How many occurrences follow tsd up to a day.
Following(s, tsd, day) ==
    LET span == IF day < Occurrence(tsd) THEN 0 ELSE day + 1 - Occurrence(tsd) IN
    IF s.total # 0 /\ tsd.rem >= 0 THEN Min({span, tsd.rem}) ELSE span

\* gnc_sx_instance_new
NewInstance(s, tsd, state) ==
    [date |-> NextInstance(s, tsd), tsd |-> tsd, state |-> state, orig |-> state]

\* Where the occurrences that are not postponed begin: after the last one that is.
Start(s) ==
    IF s.deferred = <<>> THEN TemporalState(s) ELSE Incremented(s, Last(s.deferred))

\* _gnc_sx_gen_instances: what is postponed, what is due, and reminders.
Generated(s, day) ==
    LET postponed == [i \in DOMAIN s.deferred |-> NewInstance(s, s.deferred[i], "postponed")]
        coming == [k \in 1 .. Following(s, Start(s), day + s.lead[1] + s.lead[2]) |->
                     LET tsd == Advanced(s, Start(s), k - 1) IN
                     NewInstance(s, tsd, IF Occurrence(tsd) <= day + s.lead[1] THEN "to-create" ELSE "reminder")]
    IN  IF s.enabled THEN postponed \o coming ELSE <<>>

\* g_date_compare answers 0 when one of the dates is not valid.
Compare(m, n) == IF NoDay \in {m, n} THEN 0 ELSE m - n

\* Mutant of Merged: what no longer agrees is not deleted.
MergedKeeping(old, new) == old \o SubSeq(new, Len(old) + 1, Len(new))

\* gnc_sx_instance_model_update_sx_instances: instances are kept as far as the dates agree.
Merged(old, new) ==
    LET agree == {k \in 0 .. Min({Len(old), Len(new)}) : \A i \in 1 .. k : Compare(old[i].date, new[i].date) = 0}
        kept == Max(agree)
    IN  SubSeq(old, 1, kept) \o SubSeq(new, kept + 1, Len(new))

\* _gnc_sx_instance_event_handler and the callbacks of a dialog, after a commit of the
\* scheduled transaction.
Updated(d, s) ==
    IF ~d.open THEN d
    ELSE IF s.enabled THEN [d EXCEPT !.list = Merged(@, Generated(s, d.until))]
    ELSE [d EXCEPT !.list = <<>>]

\* The same after a setter: one that changes nothing commits nothing.
Told(d, before, after) == IF after = before THEN d ELSE Updated(d, after)

\* The dialogs after the setters that leave versions, one after the other. That of the last
\* date commits even without a change while there is no such date.
Notified(ds, versions) ==
    [x \in Dialogs |->
       LET first == IF versions[1].last = NoDay THEN Updated(ds[x], versions[2])
                    ELSE Told(ds[x], versions[1], versions[2])
       IN  Told(Told(first, versions[2], versions[3]), versions[3], versions[4])]

---------------------------------------------------------------------------
(* Carrying out what the user chose.                                       *)

\* gnc_sx_add_defer_instance: inserted before the first that is not earlier.
AddDeferred(deferred, tsd) ==
    LET later == {i \in DOMAIN deferred : Compare(tsd.last, deferred[i].last) <= 0}
                     \cup {Len(deferred) + 1}
    IN  InsertAt(deferred, Min(later), tsd)

\* Mutant of RemoveDeferred: the first postponed occurrence is taken for the one wanted.
RemoveFirstDeferred(deferred, tsd) == IF deferred = <<>> THEN deferred ELSE Tail(deferred)

\* gnc_sx_remove_defer_instance
RemoveDeferred(deferred, tsd) ==
    LET same == {i \in DOMAIN deferred : Compare(tsd.last, deferred[i].last) = 0} IN
    IF same = {} THEN deferred
    ELSE RemoveAt(deferred, Min(same))

\* gnc_sx_instance_model_change_instance_state, without the signal: reminders come last.
WithState(list, i, new) ==
    IF list[i].state = new THEN list
    ELSE [j \in DOMAIN list |->
            CASE j = i -> [list[j] EXCEPT !.state = new]
              [] j < i /\ new # "reminder" /\ list[j].state = "reminder" -> [list[j] EXCEPT !.state = "postponed"]
              [] j > i /\ new = "reminder" -> [list[j] EXCEPT !.state = "reminder"]
              [] OTHER -> list[j]]

\* Mutant of Passed: without a limit there is one fewer to come, too.
PassedUnlimited(run, inst) ==
    [run EXCEPT !.last = IF Compare(@, inst.date) <= 0 THEN inst.date ELSE @,
                !.num = inst.tsd.num + 1,
                !.rem = @ - 1]

\* increment_sx_state: the later of the dates, the number after the instance, one fewer to come.
Passed(run, inst) ==
    [run EXCEPT !.last = IF Compare(@, inst.date) <= 0 THEN inst.date ELSE @,
                !.num = inst.tsd.num + 1,
                !.rem = IF @ > 0 THEN @ - 1 ELSE @]

\* One turn of the loop of gnc_sx_instance_model_effect_change over the i-th instance.
\* missing: the template has no account; flawed: days whose formula cannot be computed,
\* whose transaction is created all the same.
Effected(run, i, missing, flawed) ==
    LET inst == run.list[i]
        day == Occurrence(inst.tsd)
        r == IF inst.orig = "postponed" /\ inst.state # "postponed"
             THEN [run EXCEPT !.deferred = RemoveDeferred(@, inst.tsd)] ELSE run
    IN  CASE inst.state = "created" -> r
          [] inst.state = "reminder" -> [r EXCEPT !.left = @ \cup {day}]
          [] inst.state = "ignored" -> Passed([r EXCEPT !.ignored = @ \cup {day}], inst)
          [] inst.state = "postponed" ->
               Passed([r EXCEPT !.deferred = IF inst.orig # "postponed" THEN AddDeferred(@, inst.tsd) ELSE @,
                                !.postponed = @ \cup {day}], inst)
          [] inst.state = "to-create" /\ missing -> [r EXCEPT !.left = @ \cup {day}]
          [] inst.state = "to-create" /\ ~missing /\ day \in flawed ->
               [r EXCEPT !.made = Append(@, day), !.left = @ \cup {day}]
          [] OTHER ->
               Passed([r EXCEPT !.made = Append(@, day), !.list = WithState(@, i, "created")], inst)

\* gnc_sx_instance_model_effect_change, up to the setters at its end: the first n instances have
\* their turn. When only what is automatic is wanted and the scheduled transaction is not, none has.
Effect(list, s, n, trouble) ==
    LET run[k \in 0 .. n] ==
          IF k = 0
          THEN [list |-> list, last |-> s.last, num |-> s.num, rem |-> s.rem,
                deferred |-> s.deferred, made |-> <<>>, ignored |-> {}, postponed |-> {}, left |-> {}]
          ELSE Effected(run[k - 1], k, trouble.missing, trouble.flawed)
    IN  run[n]

Automatic(list, s) == IF s.auto THEN Len(list) ELSE 0

\* xaccSchedXactionSetLastOccurDate, gnc_sx_set_instance_count, xaccSchedXactionSetRemOccur:
\* each a commit of its own unless nothing changes.
SetLast(s, last) == IF s.last # NoDay /\ Compare(s.last, last) = 0 THEN s ELSE [s EXCEPT !.last = last]
SetCount(s, num) == [s EXCEPT !.num = num]
SetRemaining(s, rem) == IF rem > s.total THEN s ELSE [s EXCEPT !.rem = rem]

\* The scheduled transaction as the three commits leave it.
Committed(s, run) ==
    LET s0 == [s EXCEPT !.deferred = run.deferred]
        s1 == SetLast(s0, run.last)
        s2 == SetCount(s1, run.num)
        s3 == SetRemaining(s2, run.rem)
    IN  <<s0, s1, s2, s3>>

\* Two transactions of a day stand for more.
Added(made) ==
    [d \in Days |-> Min({2, transactions[d] + Cardinality({k \in DOMAIN made : made[k] = d})})]

\* The days left for another time that the last date has passed: no later list has them.
Overtaken(left, last) == {d \in left : d <= last}

OthersOpen(x) == \E y \in Dialogs \ {x} : dialog[y].open

Noted(run, x, flawed) ==
    IF run.made = <<>> /\ run.ignored \cup run.postponed \cup run.left = {} THEN done ELSE
    [done EXCEPT !.ignored = @ \cup run.ignored, !.postponed = @ \cup run.postponed,
                 !.lost = @ \cup Overtaken(run.left, run.last),
                 !.flawed = @ \cup {d \in flawed : \E k \in DOMAIN run.made : run.made[k] = d},
                 !.shared = @ \/ OthersOpen(x)]

\* What goes wrong in a run: nothing, the account of the template, or the formula on one day.
Troubles(spent) == {[missing |-> FALSE, flawed |-> {}]} \cup
    IF spent >= MaxEvents THEN {}
    ELSE {[missing |-> TRUE, flawed |-> {}]} \cup {[missing |-> FALSE, flawed |-> {d}] : d \in Days}

Cost(trouble) == IF trouble.missing \/ trouble.flawed # {} THEN 1 ELSE 0

---------------------------------------------------------------------------
(* The actions.                                                            *)

Init ==
    /\ today = 1
    /\ \E total \in Limits, auto \in BOOLEAN, notify \in BOOLEAN, lead \in Leads :
         /\ notify => auto
         /\ sx = [last |-> NoDay, num |-> 1, rem |-> total, total |-> total, enabled |-> TRUE,
                  auto |-> auto, notify |-> notify, lead |-> lead, deferred |-> <<>>]
    /\ dialog = [x \in Dialogs |-> Closed]
    /\ transactions = [d \in Days |-> 0]
    /\ done = [ignored |-> {}, postponed |-> {}, lost |-> {}, flawed |-> {}, limited |-> FALSE,
             shared |-> FALSE, crashed |-> FALSE]
    /\ events = 0

Tomorrow ==
    /\ today < LastDay
    /\ today' = today + 1
    /\ UNCHANGED <<sx, dialog, transactions, done, events>>

\* gnc_sx_instance_model_summarize: a dialog is needed unless everything is created silently.
NeedDialog(list) ==
    \E i \in DOMAIN list : ~(list[i].state = "to-create" /\ sx.auto /\ ~sx.notify)

\* gnc_sx_sxsincelast_book_opened and the menu entry: generate, create what is automatic, show.
SinceLastRun(x) ==
    /\ ~dialog[x].open
    /\ events < MaxEvents
    /\ LET list == Generated(sx, today) IN
       /\ list # <<>>
       /\ \E trouble \in Troubles(events + 1) :
            LET run == Effect(list, sx, Automatic(list, sx), trouble)
                versions == Committed(sx, run)
                told == Notified(dialog, versions)
            IN  /\ Len(run.deferred) <= MaxDeferred
                /\ events' = events + 1 + Cost(trouble)
                /\ dialog' = IF NeedDialog(list)
                             THEN [told EXCEPT ![x] = [open |-> TRUE, until |-> today, list |-> run.list]]
                             ELSE told
                /\ sx' = Last(versions)
                /\ transactions' = Added(run.made)
                /\ done' = Noted(run, x, trouble.flawed)
    /\ UNCHANGED <<today>>

\* instance_state_changed_cb: the user chooses what becomes of an instance; the dialog is updated.
ChangeState(x, i, new) ==
    /\ i \in DOMAIN dialog[x].list
    /\ dialog[x].list[i].state \notin {"created", new}
    /\ dialog' = [dialog EXCEPT ![x] = Updated([dialog[x] EXCEPT !.list = WithState(@, i, new)], sx)]
    /\ UNCHANGED <<today, sx, transactions, done, events>>

\* dialog_response_cb, OK. The dialog does not hear of its own changes.
Respond(x) ==
    /\ dialog[x].open
    /\ \E trouble \in Troubles(events) :
         LET run == Effect(dialog[x].list, sx, Len(dialog[x].list), trouble)
             versions == Committed(sx, run)
         IN  /\ Len(run.deferred) <= MaxDeferred
             /\ events' = events + Cost(trouble)
             /\ dialog' = [Notified(dialog, versions) EXCEPT ![x] = Closed]
             /\ IF dialog[x].list = <<>>
                THEN UNCHANGED <<sx, transactions, done>>
                ELSE /\ sx' = Last(versions)
                     /\ transactions' = Added(run.made)
                     /\ done' = Noted(run, x, trouble.flawed)
    /\ UNCHANGED <<today>>

Cancel(x) ==
    /\ dialog[x].open
    /\ dialog' = [dialog EXCEPT ![x] = Closed]
    /\ UNCHANGED <<today, sx, transactions, done, events>>

\* gnc_sxed_save_sx: one commit. A new limit resets what remains before that is set.
SaveSx(s) ==
    /\ events < MaxEvents
    /\ events' = events + 1
    /\ s # sx
    /\ sx' = s
    /\ dialog' = [x \in Dialogs |-> Updated(dialog[x], s)]
    /\ done' = [done EXCEPT !.limited = @ \/ s.total # sx.total \/ s.rem # sx.rem]
    /\ UNCHANGED <<today, transactions>>

EditLimit == \E total \in Limits, rem \in 0 .. Horizon :
    /\ total = 0 => rem = 0
    /\ SaveSx(SetRemaining([sx EXCEPT !.total = total, !.rem = IF total = sx.total THEN @ ELSE total], rem))

EditEnabled == SaveSx([sx EXCEPT !.enabled = ~@])

EditCreation == \E auto \in BOOLEAN, notify \in BOOLEAN :
    SaveSx([sx EXCEPT !.auto = auto, !.notify = auto /\ notify])

EditLead == \E lead \in Leads : SaveSx([sx EXCEPT !.lead = lead])

\* The book is saved, closed and loaded again: gnc-schedxaction-sql.cpp has no column for what
\* is postponed, gnc-schedxaction-xml-v2.cpp writes it.
Reloaded(s) == IF Backend = "sql" THEN [s EXCEPT !.deferred = <<>>] ELSE s

Reload ==
    /\ dialog' = [x \in Dialogs |-> Closed]
    /\ sx' = Reloaded(sx)
    /\ done' = [done EXCEPT !.lost = @ \cup {Occurrence(sx.deferred[i]) : i \in
                   IF Backend = "sql" THEN DOMAIN sx.deferred ELSE {}}]
    /\ sx' # sx
    /\ UNCHANGED <<today, transactions, events>>

\* The program dies while it carries out what a dialog says, after some instances or after some
\* of the setters: a database has stored each transaction and each commit.
Crash ==
    /\ Backend = "sql"
    /\ events < MaxEvents
    /\ \E list \in {dialog[x].list : x \in Dialogs} \cup (IF sx.auto THEN {Generated(sx, today)} ELSE {}) :
         LET run == Effect(list, sx, Len(list), [missing |-> FALSE, flawed |-> {}])
             versions == Committed(sx, run)
         IN  \E k \in 0 .. Len(run.made), v \in 1 .. 3 :
               /\ v > 1 => k = Len(run.made)
               /\ sx' = Reloaded([versions[v] EXCEPT !.deferred = sx.deferred])
               /\ transactions' = Added(SubSeq(run.made, 1, k))
               /\ done' = [done EXCEPT !.crashed = TRUE,
                             !.ignored = @ \cup IF v > 1 THEN run.ignored ELSE {},
                             !.lost = @ \cup (IF v > 1 THEN Overtaken(run.left, run.last) \cup run.postponed ELSE {})
                                        \cup {Occurrence(sx.deferred[i]) : i \in DOMAIN sx.deferred}]
    /\ dialog' = [y \in Dialogs |-> Closed]
    /\ events' = events + 1
    /\ UNCHANGED <<today>>

Next ==
    \/ Tomorrow
    \/ \E x \in Dialogs :
         \/ SinceLastRun(x)
         \/ \E i \in 1 .. Horizon + MaxDeferred, new \in States \ {"created"} : ChangeState(x, i, new)
         \/ Respond(x) \/ Cancel(x)
    \/ EditLimit \/ EditEnabled \/ EditCreation \/ EditLead
    \/ Reload \/ Crash

SxSpec == Init /\ [][Next]_vars

---------------------------------------------------------------------------
(* Properties.                                                             *)

Deferred(d) == \E i \in DOMAIN sx.deferred : Occurrence(sx.deferred[i]) = d

\* An occurrence is not entered twice, however many dialogs show it while one of them enters
\* it: gnc_sx_instance_model_update_sx_instances takes from each list what another dialog has
\* dealt with. There are three ways to enter it twice: its formula fails (the transaction is
\* made and the occurrence stays due), a crash before the setters, and a postponed occurrence
\* before it, from which the next list starts anew.
CreatedOnce == \A d \in Days :
    transactions[d] > 1 =>
        \/ d \in done.flawed
        \/ done.crashed
        \/ \E e \in done.postponed : e <= d \/ done.limited

\* What remains of the schedule is part of what is postponed: a limit set meanwhile does not
\* agree with it.
LimitKept == done.limited => done.postponed = {}

\* No occurrence is passed over but in the ways "lost" counts, each on the day it happens:
\* whatever is not after the last date was entered, ignored or is still postponed; and whatever
\* is due and was not, a reminder or an error that nothing later has passed included, is in the
\* list the next run makes (_gnc_sx_gen_instances, the removal of postponed ones, the three
\* setters at the end of gnc_sx_instance_model_effect_change). Lost are
\*  - a reminder before one that is entered, ignored or postponed in the same run: the last date
\*    passes it. gnc-sx-instance-model.h:125-149 allows no such list, but only a choice of the
\*    user is made to conform (WithState), not what the merge with a new list appends (Merged);
\*  - the same of one that is not entered because of an error;
\*  - a postponed one that is made a reminder again, or has an error: it is not postponed any
\*    more (gnc_sx_remove_defer_instance) and before the last date;
\*  - what is postponed when the program crashes on a database or loads it again: there is
\*    no column for it.
\* Not so once a limit was edited and occurrences were postponed: one with none remaining has
\* no date, the schedule starts anew after it, and what is postponed then has an invalid date
\* too, which gnc_sx_remove_defer_instance takes for that of any other.
NoneSkipped ==
    LimitKept =>
    /\ \A d \in Days : d <= sx.last =>
         transactions[d] > 0 \/ d \in done.ignored \cup done.lost \/ Deferred(d)
    /\ sx.enabled /\ sx.total = 0 =>
         \A d \in 1 .. today :
           \/ transactions[d] > 0 \/ d \in done.ignored \cup done.lost
           \/ \E i \in DOMAIN Generated(sx, today) : Occurrence(Generated(sx, today)[i].tsd) = d

Undisturbed == ~done.crashed /\ done.postponed \cup done.flawed = {}
Handled == Cardinality({d \in Days : transactions[d] > 0 \/ d \in done.ignored})

\* As long as nothing is postponed and no formula fails, increment_sx_state keeps the numbers
\* right: the next occurrence is numbered by its place in the schedule (the "i" of formulas),
\* unless two dialogs were open at once; and what remains of a limited schedule is what was
\* neither entered nor ignored, even then.
CountsExact ==
    /\ Undisturbed /\ ~done.shared => sx.num = Occurrence(TemporalState(sx))
    /\ Undisturbed /\ ~done.limited /\ sx.total # 0 => sx.rem + Handled = sx.total
===========================================================================
