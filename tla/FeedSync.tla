------------------------------ MODULE FeedSync ------------------------------
(***************************************************************************)
(* The sync of one calendar feed (inngest/functions/ical-sync.ts): what it *)
(* makes of the bookings of the feed, the booking/detected events it sends *)
(* for new stays and the turnovers it cancels for stays that are gone.     *)
(*                                                                         *)
(* A sync is a run of durable steps.  A step that fails is run again from  *)
(* its start, and what it wrote before it failed stays written; its result *)
(* is recorded only when it returns.  Runs of the same feed may overlap:   *)
(* the concurrency limit of the function is not kept per feed.             *)
(*                                                                         *)
(* The turnover of a stay is `job`, with its crew: one nobody is assigned  *)
(* to has nobody to tell.  How turnovers are generated is the subject of   *)
(* module Turnovers.                                                       *)
(***************************************************************************)
EXTENDS Naturals, FiniteSets

CONSTANTS Stays,      \* the uids of the feed
          Known,      \* stays booked, announced and assigned to begin with
          Cron,       \* the hourly sync of the feed, again and again
          Manual,     \* a sync somebody asks for, once in a behaviour
          FaultAt,    \* the places (values of pc) where a step may fail
          MaxChanges, \* bound: edits of the calendar, by the host or the PM
          MaxFaults   \* bound: failed attempts; at most the retries of a step

ASSUME FeedAssumption ==
  Known \subseteq Stays /\ MaxChanges \in Nat /\ MaxFaults \in 0..2

Syncs == {Cron, Manual}

VARIABLES feed,     \* what the provider publishes
          past,     \* stays whose checkout date has passed
          rows,     \* the status of the booking of each stay
          queue,    \* booking/detected events sent and not handled
          job,      \* the turnover of each stay
          pc,
          got,      \* the parsed download of a run
          existing, \* the bookings a run read before it wrote
          new,      \* newBookings of a run
          gone,     \* cancelledBookingIds of a run
          crew,     \* stays whose crew a run has to tell
          changes, faults,
          settled,  \* history: stays announced, or ever not confirmed
          lapsed,   \* history: published stays a nonempty feed ever left out
          unheard,  \* history: crews whose turnover a sync cancelled, untold
          forgot    \* history: stays of which a failed attempt had written
                    \* what it found, without its result being recorded

db      == <<rows, queue, job>>
local   == <<got, existing, new, gone, crew>>
bounds  == <<changes, faults>>
history == <<settled, lapsed, unheard, forgot>>
vars    == <<feed, past, db, pc, local, bounds, history>>

Goto(s, l) == pc' = [pc EXCEPT ![s] = l]

Absent(f) == {b \in Stays : f[b] = "absent"}
Empty(f)  == Absent(f) = Stays
Nowhere   == [b \in Stays |-> "absent"]
NoRows    == [b \in Stays |-> "none"]

Settle(S) == settled' = settled \cup S

-----------------------------------------------------------------------------
\* The steps of a run

Download(s) ==
  /\ pc[s] = "idle"
  /\ got' = [got EXCEPT ![s] = feed]
  /\ Goto(s, "existing")
  /\ UNCHANGED <<feed, past, db, existing, new, gone, crew, bounds, history>>

\* upsert-bookings first reads what is known of the feed.
ReadExisting(s) ==
  /\ pc[s] = "existing"
  /\ existing' = [existing EXCEPT ![s] = rows]
  /\ Goto(s, "upsert")
  /\ UNCHANGED <<feed, past, db, got, new, gone, crew, bounds, history>>

\* Faulty form: stays are new on the first import only.
NewInFirst(s) ==
  {b \in Stays : got[s][b] = "confirmed" /\ existing[s] = NoRows}

\* A stay is new when the bookings read before the write lack it.
NewIn(s) == {b \in Stays : got[s][b] = "confirmed" /\ existing[s][b] = "none"}

CancelledIn(s) ==
  {b \in Stays : /\ got[s][b] = "cancelled"
                 /\ existing[s][b] \notin {"none", "cancelled"}}

\* One bulk upsert of every event of the feed.
Upsert(s) ==
  LET after == [b \in Stays |-> IF got[s][b] = "absent" THEN rows[b]
                                ELSE got[s][b]]
  IN /\ pc[s] = "upsert"
     /\ rows' = after
     /\ new' = [new EXCEPT ![s] = NewIn(s)]
     /\ gone' = [gone EXCEPT ![s] = CancelledIn(s)]
     /\ Settle({b \in Stays : after[b] = "cancelled"})
     /\ Goto(s, "absent")
     /\ UNCHANGED <<feed, past, queue, job, got, existing, crew, bounds, lapsed,
                    unheard, forgot>>

\* Faulty form: stays the feed leaves out are never cancelled.
NoneAbsent(s) == {}

\* bookingsAbsentFromFeed: an empty download cancels nothing, and a stay that
\* is over was not cancelled by leaving the feed.
AbsentFromFeed(s) ==
  IF Empty(got[s]) THEN {}
  ELSE {b \in Absent(got[s]) : existing[s][b] = "confirmed" /\ b \notin past}

\* The result of the step is recorded, or it is lost after the writes.
Record(s, l) == Goto(s, l) /\ UNCHANGED faults

Lost(s) ==
  /\ "result" \in FaultAt /\ faults < MaxFaults
  /\ faults' = faults + 1

\* Starting upsert-bookings again: the bookings this attempt wrote are known
\* to the next one, which finds nothing new in them.
Again(s) ==
  /\ forgot' = forgot \cup new[s]
  /\ existing' = [existing EXCEPT ![s] = NoRows]
  /\ new' = [new EXCEPT ![s] = {}] /\ gone' = [gone EXCEPT ![s] = {}]
  /\ Goto(s, "existing")

WriteAbsent(s) ==
  /\ pc[s] = "absent"
  /\ rows' = [b \in Stays |-> IF b \in AbsentFromFeed(s) THEN "cancelled"
                             ELSE rows[b]]
  /\ Settle(AbsentFromFeed(s))
  /\ UNCHANGED <<feed, past, queue, job, crew, changes, lapsed, unheard>>

CancelAbsent(s) ==
  LET cancelled == gone[s] \cup AbsentFromFeed(s)
  IN /\ WriteAbsent(s)
     /\ gone' = [gone EXCEPT ![s] = cancelled]
     /\ got' = [got EXCEPT ![s] = Nowhere]
     /\ existing' = [existing EXCEPT ![s] = NoRows]
     /\ Record(s, IF cancelled = {} THEN "build" ELSE "turnovers")
     /\ UNCHANGED <<new, forgot>>

LoseBookings(s) == WriteAbsent(s) /\ Lost(s) /\ Again(s) /\ UNCHANGED got

\* cancelTurnoversForBooking: one UPDATE ... RETURNING cancels the turnovers
\* nobody has started and returns the crews that lose one.
LoseWork(s) == {b \in gone[s] : job[b] = "assigned"}

WriteTurnovers(s) ==
  /\ pc[s] = "turnovers"
  /\ job' = [b \in Stays |->
               IF b \in gone[s] /\ job[b] = "assigned"
               THEN "cancelled" ELSE job[b]]
  /\ unheard' = unheard \cup LoseWork(s)
  /\ UNCHANGED <<feed, past, rows, queue, got, existing, new, changes,
                 settled, lapsed>>

CancelTurnovers(s) ==
  /\ WriteTurnovers(s)
  /\ crew' = [crew EXCEPT ![s] = LoseWork(s)]
  /\ gone' = [gone EXCEPT ![s] = {}]
  /\ Record(s, "notify")
  /\ UNCHANGED forgot

LoseCrew(s) ==
  /\ WriteTurnovers(s)
  /\ Lost(s)
  /\ forgot' = forgot \cup LoseWork(s)
  /\ UNCHANGED <<pc, gone, crew>>

\* Faulty form: who is told is read from the turnovers, after the cancel.
NotifyAssigned(s) ==
  /\ pc[s] = "notify"
  /\ unheard' = unheard \ {b \in crew[s] : job[b] = "assigned"}
  /\ crew' = [crew EXCEPT ![s] = {}]
  /\ Goto(s, "build")
  /\ UNCHANGED <<feed, past, db, got, existing, new, gone, bounds, settled,
                 lapsed, forgot>>

\* notifyCrewOfCancelledTurnovers
Notify(s) ==
  /\ pc[s] = "notify"
  /\ unheard' = unheard \ crew[s]
  /\ crew' = [crew EXCEPT ![s] = {}]
  /\ Goto(s, "build")
  /\ UNCHANGED <<feed, past, db, got, existing, new, gone, bounds, settled,
                 lapsed, forgot>>

\* build-downstream-events drops stays cancelled in the meantime.
Build(s) ==
  /\ pc[s] = "build"
  /\ new' = [new EXCEPT ![s] = {b \in @ : rows[b] = "confirmed"}]
  /\ Goto(s, "fire")
  /\ UNCHANGED <<feed, past, db, got, existing, gone, crew, bounds, history>>

Fire(s) ==
  /\ pc[s] = "fire"
  /\ queue' = queue \cup new[s]
  /\ Settle(new[s])
  /\ new' = [new EXCEPT ![s] = {}]
  /\ Goto(s, IF s = Cron THEN "idle" ELSE "done")
  /\ UNCHANGED <<feed, past, rows, job, got, existing, gone, crew, bounds,
                 lapsed, unheard, forgot>>

\* A step throws before, or between, its writes: it runs again from its start.
Throw(s) ==
  /\ pc[s] \in FaultAt /\ faults < MaxFaults
  /\ faults' = faults + 1
  /\ IF pc[s] \in {"existing", "upsert", "absent"}
     THEN Again(s) ELSE UNCHANGED <<pc, existing, new, gone, forgot>>
  /\ UNCHANGED <<feed, past, db, got, crew, changes, settled, lapsed,
                 unheard>>

-----------------------------------------------------------------------------
\* Around the sync

\* handleBookingDetected: a stay confirmed by then gets its turnover.
Generate(b) ==
  /\ b \in queue
  /\ queue' = queue \ {b}
  /\ job' = IF rows[b] = "confirmed" /\ job[b] = "none"
            THEN [job EXCEPT ![b] = "assigned"] ELSE job
  /\ UNCHANGED <<feed, past, rows, pc, local, bounds, history>>

\* A turnover that has begun is nobody's to cancel.
StartWork(b) ==
  /\ job[b] = "assigned"
  /\ job' = [job EXCEPT ![b] = "in_progress"]
  /\ UNCHANGED <<feed, past, rows, queue, pc, local, bounds, history>>

Change == changes < MaxChanges /\ changes' = changes + 1

\* The host takes, cancels or drops a stay.
Publish(b, status) ==
  LET f == [feed EXCEPT ![b] = status]
  IN /\ Change /\ feed[b] # status /\ b \notin past
     /\ feed' = f
     /\ lapsed' = IF feed[b] = "confirmed" /\ ~Empty(f)
                  THEN lapsed \cup {b}
                  ELSE lapsed
     /\ UNCHANGED <<past, db, pc, local, faults, settled, unheard,
                    forgot>>

\* The feed serves a placeholder calendar (it comes back by Publish).
Unpublish ==
  /\ Change /\ ~Empty(feed)
  /\ feed' = Nowhere
  /\ UNCHANGED <<past, db, pc, local, faults, history>>

\* The checkout date passes, and the stay leaves the feed's rolling window.
Pass(b) ==
  /\ Change /\ b \notin past
  /\ past' = past \cup {b}
  /\ feed' = [feed EXCEPT ![b] = "absent"]
  /\ UNCHANGED <<db, pc, local, faults, history>>

\* cancelBooking: the manager cancels by hand, and nobody is told.
CancelBooking(b) ==
  /\ Change /\ rows[b] = "confirmed"
  /\ rows' = [rows EXCEPT ![b] = "cancelled"]
  /\ job' = IF job[b] = "assigned"
            THEN [job EXCEPT ![b] = "cancelled"] ELSE job
  /\ Settle({b})
  /\ UNCHANGED <<feed, past, queue, pc, local, faults, lapsed, unheard,
                 forgot>>

-----------------------------------------------------------------------------
Init ==
  /\ feed = [b \in Stays |-> IF b \in Known THEN "confirmed" ELSE "absent"]
  /\ rows = [b \in Stays |-> IF b \in Known THEN "confirmed" ELSE "none"]
  /\ job  = [b \in Stays |-> IF b \in Known THEN "assigned" ELSE "none"]
  /\ past = {} /\ queue = {}
  /\ pc = [s \in Syncs |-> "idle"]
  /\ got = [s \in Syncs |-> Nowhere] /\ existing = [s \in Syncs |-> NoRows]
  /\ new = [s \in Syncs |-> {}] /\ gone = [s \in Syncs |-> {}]
  /\ crew = [s \in Syncs |-> {}]
  /\ changes = 0 /\ faults = 0
  /\ settled = Known /\ lapsed = {} /\ unheard = {}
  /\ forgot = {}

Step(s) ==
  \/ Download(s) \/ ReadExisting(s) \/ Upsert(s) \/ CancelAbsent(s)
  \/ CancelTurnovers(s) \/ Notify(s)
  \/ Build(s) \/ Fire(s)

Edit ==
  \/ \E b \in Stays : \/ \E status \in {"absent", "confirmed", "cancelled"} :
                           Publish(b, status)
                      \/ Pass(b) \/ CancelBooking(b)
  \/ Unpublish

Next ==
  \/ \E s \in Syncs : Step(s) \/ Throw(s) \/ LoseBookings(s) \/ LoseCrew(s)
  \/ \E b \in Stays : Generate(b) \/ StartWork(b)
  \/ Edit

\* The hourly cron starts syncs for ever and Inngest runs their steps; nobody
\* has to edit a calendar or take up a turnover.
Fairness == \A s \in Syncs : WF_vars(Step(s))

Spec == Init /\ [][Next]_vars /\ Fairness

-----------------------------------------------------------------------------
Places == {"idle", "existing", "upsert", "absent", "turnovers",
           "notify", "build", "fire", "done"}

TypeOK ==
  /\ feed \in [Stays -> {"absent", "confirmed", "cancelled"}]
  /\ past \subseteq Stays /\ queue \subseteq Stays
  /\ rows \in [Stays -> {"none", "confirmed", "cancelled"}]
  /\ job \in [Stays -> {"none", "assigned", "in_progress", "cancelled"}]
  /\ pc \in [Syncs -> Places]
  /\ got \in [Syncs -> [Stays -> {"absent", "confirmed", "cancelled"}]]
  /\ existing \in [Syncs -> [Stays -> {"none", "confirmed", "cancelled"}]]
  /\ new \in [Syncs -> SUBSET Stays] /\ gone \in [Syncs -> SUBSET Stays]
  /\ crew \in [Syncs -> SUBSET Stays]
  /\ changes \in 0..MaxChanges /\ faults \in 0..MaxFaults
  /\ {settled, lapsed, unheard, forgot} \subseteq SUBSET Stays

\* What the bookings say of a stay once they follow the feed.  An empty feed
\* says nothing, and neither does leaving it after checkout.
Follows(b) ==
  CASE feed[b] = "absent" -> rows[b] # "confirmed" \/ b \in past \/ Empty(feed)
    [] OTHER -> rows[b] = feed[b]

\* However syncs of the feed overlap, fail and write over one another, and
\* whatever is changed by hand, the bookings end up as the feed has them.
Converges == <>[](\A b \in Stays : Follows(b))

\* A stay that came in confirmed and stays so is announced: its turnover
\* hangs on this one event.  Only an attempt that failed after it had written
\* the booking loses it.
Detected ==
  \A b \in Stays : (rows[b] = "confirmed" /\ b \notin settled)
                     ~> (b \in settled \cup forgot)

\* A crew whose turnover a sync cancels is told, with the same exception.
CrewIsTold ==
  \A b \in Stays : (b \in unheard) ~> (b \notin unheard \/ b \in forgot)

\* A stay the host has published ever since is not cancelled by a sync.  Not
\* true when syncs of a feed overlap.
CancelledOnlyWhenGone ==
  [][\A s \in Syncs, b \in Stays :
       CancelAbsent(s) /\ rows[b] = "confirmed" /\ rows'[b] = "cancelled"
         => b \in lapsed]_vars
=============================================================================
