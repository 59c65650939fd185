------------------------------- MODULE Resync -------------------------------
(***************************************************************************)
(* When the crew PWA pulls: broadcast signals, resync triggers and their   *)
(* coalescing (lib/dexie/context.tsx, sync/signals.ts, full-resync.ts, the *)
(* Crew Sync v2 path, on by default).  What one pull does to the rows is   *)
(* DeltaSync's subject; here it brings what the server has when asked.     *)
(*                                                                         *)
(* property_assets and inventory are left out: their pulls are skipped     *)
(* while the assigned properties stay the same.                            *)
(***************************************************************************)
EXTENDS Naturals

CONSTANTS
  Entities,        \* of SyncSignalEntities
  ReconcileEvery,  \* RECONCILE_EVERY_N_POLLS
  MaxChanges,      \* bound: changes on the server
  MaxFaults        \* bound: failed or hung pulls, failed joins, lost broadcasts,
                   \* offline periods

\* SYNC_SIGNAL_ENTITIES.
SyncSignalEntities == {"turnovers", "checklists", "work_orders"}

ASSUME ResyncAssumption ==
  /\ Entities \subseteq SyncSignalEntities /\ "work_orders" \in Entities
  /\ ReconcileEvery \in Nat \ {0} /\ MaxChanges \in Nat /\ MaxFaults \in Nat

\* What the device caches: the entities' rows, and which open work orders are
\* still assigned to the crew member.
Parts   == Entities \cup {"membership"}
Pullers == Entities \cup {"resync"}

VARIABLES
  server,   \* the version of each part
  seen,     \* the newest version of it a pull has brought
  \* the device
  link,     \* navigator.onLine
  chan,     \* the broadcast channel: "none", "joining", "joined" or "dead"
  greeting, \* joined, and its SUBSCRIBED callback has still to run
  mail,     \* entities of broadcasts on their way or in their debounce time
  running, queued, todo,  \* each puller: in flight, one more asked for, parts left
  full,     \* reconcile of the resync in flight
  booted,   \* the mount resync is over, the triggers are installed
  hung,     \* pullers with a request in flight that is never answered
  tick,     \* pollTick
  \* history and bounds
  spoiled,  \* parts a failure has lost the news of, until the next fetch
  changes,
  faults

remote  == <<server, changes>>
channel == <<chan, greeting, mail>>
pulls   == <<running, queued, todo, full>>
vars    == <<remote, seen, link, channel, pulls, booted, hung, tick, spoiled, faults>>

\* syncAssignedTurnovers, syncChecklistsV2, syncWorkOrders (whose reconcile
\* defaults to false), fullCrewResync.
Wants(x, reconcile) ==
  Parts \cap (CASE x = "turnovers"   -> {"turnovers", "checklists"}
                [] x = "checklists"  -> {"checklists"}
                [] x = "work_orders" -> {"work_orders"}
                [] x = "resync"      -> IF reconcile THEN Parts ELSE Entities)

Init ==
  /\ server = [p \in Parts |-> 0] /\ seen = [p \in Parts |-> 0]
  /\ link = TRUE /\ chan = "none" /\ greeting = FALSE
  /\ mail = {}
  /\ running = [x \in Pullers |-> x = "resync"]
  /\ queued = [x \in Pullers |-> FALSE]
  /\ todo = [x \in Pullers |-> IF x = "resync" THEN Wants(x, TRUE) ELSE {}]
  /\ full = TRUE /\ booted = FALSE /\ hung = {} /\ tick = 0
  /\ spoiled = {} /\ changes = 0 /\ faults = 0

Fault == faults < MaxFaults /\ faults' = faults + 1

-----------------------------------------------------------------------------
(***************************************************************************)
(* Starting pulls.  One is in flight, at most one more is queued; the one  *)
(* queued repeats the call in flight, its reconcile included.              *)
(***************************************************************************)
Start(x, reconcile) ==
  /\ running' = [running EXCEPT ![x] = TRUE]
  /\ todo' = [todo EXCEPT ![x] = Wants(x, reconcile)]

\* Faulty form of Ask: a call made while a pull is in flight is dropped.
AskOnce(x, reconcile) ==
  /\ IF running[x] THEN UNCHANGED <<running, todo, full>>
     ELSE Start(x, reconcile) /\ full' = IF x = "resync" THEN reconcile ELSE full
  /\ UNCHANGED queued

\* runCoalesced for the resync, runAction for an entity.
Ask(x, reconcile) ==
  IF running[x]
  THEN queued' = [queued EXCEPT ![x] = TRUE] /\ UNCHANGED <<running, todo, full>>
  ELSE /\ Start(x, reconcile)
       /\ full' = IF x = "resync" THEN reconcile ELSE full
       /\ UNCHANGED queued

\* The app comes to the foreground.
Visible ==
  /\ booted
  /\ Ask("resync", TRUE)
  /\ UNCHANGED <<remote, seen, link, channel, booted, hung, tick, spoiled, faults>>

\* Faulty form of Reconciles: the counter is compared before it is advanced.
ReconcilesLate(t) == t = ReconcileEvery

Reconciles(t) == t = 0

\* The safety poll.  Assumed: a pass the poll has started, and what follows it,
\* is over before the poll's next tick five minutes later, or it hangs.
Tick ==
  /\ booted
  /\ running["resync"] => full \/ "resync" \in hung
  /\ tick' = (tick + 1) % ReconcileEvery
  /\ Ask("resync", Reconciles(tick'))
  /\ UNCHANGED <<remote, seen, link, channel, booted, hung, spoiled, faults>>

-----------------------------------------------------------------------------
(***************************************************************************)
(* A pull in flight                                                        *)
(***************************************************************************)
\* The checklists of a turnover pull come after its rows.
Due(x, p) ==
  /\ x \notin hung
  /\ p \in todo[x] /\ (p = "checklists" => "turnovers" \notin todo[x])

Fetch(x, p) ==
  /\ Due(x, p) /\ link
  /\ seen' = [seen EXCEPT ![p] = server[p]]
  /\ todo' = [todo EXCEPT ![x] = @ \ {p}]
  /\ spoiled' = spoiled \ {p}
  /\ UNCHANGED <<remote, link, channel, running, queued, full, booted, hung, tick, faults>>

\* What one failed request leaves out: the rest of its entity.
Abandoned(p) == IF p \in {"turnovers", "checklists"} THEN {"turnovers", "checklists"}
                ELSE {"work_orders", "membership"}

\* The entity is reported and skipped; the rest of the pull goes on.
Fail(x, p) ==
  /\ Due(x, p)
  /\ todo' = [todo EXCEPT ![x] = @ \ Abandoned(p)]
  /\ IF link
     THEN Fault /\ spoiled' = spoiled \cup (todo[x] \cap Abandoned(p))
     ELSE UNCHANGED <<faults, spoiled>>
  /\ UNCHANGED <<remote, seen, link, channel, running, queued, full, booted, hung, tick>>

\* The requests have no timeout: one that is never answered keeps the pull in
\* flight, and whatever asks for another waits behind it.
Hang(x) ==
  /\ x \notin hung /\ todo[x] # {} /\ link /\ Fault
  /\ hung' = hung \cup {x}
  /\ UNCHANGED <<remote, seen, link, channel, pulls, booted, tick, spoiled>>

\* After the mount resync: the triggers are installed and the channel is
\* joined; subscribing fails and nothing subscribes again; or the resync has
\* thrown and nothing is installed.
Boot ==
  \/ booted' = TRUE /\ chan' = "joining" /\ UNCHANGED faults
  \/ booted' = TRUE /\ Fault /\ UNCHANGED chan
  \/ Fault /\ UNCHANGED <<booted, chan>>

\* onSettled, and the finally of runAction.
Settle(x) ==
  /\ running[x] /\ todo[x] = {}
  /\ IF queued[x] THEN Start(x, full)
     ELSE running' = [running EXCEPT ![x] = FALSE] /\ UNCHANGED todo
  /\ queued' = [queued EXCEPT ![x] = FALSE]
  /\ IF booted THEN UNCHANGED <<booted, chan, faults>> ELSE Boot
  /\ UNCHANGED <<remote, seen, link, greeting, mail, full, hung, tick, spoiled>>

-----------------------------------------------------------------------------
(***************************************************************************)
(* The server's broadcasts                                                 *)
(***************************************************************************)
Signals(p) == IF p = "membership" THEN "work_orders" ELSE p

\* A change, and its broadcast to whoever has joined, which may be lost.
Change(p) ==
  /\ changes < MaxChanges /\ changes' = changes + 1
  /\ server' = [server EXCEPT ![p] = @ + 1]
  /\ IF chan # "joined"
     THEN UNCHANGED <<mail, spoiled, faults>>
     ELSE \/ mail' = mail \cup {Signals(p)} /\ UNCHANGED <<spoiled, faults>>
          \/ Fault /\ spoiled' = spoiled \cup {p} /\ UNCHANGED mail
  /\ UNCHANGED <<seen, link, chan, greeting, pulls, booted, hung, tick>>

\* handleSignal and its trailing debounce: a burst comes to one pull after the
\* last signal.
Signal(e) ==
  /\ e \in mail
  /\ mail' = mail \ {e}
  /\ Ask(e, FALSE)
  /\ UNCHANGED <<remote, seen, link, chan, greeting, booted, hung, tick, spoiled, faults>>

-----------------------------------------------------------------------------
(***************************************************************************)
(* The channel                                                             *)
(***************************************************************************)
Join ==
  /\ chan = "joining" /\ link
  /\ chan' = "joined" /\ greeting' = TRUE
  /\ UNCHANGED <<remote, seen, link, mail, pulls, booted, hung, tick, spoiled, faults>>

\* "The gap while disconnected may have swallowed signals."
Subscribed ==
  /\ greeting
  /\ greeting' = FALSE
  /\ Ask("resync", TRUE)
  /\ UNCHANGED <<remote, seen, link, chan, mail, booted, hung, tick, spoiled, faults>>

\* CHANNEL_ERROR, TIMED_OUT or CLOSED: broadcasts on their way are lost.
Drop ==
  /\ chan \in {"joining", "joined"}
  /\ IF link THEN Fault ELSE UNCHANGED faults
  /\ chan' = "dead" /\ greeting' = FALSE
  /\ mail' \in SUBSET mail
  /\ UNCHANGED <<remote, seen, link, pulls, booted, hung, tick, spoiled>>

\* scheduleV2Reconnect and its timer's subscribeV2; when setAuth fails the
\* timer is set again.
Reconnect ==
  /\ chan = "dead"
  /\ \/ chan' = "joining" /\ UNCHANGED faults
     \/ Fault /\ UNCHANGED chan
  /\ UNCHANGED <<remote, seen, link, greeting, mail, pulls, booted, hung, tick, spoiled>>

GoOffline ==
  /\ link /\ Fault
  /\ link' = FALSE
  /\ UNCHANGED <<remote, seen, channel, pulls, booted, hung, tick, spoiled>>

\* The online event; before the triggers are installed nobody hears it.
GoOnline ==
  /\ ~link
  /\ link' = TRUE
  /\ IF booted THEN Ask("resync", TRUE) ELSE UNCHANGED pulls
  /\ UNCHANGED <<remote, seen, channel, booted, hung, tick, spoiled, faults>>

-----------------------------------------------------------------------------
PullStep(x) == (\E p \in Parts : Fetch(x, p)) \/ Settle(x)

Next ==
  \/ \E x \in Pullers : PullStep(x) \/ Hang(x) \/ \E p \in Parts : Fail(x, p)
  \/ \E p \in Parts : Change(p)
  \/ \E e \in Entities : Signal(e)
  \/ Visible \/ Tick
  \/ Join \/ Subscribed \/ Drop \/ Reconnect
  \/ GoOffline \/ GoOnline

Spec == Init /\ [][Next]_vars

-----------------------------------------------------------------------------
(***************************************************************************)
(* Properties                                                              *)
(***************************************************************************)
\* Every variable has its type; nothing is queued that is not in flight.
TypeOK ==
  /\ server \in [Parts -> 0..MaxChanges] /\ seen \in [Parts -> 0..MaxChanges]
  /\ \A p \in Parts : seen[p] <= server[p]
  /\ link \in BOOLEAN /\ chan \in {"none", "joining", "joined", "dead"}
  /\ greeting \in BOOLEAN /\ mail \subseteq Entities
  /\ running \in [Pullers -> BOOLEAN] /\ queued \in [Pullers -> BOOLEAN]
  /\ todo \in [Pullers -> SUBSET Parts]
  /\ \A x \in Pullers : (queued[x] \/ todo[x] # {}) => running[x]
  /\ full \in BOOLEAN /\ booted \in BOOLEAN /\ hung \subseteq Pullers
  /\ tick \in 0..(ReconcileEvery - 1)
  /\ spoiled \subseteq Parts /\ changes \in 0..MaxChanges /\ faults \in 0..MaxFaults

(***************************************************************************)
(* Liveness.  Pulls end unless they hang, timers fire and callbacks run, a *)
(* join is answered while the device is online.  Nothing is assumed of the *)
(* poll here, nor that the crew member ever leaves the app and returns.    *)
(***************************************************************************)
Fairness ==
  /\ \A x \in Pullers : WF_vars(PullStep(x))
  /\ \A e \in Entities : WF_vars(Signal(e))
  /\ WF_vars(Join) /\ WF_vars(Subscribed) /\ WF_vars(Reconnect)

FairSpec == Spec /\ Fairness

\* A hung pull keeps back what only it, or one behind it, would fetch.
Blocked(p) == \E x \in hung : p \in Wants(x, TRUE)

\* Out of date, and no failure has taken the news away.
Behind(p) ==
  /\ seen[p] # server[p] /\ p \notin spoiled /\ link /\ ~Blocked(p)
  /\ IF booted THEN chan # "none" ELSE running["resync"]

\* "A missed broadcast only ever costs latency" (context.tsx:439): rows that
\* change while the device is online, offline, joining or already pulling are
\* pulled again, without the poll, unless a pull of them failed or hangs, a
\* broadcast to a joined channel was lost, or the boot failed.
MissedIsFetched == \A p \in Entities : Behind(p) ~> ~Behind(p)

\* The same of reassignments: "Mount, reconnect, foreground and signal all
\* reconcile unconditionally" (context.tsx:68).  Not true of the code: the
\* signal's pull does not reconcile, and a queued follow-up repeats what is in
\* flight.
ReassignmentArrives == Behind("membership") ~> ~Behind("membership")

\* "The correctness backstop" (context.tsx:49): if the poll goes on, every part
\* comes to be up to date whatever failed, reassignments and signal pulls that
\* hang included, unless a resync itself hangs: later polls wait behind it.
BackstopArrives ==
  []<><<Tick>>_vars =>
    <>[](\A p \in Parts : seen[p] = server[p] \/ ~link \/ "resync" \in hung)
=============================================================================
