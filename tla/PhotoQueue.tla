----------------------------- MODULE PhotoQueue -----------------------------
(***************************************************************************)
(* Photos a crew member takes, from the capture to the server              *)
(* (lib/dexie/photo-sync.ts), and the collection of what is left over      *)
(* (lib/dexie/prune.ts).                                                   *)
(*                                                                         *)
(* The bytes of a photo and the row that tracks it live in two IndexedDB   *)
(* databases: no step writes both.  A photo is uploaded first; then one    *)
(* transaction writes its path into the cached target row and queues the   *)
(* write for the server (the mutation outbox sends it: CrewOutbox); then   *)
(* the row goes, then the bytes.  Photos are numbered as they are taken.   *)
(*                                                                         *)
(* The retry budget is a choice: a rejected photo backs off (attempts are  *)
(* left) or is dead-lettered (none are, or the error is terminal).         *)
(***************************************************************************)
EXTENDS Naturals, FiniteSets

CONSTANTS N,         \* number of photos
          Target,    \* the row each photo belongs to
          Tabs,
          Locks,     \* TRUE: the browser has Web Locks
          MaxFaults  \* bound: failed and unanswered calls, and killed tabs

Photos  == 1..N
None    == 0
Targets == {Target[p] : p \in Photos}

ASSUME PhotoAssumption ==
  /\ N \in Nat \ {0} /\ DOMAIN Target = Photos /\ MaxFaults \in Nat
  /\ Locks \in BOOLEAN

VARIABLES blobs,   \* photos whose bytes are on the device
          row,     \* the tracking row of each photo, or where it stands
          stored,  \* photos the storage bucket holds
          pointer, \* the photo each target points at, here and in the outbox
          tab,     \* where the drain of each tab is
          todo,    \* rows the drain has read and not finished
          cur,     \* the photo it is at
          sweep,   \* where the orphan sweep is
          keys,    \* the blobs without a row it found
          candidates, \* blobs without a row at the last sweep
          stale,   \* dead letters prune read as expired
          doomed,  \* those whose row it deleted, with the bytes still to go
          faults,
          pointed, \* history: photos whose path was queued for the server
          expired, \* history: photos prune removed as expired
          slow     \* history: photos two sweeps met between their two writes

device  == <<blobs, row, pointer>>
drain   == <<tab, todo, cur>>
prune   == <<stale, doomed>>
cleanup == <<sweep, keys, candidates, prune>>
history == <<pointed, expired, slow>>
vars    == <<device, stored, drain, cleanup, faults, history>>

Live == {p \in Photos : row[p] \in {"ready", "waiting", "failed"}}

\* An update of a row that is no longer there does nothing, and a new time for
\* the next attempt leaves a failed row failed.
Update(p, s) == row' = IF p \in Live THEN [row EXCEPT ![p] = s] ELSE row
BackOff(p)   == row' = IF row[p] \in {"ready", "waiting"}
                         THEN [row EXCEPT ![p] = "waiting"] ELSE row

Fault == faults < MaxFaults /\ faults' = faults + 1

-----------------------------------------------------------------------------
\* Capture: the bytes are saved, then the row is added.

SaveBlob(p) ==
  /\ row[p] = "none" /\ \A q \in 1..(p - 1) : row[q] # "none"
  /\ row' = [row EXCEPT ![p] = "saving"]
  /\ blobs' = blobs \cup {p}
  /\ UNCHANGED <<stored, pointer, drain, cleanup, faults, history>>

AddRow(p) ==
  /\ row[p] = "saving"
  /\ row' = [row EXCEPT ![p] = "ready"]
  /\ UNCHANGED <<blobs, stored, pointer, drain, cleanup, faults, history>>

\* No room for the row, or the app is reclaimed: the bytes are stranded.
LoseRow(p) ==
  /\ row[p] = "saving" /\ Fault
  /\ row' = [row EXCEPT ![p] = "lost"]
  /\ UNCHANGED <<blobs, stored, pointer, drain, cleanup, history>>

-----------------------------------------------------------------------------
\* processPendingPhotoUploads, drainPhotoQueue

Goto(t, l) == tab' = [tab EXCEPT ![t] = l]
Done(t)    == todo' = [todo EXCEPT ![t] = @ \ {cur[t]}]
Clear(t)   == cur' = [cur EXCEPT ![t] = None]
AtCur(t)   == Goto(t, "next") /\ Done(t) /\ Clear(t)

Begin(t) ==
  LET due == {p \in Photos : row[p] = "ready"}
  IN /\ tab[t] = "idle" /\ due # {}
     /\ Locks => \A u \in Tabs : tab[u] = "idle"
     /\ todo' = [todo EXCEPT ![t] = due]
     /\ Goto(t, "next")
     /\ UNCHANGED <<device, stored, cur, cleanup, faults, history>>

Oldest(t, p) == p \in todo[t] /\ \A q \in todo[t] : p <= q

Take(t, p) ==
  /\ tab[t] = "next" /\ Oldest(t, p) /\ p \in blobs
  /\ cur' = [cur EXCEPT ![t] = p]
  /\ Goto(t, "upload")
  /\ UNCHANGED <<device, stored, todo, cleanup, faults, history>>

\* "Photo data was cleared from this device"
MissBlob(t, p) ==
  /\ tab[t] = "next" /\ Oldest(t, p) /\ p \notin blobs
  /\ Update(p, "failed")
  /\ todo' = [todo EXCEPT ![t] = @ \ {p}]
  /\ UNCHANGED <<blobs, stored, pointer, tab, cur, cleanup, faults, history>>

Upload(t) ==
  /\ tab[t] = "upload"
  /\ stored' = stored \cup {cur[t]}
  /\ Goto(t, "apply")
  /\ UNCHANGED <<device, todo, cur, cleanup, faults, history>>

\* applyUploadedPath: the cached row and the outbox, in one transaction
ApplyPath(t) ==
  /\ tab[t] = "apply"
  /\ pointer' = [pointer EXCEPT ![Target[cur[t]]] = cur[t]]
  /\ pointed' = pointed \cup {cur[t]}
  /\ Goto(t, "discard")
  /\ UNCHANGED <<blobs, row, stored, todo, cur, cleanup, faults, expired, slow>>

\* discardPendingPhoto: the row, then the bytes
DeleteRow(t) ==
  /\ tab[t] = "discard"
  /\ Update(cur[t], "gone")
  /\ Goto(t, "collect")
  /\ UNCHANGED <<blobs, stored, pointer, todo, cur, cleanup, faults, history>>

DeleteBlob(t) ==
  /\ tab[t] = "collect"
  /\ blobs' = blobs \ {cur[t]}
  /\ AtCur(t)
  /\ UNCHANGED <<row, stored, pointer, cleanup, faults, history>>

\* A blob that cannot be deleted is logged and left.
KeepBlob(t) ==
  /\ tab[t] = "collect" /\ Fault
  /\ AtCur(t)
  /\ UNCHANGED <<device, stored, cleanup, history>>

\* recordPhotoFailure: the transport failed.
Unreachable(t) ==
  /\ tab[t] = "upload" /\ Fault
  /\ BackOff(cur[t]) /\ AtCur(t)
  /\ UNCHANGED <<blobs, stored, pointer, cleanup, history>>

\* Faulty form: the error an upload returns is not looked at.
IgnoreError(t) ==
  /\ tab[t] = "upload" /\ Fault
  /\ Goto(t, "apply")
  /\ UNCHANGED <<device, stored, todo, cur, cleanup, history>>

\* recordPhotoFailure: the upload is refused, no path can be made for it, or a
\* local transaction fails.
Rejected(t) ==
  /\ tab[t] \in {"upload", "apply", "discard"} /\ Fault
  /\ BackOff(cur[t]) \/ Update(cur[t], "failed")
  /\ AtCur(t)
  /\ UNCHANGED <<blobs, stored, pointer, cleanup, history>>

\* The upload has no timeout: one that is never answered keeps the drain, the
\* flag against overlapping runs and the lock until the tab goes.
Hang(t) ==
  /\ tab[t] = "upload" /\ Fault
  /\ Goto(t, "hung")
  /\ UNCHANGED <<device, stored, todo, cur, cleanup, history>>

\* Faulty form: the flag against overlapping runs is not reset.
FinishBusy(t) ==
  /\ tab[t] = "next" /\ todo[t] = {}
  /\ Goto(t, "busy")
  /\ UNCHANGED <<device, stored, todo, cur, cleanup, faults, history>>

Finish(t) ==
  /\ tab[t] = "next" /\ todo[t] = {}
  /\ Goto(t, "idle")
  /\ UNCHANGED <<device, stored, todo, cur, cleanup, faults, history>>

\* The device goes offline (checked before each row), or the tab is killed.
Stop(t) ==
  /\ tab[t] # "idle" /\ Fault
  /\ Goto(t, "idle") /\ todo' = [todo EXCEPT ![t] = {}] /\ Clear(t)
  /\ UNCHANGED <<device, stored, cleanup, history>>

BackoffEnds(p) ==
  /\ row[p] = "waiting"
  /\ row' = [row EXCEPT ![p] = "ready"]
  /\ UNCHANGED <<blobs, stored, pointer, drain, cleanup, faults, history>>

\* retryFailedPhotoUploads, for one row
Retry(p) ==
  /\ row[p] = "failed"
  /\ row' = [row EXCEPT ![p] = "ready"]
  /\ UNCHANGED <<blobs, stored, pointer, drain, cleanup, faults, history>>

-----------------------------------------------------------------------------
\* pruneExpiredDeadLetters: read, delete the row, delete the bytes

ReadExpired(p) ==
  /\ row[p] = "failed" /\ stale \cup doomed = {} /\ sweep = "idle"
  /\ stale' = {p}
  /\ UNCHANGED <<device, stored, drain, sweep, keys, candidates, doomed, faults,
                 history>>

DeleteExpired ==
  /\ stale # {}
  /\ row' = [p \in Photos |-> IF p \in stale \cap Live THEN "gone" ELSE row[p]]
  /\ expired' = expired \cup (stale \cap Live)
  /\ doomed' = stale /\ stale' = {}
  /\ UNCHANGED <<blobs, stored, pointer, drain, sweep, keys, candidates, faults,
                 pointed, slow>>

DeleteExpiredBlob ==
  /\ doomed # {}
  /\ blobs' = blobs \ doomed
  /\ doomed' = {}
  /\ UNCHANGED <<row, stored, pointer, drain, sweep, keys, candidates, stale, faults,
                 history>>

\* The deletion fails and is logged, or the tab goes.
KeepExpiredBlob ==
  /\ doomed # {} /\ Fault
  /\ doomed' = {}
  /\ UNCHANGED <<device, stored, drain, sweep, keys, candidates, stale, history>>

\* pruneOrphanPhotoBlobs, which pruneLocalCache runs next

\* The keys are listed, then the rows read: a row added in between leaves
\* fewer orphans, so that one step shows no less.
FindOrphans ==
  /\ sweep = "idle" /\ stale \cup doomed = {}
  /\ blobs \cup candidates # {}
  /\ sweep' = "found" /\ keys' = blobs \ Live
  /\ slow' = slow \cup {p \in candidates : row[p] = "saving"}
  /\ UNCHANGED <<device, stored, drain, candidates, prune, faults, pointed, expired>>

CollectKeys(collectable, next) ==
  /\ sweep = "found"
  /\ blobs' = blobs \ collectable
  /\ candidates' = next
  /\ sweep' = "idle" /\ keys' = {}
  /\ UNCHANGED <<row, stored, pointer, drain, prune, history>>

\* Faulty forms: a blob goes at the first sweep; the first sweep is forgotten.
CollectAtOnce == CollectKeys(keys, {}) /\ UNCHANGED faults
CollectForget == CollectKeys(keys \cap candidates, {}) /\ UNCHANGED faults

\* A key goes when the last sweep found it without a row too.
Collect == CollectKeys(keys \cap candidates, keys \ candidates) /\ UNCHANGED faults

\* Some deletions fail: those keys are no candidates for the next sweep.  Or
\* the tab goes before the candidates are written.
CollectPart ==
  /\ Fault
  /\ \E deleted \in SUBSET (keys \cap candidates),
        next \in {keys \ candidates, candidates} : CollectKeys(deleted, next)

-----------------------------------------------------------------------------
Init ==
  /\ blobs = {} /\ row = [p \in Photos |-> "none"] /\ stored = {}
  /\ pointer = [x \in Targets |-> None]
  /\ tab = [t \in Tabs |-> "idle"] /\ todo = [t \in Tabs |-> {}]
  /\ cur = [t \in Tabs |-> None]
  /\ sweep = "idle" /\ keys = {} /\ candidates = {}
  /\ stale = {} /\ doomed = {}
  /\ faults = 0 /\ pointed = {} /\ expired = {} /\ slow = {}

Drain(t) ==
  \/ \E p \in Photos : Take(t, p) \/ MissBlob(t, p)
  \/ Upload(t) \/ ApplyPath(t) \/ DeleteRow(t) \/ DeleteBlob(t) \/ Finish(t)

Sweep == DeleteExpired \/ DeleteExpiredBlob \/ FindOrphans \/ Collect

Next ==
  \/ \E p \in Photos : \/ SaveBlob(p) \/ AddRow(p) \/ LoseRow(p)
                       \/ BackoffEnds(p) \/ Retry(p) \/ ReadExpired(p)
  \/ \E t \in Tabs : \/ Begin(t) \/ Drain(t) \/ KeepBlob(t) \/ Unreachable(t)
                     \/ Rejected(t) \/ Hang(t) \/ Stop(t)
  \/ KeepExpiredBlob \/ CollectPart \/ Sweep

\* The drain is kicked by an interval timer and the sweep by the safety poll; a
\* running one goes on until a call of it hangs, and time passes.  Nobody has to
\* take a photo, press retry, prune, or reload a tab that hangs.
Fairness ==
  /\ \A p \in Photos : WF_vars(AddRow(p)) /\ WF_vars(BackoffEnds(p))
  /\ \A t \in Tabs : WF_vars(Begin(t) \/ Drain(t))
  /\ WF_vars(Sweep)

Spec == Init /\ [][Next]_vars /\ Fairness

-----------------------------------------------------------------------------
TypeOK ==
  /\ blobs \subseteq Photos /\ stored \subseteq Photos
  /\ row \in [Photos -> {"none", "saving", "lost", "ready", "waiting", "failed",
                         "gone"}]
  /\ pointer \in [Targets -> Photos \cup {None}]
  /\ tab \in [Tabs -> {"idle", "next", "upload", "hung", "apply", "discard",
                       "collect"}]
  /\ todo \in [Tabs -> SUBSET Photos]
  /\ cur \in [Tabs -> Photos \cup {None}]
  /\ sweep \in {"idle", "found"}
  /\ {keys, candidates, stale, doomed, pointed, expired, slow} \subseteq SUBSET Photos
  /\ faults \in 0..MaxFaults

\* The bytes of a photo outlast its row, whatever drains in other tabs, sweeps
\* and kills happen, unless two sweeps ran between its two writes; and a row
\* goes only when the path was queued for the server or the dead letter expired.
EvidenceIsKept ==
  /\ Live \ slow \subseteq blobs
  /\ \A p \in Photos : row[p] = "gone" => p \in pointed \cup expired

\* What a checklist item or asset points at is in the bucket.
PointersResolve == \A x \in Targets : pointer[x] \in stored \cup {None}

\* No drain can run: a hung tab holds the lock, or without Web Locks all hang.
Wedged == IF Locks THEN \E t \in Tabs : tab[t] = "hung"
                   ELSE \A t \in Tabs : tab[t] = "hung"

\* No photo stays queued for good: it reaches its target, or is shown as failed,
\* unless unanswered uploads keep every drain from running.
PhotosArrive ==
  \A p \in Photos :
    []<>(row[p] \in {"ready", "waiting"} => p \in pointed \cup expired \/ Wedged)

\* Bytes no row leads to are given back (neither state is ever left).
OrphansGo ==
  \A p \in Photos : []<>(row[p] \in {"lost", "gone"} => p \notin blobs)

\* A target never goes back to an older photo: the order the mutation outbox
\* keeps for a record.  Not true of the photos, which back off one by one.
NewestWins == [][\A x \in Targets : pointer'[x] >= pointer[x]]_vars
=============================================================================
