--------------------------- MODULE CircuitBreaker ---------------------------
(***************************************************************************)
(* The provider-level circuit breaker (lib/integrations/circuit-breaker.ts)*)
(* and the way every outbound client wraps its fetch in it (kroger,        *)
(* hospitable, ownerrez, hostex, lodgify).                                 *)
(*                                                                         *)
(* The breaker is three Redis keys: a failure counter, an opened marker    *)
(* and a probe claim.  A caller reaches each with a request of its own, so *)
(* the steps of concurrent callers interleave key by key.  Time is kept as *)
(* the time each key has left; `Forever` is a key with no expiry.  The     *)
(* marker's value (opened until) and its expiry are written together,      *)
(* ProbeTTL apart, so the time the marker has left says both.              *)
(*                                                                         *)
(* A call may last longer than a claim or a window: hostexFetch makes up   *)
(* to three attempts of 30 s each (hostex-api.ts), against the 20 s of the *)
(* claim and the 60 s of the window; a Kroger call ends within 15 s.       *)
(***************************************************************************)
EXTENDS Integers, FiniteSets

CONSTANTS Callers,    \* jobs that call the provider at the same time
          Threshold,  \* FAILURE_THRESHOLD
          Window,     \* WINDOW_SECONDS, in clock units
          ProbeTTL,   \* PROBE_TIMEOUT_SECONDS, in clock units
          CallTime,   \* all attempts of the client's request, in clock units
          MaxCount,   \* bound: failures the provider returns in one window
          MaxFaults   \* bound: Redis errors and killed jobs in one behaviour

ASSUME BreakerAssumption ==
  /\ {Threshold, Window, ProbeTTL, MaxCount} \subseteq Nat \ {0}
  /\ {CallTime, MaxFaults} \subseteq Nat
  /\ ProbeTTL <= Window

VARIABLES failures,    \* the counter's value; 0: the key does not exist
          failuresTTL, \* time the counter has left
          openedTTL,   \* time the opened marker has left; 0: no marker
          probeTTL,    \* time the probe claim has left; 0: no claim
          pc,          \* where each caller stands
          prior,       \* the failure count a caller read (priorFailures)
          seen,        \* what a caller read of the marker
          probing,     \* how the caller was admitted: not as the probe, as
                       \* the trial, or "late": by a claim it made after the
                       \* marker it had read was rewritten or deleted
          left,        \* time its request has left before it times out
          asked,       \* callers that asked in this clock unit
          faults

keys   == <<failures, failuresTTL, openedTTL, probeTTL>>
locals == <<prior, seen, probing, left>>
vars   == <<keys, pc, locals, asked, faults>>

Forever == Window + ProbeTTL + 1
Unread  == -1
InCall  == {c \in Callers : pc[c] = "call"}
Probes  == {c \in InCall : probing[c] # "no"}
\* Between its first and its last Redis request a caller takes no clock time.
InRedis == {c \in Callers : pc[c] \notin {"idle", "call"}}

\* The marker as a reader finds it: absent, still before opened-until, past it.
Marker == IF openedTTL = 0 THEN "none"
          ELSE IF openedTTL > ProbeTTL THEN "cooling" ELSE "past"
Cooling == Marker = "cooling"

Goto(c, l) == pc' = [pc EXCEPT ![c] = l]

-----------------------------------------------------------------------------
\* evaluateBreaker

Ask(c) ==
  /\ pc[c] = "idle" /\ c \notin asked
  /\ asked' = asked \cup {c}
  /\ Goto(c, "read")
  /\ prior' = [prior EXCEPT ![c] = Unread]
  /\ seen' = [seen EXCEPT ![c] = "unread"]
  /\ probing' = [probing EXCEPT ![c] = "no"]
  /\ UNCHANGED <<keys, left, faults>>

\* The two GETs are in flight together and are served in either order.
ReadFailures(c) ==
  /\ pc[c] = "read" /\ prior[c] = Unread
  /\ prior' = [prior EXCEPT ![c] = failures]
  /\ UNCHANGED <<keys, pc, seen, probing, left, asked, faults>>

ReadMarker(c) ==
  /\ pc[c] = "read" /\ seen[c] = "unread"
  /\ seen' = [seen EXCEPT ![c] = Marker]
  /\ UNCHANGED <<keys, pc, prior, probing, left, asked, faults>>

BothRead(c) == pc[c] = "read" /\ prior[c] # Unread /\ seen[c] # "unread"

\* What was read of the marker is used once: the decision drops it.
Decide(c, l) == Goto(c, l) /\ seen' = [seen EXCEPT ![c] = "none"]

Send(c, how) ==
  /\ Decide(c, "call")
  /\ probing' = [probing EXCEPT ![c] = how]
  /\ left' = [left EXCEPT ![c] = CallTime]

\* The decision 'closed': no marker, or the breaker could not be consulted.
Proceed(c) ==
  /\ BothRead(c) /\ seen[c] = "none"
  /\ Send(c, "no")
  /\ UNCHANGED <<keys, prior, asked, faults>>

\* The decision 'open': the caller skips the call (CircuitOpenError).
Skip(c) ==
  /\ BothRead(c) /\ seen[c] = "cooling"
  /\ Decide(c, "idle")
  /\ prior' = [prior EXCEPT ![c] = 0]
  /\ UNCHANGED <<keys, probing, left, asked, faults>>

AsProbe == IF Marker = "past" THEN "trial" ELSE "late"

\* Faulty form: a claim that is a plain SET.
ClaimAnyway(c) ==
  /\ BothRead(c) /\ seen[c] = "past"
  /\ probeTTL' = ProbeTTL
  /\ Send(c, AsProbe)
  /\ UNCHANGED <<failures, failuresTTL, openedTTL, prior, asked, faults>>

\* SET probe NX: one caller wins the claim, the others read 'open'.
ClaimProbe(c) ==
  /\ BothRead(c) /\ seen[c] = "past"
  /\ probeTTL = 0
  /\ probeTTL' = ProbeTTL
  /\ Send(c, AsProbe)
  /\ UNCHANGED <<failures, failuresTTL, openedTTL, prior, asked, faults>>

LoseProbe(c) ==
  /\ BothRead(c) /\ seen[c] = "past"
  /\ probeTTL # 0
  /\ Decide(c, "idle")
  /\ prior' = [prior EXCEPT ![c] = 0]
  /\ UNCHANGED <<keys, probing, left, asked, faults>>

-----------------------------------------------------------------------------
\* The call, and recordFailure / recordSuccess

Answer(c, l) ==
  /\ pc[c] = "call"
  /\ Goto(c, l)
  /\ prior' = [prior EXCEPT ![c] = 0]
  /\ left' = [left EXCEPT ![c] = 0]
  /\ UNCHANGED <<keys, seen, probing, asked, faults>>

\* A success clears the keys only when the count read before the call was not 0.
Succeed(c) == Answer(c, IF prior[c] > 0 THEN "clearFailures" ELSE "idle")

\* A 429 or a terminal status is not the provider failing: nothing is recorded.
Refuse(c) == Answer(c, "idle")

\* A 5xx, a transport failure or a timeout.
Fail(c) ==
  /\ failures + Cardinality({d \in Callers : pc[d] = "incr"}) < MaxCount
  /\ Answer(c, "incr")

\* Faulty form: the expiry is set by the failure that reaches the threshold.
IncrOnly(c) ==
  /\ pc[c] = "incr"
  /\ failures' = failures + 1
  /\ failuresTTL' = IF failures = 0 THEN Forever ELSE failuresTTL
  /\ Goto(c, IF failures + 1 = Threshold THEN "expire" ELSE "idle")
  /\ UNCHANGED <<openedTTL, probeTTL, prior, seen, probing, left, asked, faults>>

Incr(c) ==
  /\ pc[c] = "incr"
  /\ failures' = failures + 1
  /\ failuresTTL' = IF failures = 0 THEN Forever ELSE failuresTTL
  /\ Goto(c, IF failures = 0 THEN "expire"
             ELSE IF failures + 1 >= Threshold THEN "open" ELSE "idle")
  /\ UNCHANGED <<openedTTL, probeTTL, prior, seen, probing, left, asked, faults>>

\* EXPIRE follows the INCR that returned 1.
Expire(c) ==
  /\ pc[c] = "expire"
  /\ failuresTTL' = IF failures = 0 THEN 0 ELSE Window
  /\ Goto(c, IF Threshold = 1 THEN "open" ELSE "idle")
  /\ UNCHANGED <<failures, openedTTL, probeTTL, locals, asked, faults>>

\* Faulty form: a marker without expiry, read by its presence.
OpenForever(c) ==
  /\ pc[c] = "open"
  /\ openedTTL' = Forever
  /\ Goto(c, "release")
  /\ UNCHANGED <<failures, failuresTTL, probeTTL, locals, asked, faults>>

Open(c) ==
  /\ pc[c] = "open"
  /\ openedTTL' = Window + ProbeTTL
  /\ Goto(c, "release")
  /\ UNCHANGED <<failures, failuresTTL, probeTTL, locals, asked, faults>>

Release(c) ==
  /\ pc[c] = "release"
  /\ probeTTL' = 0
  /\ Goto(c, "idle")
  /\ UNCHANGED <<failures, failuresTTL, openedTTL, locals, asked, faults>>

ClearFailures(c) ==
  /\ pc[c] = "clearFailures"
  /\ failures' = 0 /\ failuresTTL' = 0
  /\ Goto(c, "clearOpened")
  /\ UNCHANGED <<openedTTL, probeTTL, locals, asked, faults>>

ClearOpened(c) ==
  /\ pc[c] = "clearOpened"
  /\ openedTTL' = 0
  /\ Goto(c, "clearProbe")
  /\ UNCHANGED <<failures, failuresTTL, probeTTL, locals, asked, faults>>

ClearProbe(c) ==
  /\ pc[c] = "clearProbe"
  /\ probeTTL' = 0
  /\ Goto(c, "idle")
  /\ UNCHANGED <<failures, failuresTTL, openedTTL, locals, asked, faults>>

-----------------------------------------------------------------------------
\* Faults and time

\* A Redis error while evaluating fails open: 'closed', with a count of 0.
FailOpen(c) ==
  /\ pc[c] = "read" /\ faults < MaxFaults
  /\ Send(c, "no")
  /\ prior' = [prior EXCEPT ![c] = 0]
  /\ faults' = faults + 1
  /\ UNCHANGED <<keys, asked>>

\* A Redis error while recording is swallowed; a killed job records nothing.
GiveUp(c) ==
  /\ pc[c] \notin {"idle", "read"} /\ faults < MaxFaults
  /\ Goto(c, "idle")
  /\ faults' = faults + 1
  /\ prior' = [prior EXCEPT ![c] = 0]
  /\ left' = [left EXCEPT ![c] = 0]
  /\ UNCHANGED <<keys, seen, probing, asked>>

Older(t) == IF t \in {0, Forever} THEN t ELSE t - 1

\* A clock unit passes: keys lapse, and no request outlives its timeout.
Tick ==
  /\ InRedis = {}
  /\ \A c \in InCall : left[c] > 0
  /\ left' = [c \in Callers |-> IF c \in InCall THEN left[c] - 1 ELSE left[c]]
  /\ failuresTTL' = Older(failuresTTL)
  /\ failures' = IF failuresTTL = 1 THEN 0 ELSE failures
  /\ openedTTL' = Older(openedTTL)
  /\ probeTTL' = Older(probeTTL)
  /\ asked' = {}
  /\ UNCHANGED <<pc, prior, seen, probing, faults>>

-----------------------------------------------------------------------------
Init ==
  /\ failures = 0 /\ failuresTTL = 0 /\ openedTTL = 0 /\ probeTTL = 0
  /\ pc = [c \in Callers |-> "idle"]
  /\ prior = [c \in Callers |-> 0]
  /\ seen = [c \in Callers |-> "none"]
  /\ probing = [c \in Callers |-> "no"]
  /\ left = [c \in Callers |-> 0]
  /\ asked = {} /\ faults = 0

Evaluating(c) ==
  \/ ReadFailures(c) \/ ReadMarker(c)
  \/ Proceed(c) \/ Skip(c) \/ ClaimProbe(c) \/ LoseProbe(c)

Recording(c) ==
  \/ Incr(c) \/ Expire(c) \/ Open(c) \/ Release(c)
  \/ ClearFailures(c) \/ ClearOpened(c) \/ ClearProbe(c)

Answered(c) == Succeed(c) \/ Refuse(c) \/ Fail(c)

Next ==
  \/ \E c \in Callers : \/ Ask(c) \/ Evaluating(c)
                        \/ Answered(c) \/ Recording(c)
                        \/ FailOpen(c) \/ GiveUp(c)
  \/ Tick

\* A caller asks at most once in a clock unit, so a unit always ends.  Time
\* passes, requests end (each has a timeout) and Redis answers.  Nothing
\* makes a job ask, so a caller may stay idle for ever.
Fairness ==
  /\ WF_vars(Tick)
  /\ \A c \in Callers : WF_vars(Evaluating(c) \/ Answered(c) \/ Recording(c))

Spec == Init /\ [][Next]_vars /\ Fairness

-----------------------------------------------------------------------------
TypeOK ==
  /\ failures \in Nat
  /\ failuresTTL \in 0..Forever
  /\ openedTTL \in 0..(Window + ProbeTTL)
  /\ probeTTL \in 0..ProbeTTL
  /\ pc \in [Callers -> {"idle", "read", "call", "incr", "expire", "open",
                         "release", "clearFailures", "clearOpened",
                         "clearProbe"}]
  /\ prior \in [Callers -> Nat \cup {Unread}]
  /\ seen \in [Callers -> {"unread", "none", "cooling", "past"}]
  /\ probing \in [Callers -> {"no", "trial", "late"}]
  /\ left \in [Callers -> 0..CallTime]
  /\ asked \subseteq Callers /\ faults \in 0..MaxFaults

\* The request was sent less than a claim's lifetime ago.
Young(c) == left[c] + ProbeTTL > CallTime

\* One trial at a time, however long the calls last: within the lifetime of the
\* claim that admitted a caller no other is admitted on an elapsed marker, though
\* stragglers that are no probe re-open or clear the circuit and delete the claim
\* under it.  A claim made late is not counted.
OneProbe == Cardinality({c \in InCall : probing[c] = "trial" /\ Young(c)}) <= 1

\* "A probe call that is merely slow - not dead - cannot have its claim reclaimed
\* by another caller mid-flight" (circuit-breaker.ts:77-80).  Not true of a
\* client whose calls outlast the claim.
SlowProbeIsAlone == Cardinality(Probes) <= 1

\* The window is fixed from the first failure: a counter without expiry exists
\* only while the caller that created it has still to send its EXPIRE (or was
\* cut off before it could).
CounterExpires ==
  failuresTTL = Forever /\ faults = 0 => \E c \in Callers : pc[c] = "expire"

\* An open circuit tries again: it closes, or a probe is let through, whatever
\* the callers did and wherever one of them was killed.
OpenTriesAgain ==
  openedTTL > 0 ~> (openedTTL = 0 \/ Probes # {})

\* The outcome of the probe decides (circuit-breaker.ts:138-140): when the
\* probe has recorded it, the circuit is closed or in a fresh cooldown.
ProbeDecides ==
  [][\A c \in Callers :
       (probing[c] # "no" /\ (Succeed(c) \/ Recording(c)) /\ pc'[c] = "idle")
         => (openedTTL' = 0 \/ Cooling')]_vars
=============================================================================
