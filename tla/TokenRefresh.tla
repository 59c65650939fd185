---------------------------- MODULE TokenRefresh ----------------------------
(***************************************************************************)
(* The life of one rotating OAuth connection (Hostex): sync jobs and the   *)
(* hourly cron refresh it behind a Redis lock (hostex-token.ts,            *)
(* refresh-lock.ts, single-flight.ts, integration-token-refresh*.ts), the  *)
(* user connects and disconnects it (finalize-connection.ts, vault.ts).    *)
(*                                                                         *)
(* The provider accepts one refresh token, the last it issued, and an      *)
(* exchange consumes it.  A copy of a refresh token is therefore "live" or *)
(* "dead", wherever it is kept, and an exchange makes every copy dead.     *)
(*                                                                         *)
(* There is no clock.  The lock's TTL exceeds the provider call's timeout  *)
(* by 10 s, so a lock lapses only when the job that took it is gone; the   *)
(* wait of a job that lost the lock is as long as the TTL, so it ends only *)
(* after that lock was released or lapsed.                                 *)
(***************************************************************************)
EXTENDS Naturals, FiniteSets

CONSTANTS Syncs,     \* sync steps that need a token (getValidHostexToken)
          Cron,      \* the refresh handler: one at a time for a connection
          User,      \* the person who connects and disconnects
          Free,      \* nobody holds the lock
          MaxFaults, \* bound: failures in one behaviour
          FailsOpen  \* whether Redis may fail too

ASSUME TokenAssumption ==
  /\ Cron \notin Syncs /\ User \notin Syncs /\ Cron # User
  /\ Free \notin Syncs \cup {Cron, User}
  /\ MaxFaults \in Nat /\ FailsOpen \in BOOLEAN

Jobs    == Syncs \cup {Cron}
Writers == Jobs \cup {User}

VARIABLES stored,    \* the refresh token in Vault: "none", "live" or "dead"
          status,    \* integration_connections.status
          fresh,     \* expires_at lies beyond the refresh window
          mailed,    \* reconnect_email_sent_at: the manager has been told
          lock,      \* who set the lock key (its value does not say)
          pc,
          locked,    \* the job goes on as a holder and will delete the key
          outlasted, \* a waiter has seen the lock it lost to go away
          token,     \* the refresh token a writer read or was given
          refused,   \* the provider refused the grant: a terminal failure
          faults,
          excused,   \* history: a token was lost, or the user acted meanwhile
          unlocked,  \* history: a job went on without the key, and since then
                     \* the section has not been empty
          crowded    \* history: the cron's refresh ran beside another writer's

conn  == <<stored, status, fresh, mailed>>
local == <<locked, outlasted, token, refused>>
hist  == <<excused, unlocked, crowded>>
vars  == <<conn, lock, pc, local, faults, hist>>

\* Faulty form: the lookups ask for 'active' only.
ActiveOnly == status = "active"

\* SYNCABLE_CONNECTION_STATUSES
Syncable == status \in {"active", "error"}

Section == {"read", "exchange", "granted", "kept", "storeRefresh", "release"}
InSection == {w \in Writers : pc[w] \in Section}

Goto(w, l) == pc' = [pc EXCEPT ![w] = l]
Fault == faults < MaxFaults /\ faults' = faults + 1
Dead(t) == IF t = "live" THEN "dead" ELSE t

\* The last job to leave the section leaves no unlocked one behind.
Leave(j) ==
  /\ unlocked' = (unlocked /\ (InSection \cap Jobs) \ {j} # {})
  /\ crowded' = (crowded /\ pc'[Cron] \in Section \cup {"revoke"})

-----------------------------------------------------------------------------
\* Taking the lock, or waiting for who has it

\* A sync step needs a token and finds it expiring; a fresh one is returned.
NeedToken(j) ==
  /\ j \in Syncs /\ pc[j] = "idle"
  /\ Syncable /\ ~fresh
  /\ Goto(j, "acquire")
  /\ UNCHANGED <<conn, lock, local, faults, hist>>

\* The hourly scan dispatches the handler; the handler does not look again.
Dispatch ==
  /\ pc[Cron] = "idle"
  /\ Syncable /\ ~fresh /\ stored # "none"
  /\ Goto(Cron, "acquire")
  /\ UNCHANGED <<conn, lock, local, faults, hist>>

Enter(j, asHolder) ==
  /\ Goto(j, "read")
  /\ locked' = [locked EXCEPT ![j] = asHolder]
  /\ outlasted' = [outlasted EXCEPT ![j] = FALSE]
  /\ crowded' = IF j = Cron THEN InSection # {}
                            ELSE crowded \/ pc[Cron] \in Section
  /\ UNCHANGED <<token, refused, excused>>

\* Faulty form: a plain SET.
AcquireAnyway(j) ==
  /\ pc[j] = "acquire"
  /\ lock' = j
  /\ Enter(j, TRUE)
  /\ UNCHANGED <<conn, faults, unlocked>>

\* SET NX: the first one refreshes.
Acquire(j) ==
  /\ pc[j] = "acquire" /\ lock = Free
  /\ lock' = j
  /\ Enter(j, TRUE)
  /\ UNCHANGED <<conn, faults, unlocked>>

LoseLock(j) ==
  /\ pc[j] = "acquire" /\ lock # Free
  /\ Goto(j, "wait")
  /\ UNCHANGED <<conn, lock, local, faults, hist>>

\* A Redis error fails open: the job believes it holds the lock.
AcquireOpen(j) ==
  /\ pc[j] = "acquire" /\ FailsOpen /\ Fault
  /\ Enter(j, TRUE)
  /\ unlocked' = TRUE
  /\ UNCHANGED <<conn, lock>>

\* A poll finds what another job stored.
Poll(j) ==
  /\ pc[j] = "wait" /\ Syncable /\ fresh
  /\ Goto(j, "idle")
  /\ outlasted' = [outlasted EXCEPT ![j] = FALSE]
  /\ UNCHANGED <<conn, lock, locked, token, refused, faults, hist>>

\* A poll that cannot read the row throws, and the step with it.
PollFails(j) ==
  /\ pc[j] = "wait" /\ Fault
  /\ Goto(j, "idle")
  /\ outlasted' = [outlasted EXCEPT ![j] = FALSE]
  /\ UNCHANGED <<conn, lock, locked, token, refused, hist>>

\* The wait ceiling: "lock holder likely died, proceeding unlocked".
GiveUpWaiting(j) ==
  /\ pc[j] = "wait" /\ outlasted[j]
  /\ Enter(j, FALSE)
  /\ unlocked' = TRUE
  /\ UNCHANGED <<conn, lock, faults>>

\* The key goes away: every waiter has outlasted the lock it lost to.
FreeLock ==
  /\ lock' = Free
  /\ outlasted' = [j \in Jobs |-> outlasted[j] \/ pc[j] = "wait"]

\* releaseRefreshLock deletes the key, whoever set it.
ReleaseLock(j) ==
  /\ pc[j] = "release"
  /\ IF locked[j] THEN FreeLock ELSE UNCHANGED <<lock, outlasted>>
  /\ locked' = [locked EXCEPT ![j] = FALSE]
  /\ refused' = [refused EXCEPT ![j] = FALSE]
  /\ Goto(j, IF j = Cron /\ refused[j] THEN "revoke" ELSE "idle")
  /\ Leave(j)
  /\ UNCHANGED <<conn, token, faults, excused>>

\* The TTL passes after the job that set the key was killed.
Lapse ==
  /\ lock # Free /\ ~(pc[lock] \in Section /\ locked[lock])
  /\ FreeLock
  /\ UNCHANGED <<conn, pc, locked, token, refused, faults, hist>>

-----------------------------------------------------------------------------
\* refreshHostexToken

\* Without a refresh token there is nothing to exchange: terminal.
ReadRefresh(j) ==
  /\ pc[j] = "read"
  /\ token' = [token EXCEPT ![j] = stored]
  /\ refused' = [refused EXCEPT ![j] = stored = "none"]
  /\ Goto(j, IF stored = "none" THEN "release" ELSE "exchange")
  /\ UNCHANGED <<conn, lock, locked, outlasted, faults, hist>>

\* A grant: the new token is the caller's alone until it is stored.
Grant(w) ==
  /\ token' = [v \in Writers |-> IF v = w THEN "live" ELSE Dead(token[v])]
  /\ stored' = Dead(stored)
  /\ Goto(w, "granted")

Exchange(j) ==
  /\ pc[j] = "exchange" /\ token[j] = "live"
  /\ Grant(j)
  /\ UNCHANGED <<status, fresh, mailed, lock, locked, outlasted, refused,
                 faults, hist>>

\* "Treat its absence as a real anomaly": an answer without a refresh token.
\* The provider has rotated nothing; there is an access token to store.
ExchangeKeeps(j) ==
  /\ pc[j] = "exchange" /\ token[j] = "live" /\ Fault
  /\ token' = [token EXCEPT ![j] = "none"]
  /\ Goto(j, "kept")
  /\ UNCHANGED <<conn, lock, locked, outlasted, refused, hist>>

\* A consumed token is refused (HostexOAuthError): markConnectionError.
Reject(j) ==
  /\ pc[j] = "exchange" /\ token[j] = "dead"
  /\ status' = "error"
  /\ refused' = [refused EXCEPT ![j] = TRUE]
  /\ token' = [token EXCEPT ![j] = "none"]
  /\ Goto(j, "release")
  /\ UNCHANGED <<stored, fresh, mailed, lock, locked, outlasted, faults,
                 hist>>

\* Faulty form: an outage is taken for a refusal.
OutageIsTerminal(j) ==
  /\ pc[j] \in {"exchange", "kept"} /\ Fault
  /\ token' = [token EXCEPT ![j] = "none"]
  /\ refused' = [refused EXCEPT ![j] = TRUE]
  /\ Goto(j, "release")
  /\ UNCHANGED <<conn, lock, locked, outlasted, hist>>

\* A timeout, a 5xx or a failed write before anything was rotated.
ExchangeFails(j) ==
  /\ pc[j] \in {"exchange", "kept"} /\ Fault
  /\ token' = [token EXCEPT ![j] = "none"]
  /\ Goto(j, "release")
  /\ UNCHANGED <<conn, lock, locked, outlasted, refused, hist>>

\* store_integration_token: the access token, status = 'active', and
\* reconnect_email_sent_at = NULL.
StoreAccess(w) ==
  /\ pc[w] \in {"granted", "kept"}
  /\ status' = "active" /\ mailed' = FALSE
  /\ Goto(w, IF pc[w] = "kept" THEN "release" ELSE "storeRefresh")
  /\ UNCHANGED <<stored, fresh, lock, local, faults, hist>>

\* Faulty form: the expiry is stored, the rotated refresh token is not.
StoreExpiry(w) ==
  /\ pc[w] = "storeRefresh"
  /\ fresh' = TRUE
  /\ token' = [token EXCEPT ![w] = "none"]
  /\ Goto(w, IF w = User THEN "idle" ELSE "release")
  /\ UNCHANGED <<stored, status, mailed, lock, locked, outlasted, refused,
                 faults, hist>>

\* store_integration_refresh_token: the refresh token and expires_at.
StoreRefresh(w) ==
  /\ pc[w] = "storeRefresh"
  /\ stored' = token[w] /\ fresh' = TRUE
  /\ token' = [token EXCEPT ![w] = "none"]
  /\ Goto(w, IF w = User THEN "idle" ELSE "release")
  /\ UNCHANGED <<status, mailed, lock, locked, outlasted, refused, faults,
                 hist>>

\* The answer is lost, or one of the two writes throws: the token granted is
\* gone.  The lock is released; a user starts over.
LoseToken(w) ==
  /\ pc[w] \in {"granted", "storeRefresh"} /\ Fault
  /\ token' = [token EXCEPT ![w] = "none"]
  /\ Goto(w, IF w = User THEN "idle" ELSE "release")
  /\ excused' = TRUE
  /\ UNCHANGED <<conn, lock, locked, outlasted, refused, unlocked, crowded>>

\* The instance is killed: nothing is released.
Killed(j) ==
  /\ pc[j] # "idle" /\ Fault
  /\ Goto(j, "idle")
  /\ token' = [token EXCEPT ![j] = "none"]
  /\ locked' = [locked EXCEPT ![j] = FALSE]
  /\ outlasted' = [outlasted EXCEPT ![j] = FALSE]
  /\ refused' = [refused EXCEPT ![j] = FALSE]
  /\ excused' = (excused \/ pc[j] \in {"granted", "storeRefresh"})
  /\ Leave(j)
  /\ UNCHANGED <<conn, lock>>

-----------------------------------------------------------------------------
\* What follows a terminal failure, and the user

\* mark-revoked: the update that claims the mail and sets the status, gated on
\* reconnect_email_sent_at IS NULL.  A manager told already is not told again,
\* and the status then stays what it is.
Revoke ==
  /\ pc[Cron] = "revoke"
  /\ IF mailed THEN UNCHANGED <<status, mailed>>
               ELSE status' = "revoked" /\ mailed' = TRUE
  /\ Goto(Cron, "idle") /\ crowded' = FALSE
  /\ UNCHANGED <<stored, fresh, lock, local, faults, excused, unlocked>>

\* The user reconnects (finalizeIntegrationConnection): no lock is taken.
Reconnect ==
  /\ pc[User] = "idle" /\ status # "active"
  /\ Grant(User)
  /\ excused' = (excused \/ InSection # {} \/ pc[Cron] = "revoke")
  /\ UNCHANGED <<status, fresh, mailed, lock, locked, outlasted, refused,
                 faults, unlocked, crowded>>

\* The user disconnects: the credentials are revoked and deleted.
Disconnect ==
  /\ pc[User] = "idle" /\ Syncable
  /\ stored' = "none" /\ status' = "disconnected" /\ fresh' = FALSE
  /\ token' = IF stored = "live" THEN [w \in Writers |-> Dead(token[w])]
                                 ELSE token
  /\ excused' = (excused \/ InSection # {} \/ \E j \in Jobs : pc[j] # "idle")
  /\ UNCHANGED <<mailed, lock, pc, locked, outlasted, refused, faults,
                 unlocked, crowded>>

\* The access token comes into its refresh window, days after it was stored:
\* no job that saw it fresh is still running.
Expire ==
  /\ fresh /\ \A w \in Writers : pc[w] = "idle"
  /\ fresh' = FALSE
  /\ UNCHANGED <<stored, status, mailed, lock, pc, local, faults, hist>>

-----------------------------------------------------------------------------
Init ==
  /\ stored = "live" /\ status = "active" /\ fresh = TRUE /\ mailed = FALSE
  /\ lock = Free
  /\ pc = [w \in Writers |-> "idle"]
  /\ locked = [j \in Jobs |-> FALSE]
  /\ outlasted = [j \in Jobs |-> FALSE]
  /\ token = [w \in Writers |-> "none"]
  /\ refused = [j \in Jobs |-> FALSE]
  /\ faults = 0 /\ excused = FALSE /\ unlocked = FALSE
  /\ crowded = FALSE

Begin(j) == NeedToken(j) \/ (j = Cron /\ Dispatch)

\* The steps of a refresh that is running.
Refresh(j) ==
  \/ Acquire(j) \/ LoseLock(j) \/ Poll(j) \/ GiveUpWaiting(j)
  \/ ReadRefresh(j) \/ Exchange(j) \/ Reject(j)
  \/ StoreAccess(j) \/ StoreRefresh(j) \/ ReleaseLock(j)
  \/ (j = Cron /\ Revoke)

Connect == StoreAccess(User) \/ StoreRefresh(User)

Failure ==
  \/ \E j \in Jobs : AcquireOpen(j) \/ PollFails(j) \/ ExchangeKeeps(j)
                     \/ ExchangeFails(j) \/ Killed(j)
  \/ \E w \in Writers : LoseToken(w)

Next ==
  \/ \E j \in Jobs : Begin(j) \/ Refresh(j)
  \/ Lapse \/ Reconnect \/ Connect \/ Disconnect \/ Expire
  \/ Failure

\* A running job takes its next step, keys lapse and the cron fires.  Nothing
\* makes a sync run, a token expire or a person act.
Fairness ==
  /\ \A j \in Jobs : WF_vars(Refresh(j))
  /\ WF_vars(Lapse) /\ WF_vars(Dispatch) /\ WF_vars(Connect)

Spec == Init /\ [][Next]_vars /\ Fairness

-----------------------------------------------------------------------------
Copies == {"none", "live", "dead"}

TypeOK ==
  /\ stored \in Copies
  /\ status \in {"active", "error", "revoked", "disconnected"}
  /\ fresh \in BOOLEAN /\ mailed \in BOOLEAN
  /\ lock \in Jobs \cup {Free}
  /\ pc \in [Writers -> Section \cup {"idle", "acquire", "wait", "revoke"}]
  /\ pc[User] \in {"idle", "granted", "storeRefresh"}
  /\ locked \in [Jobs -> BOOLEAN] /\ outlasted \in [Jobs -> BOOLEAN]
  /\ token \in [Writers -> Copies]
  /\ refused \in [Jobs -> BOOLEAN]
  /\ faults \in 0..MaxFaults /\ excused \in BOOLEAN
  /\ unlocked \in BOOLEAN /\ crowded \in BOOLEAN

\* Two refreshes never overlap, killed holders, lapsed keys and deleted ones
\* included, unless a job went on without the key: a waiter at its ceiling or one
\* that a Redis error let through, since the section was last empty.
OneRefreshAtATime ==
  ~unlocked => Cardinality(InSection \cap Jobs) <= 1

\* Rotation and two separate writes never leave a consumed refresh token in
\* Vault by themselves, not even when jobs refresh without the lock: once all
\* refreshes are over, the connection holds the token the provider accepts,
\* unless a granted token was lost or the user acted in between.
HoldsLiveToken ==
  ~excused /\ Syncable /\ InSection = {} => stored = "live"

\* An outage, a kill, a lapsed lock or another job's refresh that is over does
\* not cost the connection: the handler marks it revoked only when its own
\* refresh ran beside another writer's, a granted token was lost, or the user
\* acted meanwhile (the provider withdraws nothing by itself).
RevokedForAReason ==
  [][status # "revoked" /\ status' = "revoked" => crowded \/ excused]_vars

\* A connection that expires and of which the manager has not been told is not
\* left so for good: it is renewed, or the manager is told, or it is disconnected;
\* a failed refresh (status 'error') is no such end.
RenewedOrReported ==
  []<>(status \in {"active", "error"} /\ stored # "none" => fresh \/ mailed)

\* Once the manager has been told, the connection stays revoked until somebody
\* reconnects: "'revoked' stays excluded: that one really does need a human"
\* (hostex-token.ts:110-111).  Not true of the code: a refused sync job puts the
\* status back to 'error', and no later failure matches the update again.
RevokedUntilReconnected ==
  [][status = "revoked" => status' # "error"]_vars

\* A connection whose token is good is not revoked: the wait ceiling exists so
\* that a loser of the lock does not race an exchange and get the connection
\* stranded "with a perfectly good token sitting in Vault"
\* (hostex-token-refresh-lock-ceiling.test.ts:5-13).  Not true of the code.
RevokedOnlyWhenDead ==
  [][~excused /\ status # "revoked" /\ status' = "revoked"
       => stored # "live"]_vars
=============================================================================
