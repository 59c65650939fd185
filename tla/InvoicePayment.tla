--------------------------- MODULE InvoicePayment ---------------------------
(***************************************************************************)
(* The invoice of one work order: created when the vendor completes the    *)
(* work, paid by the property manager in a Stripe Checkout session, booked *)
(* by the Stripe webhook (app/api/webhooks/stripe), perhaps refunded.      *)
(*                                                                         *)
(* Stripe delivers an event at least once and until it is acknowledged, in *)
(* any order, to workers that run at the same time: also again while a     *)
(* worker still has it in hand.  A delivery claims the event in            *)
(* stripe_processed_events, and releases the claim when its handler        *)
(* throws.  Each worker step is one database call of the handler.          *)
(***************************************************************************)
EXTENDS Naturals, FiniteSets

CONSTANTS Clicks,    \* requests to pay; a session is named by its request
          Workers,   \* deliveries the webhook can handle at a time
          Total,     \* the amount of the invoice
          Surcharge, \* the card fee the customer pays on top of it
          MaxRefunds, \* bound: refunds issued
          MaxFaults, \* bound: calls that fail, deliveries that die
          None

ASSUME InvoiceAssumption ==
  /\ Total \in Nat \ {0} /\ {Surcharge, MaxRefunds, MaxFaults} \subseteq Nat
  /\ None \notin Clicks

Captured == Total + Surcharge  \* amount_captured of the charge

Paid(s)      == <<"paid", s, 0>>
Refund(s, n) == <<"refund", s, n>>  \* n: the cumulative amount refunded
Payments == {Paid(s) : s \in Clicks}
Events   == Payments \cup {Refund(s, n) : s \in Clicks, n \in 1..Captured}

VARIABLES status,   \* work_order_invoices.status; "none": no invoice
          session,  \* stripe_checkout_session_id
          intent,   \* stripe_payment_intent_id, by its session
          refunded, \* amount_refunded
          expense,  \* owner_transactions has the wo_completion row
          credit,   \* amount of its wo_invoice_refund row
          cost,     \* work_orders.actual_cost; 0: null
          click,    \* where each request to pay is
          seen,     \* the session it read
          checkout, \* the Checkout sessions at Stripe
          returned, \* what Stripe has refunded of each
          pending,  \* events not acknowledged
          claims,   \* stripe_processed_events
          pc, event, read, \* the workers: step, event, amount_refunded read
          faults,
          lost,     \* history: payments whose delivery died
          missed    \* history: payments released with no delivery left to come

invoice == <<status, session, intent, refunded>>
books   == <<expense, credit, cost>>
paying  == <<click, seen>>
stripe  == <<checkout, returned>>
hook    == <<pending, claims>>
workers == <<pc, event, read>>
history == <<lost, missed>>
bounds  == <<faults, history>>
vars    == <<invoice, books, paying, stripe, hook, workers, bounds>>

Settled == {"paid", "partially_refunded", "refunded"}

Fault == faults < MaxFaults /\ faults' = faults + 1

-----------------------------------------------------------------------------
\* complete_work_order_via_token: one transaction; the invoice takes the sum of
\* the line items, and so does actual_cost.
Complete ==
  /\ status = "none"
  /\ status' = "pending_payment" /\ cost' = Total
  /\ UNCHANGED <<session, intent, refunded, expense, credit, paying, stripe, hook,
                 workers, bounds>>

-----------------------------------------------------------------------------
\* POST /api/invoices/[invoiceId]/checkout

At(q, l) == click' = [click EXCEPT ![q] = l]

\* The answer is given, and what the request had read is gone with it.
Over(q) == At(q, "over") /\ seen' = [seen EXCEPT ![q] = None]

\* invoiceSettledError is null.  (Clicks are named as they come: the next one is
\* that which CHOOSE names.)
ReadInvoice(q) ==
  /\ click[q] = "idle" /\ q = CHOOSE p \in Clicks : click[p] = "idle"
  /\ status = "pending_payment"
  /\ seen' = [seen EXCEPT ![q] = session]
  /\ At(q, "retrieve")
  /\ UNCHANGED <<invoice, books, stripe, hook, workers, bounds>>

\* The session stored is still open: its URL is given again.
Reuse(q) ==
  /\ click[q] = "retrieve" /\ seen[q] # None /\ checkout[seen[q]] = "open"
  /\ Over(q)
  /\ UNCHANGED <<invoice, books, stripe, hook, workers, bounds>>

\* There is none, it is not open any more, or it cannot be retrieved (which
\* stands for its expiry too).
CreateSession(q) ==
  /\ click[q] = "retrieve"
  /\ \/ seen[q] = None /\ UNCHANGED faults
     \/ seen[q] # None /\ checkout[seen[q]] # "open" /\ UNCHANGED faults
     \/ seen[q] # None /\ checkout[seen[q]] = "open" /\ Fault
  /\ checkout' = [checkout EXCEPT ![q] = "open"]
  /\ At(q, "store")
  /\ UNCHANGED <<invoice, books, seen, returned, hook, workers, history>>

StoreSession(q) ==
  /\ click[q] = "store"
  /\ session' = q
  /\ Over(q)
  /\ UNCHANGED <<status, intent, refunded, books, stripe, hook, workers, bounds>>

\* The write fails: logged, and the URL is given all the same.
MissSession(q) ==
  /\ click[q] = "store" /\ Fault
  /\ Over(q)
  /\ UNCHANGED <<invoice, books, stripe, hook, workers, history>>

-----------------------------------------------------------------------------
\* Stripe

Pay(s) ==
  /\ checkout[s] = "open"
  /\ checkout' = [checkout EXCEPT ![s] = "complete"]
  /\ pending' = pending \cup {Paid(s)}
  /\ UNCHANGED <<invoice, books, paying, returned, claims, workers, bounds>>

\* charge.refunded reports the running total.
GiveBack(s) ==
  /\ checkout[s] = "complete"
  /\ Cardinality({e \in pending \cup claims : e[1] = "refund"}) < MaxRefunds
  /\ \E n \in (returned[s] + 1)..Captured :
       /\ returned' = [returned EXCEPT ![s] = n]
       /\ pending' = pending \cup {Refund(s, n)}
  /\ UNCHANGED <<invoice, books, paying, checkout, claims, workers, bounds>>

-----------------------------------------------------------------------------
\* POST /api/webhooks/stripe

Step(w, l) == pc' = [pc EXCEPT ![w] = l]
Kind(w)    == event[w][1]
Sess(w)    == event[w][2]
Amount(w)  == event[w][3]

\* A delivery finds a worker free.
Take(w, e) ==
  /\ pc[w] = "idle"
  /\ event' = [event EXCEPT ![w] = e]
  /\ Step(w, "start")
  /\ UNCHANGED <<invoice, books, paying, stripe, pending, read, history>>

Claim(w) ==
  \E e \in pending \ claims :
    /\ Take(w, e)
    /\ claims' = claims \cup {e} /\ UNCHANGED faults

\* The insert fails with anything but 23505: the event is handled unclaimed.
TakeUnclaimed(w) ==
  \E e \in pending : Take(w, e) /\ Fault /\ UNCHANGED claims

\* 23505: the event has been claimed before, and is acknowledged, whether its
\* handler has returned, is still at work, or died.
Duplicate(w) ==
  \E e \in pending \cap claims :
    /\ pc[w] = "idle"
    /\ pending' = pending \ {e}
    /\ UNCHANGED <<invoice, books, paying, stripe, claims, workers, bounds>>

\* The worker is free again.
Free(w) ==
  /\ Step(w, "idle")
  /\ event' = [event EXCEPT ![w] = None] /\ read' = [read EXCEPT ![w] = 0]

\* The handler returns: 200.
Ack(w) == Free(w) /\ pending' = pending \ {event[w]}

InHand(e, others) == \E w \in others : pc[w] # "idle" /\ event[w] = e

\* The handler throws: the claim is deleted, whoever made it, and Stripe is told
\* to deliver again.  It does not if a duplicate has been acknowledged.
Release(w) ==
  /\ Free(w)
  /\ claims' = claims \ {event[w]}
  /\ missed' = IF event[w] \in pending \/ InHand(event[w], Workers \ {w})
               THEN missed ELSE missed \cup ({event[w]} \cap Payments)
  /\ UNCHANGED <<invoice, books, paying, stripe, pending, lost>>

\* Faulty form: the claim is kept by a handler that throws.
KeepClaim(w) ==
  /\ pc[w] # "idle" /\ Fault
  /\ Free(w)
  /\ UNCHANGED <<invoice, books, paying, stripe, hook, history>>

Throw(w) == pc[w] # "idle" /\ Fault /\ Release(w)

\* The function is killed, or the claim cannot be released.
Die(w) ==
  /\ pc[w] # "idle" /\ Fault
  /\ lost' = lost \cup ({event[w]} \cap Payments)
  /\ Free(w)
  /\ UNCHANGED <<invoice, books, paying, stripe, hook, missed>>

\* handleWorkOrderInvoicePaid: only an invoice that is pending.
MarkPaid(w) ==
  /\ pc[w] = "start" /\ Kind(w) = "paid" /\ status = "pending_payment"
  /\ status' = "paid" /\ intent' = Sess(w)
  /\ Step(w, "expense")
  /\ UNCHANGED <<session, refunded, books, paying, stripe, hook, event, read, bounds>>

\* No row updated: taken for a second delivery.  (The schema also knows
\* "cancelled", which nothing in the repository writes.)
AlreadyPaid(w) ==
  /\ pc[w] = "start" /\ Kind(w) = "paid" /\ status \in Settled
  /\ Ack(w)
  /\ UNCHANGED <<invoice, books, paying, stripe, claims, bounds>>

PostExpense(w) ==
  /\ pc[w] = "expense"
  /\ expense' = TRUE
  /\ Step(w, "cost")
  /\ UNCHANGED <<invoice, credit, cost, paying, stripe, hook, event, read, bounds>>

\* actual_cost, if there is none; then the event and the audit record.
SetCost(w) ==
  /\ pc[w] = "cost"
  /\ cost' = IF cost = 0 THEN Total ELSE cost
  /\ Ack(w)
  /\ UNCHANGED <<invoice, expense, credit, paying, stripe, claims, bounds>>

\* handleWorkOrderInvoiceRefunded

Ours(w)  == intent = Sess(w)
Stale(w) == Amount(w) <= refunded

LookUp(w) ==
  /\ pc[w] = "start" /\ Kind(w) = "refund" /\ Ours(w) /\ ~Stale(w)
  /\ read' = [read EXCEPT ![w] = refunded]
  /\ Step(w, "mark")
  /\ UNCHANGED <<invoice, books, paying, stripe, hook, event, bounds>>

\* "Not one of ours", or a smaller total than the one recorded.
Ignore(w) ==
  /\ pc[w] = "start" /\ Kind(w) = "refund" /\ (~Ours(w) \/ Stale(w))
  /\ Ack(w)
  /\ UNCHANGED <<invoice, books, paying, stripe, claims, bounds>>

MarkIf(w, holds) ==
  /\ pc[w] = "mark" /\ holds
  /\ refunded' = Amount(w)
  /\ status' = IF Amount(w) = Captured THEN "refunded" ELSE "partially_refunded"
  /\ Step(w, "credit")
  /\ UNCHANGED <<session, intent, books, paying, stripe, hook, event, read, bounds>>

\* Faulty form: no optimistic lock.
MarkUnlocked(w) == MarkIf(w, TRUE)

MarkRefunded(w) == MarkIf(w, read[w] = refunded)

\* Another delivery was first: the handler throws.
LoseRace(w) ==
  /\ pc[w] = "mark" /\ read[w] # refunded
  /\ Release(w) /\ UNCHANGED faults

Credit(w, amount) ==
  /\ pc[w] = "credit"
  /\ credit' = amount
  /\ Step(w, "adjust")
  /\ UNCHANGED <<invoice, expense, cost, paying, stripe, hook, event, read, bounds>>

\* Faulty form: the running total is taken for the amount of this refund.
AddCredit(w) == Credit(w, credit + Amount(w))

PostCredit(w) == Credit(w, Amount(w))

AdjustCost(w) ==
  /\ pc[w] = "adjust"
  /\ cost' = IF cost # Total THEN cost
             ELSE IF Amount(w) >= Total THEN 0 ELSE Total - Amount(w)
  /\ Ack(w)
  /\ UNCHANGED <<invoice, expense, credit, paying, stripe, claims, bounds>>

-----------------------------------------------------------------------------
Init ==
  /\ status = "none" /\ session = None /\ intent = None /\ refunded = 0
  /\ expense = FALSE /\ credit = 0 /\ cost = 0
  /\ click = [q \in Clicks |-> "idle"] /\ seen = [q \in Clicks |-> None]
  /\ checkout = [s \in Clicks |-> "none"] /\ returned = [s \in Clicks |-> 0]
  /\ pending = {} /\ claims = {}
  /\ pc = [w \in Workers |-> "idle"]
  /\ event = [w \in Workers |-> None] /\ read = [w \in Workers |-> 0]
  /\ faults = 0 /\ lost = {} /\ missed = {}

Handle(w) ==
  \/ MarkPaid(w) \/ AlreadyPaid(w) \/ PostExpense(w) \/ SetCost(w)
  \/ LookUp(w) \/ Ignore(w) \/ MarkRefunded(w) \/ LoseRace(w)
  \/ PostCredit(w) \/ AdjustCost(w)

Next ==
  \/ Complete
  \/ \E q \in Clicks : \/ ReadInvoice(q) \/ Reuse(q) \/ CreateSession(q)
                       \/ StoreSession(q) \/ MissSession(q)
                       \/ Pay(q) \/ GiveBack(q)
  \/ \E w \in Workers : \/ Claim(w) \/ TakeUnclaimed(w) \/ Duplicate(w) \/ Handle(w)
                        \/ Throw(w) \/ Die(w)

\* Stripe delivers every event until it is acknowledged, to a worker that is
\* free, and a handler goes on; nobody has to complete work, pay or refund.
Fairness ==
  /\ WF_vars(\E w \in Workers : Claim(w) \/ Duplicate(w))
  /\ \A w \in Workers : WF_vars(Handle(w))

Spec == Init /\ [][Next]_vars /\ Fairness

-----------------------------------------------------------------------------
TypeOK ==
  /\ status \in {"none", "pending_payment"} \cup Settled
  /\ {session, intent} \subseteq Clicks \cup {None}
  /\ {refunded, credit} \subseteq 0..Captured /\ cost \in 0..Total
  /\ expense \in BOOLEAN
  /\ click \in [Clicks -> {"idle", "retrieve", "store", "over"}]
  /\ seen \in [Clicks -> Clicks \cup {None}]
  /\ checkout \in [Clicks -> {"none", "open", "complete"}]
  /\ returned \in [Clicks -> 0..Captured]
  /\ {pending, claims} \subseteq SUBSET Events
  /\ {lost, missed} \subseteq SUBSET Payments
  /\ pc \in [Workers -> {"idle", "start", "expense", "cost", "mark", "credit",
                         "adjust"}]
  /\ event \in [Workers -> Events \cup {None}] /\ read \in [Workers -> 0..Captured]
  /\ faults \in 0..MaxFaults

\* Whatever order refund events arrive in and however their handlers overlap,
\* the amount recorded never shrinks, never exceeds what Stripe gave back, and
\* no late payment event turns the invoice back to paid.
RefundsOnlyGrow ==
  [][/\ refunded' >= refunded
     /\ refunded' > 0 => refunded' <= returned'[intent'] /\ status' # "paid"]_vars

\* The owner is never credited with more than was refunded.
CreditIsBacked == credit <= refunded

\* A payment is never forgotten: once a session has been paid the invoice is
\* settled, or a worker has the event in hand, or Stripe will deliver it again
\* and no claim turns it away.  Except for the two ways the route has of
\* forgetting it: a delivery died holding its claim, or a handler threw after a
\* redelivery had been acknowledged as a duplicate.
PaymentsAreHeld ==
  \A s \in Clicks : checkout[s] = "complete" =>
    \/ status \in Settled \/ Paid(s) \in lost \cup missed
    \/ InHand(Paid(s), Workers) \/ Paid(s) \in pending \ claims

\* An invoice of which a session has been paid is not left unsettled for good,
\* unless every payment made is forgotten in one of those two ways.
PaymentsAreMarked ==
  []<>(\/ status \in Settled
       \/ \A s \in Clicks : checkout[s] = "complete" => Paid(s) \in lost \cup missed)

\* What the route says of its release: the retry gets a real second attempt, so
\* that a handler that threw leaves a delivery to come.  Not true of the code:
\* Stripe may have been told 200 in the meantime.
ThrownIsRetried == missed = {}

\* What the refund handler says of its credit: it nets with the expense.  Not
\* true of the code when the customer paid a surcharge: it exceeds it.
CreditNets == credit <= Total

\* What the handler's header claims of retries: an invoice marked paid has its
\* expense posted in the end.  Not true of the code: a retry finds it paid.
PaidIsBooked == status = "paid" ~> expense
=============================================================================
