------------------------ MODULE InvoicePaymentProofs ------------------------
(***************************************************************************)
(* Proofs about InvoicePayment, for any number of payment requests and     *)
(* webhook workers, and any amount.                                        *)
(***************************************************************************)
EXTENDS InvoicePayment, TLAPS

LEMMA Constants ==
  /\ Total \in Nat \ {0} /\ MaxFaults \in Nat /\ MaxRefunds \in Nat
  /\ Captured \in Nat /\ Total <= Captured
  /\ None \notin Clicks
BY InvoiceAssumption DEF Captured

LEMMA EventFields ==
  /\ \A e \in Events : /\ e[1] \in {"paid", "refund"} /\ e[2] \in Clicks
                        /\ e[3] \in 0..Captured
  /\ \A s \in Clicks : /\ Paid(s) \in Events /\ Paid(s)[1] = "paid"
                        /\ \A n \in 1..Captured :
                             /\ Refund(s, n) \in Events
                             /\ Refund(s, n)[1] = "refund"
                             /\ Refund(s, n)[2] = s /\ Refund(s, n)[3] = n
BY Constants DEF Events, Payments, Paid, Refund

\* What a delivery that finds a worker free does, claimed or not.
LEMMA Taken ==
  ASSUME NEW w \in Workers, Claim(w) \/ TakeUnclaimed(w)
  PROVE  \E e \in pending :
           /\ pc[w] = "idle" /\ event' = [event EXCEPT ![w] = e]
           /\ pc' = [pc EXCEPT ![w] = "start"]
           /\ claims' = claims \cup {e} \/ claims' = claims
           /\ faults' = faults \/ Fault
           /\ UNCHANGED <<invoice, books, paying, stripe, pending, read, history>>
BY DEF Claim, TakeUnclaimed, Take, Step

-----------------------------------------------------------------------------
\* Type correctness, and that a worker that is not idle has an event of the
\* kind its step belongs to.
Typed ==
  /\ TypeOK
  /\ \A w \in Workers : pc[w] # "idle" => event[w] \in Events

LEMMA TypedInit == Init => Typed
<1> SUFFICES ASSUME Init PROVE Typed
  OBVIOUS
<1> USE Constants DEF Init, Typed, TypeOK, Settled
<1>1. {session, intent} \subseteq Clicks \cup {None}
  OBVIOUS
<1>2. {refunded, credit} \subseteq 0..Captured /\ cost \in 0..Total
  OBVIOUS
<1>3. /\ {pending, claims} \subseteq SUBSET Events
      /\ {lost, missed} \subseteq SUBSET Payments
  OBVIOUS
<1>4. /\ seen \in [Clicks -> Clicks \cup {None}] /\ returned \in [Clicks -> 0..Captured]
      /\ event \in [Workers -> Events \cup {None}] /\ read \in [Workers -> 0..Captured]
      /\ faults \in 0..MaxFaults
  OBVIOUS
<1> QED
  BY <1>1, <1>2, <1>3, <1>4

LEMMA TypedNext == Typed /\ [Next]_vars => Typed'
<1> SUFFICES ASSUME Typed, [Next]_vars PROVE Typed'
  OBVIOUS
<1> USE Constants, EventFields DEF Typed, TypeOK, Settled, Kind, Sess, Amount
<1>1. ASSUME Complete PROVE Typed'
  BY <1>1 DEF Complete, paying, stripe, hook, workers, bounds, history
<1>2. ASSUME NEW q \in Clicks, ReadInvoice(q) PROVE Typed'
  BY <1>2 DEF ReadInvoice, At, invoice, books, stripe, hook, workers, bounds, history
<1>3. ASSUME NEW q \in Clicks, Reuse(q) PROVE Typed'
  BY <1>3 DEF Reuse, Over, At, invoice, books, stripe, hook, workers, bounds, history
<1>4. ASSUME NEW q \in Clicks, CreateSession(q) PROVE Typed'
  BY <1>4 DEF CreateSession, At, Fault, invoice, books, hook, workers, history
<1>5. ASSUME NEW q \in Clicks, StoreSession(q) PROVE Typed'
  BY <1>5 DEF StoreSession, Over, At, books, stripe, hook, workers, bounds, history
<1>6. ASSUME NEW q \in Clicks, MissSession(q) PROVE Typed'
  BY <1>6 DEF MissSession, Over, At, Fault, invoice, books, stripe, hook, workers, history
<1>7. ASSUME NEW q \in Clicks, Pay(q) PROVE Typed'
  BY <1>7 DEF Pay, Paid, invoice, books, paying, workers, bounds, history
<1>8. ASSUME NEW q \in Clicks, GiveBack(q) PROVE Typed'
  BY <1>8 DEF GiveBack, Refund, invoice, books, paying, workers, bounds, history
<1>9. ASSUME NEW w \in Workers, Claim(w) \/ TakeUnclaimed(w) PROVE Typed'
  <2>1. PICK e \in pending :
          /\ pc[w] = "idle" /\ event' = [event EXCEPT ![w] = e]
          /\ pc' = [pc EXCEPT ![w] = "start"]
          /\ claims' = claims \cup {e} \/ claims' = claims
          /\ faults' = faults \/ Fault
          /\ UNCHANGED <<invoice, books, paying, stripe, pending, read, history>>
    BY <1>9, Taken
  <2> QED
    BY <2>1 DEF Fault, invoice, books, paying, stripe, history
<1>10. ASSUME NEW w \in Workers, Duplicate(w) PROVE Typed'
  BY <1>10 DEF Duplicate, invoice, books, paying, stripe, workers, bounds, history
<1>11. ASSUME NEW w \in Workers, Throw(w) PROVE Typed'
  BY <1>11 DEF Throw, Release, Free, Step, Fault, invoice, books, paying, stripe
<1>12. ASSUME NEW w \in Workers, Die(w) PROVE Typed'
  BY <1>12 DEF Die, Free, Step, Fault, invoice, books, paying, stripe, hook
<1>13. ASSUME NEW w \in Workers, MarkPaid(w) PROVE Typed'
  BY <1>13 DEF MarkPaid, Step, books, paying, stripe, hook, bounds, history
<1>14. ASSUME NEW w \in Workers, AlreadyPaid(w) PROVE Typed'
  BY <1>14 DEF AlreadyPaid, Ack, Free, Step, invoice, books, paying, stripe,
     bounds, history
<1>15. ASSUME NEW w \in Workers, PostExpense(w) PROVE Typed'
  BY <1>15 DEF PostExpense, Step, invoice, paying, stripe, hook, bounds, history
<1>16. ASSUME NEW w \in Workers, SetCost(w) PROVE Typed'
  BY <1>16 DEF SetCost, Ack, Free, Step, invoice, paying, stripe, bounds, history
<1>17. ASSUME NEW w \in Workers, LookUp(w) PROVE Typed'
  BY <1>17 DEF LookUp, Ours, Stale, Step, invoice, books, paying, stripe, hook,
     bounds, history
<1>18. ASSUME NEW w \in Workers, Ignore(w) PROVE Typed'
  BY <1>18 DEF Ignore, Ack, Free, Step, invoice, books, paying, stripe, bounds, history
<1>19. ASSUME NEW w \in Workers, MarkRefunded(w) PROVE Typed'
  BY <1>19 DEF MarkRefunded, MarkIf, Step, books, paying, stripe, hook, bounds, history
<1>20. ASSUME NEW w \in Workers, LoseRace(w) PROVE Typed'
  BY <1>20 DEF LoseRace, Release, Free, Step, invoice, books, paying, stripe
<1>21. ASSUME NEW w \in Workers, PostCredit(w) PROVE Typed'
  BY <1>21 DEF PostCredit, Credit, Step, invoice, paying, stripe, hook, bounds, history
<1>22. ASSUME NEW w \in Workers, AdjustCost(w) PROVE Typed'
  BY <1>22 DEF AdjustCost, Ack, Free, Step, invoice, paying, stripe, bounds, history
<1>23. ASSUME UNCHANGED vars PROVE Typed'
  BY <1>23 DEF vars, invoice, books, paying, stripe, hook, workers, bounds, history
<1> QED
  BY <1>1, <1>2, <1>3, <1>4, <1>5, <1>6, <1>7, <1>8, <1>9, <1>10, <1>11, <1>12,
     <1>13, <1>14, <1>15, <1>16, <1>17, <1>18, <1>19, <1>20, <1>21, <1>22, <1>23
  DEF Next, Handle

\* Every state reached is well typed: amounts stay between zero and the total.
THEOREM InvoiceTypeCorrect == Spec => []TypeOK
<1>1. Typed => TypeOK
  BY DEF Typed
<1> QED
  BY <1>1, TypedInit, TypedNext, PTL DEF Spec

-----------------------------------------------------------------------------
\* No more is recorded than an event reports, no event reports more than Stripe
\* gave back of its session, and only the session that paid the invoice can have
\* a refund recorded: what keeps the amount right when handlers overlap.
Reported ==
  /\ \A e \in pending : e[1] = "refund" => e[3] <= returned[e[2]]
  /\ \A w \in Workers :
       pc[w] # "idle" /\ Kind(w) = "refund" => Amount(w) <= returned[Sess(w)]

OneIntent ==
  /\ status \notin Settled => intent = None /\ refunded = 0
  /\ status \in Settled => intent \in Clicks
  /\ refunded > 0 => /\ intent \in Clicks /\ refunded <= returned[intent]
                     /\ status # "paid"

Locked ==
  \A w \in Workers :
    /\ pc[w] \in {"mark", "credit"} => Kind(w) = "refund" /\ Sess(w) = intent
    /\ pc[w] = "mark" => read[w] < Amount(w)
    /\ pc[w] = "credit" => Amount(w) <= refunded

Refunds == Typed /\ Reported /\ OneIntent /\ Locked /\ CreditIsBacked

LEMMA RefundsInit == Init => Refunds
<1> SUFFICES ASSUME Init PROVE Refunds
  OBVIOUS
<1>1. Typed
  BY TypedInit
<1>2. Reported /\ OneIntent /\ Locked /\ CreditIsBacked
  BY Constants DEF Init, Reported, OneIntent, Locked, CreditIsBacked, Settled
<1> QED
  BY <1>1, <1>2 DEF Refunds

LEMMA RefundsNext == Refunds /\ [Next]_vars => Refunds'
<1> SUFFICES ASSUME Refunds, [Next]_vars
             PROVE Reported' /\ OneIntent' /\ Locked' /\ CreditIsBacked'
  BY TypedNext DEF Refunds
<1> DEFINE Goal == Reported' /\ OneIntent' /\ Locked' /\ CreditIsBacked'
<1> USE Constants, EventFields
    DEF Refunds, Typed, TypeOK, Reported, OneIntent, Locked, CreditIsBacked, Settled,
        Kind, Sess, Amount
<1>1. ASSUME Complete PROVE Goal
  BY <1>1 DEF Complete, paying, stripe, hook, workers, bounds, history
<1>2. ASSUME NEW q \in Clicks, ReadInvoice(q) PROVE Goal
  BY <1>2 DEF ReadInvoice, At, invoice, books, stripe, hook, workers, bounds, history
<1>3. ASSUME NEW q \in Clicks, Reuse(q) PROVE Goal
  BY <1>3 DEF Reuse, Over, At, invoice, books, stripe, hook, workers, bounds, history
<1>4. ASSUME NEW q \in Clicks, CreateSession(q) PROVE Goal
  BY <1>4 DEF CreateSession, At, Fault, invoice, books, hook, workers, history
<1>5. ASSUME NEW q \in Clicks, StoreSession(q) PROVE Goal
  BY <1>5 DEF StoreSession, Over, At, books, stripe, hook, workers, bounds, history
<1>6. ASSUME NEW q \in Clicks, MissSession(q) PROVE Goal
  BY <1>6 DEF MissSession, Over, At, Fault, invoice, books, stripe, hook, workers, history
<1>7. ASSUME NEW q \in Clicks, Pay(q) PROVE Goal
  BY <1>7 DEF Pay, Paid, invoice, books, paying, workers, bounds, history
<1>8. ASSUME NEW q \in Clicks, GiveBack(q) PROVE Goal
  BY <1>8 DEF GiveBack, Refund, invoice, books, paying, workers, bounds, history
<1>9. ASSUME NEW w \in Workers, Claim(w) \/ TakeUnclaimed(w) PROVE Goal
  <2>1. PICK e \in pending :
          /\ pc[w] = "idle" /\ event' = [event EXCEPT ![w] = e]
          /\ pc' = [pc EXCEPT ![w] = "start"]
          /\ claims' = claims \cup {e} \/ claims' = claims
          /\ faults' = faults \/ Fault
          /\ UNCHANGED <<invoice, books, paying, stripe, pending, read, history>>
    BY <1>9, Taken
  <2> QED
    BY <2>1 DEF Fault, invoice, books, paying, stripe, history
<1>10. ASSUME NEW w \in Workers, Duplicate(w) PROVE Goal
  BY <1>10 DEF Duplicate, invoice, books, paying, stripe, workers, bounds, history
<1>11. ASSUME NEW w \in Workers, Throw(w) PROVE Goal
  BY <1>11 DEF Throw, Release, Free, Step, Fault, invoice, books, paying, stripe
<1>12. ASSUME NEW w \in Workers, Die(w) PROVE Goal
  BY <1>12 DEF Die, Free, Step, Fault, invoice, books, paying, stripe, hook
<1>13. ASSUME NEW w \in Workers, MarkPaid(w) PROVE Goal
  BY <1>13 DEF MarkPaid, Step, books, paying, stripe, hook, bounds, history
<1>14. ASSUME NEW w \in Workers, AlreadyPaid(w) PROVE Goal
  BY <1>14 DEF AlreadyPaid, Ack, Free, Step, invoice, books, paying, stripe,
     bounds, history
<1>15. ASSUME NEW w \in Workers, PostExpense(w) PROVE Goal
  BY <1>15 DEF PostExpense, Step, invoice, paying, stripe, hook, bounds, history
<1>16. ASSUME NEW w \in Workers, SetCost(w) PROVE Goal
  BY <1>16 DEF SetCost, Ack, Free, Step, invoice, paying, stripe, bounds, history
<1>17. ASSUME NEW w \in Workers, LookUp(w) PROVE Goal
  BY <1>17 DEF LookUp, Ours, Stale, Step, invoice, books, paying, stripe, hook,
     bounds, history
<1>18. ASSUME NEW w \in Workers, Ignore(w) PROVE Goal
  BY <1>18 DEF Ignore, Ack, Free, Step, invoice, books, paying, stripe, bounds, history
<1>19. ASSUME NEW w \in Workers, MarkRefunded(w) PROVE Goal
  <2> USE <1>19 DEF MarkRefunded, MarkIf
  <2>1. /\ refunded' = Amount(w) /\ refunded < refunded' /\ refunded \in 0..Captured
        /\ event[w] \in Events /\ Amount(w) \in 0..Captured /\ Kind(w) = "refund"
        /\ Sess(w) = intent /\ intent \in Clicks /\ status \in Settled
    OBVIOUS
  <2>2. /\ status' \in Settled /\ status' # "paid"
        /\ UNCHANGED <<intent, pending, returned, event, read, credit>>
        /\ pc' = [pc EXCEPT ![w] = "credit"]
    BY DEF Step, books, paying, stripe, hook
  <2>3. Reported'
    BY <2>2
  <2>4. OneIntent'
    <3>1. Amount(w) <= returned[intent]
      BY <2>1
    <3> QED
      BY <2>1, <2>2, <3>1
  <2>5. Locked'
    BY <2>1, <2>2
  <2>6. CreditIsBacked'
    BY <2>1, <2>2
  <2> QED
    BY <2>3, <2>4, <2>5, <2>6
<1>20. ASSUME NEW w \in Workers, LoseRace(w) PROVE Goal
  BY <1>20 DEF LoseRace, Release, Free, Step, invoice, books, paying, stripe
<1>21. ASSUME NEW w \in Workers, PostCredit(w) PROVE Goal
  BY <1>21 DEF PostCredit, Credit, Step, invoice, paying, stripe, hook, bounds, history
<1>22. ASSUME NEW w \in Workers, AdjustCost(w) PROVE Goal
  BY <1>22 DEF AdjustCost, Ack, Free, Step, invoice, paying, stripe, bounds, history
<1>23. ASSUME UNCHANGED vars PROVE Goal
  BY <1>23 DEF vars, invoice, books, paying, stripe, hook, workers, bounds, history
<1> QED
  BY <1>1, <1>2, <1>3, <1>4, <1>5, <1>6, <1>7, <1>8, <1>9, <1>10, <1>11, <1>12,
     <1>13, <1>14, <1>15, <1>16, <1>17, <1>18, <1>19, <1>20, <1>21, <1>22, <1>23
  DEF Next, Handle

\* The amount recorded as refunded never shrinks or exceeds what Stripe gave back,
\* and the invoice never turns back to paid, whatever the order of the webhook's
\* deliveries and however their handlers overlap.
THEOREM RefundsOnlyGrowTheorem == Spec => RefundsOnlyGrow
<1>1. Refunds /\ [Next]_vars
      => [/\ refunded' >= refunded
          /\ refunded' > 0 => /\ refunded' <= returned'[intent']
                               /\ status' # "paid"]_vars
  <2> SUFFICES ASSUME Refunds, Next, Refunds'
      PROVE refunded' >= refunded
    BY RefundsNext DEF Refunds, OneIntent
  <2>1. CASE \E w \in Workers : MarkRefunded(w)
    BY <2>1, Constants, EventFields
    DEF MarkRefunded, MarkIf, Refunds, Typed, TypeOK, Locked, Amount
  <2>2. CASE ~\E w \in Workers : MarkRefunded(w)
    <3>1. refunded' = refunded
      BY <2>2 DEF Next, Handle, Complete, ReadInvoice, Reuse, CreateSession,
         StoreSession, MissSession, Pay, GiveBack, Claim, TakeUnclaimed,
         Take, Duplicate, Throw, Release, Die,
         MarkPaid, AlreadyPaid, PostExpense, SetCost, LookUp, Ignore,
         LoseRace, PostCredit, Credit, AdjustCost, invoice
    <3> QED
      BY <3>1, Constants DEF Refunds, Typed, TypeOK
  <2> QED
    BY <2>1, <2>2
<1> QED
  BY <1>1, RefundsInit, RefundsNext, PTL DEF Spec, RefundsOnlyGrow

\* The owner's ledger is never credited with more than was refunded.
THEOREM CreditTheorem == Spec => []CreditIsBacked
<1>1. Refunds => CreditIsBacked
  BY DEF Refunds
<1> QED
  BY <1>1, RefundsInit, RefundsNext, PTL DEF Spec
-----------------------------------------------------------------------------
\* Why a payment is not forgotten: a session exists once its request has made
\* it, and is made once (`Fresh`); only what Stripe has sent is claimed
\* (`Genuine`); a worker past its first step works for an invoice that is
\* settled, and what it then acknowledges is the event it belongs to (`Kinds`).
Fresh ==
  \A q \in Clicks : click[q] \in {"idle", "retrieve"} => checkout[q] = "none"

Genuine ==
  \A s \in Clicks : Paid(s) \in pending \cup claims => checkout[s] = "complete"

Kinds ==
  \A w \in Workers :
    /\ pc[w] \in {"expense", "cost"} => status \in Settled
    /\ pc[w] \in {"mark", "credit", "adjust"} => Kind(w) = "refund"

Held == Typed /\ Fresh /\ Genuine /\ Kinds /\ PaymentsAreHeld

LEMMA HeldInit == Init => Held
<1> SUFFICES ASSUME Init PROVE Held
  OBVIOUS
<1>1. Typed
  BY TypedInit
<1>2. Fresh /\ Genuine /\ Kinds /\ PaymentsAreHeld
  BY DEF Init, Fresh, Genuine, Kinds, PaymentsAreHeld
<1> QED
  BY <1>1, <1>2 DEF Held

LEMMA HeldNext == Held /\ [Next]_vars => Held'
<1> SUFFICES ASSUME Held, [Next]_vars
             PROVE Fresh' /\ Genuine' /\ Kinds' /\ PaymentsAreHeld'
  BY TypedNext DEF Held
<1> DEFINE Goal == Fresh' /\ Genuine' /\ Kinds' /\ PaymentsAreHeld'
<1> USE Constants, EventFields
    DEF Held, Typed, TypeOK, Fresh, Genuine, Kinds, PaymentsAreHeld, Settled, Kind,
        Sess, Amount, InHand, Payments
<1>1. ASSUME Complete PROVE Goal
  BY <1>1 DEF Complete, paying, stripe, hook, workers, bounds, history
<1>2. ASSUME NEW q \in Clicks, ReadInvoice(q) PROVE Goal
  BY <1>2 DEF ReadInvoice, At, invoice, books, stripe, hook, workers, bounds, history
<1>3. ASSUME NEW q \in Clicks, Reuse(q) PROVE Goal
  BY <1>3 DEF Reuse, Over, At, invoice, books, stripe, hook, workers, bounds, history
<1>4. ASSUME NEW q \in Clicks, CreateSession(q) PROVE Goal
  BY <1>4 DEF CreateSession, At, Fault, invoice, books, hook, workers, history
<1>5. ASSUME NEW q \in Clicks, StoreSession(q) PROVE Goal
  BY <1>5 DEF StoreSession, Over, At, books, stripe, hook, workers, bounds, history
<1>6. ASSUME NEW q \in Clicks, MissSession(q) PROVE Goal
  BY <1>6 DEF MissSession, Over, At, Fault, invoice, books, stripe, hook, workers, history
<1>7. ASSUME NEW q \in Clicks, Pay(q) PROVE Goal
  <2>1. \A s \in Clicks : Paid(s) = Paid(q) => s = q
    BY DEF Paid
  <2> QED
    BY <1>7, <2>1 DEF Pay, invoice, books, paying, workers, bounds, history
<1>8. ASSUME NEW q \in Clicks, GiveBack(q) PROVE Goal
  BY <1>8 DEF GiveBack, Refund, invoice, books, paying, workers, bounds, history
<1>9. ASSUME NEW w \in Workers, Claim(w) \/ TakeUnclaimed(w) PROVE Goal
  <2>1. PICK e \in pending :
          /\ pc[w] = "idle" /\ event' = [event EXCEPT ![w] = e]
          /\ pc' = [pc EXCEPT ![w] = "start"]
          /\ claims' = claims \cup {e} \/ claims' = claims
          /\ faults' = faults \/ Fault
          /\ UNCHANGED <<invoice, books, paying, stripe, pending, read, history>>
    BY <1>9, Taken
  <2> QED
    BY <2>1 DEF Fault, invoice, books, paying, stripe, history
<1>10. ASSUME NEW w \in Workers, Duplicate(w) PROVE Goal
  BY <1>10 DEF Duplicate, invoice, books, paying, stripe, workers, bounds, history
<1>11. ASSUME NEW w \in Workers, Throw(w) PROVE Goal
  BY <1>11 DEF Throw, Release, Free, Step, Fault, invoice, books, paying, stripe
<1>12. ASSUME NEW w \in Workers, Die(w) PROVE Goal
  BY <1>12 DEF Die, Free, Step, Fault, invoice, books, paying, stripe, hook
<1>13. ASSUME NEW w \in Workers, MarkPaid(w) PROVE Goal
  BY <1>13 DEF MarkPaid, Step, books, paying, stripe, hook, bounds, history
<1>14. ASSUME NEW w \in Workers, AlreadyPaid(w) PROVE Goal
  BY <1>14 DEF AlreadyPaid, Ack, Free, Step, invoice, books, paying, stripe,
     bounds, history
<1>15. ASSUME NEW w \in Workers, PostExpense(w) PROVE Goal
  BY <1>15 DEF PostExpense, Step, invoice, paying, stripe, hook, bounds, history
<1>16. ASSUME NEW w \in Workers, SetCost(w) PROVE Goal
  BY <1>16 DEF SetCost, Ack, Free, Step, invoice, paying, stripe, bounds, history
<1>17. ASSUME NEW w \in Workers, LookUp(w) PROVE Goal
  BY <1>17 DEF LookUp, Ours, Stale, Step, invoice, books, paying, stripe, hook,
     bounds, history
<1>18. ASSUME NEW w \in Workers, Ignore(w) PROVE Goal
  BY <1>18 DEF Ignore, Ack, Free, Step, invoice, books, paying, stripe, bounds, history
<1>19. ASSUME NEW w \in Workers, MarkRefunded(w) PROVE Goal
  BY <1>19 DEF MarkRefunded, MarkIf, Step, books, paying, stripe, hook, bounds, history
<1>20. ASSUME NEW w \in Workers, LoseRace(w) PROVE Goal
  BY <1>20 DEF LoseRace, Release, Free, Step, invoice, books, paying, stripe
<1>21. ASSUME NEW w \in Workers, PostCredit(w) PROVE Goal
  BY <1>21 DEF PostCredit, Credit, Step, invoice, paying, stripe, hook, bounds, history
<1>22. ASSUME NEW w \in Workers, AdjustCost(w) PROVE Goal
  BY <1>22 DEF AdjustCost, Ack, Free, Step, invoice, paying, stripe, bounds, history
<1>23. ASSUME UNCHANGED vars PROVE Goal
  BY <1>23 DEF vars, invoice, books, paying, stripe, hook, workers, bounds, history
<1> QED
  BY <1>1, <1>2, <1>3, <1>4, <1>5, <1>6, <1>7, <1>8, <1>9, <1>10, <1>11,
     <1>12, <1>13, <1>14, <1>15, <1>16, <1>17, <1>18, <1>19, <1>20, <1>21,
     <1>22, <1>23
  DEF Next, Handle

\* A payment Stripe has taken is forgotten in two ways only, whatever fails,
\* throws, is delivered again or handled unclaimed, and however many requests
\* and workers there are: a delivery died holding its claim, or a handler threw
\* after a redelivery had been acknowledged.  Otherwise the invoice is settled, a
\* worker has the event in hand, or it will come again and no claim turns it away
\* (the claim and its release in the webhook route).
THEOREM PaymentsAreHeldTheorem == Spec => []PaymentsAreHeld
<1>1. Held => PaymentsAreHeld
  BY DEF Held
<1> QED
  BY <1>1, HeldInit, HeldNext, PTL DEF Spec

-----------------------------------------------------------------------------
\* As long as nothing has failed, the expense of a settled invoice is posted,
\* or the worker that settled the invoice is about to post it.
BooksFollow ==
  faults = 0 /\ status \in Settled =>
    expense \/ \E w \in Workers : pc[w] = "expense"

LEMMA BooksNext == Refunds /\ BooksFollow /\ [Next]_vars => BooksFollow'
<1> SUFFICES ASSUME Refunds, BooksFollow, [Next]_vars PROVE BooksFollow'
  OBVIOUS
<1> USE Constants, EventFields
    DEF Refunds, Typed, TypeOK, OneIntent, Locked, BooksFollow, Settled, Kind, Sess,
        Amount
<1>1. ASSUME Complete PROVE BooksFollow'
  BY <1>1 DEF Complete, paying, stripe, hook, workers, bounds, history
<1>2. ASSUME NEW q \in Clicks, ReadInvoice(q) PROVE BooksFollow'
  BY <1>2 DEF ReadInvoice, At, invoice, books, stripe, hook, workers, bounds, history
<1>3. ASSUME NEW q \in Clicks, Reuse(q) PROVE BooksFollow'
  BY <1>3 DEF Reuse, Over, At, invoice, books, stripe, hook, workers, bounds, history
<1>4. ASSUME NEW q \in Clicks, CreateSession(q) PROVE BooksFollow'
  BY <1>4 DEF CreateSession, At, Fault, invoice, books, hook, workers, history
<1>5. ASSUME NEW q \in Clicks, StoreSession(q) PROVE BooksFollow'
  BY <1>5 DEF StoreSession, Over, At, books, stripe, hook, workers, bounds, history
<1>6. ASSUME NEW q \in Clicks, MissSession(q) PROVE BooksFollow'
  BY <1>6 DEF MissSession, Over, At, Fault, invoice, books, stripe, hook, workers, history
<1>7. ASSUME NEW q \in Clicks, Pay(q) PROVE BooksFollow'
  BY <1>7 DEF Pay, Paid, invoice, books, paying, workers, bounds, history
<1>8. ASSUME NEW q \in Clicks, GiveBack(q) PROVE BooksFollow'
  BY <1>8 DEF GiveBack, Refund, invoice, books, paying, workers, bounds, history
<1>9. ASSUME NEW w \in Workers, Claim(w) \/ TakeUnclaimed(w) PROVE BooksFollow'
  <2>1. PICK e \in pending :
          /\ pc[w] = "idle" /\ event' = [event EXCEPT ![w] = e]
          /\ pc' = [pc EXCEPT ![w] = "start"]
          /\ claims' = claims \cup {e} \/ claims' = claims
          /\ faults' = faults \/ Fault
          /\ UNCHANGED <<invoice, books, paying, stripe, pending, read, history>>
    BY <1>9, Taken
  <2> QED
    BY <2>1 DEF Fault, invoice, books, paying, stripe, history
<1>10. ASSUME NEW w \in Workers, Duplicate(w) PROVE BooksFollow'
  BY <1>10 DEF Duplicate, invoice, books, paying, stripe, workers, bounds, history
<1>11. ASSUME NEW w \in Workers, Throw(w) PROVE BooksFollow'
  BY <1>11 DEF Throw, Release, Free, Step, Fault, invoice, books, paying, stripe
<1>12. ASSUME NEW w \in Workers, Die(w) PROVE BooksFollow'
  BY <1>12 DEF Die, Free, Step, Fault, invoice, books, paying, stripe, hook
<1>13. ASSUME NEW w \in Workers, MarkPaid(w) PROVE BooksFollow'
  BY <1>13 DEF MarkPaid, Step, books, paying, stripe, hook, bounds, history
<1>14. ASSUME NEW w \in Workers, AlreadyPaid(w) PROVE BooksFollow'
  BY <1>14 DEF AlreadyPaid, Ack, Free, Step, invoice, books, paying, stripe,
     bounds, history
<1>15. ASSUME NEW w \in Workers, PostExpense(w) PROVE BooksFollow'
  BY <1>15 DEF PostExpense, Step, invoice, paying, stripe, hook, bounds, history
<1>16. ASSUME NEW w \in Workers, SetCost(w) PROVE BooksFollow'
  BY <1>16 DEF SetCost, Ack, Free, Step, invoice, paying, stripe, bounds, history
<1>17. ASSUME NEW w \in Workers, LookUp(w) PROVE BooksFollow'
  BY <1>17 DEF LookUp, Ours, Stale, Step, invoice, books, paying, stripe, hook,
     bounds, history
<1>18. ASSUME NEW w \in Workers, Ignore(w) PROVE BooksFollow'
  BY <1>18 DEF Ignore, Ack, Free, Step, invoice, books, paying, stripe, bounds, history
<1>19. ASSUME NEW w \in Workers, MarkRefunded(w) PROVE BooksFollow'
  BY <1>19 DEF MarkRefunded, MarkIf, Step, books, paying, stripe, hook, bounds, history
<1>20. ASSUME NEW w \in Workers, LoseRace(w) PROVE BooksFollow'
  BY <1>20 DEF LoseRace, Release, Free, Step, invoice, books, paying, stripe
<1>21. ASSUME NEW w \in Workers, PostCredit(w) PROVE BooksFollow'
  BY <1>21 DEF PostCredit, Credit, Step, invoice, paying, stripe, hook, bounds, history
<1>22. ASSUME NEW w \in Workers, AdjustCost(w) PROVE BooksFollow'
  BY <1>22 DEF AdjustCost, Ack, Free, Step, invoice, paying, stripe, bounds, history
<1>23. ASSUME UNCHANGED vars PROVE BooksFollow'
  BY <1>23 DEF vars, invoice, books, paying, stripe, hook, workers, bounds, history
<1> QED
  BY <1>1, <1>2, <1>3, <1>4, <1>5, <1>6, <1>7, <1>8, <1>9, <1>10, <1>11,
     <1>12, <1>13, <1>14, <1>15, <1>16, <1>17, <1>18, <1>19, <1>20, <1>21,
     <1>22, <1>23
  DEF Next, Handle

\* The webhook loses an expense only by a failure: without one, whoever marks
\* an invoice paid goes on to its ledger row, however deliveries overlap
\* (handleWorkOrderInvoicePaid).
THEOREM BooksFollowTheorem == Spec => []BooksFollow
<1>1. Init => BooksFollow
  BY DEF Init, BooksFollow, Settled
<1> QED
  BY <1>1, RefundsInit, RefundsNext, BooksNext, PTL DEF Spec
=============================================================================
