------------------------------ MODULE BxcanTx ------------------------------
(***************************************************************************)
(* The transmit side with the bxCAN transport: spinTransmit offers the     *)
(* first frame of the queue to bxCANPush, which aborts the mailboxes whose *)
(* deadline has passed and takes the frame only when a mailbox is free and *)
(* no pending one has its priority or a higher one.                        *)
(*                                                                         *)
(* The controller works between any two register accesses of the driver:   *)
(* it sends the pending mailbox with the smallest CAN ID, loses            *)
(* arbitration, carries out abort requests, and enters and leaves bus-off. *)
(* A tick is one unit of platformSpecificGetTimeMs; the driver's clock is  *)
(* that time in microseconds computed in 32 bits, so it starts again from  *)
(* zero after ClockModulo ticks.                                           *)
(***************************************************************************)
EXTENDS Integers, Sequences, SequencesExt, FiniteSetsExt

CONSTANTS Subject, Response, FramesOf, Capacity, HeapBlocks,
          CounterModulo, TidModulo, MaxPushes,   \* see TxQueue
          Timeout,      \* the deadline of a frame, 100 ms from transmit()
          ClockModulo   \* the 32-bit microsecond clock: 2^32 / 1000 ms

VARIABLES
    txQueue, queueSize, heapFree, rxHeld, transfer_id, spinning, pushed, sent,
    step,           \* position in bxCANPush
    current_time,   \* the clock as transmit() read it
    tme,            \* the free mailboxes the driver has seen
    g_tx_deadline,  \* for each mailbox; Never stands for UINT64_MAX
    mailbox,        \* the last frame written to each mailbox
    pending, abrq,  \* mailboxes pending, and those asked to abort
    onWire,         \* the mailbox being transmitted, as a set
    lec, boff,      \* error code latched in ESR, bus-off state
    clock, age,     \* the clock, and for how long each mailbox has waited
    bus,            \* history: for each port, its frames seen on the bus
    aborted         \* history: frames given up by the controller

queueVars == <<txQueue, queueSize, heapFree, rxHeld, transfer_id, spinning, pushed, sent>>
driverVars == <<step, current_time, tme, g_tx_deadline>>
statusVars == <<lec, boff>>
timeVars == <<clock, age>>
historyVars == <<bus, aborted>>
vars == <<queueVars, driverVars, mailbox, pending, abrq, onWire, statusVars,
          timeVars, historyVars>>

Queue == INSTANCE TxQueue
Port == Queue!Port

ASSUME BxcanTxAssumption ==
    /\ Queue!TxQueueAssumption
    /\ Timeout \in Nat /\ ClockModulo \in Nat /\ Timeout < ClockModulo

Mailbox == 0 .. 2
NoFrame == [port |-> 0, tid |-> 0, nth |-> 0, idx |-> 0]
Never == 2 * ClockModulo

TypeOK ==
    /\ Queue!TypeOK
    /\ step \in {"offer", "read", "first", "search"}
    /\ current_time \in 0 .. ClockModulo - 1 /\ clock \in 0 .. ClockModulo - 1
    /\ tme \subseteq Mailbox
    /\ g_tx_deadline \in [Mailbox -> 0 .. ClockModulo + Timeout \cup {Never}]
    /\ mailbox \in [Mailbox -> Queue!Frame \cup {NoFrame}]
    /\ pending \subseteq Mailbox /\ abrq \subseteq pending
    /\ onWire \subseteq pending /\ Cardinality(onWire) <= 1
    /\ lec \in BOOLEAN /\ boff \in BOOLEAN
    /\ age \in [Mailbox -> 0 .. Timeout + 1]
    /\ bus \in [Port -> Seq(Queue!Frame)]
    /\ aborted \subseteq Queue!Frame

Init ==
    /\ Queue!Init
    /\ step = "offer" /\ current_time = 0 /\ tme = {}
    /\ g_tx_deadline = [m \in Mailbox |-> 0]
    /\ mailbox = [m \in Mailbox |-> NoFrame]
    /\ pending = {} /\ abrq = {} /\ onWire = {}
    /\ lec = FALSE /\ boff = FALSE
    /\ clock = 0 /\ age = [m \in Mailbox |-> 0]
    /\ bus = [p \in Port |-> <<>>] /\ aborted = {}

-----------------------------------------------------------------------------
(* The driver.                                                             *)

(* processErrorStatus: an error seen in bus-off gives up every mailbox.    *)
GivenUp == IF lec /\ boff THEN Mailbox ELSE {}

(* Mutant: nobody looks for expired mailboxes.                             *)
ExpiredNever == {}

(* abortExpiredTxMailboxes, called when some mailbox is pending.           *)
Expired ==
    IF pending = {} THEN {} ELSE {m \in Mailbox : clock > g_tx_deadline[m]}

Abort(mailboxes) ==
    /\ g_tx_deadline' = [m \in Mailbox |->
                            IF m \in mailboxes THEN Never ELSE g_tx_deadline[m]]
    /\ abrq' = abrq \cup (mailboxes \cap pending)

(* bxCANPop, polled by receive(), looks at the error status too.           *)
PollErrorStatus ==
    /\ ~spinning /\ lec
    /\ lec' = FALSE
    /\ Abort(GivenUp)
    /\ UNCHANGED <<queueVars, step, current_time, tme, mailbox, pending, onWire, boff,
                   timeVars, historyVars>>

(* bxCANPush up to its abort requests.  If all mailboxes are free, the     *)
(* first is used and nothing more is read.                                 *)
OfferFrame(p) ==
    /\ step = "offer" /\ spinning /\ Queue!canardTxPeek(p)
    /\ current_time' = clock
    /\ lec' = FALSE
    /\ Abort(GivenUp \cup Expired)
    /\ IF pending = {} THEN step' = "first" /\ tme' = Mailbox
                       ELSE step' = "read" /\ UNCHANGED tme
    /\ UNCHANGED <<queueVars, mailbox, pending, onWire, boff, timeVars, historyVars>>

(* The second reading of TSR, which may find an abort not yet carried out. *)
ReadTme ==
    /\ step = "read" /\ step' = "search"
    /\ tme' = Mailbox \ pending
    /\ UNCHANGED <<queueVars, current_time, g_tx_deadline, mailbox, pending, abrq,
                   onWire, statusVars, timeVars, historyVars>>

(* Mutants: a frame of the same CAN ID is no obstacle; a mailbox outranks  *)
(* the frame though it was seen empty.                                     *)
OutrankedStrictly(p) == \E m \in Mailbox \ tme : p > mailbox[m].port

OutrankedByEmpty(p) == \E m \in Mailbox : p >= mailbox[m].port

(* A mailbox that was seen busy has the priority of the frame or higher;   *)
(* its identifier register still holds the CAN ID if it has been sent      *)
(* since.                                                                  *)
Outranked(p) == \E m \in Mailbox \ tme : p >= mailbox[m].port

(* Mutants: the first mailbox is always taken; the deadline is not noted.  *)
EnqueueFrameFirst(p) ==
    /\ step \in {"first", "search"} /\ Queue!canardTxPeek(p)
    /\ tme # {} /\ ~Outranked(p)
    /\ step' = "offer"
    /\ mailbox' = [mailbox EXCEPT ![0] = Head(txQueue[p])]
    /\ pending' = pending \cup {0}
    /\ g_tx_deadline' = [g_tx_deadline EXCEPT ![0] = current_time + Timeout]
    /\ age' = [age EXCEPT ![0] = 0]
    /\ Queue!TransmitAccepted(p)
    /\ UNCHANGED <<current_time, tme, abrq, onWire, statusVars, clock, historyVars>>

EnqueueFrameUntimed(p) ==
    /\ step \in {"first", "search"} /\ Queue!canardTxPeek(p)
    /\ tme # {} /\ ~Outranked(p)
    /\ step' = "offer"
    /\ LET m == IF step = "first" THEN 0 ELSE Max(tme)
       IN  /\ mailbox' = [mailbox EXCEPT ![m] = Head(txQueue[p])]
           /\ pending' = pending \cup {m}
           /\ age' = [age EXCEPT ![m] = 0]
    /\ Queue!TransmitAccepted(p)
    /\ UNCHANGED <<current_time, tme, g_tx_deadline, abrq, onWire, statusVars, clock,
                   historyVars>>

EnqueueFrame(p) ==
    /\ step \in {"first", "search"} /\ Queue!canardTxPeek(p)
    /\ tme # {} /\ ~Outranked(p)
    /\ step' = "offer"
    /\ LET m == IF step = "first" THEN 0 ELSE Max(tme)
       IN  /\ mailbox' = [mailbox EXCEPT ![m] = Head(txQueue[p])]
           /\ pending' = pending \cup {m}
           /\ g_tx_deadline' = [g_tx_deadline EXCEPT ![m] = current_time + Timeout]
           /\ age' = [age EXCEPT ![m] = 0]
    /\ Queue!TransmitAccepted(p)
    /\ UNCHANGED <<current_time, tme, abrq, onWire, statusVars, clock, historyVars>>

(* Mutant: the refused frame is popped.                                    *)
RejectFramePopping(p) ==
    /\ step \in {"first", "search"} /\ Queue!canardTxPeek(p)
    /\ tme = {} \/ Outranked(p)
    /\ step' = "offer" /\ spinning' = FALSE
    /\ txQueue' = [txQueue EXCEPT ![p] = Tail(@)]
    /\ queueSize' = queueSize - 1 /\ heapFree' = heapFree + 1
    /\ UNCHANGED <<rxHeld, transfer_id, pushed, sent, current_time, tme, g_tx_deadline,
                   mailbox, pending, abrq, onWire, statusVars, timeVars, historyVars>>

RejectFrame(p) ==
    /\ step \in {"first", "search"} /\ Queue!canardTxPeek(p)
    /\ tme = {} \/ Outranked(p)
    /\ step' = "offer"
    /\ Queue!TransmitRejected(p)
    /\ UNCHANGED <<current_time, tme, g_tx_deadline, mailbox, pending, abrq, onWire,
                   statusVars, timeVars, historyVars>>

Untouched == UNCHANGED <<driverVars, mailbox, pending, abrq, onWire, statusVars,
                         timeVars, historyVars>>

Publish(p) == Queue!Publish(p) /\ Untouched

SpinTransmit == Queue!SpinTransmit /\ Untouched

QueueEmpty == Queue!QueueEmpty /\ Untouched

-----------------------------------------------------------------------------
(* The controller and the bus.                                             *)

(* Internal arbitration: the pending mailbox with the smallest CAN ID.     *)
BusStart ==
    /\ onWire = {} /\ ~boff
    /\ \E m \in pending \ abrq :
          /\ \A k \in pending \ abrq : mailbox[m].port <= mailbox[k].port
          /\ onWire' = {m}
    /\ UNCHANGED <<queueVars, driverVars, mailbox, pending, abrq, statusVars,
                   timeVars, historyVars>>

BusSent ==
    /\ \E m \in onWire : bus' = [bus EXCEPT ![mailbox[m].port] = Append(@, mailbox[m])]
    /\ pending' = pending \ onWire /\ abrq' = abrq \ onWire
    /\ onWire' = {}
    /\ UNCHANGED <<queueVars, driverVars, mailbox, statusVars, timeVars, aborted>>

(* Arbitration is lost, or an error frame is seen and its code latched.    *)
BusNotSent ==
    /\ onWire # {} /\ onWire' = {}
    /\ lec' \in {lec, TRUE}
    /\ UNCHANGED <<queueVars, driverVars, mailbox, pending, abrq, boff, timeVars, historyVars>>

CarryOutAbort ==
    /\ \E m \in abrq \ onWire :
          /\ pending' = pending \ {m} /\ abrq' = abrq \ {m}
          /\ aborted' = aborted \cup {mailbox[m]}
    /\ UNCHANGED <<queueVars, driverVars, mailbox, onWire, statusVars, timeVars, bus>>

EnterBusOff ==
    /\ ~boff /\ boff' = TRUE /\ lec' = TRUE /\ onWire' = {}
    /\ UNCHANGED <<queueVars, driverVars, mailbox, pending, abrq, timeVars, historyVars>>

LeaveBusOff ==
    /\ boff /\ boff' = FALSE
    /\ UNCHANGED <<queueVars, driverVars, mailbox, pending, abrq, onWire, lec,
                   timeVars, historyVars>>

(* A call of bxCANPush takes a few microseconds: no tick falls inside it.  *)
Tick ==
    /\ step = "offer"
    /\ clock' = (clock + 1) % ClockModulo
    /\ age' = [m \in Mailbox |-> IF m \in pending /\ age[m] <= Timeout
                                    THEN age[m] + 1 ELSE age[m]]
    /\ UNCHANGED <<queueVars, driverVars, mailbox, pending, abrq, onWire, statusVars,
                   historyVars>>

Driver ==
    \/ ReadTme \/ SpinTransmit \/ QueueEmpty
    \/ \E p \in Port : OfferFrame(p) \/ EnqueueFrame(p) \/ RejectFrame(p)

Environment == BusNotSent \/ EnterBusOff \/ \E p \in Subject : Publish(p)

Controller == BusStart \/ BusSent \/ CarryOutAbort \/ LeaveBusOff

(***************************************************************************)
(* The firmware calls process() forever.  A bus that is used by others and *)
(* disturbed now and then still lets this node start frames and complete   *)
(* them again and again, and ABOM brings it back from bus-off.             *)
(***************************************************************************)
Fairness ==
    /\ WF_vars(Driver)
    /\ WF_vars(CarryOutAbort) /\ WF_vars(LeaveBusOff)
    /\ SF_vars(BusStart) /\ SF_vars(BusSent)

NextBut(tick) == Driver \/ PollErrorStatus \/ Environment \/ Controller \/ tick

(* The clock as the driver computes it.  No frame is left unattended for   *)
(* more than one tick after its deadline, so nothing here is the effect of *)
(* a main loop that stalls.                                                *)
PromptTick == (\A m \in pending : age[m] <= Timeout) /\ Tick

Spec == Init /\ [][NextBut(PromptTick)]_vars /\ Fairness

(* Time stops before the clock starts again from zero.                     *)
EarlyTick == clock + 1 + Timeout < ClockModulo /\ Tick

EarlySpec == Init /\ [][NextBut(EarlyTick)]_vars /\ Fairness

-----------------------------------------------------------------------------
(***************************************************************************)
(* Frames of one CAN ID are seen on the bus in the order they were queued  *)
(* and never twice, although three mailboxes compete, a frame is retried   *)
(* after an error, and aborts race with transmissions: two frames of one   *)
(* CAN ID are never in the mailboxes together.                             *)
(***************************************************************************)
Later(f, g) == f.nth > g.nth \/ (f.nth = g.nth /\ f.idx > g.idx)

BusKeepsOrder ==
    \A p \in Port : \A i \in 2 .. Len(bus[p]) : Later(bus[p][i], bus[p][i - 1])

(***************************************************************************)
(* Every frame that left the queue is on the bus, in a mailbox, or has     *)
(* been aborted: no mailbox is written while its frame is still pending.   *)
(***************************************************************************)
NoFrameVanishes ==
    \A p \in Port :
        Range(sent[p]) \subseteq
            Range(bus[p]) \cup aborted \cup {mailbox[m] : m \in pending}

(***************************************************************************)
(* A receiver that misses a frame of a multi-frame transfer, and sees a    *)
(* later one, misses it because the controller was told to give it up:     *)
(* refusals of a mailbox, retries and bus-off leave no other hole.         *)
(***************************************************************************)
HolesAreAborted ==
    \A p \in Port : \A f \in Range(bus[p]) : \A i \in 1 .. f.idx - 1 :
        [f EXCEPT !.idx = i] \in Range(bus[p]) \cup aborted

(***************************************************************************)
(* Only a frame that has waited longer than its deadline is aborted, or    *)
(* one that bus-off keeps from being sent: the deadline table never holds  *)
(* the deadline of an earlier frame of the mailbox.                        *)
(***************************************************************************)
NoEarlyAbort ==
    [][\A m \in abrq' \ abrq : age[m] > Timeout \/ boff]_vars

(***************************************************************************)
(* "If such mailboxes are found they are aborted" (bxcan.h:115-118): when  *)
(* the driver looks for a free mailbox, none is left with a frame that has *)
(* been pending for longer than its deadline allows.                       *)
(***************************************************************************)
StaleFramesAreAborted ==
    [][step = "offer" /\ step' # "offer" =>
          \A m \in pending \ abrq' : age[m] <= Timeout]_vars

(* Nothing published is left behind in the queue or in a mailbox.          *)
Drained == pending = {} /\ \A p \in Port : txQueue[p] = <<>>

(***************************************************************************)
(* Transmission never wedges: whatever errors, lost arbitrations, aborts   *)
(* and bus-off periods it meets, a node that stops publishing gets all of  *)
(* its frames out of the queue and the mailboxes.                          *)
(***************************************************************************)
EventuallyDrained == <>[]Drained
=============================================================================
