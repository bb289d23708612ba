----------------------------- MODULE RxSession -----------------------------
(***************************************************************************)
(* Reassembly of the transfers of one port: what Cyphal::spinReceivedFrame *)
(* and canardRxAccept do with the frames of a CAN ID, which arrive in      *)
(* order but may be lost or repeated, and what canardRxSubscribe does when *)
(* another subscriber takes the port over.  Every sender has a session of  *)
(* its own; sessions and payload buffers are allocated from the heap that  *)
(* the TX queue shares.                                                    *)
(*                                                                         *)
(* A chunk, the payload of a frame, is the pair of its transfer's number   *)
(* and its index.  The transfer CRC is taken to be perfect.  There is one  *)
(* interface, so same_transport always holds.  Time is counted in ticks;   *)
(* the timestamp of a frame is the tick in which process() was called.     *)
(***************************************************************************)
EXTENDS Integers, Sequences, FiniteSets, SequencesExt

CONSTANTS Node,           \* senders
          Frames,         \* number of frames of the sender's nth transfer
          Extents,        \* chunks that a subscription may keep; 0: no payload
          HeapBlocks,     \* heap fragments
          TidModulo,      \* CANARD_TRANSFER_ID_MAX + 1: 32
          TidTimeout,     \* CANARD_DEFAULT_TRANSFER_ID_TIMEOUT_USEC
          ClockModulo,    \* the timestamp is a uint32_t of microseconds
          MaxClock,       \* bound on time
          NoSession, NoTransfer

VARIABLES
    clock,      \* time since the start
    sender,     \* sender[n]: the frame it sends next, and its transfer-ID
    again,      \* again[n]: the frame that the bus may yet repeat
    extent,     \* of the current subscription
    session,    \* subscription->sessions
    heapFree,   \* free heap fragments
    othersHold, \* fragments held by the TX queue
    handed,     \* the transfer the callback is processing
    delivered,  \* history: the transfers handed over since the port was subscribed
    heard       \* history of what arrived from each sender, see Arrival

vars == <<clock, sender, again, extent, session, heapFree, othersHold, handed, delivered, heard>>

Transfers == DOMAIN Frames
Chunk == Transfers \X Nat
Frame == [nth : Transfers, idx : Nat, tid : 0 .. TidModulo - 1]

Start(f) == f.idx = 1
End(f) == f.idx = Frames[f.nth]
Toggle(f) == f.idx % 2 = 1

(* buf is the size of the payload buffer, 0 for none.                      *)
Session == [tid : 0 .. TidModulo - 1, toggle : BOOLEAN, chunks : Seq(Chunk),
            buf : Nat, ts : 0 .. ClockModulo - 1]

(* Transfers without a source are not told apart.                          *)
Anonymous == 0

Transfer == [nth : Transfers \cup {Anonymous}, tid : 0 .. TidModulo - 1, extent : Extents, payload : Seq(Chunk)]

ASSUME RxSessionAssumption ==
    /\ IsFiniteSet(Node) /\ Frames \in Seq(Nat \ {0})
    /\ Extents \subseteq Nat /\ Extents # {} /\ HeapBlocks \in Nat /\ MaxClock \in Nat
    /\ TidModulo \in Nat \ {0, 1} /\ TidTimeout \in Nat
    /\ ClockModulo \in Nat \ {0}
    /\ NoSession \notin Session /\ NoTransfer \notin Transfer /\ NoTransfer \notin Frame

TypeOK ==
    /\ clock \in 0 .. MaxClock
    /\ sender \in [Node -> [nth : 1 .. Len(Frames) + 1, idx : Nat, tid : 0 .. TidModulo - 1]]
    /\ again \in [Node -> Frame \cup {NoTransfer}]
    /\ extent \in Extents
    /\ session \in [Node -> Session \cup {NoSession}]
    /\ heapFree \in 0 .. HeapBlocks /\ othersHold \in 0 .. HeapBlocks
    /\ handed \in Transfer \cup {NoTransfer}
    /\ delivered \in [Node -> Seq(Transfer)]

Unheard == [nth |-> -TidModulo, at |-> 0, run |-> 0, intact |-> 0]

Init ==
    /\ clock = 0
    /\ sender = [n \in Node |-> [nth |-> 1, idx |-> 1, tid |-> 0]]
    /\ again = [n \in Node |-> NoTransfer]
    /\ extent \in Extents
    /\ session = [n \in Node |-> NoSession]
    /\ heapFree = HeapBlocks /\ othersHold = 0
    /\ handed = NoTransfer
    /\ delivered = [n \in Node |-> <<>>]
    /\ heard = [n \in Node |-> Unheard]

-----------------------------------------------------------------------------
(* libcanard                                                               *)

Timestamp == clock % ClockModulo

rxComputeTransferIDDifference(a, b) == (a - b) % TidModulo

NewSession(f) ==
    [tid |-> f.tid, toggle |-> TRUE, chunks |-> <<>>, buf |-> 0, ts |-> Timestamp]

TidTimedOut(s) == Timestamp > s.ts /\ Timestamp - s.ts > TidTimeout

(* Mutant: a new transfer-ID and the timeout are both required.            *)
rxSessionSynchronizeOnBoth(s, f) ==
    IF /\ Start(f)
       /\ rxComputeTransferIDDifference(s.tid, f.tid) > 1 /\ TidTimedOut(s)
    THEN [s EXCEPT !.tid = f.tid, !.toggle = TRUE, !.chunks = <<>>]
    ELSE s

(* The buffer is kept for the new transfer.                                *)
rxSessionSynchronize(s, f) ==
    IF /\ Start(f)
       /\ rxComputeTransferIDDifference(s.tid, f.tid) > 1 \/ TidTimedOut(s)
    THEN [s EXCEPT !.tid = f.tid, !.toggle = TRUE, !.chunks = <<>>]
    ELSE s

Expected(s, f) ==
    /\ Toggle(f) = s.toggle
    /\ f.tid = s.tid
    /\ Start(f) <=> s.chunks = <<>>

(* Mutant: the transfer-ID is not advanced.                                *)
rxSessionRestartSameTid(s) ==
    [s EXCEPT !.toggle = TRUE, !.chunks = <<>>, !.buf = 0]

(* The buffer is freed; a delivered payload has left the session before.   *)
rxSessionRestart(s) ==
    [s EXCEPT !.tid = (@ + 1) % TidModulo, !.toggle = TRUE, !.chunks = <<>>, !.buf = 0]

CrcResidue(chunks) ==
    LET nth == chunks[1][1]
    IN  chunks = [i \in 1 .. Frames[nth] |-> <<nth, i>>]

Least(a, b) == IF a < b THEN a ELSE b

(* The payload, cut to the extent (the CRC at its end is not modelled).    *)
TransferOf(chunks, f) ==
    [nth |-> f.nth, tid |-> f.tid, extent |-> extent,
     payload |-> SubSeq(chunks, 1, Least(extent, Len(chunks)))]

(* Mutant: every frame allocates.                                          *)
NeedsBufferAlways(s) == extent > 0

(* Buffers are allocated with the first frame.                             *)
NeedsBuffer(s) == s.buf = 0 /\ extent > 0

(* free is what the heap has left after a session was created.             *)
rxSessionAcceptFrame(n, s, f, free) ==
    LET timed == IF Start(f) THEN [s EXCEPT !.ts = Timestamp] ELSE s
        chunks == Append(s.chunks, <<f.nth, f.idx>>)
        written == [timed EXCEPT !.chunks = chunks,
                                   !.buf = IF NeedsBuffer(s) THEN extent ELSE @]
        left == free - (IF NeedsBuffer(s) THEN 1 ELSE 0)
    IN  \/ /\ NeedsBuffer(s) /\ free = 0  \* Out of memory
           /\ session' = [session EXCEPT ![n] = rxSessionRestart(timed)]
           /\ heapFree' = free
           /\ UNCHANGED <<handed, delivered>>
        \/ /\ ~(NeedsBuffer(s) /\ free = 0) /\ ~End(f)
           /\ session' = [session EXCEPT ![n] = [written EXCEPT !.toggle = ~@]]
           /\ heapFree' = left
           /\ UNCHANGED <<handed, delivered>>
        \/ /\ ~(NeedsBuffer(s) /\ free = 0) /\ End(f)
           /\ session' = [session EXCEPT ![n] = rxSessionRestart(written)]
           /\ IF Start(f) \/ CrcResidue(chunks)
                THEN /\ handed' = TransferOf(chunks, f)
                     /\ delivered' = [delivered EXCEPT ![n] = Append(@, handed')]
                     /\ heapFree' = left
                ELSE /\ heapFree' = left + (IF written.buf > 0 THEN 1 ELSE 0)
                     /\ UNCHANGED <<handed, delivered>>

rxSessionUpdate(n, old, f, free) ==
    LET s == rxSessionSynchronize(old, f)
    IN  IF Expected(s, f)
          THEN rxSessionAcceptFrame(n, s, f, free)
          ELSE /\ session' = [session EXCEPT ![n] = s]
               /\ heapFree' = free
               /\ UNCHANGED <<handed, delivered>>

canardRxAccept(n, f) ==
    CASE session[n] # NoSession -> rxSessionUpdate(n, session[n], f, heapFree)
      [] session[n] = NoSession /\ Start(f) /\ heapFree > 0 ->
            rxSessionUpdate(n, NewSession(f), f, heapFree - 1)
      [] OTHER -> UNCHANGED <<session, heapFree, handed, delivered>>

(* The fragments that the sessions hold.                                   *)
SessionBlocks ==
    LET Live == {n \in Node : session[n] # NoSession}
    IN  Cardinality(Live) + Cardinality({n \in Live : session[n].buf > 0})

(* rxAcceptFrame without a source: no session, a buffer for the one frame. *)
(* A payload of no bytes cannot be allocated, which is taken for a failure *)
(* of the heap, and the transfer is dropped.                               *)
AcceptAnonymous ==
    /\ extent > 0 /\ heapFree > 0
    /\ heapFree' = heapFree - 1
    /\ handed' = [nth |-> Anonymous, tid |-> 0, extent |-> extent, payload |-> <<>>]

(* Mutant: the sessions of the old subscription are taken over.            *)
canardRxSubscribeKeeping(e) ==
    /\ extent' = e
    /\ UNCHANGED <<session, heapFree>>

(* Subscribing to a port that has a subscription terminates that one, and  *)
(* frees its sessions with their buffers.                                  *)
canardRxSubscribe(e) ==
    /\ extent' = e
    /\ session' = [n \in Node |-> NoSession]
    /\ heapFree' = heapFree + SessionBlocks

-----------------------------------------------------------------------------
(* The bus and the sender                                                  *)

NextFrame(n) == [nth |-> sender[n].nth, idx |-> sender[n].idx, tid |-> sender[n].tid]

Sending(n) == handed = NoTransfer /\ sender[n].nth \in Transfers

Advanced(s) ==
    IF s.idx = Frames[s.nth]
      THEN [nth |-> s.nth + 1, idx |-> 1, tid |-> (s.tid + 1) % TidModulo]
      ELSE [s EXCEPT !.idx = @ + 1]

Advance(n) == sender' = [sender EXCEPT ![n] = Advanced(sender[n])]

(***************************************************************************)
(* heard[n].nth is the last transfer whose first frame the session took,   *)
(* and .at the time; .run counts the frames of the current transfer, when  *)
(* none was lost so far; .intact is the last transfer that arrived with    *)
(* all its frames, found memory, and could be told from an old one: fewer  *)
(* than TidModulo - 2 transfers were missed before it, or the transfer-ID  *)
(* timeout had expired.                                                    *)
(***************************************************************************)
Took(n, f) == Start(f) /\ session'[n] # session[n]

Taken(n, f, h) == IF Took(n, f) THEN [h EXCEPT !.nth = f.nth, !.at = clock] ELSE h

Known(n, f) ==
    \/ f.nth - heard[n].nth < TidModulo - 1
    \/ clock - heard[n].at > TidTimeout
    \/ session[n] = NoSession

EnoughMemory(n) ==
    heapFree >= (IF session[n] = NoSession THEN 1 ELSE 0) + (IF extent > 0 THEN 1 ELSE 0)

Counted(n, f) ==
    CASE Start(f) /\ Known(n, f) /\ EnoughMemory(n) -> 1
      [] ~Start(f) /\ heard[n].run > 0              -> f.idx
      [] OTHER                                      -> 0

Arrival(n, f) ==
    [heard[n] EXCEPT !.run = Counted(n, f),
                     !.intact = IF End(f) /\ Counted(n, f) > 0 THEN f.nth ELSE @]

Arrive(n) ==
    /\ Sending(n)
    /\ canardRxAccept(n, NextFrame(n))
    /\ heard' = [heard EXCEPT ![n] = Taken(n, NextFrame(n), Arrival(n, NextFrame(n)))]
    /\ again' = [again EXCEPT ![n] = NextFrame(n)]
    /\ Advance(n)
    /\ UNCHANGED <<clock, extent, othersHold>>

(* CAN may deliver the last frame twice, and at once.                      *)
ArriveAgain(n) ==
    /\ handed = NoTransfer /\ again[n] # NoTransfer
    /\ canardRxAccept(n, again[n])
    /\ heard' = [heard EXCEPT ![n] = Taken(n, again[n], @)]
    /\ again' = [again EXCEPT ![n] = NoTransfer]
    /\ UNCHANGED <<clock, sender, extent, othersHold>>

ArriveAnonymous ==
    /\ handed = NoTransfer
    /\ AcceptAnonymous
    /\ UNCHANGED <<clock, sender, again, extent, session, othersHold, delivered, heard>>

Lose(n) ==
    /\ Sending(n)
    /\ heard' = [heard EXCEPT ![n].run = 0]
    /\ again' = [again EXCEPT ![n] = NoTransfer]
    /\ Advance(n)
    /\ UNCHANGED <<clock, extent, session, heapFree, othersHold, handed, delivered>>

(* The sender restarts: it gives up a transfer and counts from zero again. *)
SenderRestart(n) ==
    /\ sender[n].nth \in Transfers /\ sender[n].tid # 0
    /\ sender' = [sender EXCEPT ![n] =
            [nth |-> IF @.idx = 1 THEN @.nth ELSE @.nth + 1, idx |-> 1, tid |-> 0]]
    /\ heard' = [heard EXCEPT ![n].nth = -TidModulo]
    /\ again' = [again EXCEPT ![n] = NoTransfer]
    /\ UNCHANGED <<clock, extent, session, heapFree, othersHold, handed, delivered>>

(* The port is subscribed once more, between two frames or by a callback.  *)
Subscribe ==
    /\ \E e \in Extents : canardRxSubscribe(e)
    /\ delivered' = [n \in Node |-> <<>>]
    /\ heard' = [n \in Node |-> Unheard]
    /\ again' = [n \in Node |-> NoTransfer]
    /\ UNCHANGED <<clock, sender, othersHold, handed>>

(* The callback returns and spinReceivedFrame frees the payload.           *)
Release ==
    /\ handed # NoTransfer
    /\ heapFree' = heapFree + (IF handed.extent > 0 THEN 1 ELSE 0)
    /\ handed' = NoTransfer
    /\ UNCHANGED <<clock, sender, again, extent, session, othersHold, delivered, heard>>

OthersTake ==
    /\ heapFree > 0
    /\ heapFree' = heapFree - 1 /\ othersHold' = othersHold + 1
    /\ UNCHANGED <<clock, sender, again, extent, session, handed, delivered, heard>>

OthersGive ==
    /\ othersHold > 0
    /\ heapFree' = heapFree + 1 /\ othersHold' = othersHold - 1
    /\ UNCHANGED <<clock, sender, again, extent, session, handed, delivered, heard>>

(* A repetition never comes a tick later.                                  *)
Tick ==
    /\ clock < MaxClock /\ handed = NoTransfer
    /\ clock' = clock + 1
    /\ again' = [n \in Node |-> NoTransfer]
    /\ UNCHANGED <<sender, extent, session, heapFree, othersHold, handed, delivered, heard>>

Next ==
    \/ \E n \in Node : Arrive(n) \/ ArriveAgain(n) \/ Lose(n) \/ SenderRestart(n)
    \/ ArriveAnonymous \/ Subscribe \/ Release \/ OthersTake \/ OthersGive \/ Tick

Spec == Init /\ [][Next]_vars

(* The first turn of the microsecond clock, 71 minutes.                    *)
EarlySpec == Init /\ [][Next /\ clock' < ClockModulo]_vars

-----------------------------------------------------------------------------
(***************************************************************************)
(* No fragment of the heap is lost or freed twice, whether a transfer      *)
(* completes, fails its CRC, is abandoned for a newer one or runs out of   *)
(* memory at its first frame.                                              *)
(***************************************************************************)
HeapIsConserved ==
    LET Handed == IF handed = NoTransfer THEN 0 ELSE Least(handed.extent, 1)
    IN  heapFree + othersHold + Handed + SessionBlocks = HeapBlocks

(***************************************************************************)
(* The application sees transfers that were sent, whole up to the extent,  *)
(* in the order they were sent and none twice, whatever was lost, repeated *)
(* or cut short by a restart of the sender, and across the wrap of the     *)
(* transfer-ID.                                                            *)
(***************************************************************************)
DeliveredWhole ==
    \A n \in Node : \A i \in DOMAIN delivered[n] :
        LET t == delivered[n][i]
        IN  /\ i > 1 => delivered[n][i - 1].nth < t.nth
            /\ t.payload = [k \in 1 .. Least(t.extent, Frames[t.nth]) |-> <<t.nth, k>>]

(***************************************************************************)
(* What a session has copied lies within its buffer, though the buffer was *)
(* allocated for the extent of its time and the copying goes by the extent *)
(* of now: the reason that canardRxSubscribe gives for clearing the old    *)
(* subscription first.                                                     *)
(***************************************************************************)
NoOverrun ==
    \A n \in Node : session[n] # NoSession =>
        Least(Len(session[n].chunks), extent) <= session[n].buf

(***************************************************************************)
(* A transfer is not dropped for what was lost before it: one that arrives *)
(* with all its frames, finds memory and cannot be taken for an old one is *)
(* delivered with its last frame.                                          *)
(***************************************************************************)
IntactIsDelivered ==
    \A n \in Node : heard[n].intact # 0 =>
        delivered[n] # <<>> /\ Last(delivered[n]).nth >= heard[n].intact

(***************************************************************************)
(* The comment of rxSessionSynchronize: with one interface, a start of     *)
(* transfer that comes after the transfer-ID timeout restarts the session, *)
(* so the transfer is taken whatever its transfer-ID.                      *)
(***************************************************************************)
TimeoutReadmits ==
    [][\A n \in Node :
          /\ Arrive(n) /\ Start(NextFrame(n))
          /\ session[n] # NoSession /\ clock - heard[n].at > TidTimeout
          => session'[n] # session[n]]_vars
=============================================================================
