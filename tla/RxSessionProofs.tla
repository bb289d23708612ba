-------------------------- MODULE RxSessionProofs --------------------------
(***************************************************************************)
(* For every set of senders, every length of their transfers, every heap   *)
(* and every transfer-ID modulus: sessions neither lose memory nor write   *)
(* beyond it, and transfers come out whole, in order and once.             *)
(***************************************************************************)
EXTENDS RxSession, FiniteSetTheorems, SequenceTheorems, TLAPS

Sender == [nth : 1 .. Len(Frames) + 1, idx : Nat, tid : 0 .. TidModulo - 1]

(* The parts of TypeOK that a step needs; the bounds of the heap follow    *)
(* from its conservation.                                                  *)
TypesInv ==
    /\ clock \in 0 .. MaxClock
    /\ sender \in [Node -> Sender]
    /\ again \in [Node -> Frame \cup {NoTransfer}]
    /\ extent \in Extents
    /\ session \in [Node -> Session \cup {NoSession}]
    /\ heapFree \in Nat /\ othersHold \in Nat
    /\ handed \in Transfer \cup {NoTransfer}
    /\ delivered \in [Node -> Seq(Transfer)]

(* A buffer has the size of the current extent, and there is one as soon   *)
(* as something was copied.                                                *)
BufferInv ==
    \A n \in Node : session[n] # NoSession =>
        /\ session[n].buf = 0 \/ session[n].buf = extent
        /\ session[n].chunks # <<>> => session[n].buf = extent

MemoryInv == TypesInv /\ BufferInv /\ HeapIsConserved

-----------------------------------------------------------------------------
Before(n, nth) == \A i \in DOMAIN delivered[n] : delivered[n][i].nth < nth

(* A frame that has ended its transfer cannot do so again.                 *)
Done(n, f) ==
    /\ session[n] # NoSession
    /\ session[n].chunks = <<>>
    /\ session[n].tid = (f.tid + 1) % TidModulo
    /\ Start(f) => session[n].ts = Timestamp

(* What the bus may repeat is the frame before the sender's next one.      *)
RepeatAt(n) ==
    again[n] # NoTransfer =>
        LET f == again[n]
        IN  /\ End(f) => sender[n] = [nth |-> f.nth + 1, idx |-> 1, tid |-> (f.tid + 1) % TidModulo]
            /\ ~End(f) => sender[n] = [nth |-> f.nth, idx |-> f.idx + 1, tid |-> f.tid]

OrderAt(n) ==
    /\ Before(n, sender[n].nth)
    /\ again[n] # NoTransfer => Before(n, again[n].nth) \/ Done(n, again[n])

OrderInv == DeliveredWhole /\ \A n \in Node : RepeatAt(n) /\ OrderAt(n)

-----------------------------------------------------------------------------
(* The session remembers when it took the first frame of its transfer.     *)
Heard == [nth : Int, at : Nat, run : Nat, intact : Nat]

TimeAt(n) == session[n] # NoSession => session[n].ts = heard[n].at /\ heard[n].at <= clock

TimeInv ==
    /\ clock < ClockModulo
    /\ heard \in [Node -> Heard]
    /\ \A n \in Node : TimeAt(n)

-----------------------------------------------------------------------------
NextTid(tid) == (tid + 1) % TidModulo

(* The transfer-ID that sender s gave, or will give, to its kth transfer.  *)
TidOf(s, k) == (s.tid - (s.nth - k)) % TidModulo

(* A session is at the transfer it took last, or expects the next one.     *)
TidAt(n) ==
    heard[n].nth # -TidModulo =>
        /\ heard[n].nth \in 1 .. sender[n].nth
        /\ heard[n].nth = sender[n].nth => sender[n].idx > 1
        /\ session[n] # NoSession =>
             session[n].tid = IF session[n].chunks = <<>> THEN NextTid(TidOf(sender[n], heard[n].nth))
                              ELSE TidOf(sender[n], heard[n].nth)

ToggleAt(n) ==
    session[n] # NoSession => (session[n].toggle <=> Len(session[n].chunks) % 2 = 0)

(* The first i frames of a transfer.                                       *)
Prefix(nth, i) == [k \in 1 .. i |-> <<nth, k>>]

(* While no frame of a transfer is missing, the session holds them all.    *)
InSync(n) ==
    LET s == sender[n]
    IN  /\ session[n] # NoSession
        /\ session[n].tid = s.tid
        /\ session[n].chunks = Prefix(s.nth, s.idx - 1)
        /\ again[n] # NoTransfer /\ s.idx = 2 => session[n].ts = Timestamp

RunAt(n) ==
    /\ sender[n].idx > 0
    /\ again[n] # NoTransfer => again[n].idx > 0
    /\ heard[n].run > 0 /\ sender[n].idx > 1 => heard[n].run = sender[n].idx - 1 /\ InSync(n)

IntactAt(n) ==
    heard[n].intact # 0 => delivered[n] # <<>> /\ Last(delivered[n]).nth >= heard[n].intact

ReceivedAt(n) == TidAt(n) /\ ToggleAt(n) /\ RunAt(n) /\ IntactAt(n)

IntactInv == \A n \in Node : ReceivedAt(n)

-----------------------------------------------------------------------------
(* What canardRxAccept does with a frame, with the records written out.    *)

SessionOf(tid, toggle, chunks, buf, ts) ==
    [tid |-> tid, toggle |-> toggle, chunks |-> chunks, buf |-> buf, ts |-> ts]

Resync(s, f) ==
    Start(f) /\ (rxComputeTransferIDDifference(s.tid, f.tid) > 1 \/ TidTimedOut(s))

IsRecord(s) == s = SessionOf(s.tid, s.toggle, s.chunks, s.buf, s.ts)

(* What the updates of a session make, field by field.                     *)
LEMMA RestartRecord ==
    ASSUME NEW x, IsRecord(x)
    PROVE  rxSessionRestart(x) = SessionOf(NextTid(x.tid), TRUE, <<>>, 0, x.ts)
<1> DEFINE t == NextTid(x.tid)
<1> HIDE DEF t
<1>1. PICK x1 : x1 = [x EXCEPT !.tid = t]
  BY Zenon
<1>2. x1 = SessionOf(t, x.toggle, x.chunks, x.buf, x.ts)
  BY <1>1 DEF IsRecord, SessionOf
<1>3. PICK x2 : x2 = [x1 EXCEPT !.toggle = TRUE]
  BY Zenon
<1>4. x2 = SessionOf(t, TRUE, x.chunks, x.buf, x.ts)
  BY <1>2, <1>3 DEF SessionOf
<1>5. PICK x3 : x3 = [x2 EXCEPT !.chunks = <<>>]
  BY Zenon
<1>6. x3 = SessionOf(t, TRUE, <<>>, x.buf, x.ts)
  BY <1>4, <1>5 DEF SessionOf
<1>7. PICK x4 : x4 = [x3 EXCEPT !.buf = 0]
  BY Zenon
<1>8. x4 = SessionOf(t, TRUE, <<>>, 0, x.ts)
  BY <1>6, <1>7 DEF SessionOf
<1>9. rxSessionRestart(x) = x4
  BY <1>1, <1>3, <1>5, <1>7, Zenon DEF rxSessionRestart, NextTid, t
<1> QED BY <1>8, <1>9, Zenon DEF t

LEMMA SynchronizeRecord ==
    ASSUME NEW x, IsRecord(x), NEW f
    PROVE  rxSessionSynchronize(x, f) =
              IF Resync(x, f) THEN SessionOf(f.tid, TRUE, <<>>, x.buf, x.ts) ELSE x
<1> DEFINE t == f.tid
<1> HIDE DEF t
<1>1. PICK x1 : x1 = [x EXCEPT !.tid = t]
  BY Zenon
<1>2. x1 = SessionOf(t, x.toggle, x.chunks, x.buf, x.ts)
  BY <1>1 DEF IsRecord, SessionOf
<1>3. PICK x2 : x2 = [x1 EXCEPT !.toggle = TRUE]
  BY Zenon
<1>4. x2 = SessionOf(t, TRUE, x.chunks, x.buf, x.ts)
  BY <1>2, <1>3 DEF SessionOf
<1>5. PICK x3 : x3 = [x2 EXCEPT !.chunks = <<>>]
  BY Zenon
<1>6. x3 = SessionOf(t, TRUE, <<>>, x.buf, x.ts)
  BY <1>4, <1>5 DEF SessionOf
<1>7. rxSessionSynchronize(x, f) = IF Resync(x, f) THEN x3 ELSE x
  BY <1>1, <1>3, <1>5, Zenon DEF rxSessionSynchronize, Resync, t
<1> QED BY <1>6, <1>7, Zenon DEF t

LEMMA Types ==
    /\ Frames \in Seq(Nat \ {0}) /\ Transfers = 1 .. Len(Frames) /\ Len(Frames) \in Nat
    /\ TidModulo \in Nat /\ TidModulo > 1 /\ ClockModulo \in Nat /\ ClockModulo > 0
    /\ TidTimeout \in Nat /\ HeapBlocks \in Nat /\ MaxClock \in Nat
    /\ \A e \in Extents : e \in Nat
    /\ NoSession \notin Session /\ NoTransfer \notin Transfer /\ NoTransfer \notin Frame
BY RxSessionAssumption DEF Transfers

LEMMA FrameTypes ==
    ASSUME NEW f \in Frame
    PROVE  /\ f.nth \in Nat /\ f.nth > 0 /\ f.nth \in 1 .. Len(Frames) /\ f.idx \in Nat
           /\ f.tid \in Nat /\ f.tid < TidModulo
           /\ Frames[f.nth] \in Nat /\ Frames[f.nth] > 0
           /\ <<f.nth, f.idx>> \in Chunk
<1>1. f.nth \in Transfers /\ f.idx \in Nat /\ f.tid \in 0 .. TidModulo - 1
  BY DEF Frame
<1>2. Frames[f.nth] \in Nat \ {0}
  BY <1>1, Types
<1> QED BY <1>1, <1>2, Types DEF Chunk

LEMMA SessionTypes ==
    ASSUME NEW s \in Session
    PROVE  /\ s.tid \in Nat /\ s.tid < TidModulo /\ s.toggle \in BOOLEAN
           /\ s.chunks \in Seq(Chunk) /\ s.buf \in Nat /\ s.ts \in Nat
           /\ IsRecord(s)
BY Types DEF Session, SessionOf, IsRecord

LEMMA ClockTypes ==
    ASSUME TypesInv
    PROVE  clock \in Nat /\ Timestamp \in 0 .. ClockModulo - 1
<1>1. clock \in Nat
  BY Types DEF TypesInv
<1>2. clock % ClockModulo \in 0 .. ClockModulo - 1
  BY <1>1, Types
<1> QED BY <1>1, <1>2 DEF Timestamp

(* Remainders within one turn on either side.                              *)
LEMMA OneTurn ==
    ASSUME NEW m \in Nat, m > 1, NEW x \in Int
    PROVE  /\ x >= 0 /\ x < m => x % m = x
           /\ x >= m /\ x < 2 * m => x % m = x - m
           /\ x < 0 /\ x >= -m => x % m = x + m
<1>1. x >= 0 /\ x < m => x % m = x
  BY SMTT(30)
<1>2. x >= m /\ x < 2 * m => x % m = x - m
  BY SMTT(30)
<1>3. x < 0 /\ x >= -m => x % m = x + m
  BY SMTT(30)
<1> QED BY <1>1, <1>2, <1>3

LEMMA Quotient ==
    ASSUME NEW m \in Nat, m > 1, NEW a \in Int
    PROVE  a = m * (a \div m) + (a % m) /\ a \div m \in Int /\ a % m \in 0 .. m - 1
BY SMTT(60)

LEMMA Remainder ==
    ASSUME NEW m \in Nat, m > 1, NEW q \in Int, NEW r \in 0 .. m - 1
    PROVE  (m * q + r) % m = r
BY SMTT(60)

LEMMA Periodic ==
    ASSUME NEW m \in Nat, m > 1, NEW x \in Int, NEW q \in Int
    PROVE  (x + m * q) % m = x % m
<1> PICK d : d = x \div m
  OBVIOUS
<1> PICK r : r = x % m
  OBVIOUS
<1>1. x = m * d + r /\ d \in Int /\ r \in 0 .. m - 1
  BY Quotient
<1>2. x + m * q = m * (d + q) + r /\ d + q \in Int
  BY <1>1
<1>3. (m * (d + q) + r) % m = r
  BY <1>1, <1>2, Remainder
<1> QED BY <1>2, <1>3

LEMMA Shift ==
    ASSUME NEW m \in Nat, m > 1, NEW a \in Int, NEW k \in Int
    PROVE  ((a % m) + k) % m = (a + k) % m
<1> PICK d : d = a \div m
  OBVIOUS
<1> PICK r : r = a % m
  OBVIOUS
<1>1. a = m * d + r /\ d \in Int /\ r \in 0 .. m - 1
  BY Quotient
<1>2. a + k = (r + k) + m * d /\ r + k \in Int
  BY <1>1
<1>3. ((r + k) + m * d) % m = (r + k) % m
  BY <1>1, <1>2, Periodic
<1> QED BY <1>2, <1>3

LEMMA Parity ==
    ASSUME NEW k \in Nat
    PROVE  (k + 1) % 2 = 0 <=> ~(k % 2 = 0)
OBVIOUS

LEMMA Successor ==
    ASSUME NEW m \in Nat, m > 1, NEW a \in Nat, a < m
    PROVE  /\ (a + 1) % m \in Nat /\ (a + 1) % m # a
           /\ (((a + 1) % m) - a) % m = 1
<1>1. CASE a + 1 < m
  <2>1. (a + 1) % m = a + 1
    BY <1>1, OneTurn
  <2>2. 1 % m = 1
    BY OneTurn
  <2>3. (a + 1) - a = 1
    OBVIOUS
  <2> QED BY <2>1, <2>2, <2>3
<1>2. CASE a + 1 = m
  <2>1. (a + 1) % m = 0
    BY <1>2, OneTurn
  <2>2. -a < 0 /\ -a >= -m /\ -a + m = 1 /\ -a \in Int /\ 0 - a = -a
    BY <1>2
  <2>3. (-a) % m = -a + m
    BY <2>2, OneTurn
  <2> QED BY <1>2, <2>1, <2>2, <2>3
<1> QED BY <1>1, <1>2

LEMMA NextTidApart ==
    ASSUME NEW a \in Nat, a < TidModulo
    PROVE  /\ NextTid(a) \in Nat /\ NextTid(a) # a
           /\ rxComputeTransferIDDifference(NextTid(a), a) = 1
BY Types, Successor DEF NextTid, rxComputeTransferIDDifference

LEMMA NextTidType ==
    ASSUME NEW tid \in Nat
    PROVE  NextTid(tid) \in 0 .. TidModulo - 1
BY Types, SMT DEF NextTid

Synced(s, f) ==
    IF Resync(s, f) THEN SessionOf(f.tid, TRUE, <<>>, s.buf, s.ts)
    ELSE s

Old(n, f) == IF session[n] = NoSession THEN NewSession(f) ELSE session[n]

Left(n) == IF session[n] = NoSession THEN heapFree - 1 ELSE heapFree

Becomes(n, x) == session' = [session EXCEPT ![n] = x]

Need(s) == IF NeedsBuffer(s) THEN 1 ELSE 0

Buffer(s) == IF NeedsBuffer(s) THEN extent ELSE s.buf

StartTime(s, f) == IF Start(f) THEN Timestamp ELSE s.ts

Restarted(s, f) ==
    SessionOf(NextTid(s.tid), TRUE, <<>>, 0, StartTime(s, f))

Continued(s, f) ==
    SessionOf(s.tid, ~s.toggle, Append(s.chunks, <<f.nth, f.idx>>), Buffer(s), StartTime(s, f))

(* The ways that a frame may go; s is the session when it is tried.        *)
Ignored(n, f) ==
    /\ session[n] = NoSession /\ ~(Start(f) /\ heapFree > 0)
    /\ UNCHANGED <<session, heapFree, handed, delivered>>

Rejected(n, f, s) ==
    /\ ~Expected(s, f) /\ Becomes(n, s) /\ heapFree' = Left(n)
    /\ UNCHANGED <<handed, delivered>>

Starved(n, f, s) ==
    /\ Expected(s, f) /\ NeedsBuffer(s) /\ Left(n) = 0
    /\ Becomes(n, Restarted(s, f)) /\ heapFree' = Left(n)
    /\ UNCHANGED <<handed, delivered>>

Copied(n, f, s) ==
    /\ Expected(s, f) /\ ~(NeedsBuffer(s) /\ Left(n) = 0) /\ ~End(f)
    /\ Becomes(n, Continued(s, f)) /\ heapFree' = Left(n) - Need(s)
    /\ UNCHANGED <<handed, delivered>>

Completed(n, f, s) ==
    LET chunks == Append(s.chunks, <<f.nth, f.idx>>)
    IN  /\ Expected(s, f) /\ ~(NeedsBuffer(s) /\ Left(n) = 0) /\ End(f)
        /\ Start(f) \/ CrcResidue(chunks)
        /\ Becomes(n, Restarted(s, f)) /\ heapFree' = Left(n) - Need(s)
        /\ handed' = TransferOf(chunks, f)
        /\ delivered' = [delivered EXCEPT ![n] = Append(@, handed')]

Dropped(n, f, s) ==
    /\ Expected(s, f) /\ ~(NeedsBuffer(s) /\ Left(n) = 0) /\ End(f)
    /\ ~(Start(f) \/ CrcResidue(Append(s.chunks, <<f.nth, f.idx>>)))
    /\ Becomes(n, Restarted(s, f))
    /\ heapFree' = Left(n) - Need(s) + (IF Buffer(s) > 0 THEN 1 ELSE 0)
    /\ UNCHANGED <<handed, delivered>>

Tried(n, f, s) ==
    /\ session[n] = NoSession => Start(f) /\ heapFree > 0
    /\ s \in Session /\ s = Synced(Old(n, f), f) /\ Old(n, f) \in Session
    /\ \/ Rejected(n, f, s) \/ Starved(n, f, s) \/ Copied(n, f, s)
       \/ Completed(n, f, s) \/ Dropped(n, f, s)

LEMMA OldType ==
    ASSUME TypesInv, NEW n \in Node, NEW f \in Frame
    PROVE  Old(n, f) \in Session
<1>1. NewSession(f) \in Session
  BY FrameTypes, ClockTypes, Types DEF NewSession, Session, Frame
<1>2. session[n] \in Session \cup {NoSession}
  BY DEF TypesInv
<1> QED BY <1>1, <1>2 DEF Old

LEMMA SyncedType ==
    ASSUME NEW s \in Session, NEW f \in Frame
    PROVE  /\ Synced(s, f) \in Session
           /\ rxSessionSynchronize(s, f) = Synced(s, f)
<1>2. rxSessionSynchronize(s, f) = Synced(s, f)
  BY SessionTypes, SynchronizeRecord, Zenon DEF Synced
<1>3. f.tid \in 0 .. TidModulo - 1 /\ <<>> \in Seq(Chunk)
  BY DEF Frame
<1>4. SessionOf(f.tid, TRUE, <<>>, s.buf, s.ts) \in Session
  BY <1>3 DEF Session, SessionOf
<1>5. Synced(s, f) \in Session
  BY <1>4, Zenon DEF Synced
<1> QED BY <1>2, <1>5

LEMMA AcceptedRecords ==
    ASSUME NEW s \in Session, NEW f \in Frame, TypesInv
    PROVE  LET timed == IF Start(f) THEN [s EXCEPT !.ts = Timestamp] ELSE s
               chunks == Append(s.chunks, <<f.nth, f.idx>>)
               written == [timed EXCEPT !.chunks = chunks,
                                        !.buf = IF NeedsBuffer(s) THEN extent ELSE @]
           IN  /\ rxSessionRestart(timed) = Restarted(s, f)
               /\ rxSessionRestart(written) = Restarted(s, f)
               /\ [written EXCEPT !.toggle = ~@] = Continued(s, f)
               /\ written.buf = Buffer(s)
<1> DEFINE timed == IF Start(f) THEN [s EXCEPT !.ts = Timestamp] ELSE s
           chunks == Append(s.chunks, <<f.nth, f.idx>>)
           timedIs == SessionOf(s.tid, s.toggle, s.chunks, s.buf, StartTime(s, f))
           written == [timed EXCEPT !.chunks = chunks,
                                    !.buf = IF NeedsBuffer(s) THEN extent ELSE @]
           writtenIs == SessionOf(s.tid, s.toggle, chunks, Buffer(s), StartTime(s, f))
<1>1. timed = timedIs
  <2>1. [s EXCEPT !.ts = Timestamp] = SessionOf(s.tid, s.toggle, s.chunks, s.buf, Timestamp)
    BY DEF Session, SessionOf
  <2> QED BY <2>1, SessionTypes, Zenon DEF StartTime, IsRecord
<1> HIDE DEF timed, chunks
<1>2. written = writtenIs
  <2>1. PICK x1 : x1 = [timed EXCEPT !.chunks = chunks]
    BY Zenon
  <2>2. x1 = SessionOf(s.tid, s.toggle, chunks, s.buf, StartTime(s, f))
    BY <1>1, <2>1 DEF SessionOf
  <2>3. PICK x2 : x2 = [x1 EXCEPT !.buf = Buffer(s)]
    BY Zenon
  <2>4. x2 = SessionOf(s.tid, s.toggle, chunks, Buffer(s), StartTime(s, f))
    BY <2>2, <2>3 DEF SessionOf
  <2>5. timed.buf = s.buf
    BY <1>1 DEF SessionOf
  <2>6. written = x2
    BY <2>1, <2>3, <2>5, Zenon DEF Buffer
  <2> QED BY <2>4, <2>6, Zenon
<1> HIDE DEF written
<1>3. rxSessionRestart(timed) = Restarted(s, f)
  <2>1. IsRecord(timed) /\ timed.tid = s.tid /\ timed.ts = StartTime(s, f)
    BY <1>1 DEF SessionOf, IsRecord
  <2> QED BY <2>1, RestartRecord, Zenon DEF Restarted
<1>4. rxSessionRestart(written) = Restarted(s, f)
  <2>1. IsRecord(written) /\ written.tid = s.tid /\ written.ts = StartTime(s, f)
    BY <1>2 DEF SessionOf, IsRecord
  <2> QED BY <2>1, RestartRecord, Zenon DEF Restarted
<1>5. [written EXCEPT !.toggle = ~@] = Continued(s, f)
  <2>1. written.toggle = s.toggle
    BY <1>2 DEF SessionOf
  <2>2. PICK b : b = ~written.toggle
    BY Zenon
  <2>3. PICK x : x = [written EXCEPT !.toggle = b]
    BY Zenon
  <2>4. x = SessionOf(s.tid, b, chunks, Buffer(s), StartTime(s, f))
    BY <1>2, <2>3 DEF SessionOf
  <2>5. b = ~s.toggle
    BY <2>1, <2>2, Zenon
  <2> QED BY <2>2, <2>3, <2>4, <2>5, Zenon DEF Continued, chunks
<1>6. written.buf = Buffer(s)
  BY <1>2 DEF SessionOf
<1> QED BY <1>3, <1>4, <1>5, <1>6, Zenon DEF timed, chunks, written

LEMMA StepsOfAccept ==
    ASSUME TypesInv, NEW n \in Node, NEW f \in Frame, canardRxAccept(n, f)
    PROVE  Ignored(n, f) \/ \E s \in Session : Tried(n, f, s)
<1> DEFINE old == Old(n, f)
           s == Synced(old, f)
<1>1. old \in Session /\ s \in Session /\ rxSessionSynchronize(old, f) = s
  BY OldType, SyncedType
<1>2. CASE session[n] = NoSession /\ ~(Start(f) /\ heapFree > 0)
  BY <1>2, Zenon DEF canardRxAccept, Ignored
<1>3. CASE session[n] = NoSession => Start(f) /\ heapFree > 0
  <2>1. rxSessionUpdate(n, old, f, Left(n))
    <3>1. CASE session[n] = NoSession
      BY <1>3, <3>1, Zenon DEF canardRxAccept, Old, Left
    <3>2. CASE session[n] # NoSession
      BY <3>2, Zenon DEF canardRxAccept, Old, Left
    <3> QED BY <3>1, <3>2
  <2> HIDE DEF old
  <2>2. IF Expected(s, f) THEN rxSessionAcceptFrame(n, s, f, Left(n))
        ELSE Becomes(n, s) /\ heapFree' = Left(n) /\ UNCHANGED <<handed, delivered>>
    BY <1>1, <2>1, Zenon DEF rxSessionUpdate, Becomes
  <2> HIDE DEF s
  <2>3. CASE ~Expected(s, f)
    <3>1. Rejected(n, f, s)
      BY <2>2, <2>3, Zenon DEF Rejected
    <3> QED BY <1>1, <1>3, <3>1, Zenon DEF Tried, s, old
  <2>4. ASSUME Expected(s, f)
        PROVE  \/ Starved(n, f, s) \/ Copied(n, f, s) \/ Completed(n, f, s) \/ Dropped(n, f, s)
    <3>1. rxSessionAcceptFrame(n, s, f, Left(n))
      BY <2>2, <2>4
    <3> DEFINE timed == IF Start(f) THEN [s EXCEPT !.ts = Timestamp] ELSE s
               chunks == Append(s.chunks, <<f.nth, f.idx>>)
               written == [timed EXCEPT !.chunks = chunks,
                                        !.buf = IF NeedsBuffer(s) THEN extent ELSE @]
    <3>2. /\ rxSessionRestart(timed) = Restarted(s, f)
          /\ rxSessionRestart(written) = Restarted(s, f)
          /\ [written EXCEPT !.toggle = ~@] = Continued(s, f)
          /\ written.buf = Buffer(s)
      BY <1>1, AcceptedRecords, Zenon
    <3>3. (IF NeedsBuffer(s) THEN 1 ELSE 0) = Need(s)
      BY DEF Need
    <3>4. \/ /\ NeedsBuffer(s) /\ Left(n) = 0
             /\ session' = [session EXCEPT ![n] = rxSessionRestart(timed)]
             /\ heapFree' = Left(n)
             /\ UNCHANGED <<handed, delivered>>
          \/ /\ ~(NeedsBuffer(s) /\ Left(n) = 0) /\ ~End(f)
             /\ session' = [session EXCEPT ![n] = [written EXCEPT !.toggle = ~@]]
             /\ heapFree' = Left(n) - Need(s)
             /\ UNCHANGED <<handed, delivered>>
          \/ /\ ~(NeedsBuffer(s) /\ Left(n) = 0) /\ End(f)
             /\ session' = [session EXCEPT ![n] = rxSessionRestart(written)]
             /\ IF Start(f) \/ CrcResidue(chunks)
                  THEN /\ handed' = TransferOf(chunks, f)
                       /\ delivered' = [delivered EXCEPT ![n] = Append(@, handed')]
                       /\ heapFree' = Left(n) - Need(s)
                  ELSE /\ heapFree' = Left(n) - Need(s) + (IF written.buf > 0 THEN 1 ELSE 0)
                       /\ UNCHANGED <<handed, delivered>>
      BY <3>1, Zenon DEF rxSessionAcceptFrame, Need
    <3> HIDE DEF timed, written
    <3> QED BY <2>4, <3>2, <3>4, Zenon DEF Starved, Copied, Completed, Dropped, Becomes
  <2> QED BY <1>1, <1>3, <2>3, <2>4, Zenon DEF Tried, s, old
<1> QED BY <1>2, <1>3, Zenon

-----------------------------------------------------------------------------
(* Types, buffers and the heap.                                            *)

LEMMA SyncedBuffer ==
    ASSUME TypesInv, BufferInv, NEW n \in Node, NEW f \in Frame, NEW s \in Session, Tried(n, f, s)
    PROVE  /\ s.buf = 0 \/ s.buf = extent
           /\ s.chunks # <<>> => s.buf = extent
           /\ session[n] = NoSession => s.buf = 0
           /\ session[n] # NoSession => s.buf = session[n].buf
           /\ extent \in Nat /\ Left(n) \in Nat
           /\ ~(NeedsBuffer(s) /\ Left(n) = 0) => Left(n) - Need(s) \in Nat
<1>1. extent \in Nat /\ heapFree \in Nat
  BY Types DEF TypesInv
<1>2. s = Synced(Old(n, f), f) /\ (session[n] = NoSession => heapFree > 0)
  BY Zenon DEF Tried
<1>3. CASE session[n] = NoSession
  <2>1. Old(n, f).buf = 0 /\ Old(n, f).chunks = <<>>
    BY <1>3 DEF Old, NewSession
  <2>2. s.buf = 0 /\ s.chunks = <<>>
    BY <1>2, <2>1 DEF Synced, SessionOf
  <2>3. Left(n) \in Nat /\ (~(NeedsBuffer(s) /\ Left(n) = 0) => Left(n) - Need(s) \in Nat)
    BY <1>1, <1>2, <1>3 DEF Left, Need
  <2> QED BY <1>1, <1>3, <2>2, <2>3
<1>4. CASE session[n] # NoSession
  <2>1. Old(n, f) = session[n]
    BY <1>4 DEF Old
  <2>2. s.buf = session[n].buf /\ (s.chunks = <<>> \/ s.chunks = session[n].chunks)
    BY <1>2, <2>1 DEF Synced, SessionOf
  <2>3. /\ session[n].buf = 0 \/ session[n].buf = extent
        /\ session[n].chunks # <<>> => session[n].buf = extent
    BY <1>4 DEF BufferInv
  <2>4. Left(n) \in Nat /\ (~(NeedsBuffer(s) /\ Left(n) = 0) => Left(n) - Need(s) \in Nat)
    BY <1>1, <1>4 DEF Left, Need
  <2> QED BY <1>1, <1>4, <2>2, <2>3, <2>4
<1> QED BY <1>3, <1>4

LEMMA NewSessionTypes ==
    ASSUME TypesInv, NEW f \in Frame, NEW s \in Session
    PROVE  Restarted(s, f) \in Session /\ Continued(s, f) \in Session
<1>1. /\ s.tid \in 0 .. TidModulo - 1 /\ s.toggle \in BOOLEAN /\ s.chunks \in Seq(Chunk)
      /\ s.buf \in Nat /\ s.ts \in 0 .. ClockModulo - 1
  BY DEF Session
<1>2. StartTime(s, f) \in 0 .. ClockModulo - 1
  BY <1>1, ClockTypes, Zenon DEF StartTime
<1>3. NextTid(s.tid) \in 0 .. TidModulo - 1
  BY SessionTypes, NextTidType
<1>4. Buffer(s) \in Nat
  BY <1>1, Types, Zenon DEF Buffer, TypesInv
<1>5. Append(s.chunks, <<f.nth, f.idx>>) \in Seq(Chunk) /\ <<>> \in Seq(Chunk)
  BY <1>1, FrameTypes, AppendProperties
<1>6. Restarted(s, f) \in Session
  BY <1>2, <1>3, <1>5 DEF Restarted, SessionOf, Session
<1>7. (~s.toggle) \in BOOLEAN
  BY <1>1
<1> HIDE DEF Buffer
<1>8. Continued(s, f) \in Session
  BY <1>1, <1>2, <1>4, <1>5, <1>7, Zenon DEF Continued, SessionOf, Session
<1> QED BY <1>6, <1>8

LEMMA TransferType ==
    ASSUME TypesInv, NEW f \in Frame, NEW chunks \in Seq(Chunk)
    PROVE  /\ TransferOf(chunks, f) \in Transfer
           /\ TransferOf(chunks, f).extent = extent
<1>1. Least(extent, Len(chunks)) \in Nat /\ Least(extent, Len(chunks)) <= Len(chunks)
  BY Types DEF Least, TypesInv
<1>2. SubSeq(chunks, 1, Least(extent, Len(chunks))) \in Seq(Chunk)
  BY <1>1, SubSeqProperties
<1>3. f.nth \in Transfers /\ f.tid \in 0 .. TidModulo - 1 /\ extent \in Extents
  BY DEF Frame, TypesInv
<1> QED BY <1>2, <1>3 DEF TransferOf, Transfer

LEMMA AcceptTypes ==
    ASSUME TypesInv, BufferInv, NEW n \in Node, NEW f \in Frame, canardRxAccept(n, f)
    PROVE  /\ session' \in [Node -> Session \cup {NoSession}]
           /\ heapFree' \in Nat
           /\ handed' \in Transfer \cup {NoTransfer}
           /\ delivered' \in [Node -> Seq(Transfer)]
<1>1. /\ session \in [Node -> Session \cup {NoSession}] /\ heapFree \in Nat
      /\ handed \in Transfer \cup {NoTransfer} /\ delivered \in [Node -> Seq(Transfer)]
  BY DEF TypesInv
<1>2. CASE Ignored(n, f)
  BY <1>1, <1>2 DEF Ignored
<1>3. ASSUME NEW s \in Session, Tried(n, f, s)
      PROVE  /\ session' \in [Node -> Session \cup {NoSession}]
             /\ heapFree' \in Nat
             /\ handed' \in Transfer \cup {NoTransfer}
             /\ delivered' \in [Node -> Seq(Transfer)]
  <2>1. \A x \in Session : Becomes(n, x) => session' \in [Node -> Session \cup {NoSession}]
    BY <1>1 DEF Becomes
  <2>2. Restarted(s, f) \in Session /\ Continued(s, f) \in Session
    BY NewSessionTypes
  <2>3. Left(n) \in Nat /\ (~(NeedsBuffer(s) /\ Left(n) = 0) => Left(n) - Need(s) \in Nat)
    BY <1>3, SyncedBuffer
  <2>4. CASE Rejected(n, f, s)
    BY <1>1, <2>1, <2>3, <2>4 DEF Rejected
  <2>5. CASE Starved(n, f, s)
    BY <1>1, <2>1, <2>2, <2>3, <2>5 DEF Starved
  <2>6. CASE Copied(n, f, s)
    BY <1>1, <2>1, <2>2, <2>3, <2>6 DEF Copied
  <2>7. CASE Completed(n, f, s)
    <3> DEFINE chunks == Append(s.chunks, <<f.nth, f.idx>>)
    <3>1. chunks \in Seq(Chunk)
      BY FrameTypes, SessionTypes, AppendProperties
    <3>2. TransferOf(chunks, f) \in Transfer
      BY <3>1, TransferType
    <3> HIDE DEF chunks
    <3>3. /\ Becomes(n, Restarted(s, f)) /\ heapFree' = Left(n) - Need(s)
          /\ ~(NeedsBuffer(s) /\ Left(n) = 0)
          /\ handed' = TransferOf(chunks, f)
          /\ delivered' = [delivered EXCEPT ![n] = Append(@, handed')]
      BY <2>7, Zenon DEF Completed, chunks
    <3>4. Append(delivered[n], handed') \in Seq(Transfer)
      BY <1>1, <3>2, <3>3, AppendProperties
    <3> QED BY <1>1, <2>1, <2>2, <2>3, <3>2, <3>3, <3>4
  <2>8. CASE Dropped(n, f, s)
    BY <1>1, <2>1, <2>2, <2>3, <2>8 DEF Dropped
  <2> QED BY <1>3, <2>4, <2>5, <2>6, <2>7, <2>8, Zenon DEF Tried
<1> QED BY <1>2, <1>3, StepsOfAccept

-----------------------------------------------------------------------------
(* Counting the fragments.                                                 *)

Live == {n \in Node : session[n] # NoSession}

Full == {n \in Node : session[n] # NoSession /\ session[n].buf > 0}

Cost(s) == IF s = NoSession THEN 0 ELSE IF s.buf > 0 THEN 2 ELSE 1

HandCost == IF handed = NoTransfer THEN 0 ELSE IF handed.extent > 0 THEN 1 ELSE 0

One(b) == IF b THEN 1 ELSE 0

LEMMA CountOne ==
    ASSUME NEW S, NEW T, NEW e, IsFiniteSet(S), S \ {e} = T \ {e}
    PROVE  /\ IsFiniteSet(T) /\ Cardinality(S) \in Nat /\ Cardinality(T) \in Nat
           /\ Cardinality(T) = Cardinality(S) - One(e \in S) + One(e \in T)
<1> DEFINE R == S \ {e}
<1>1. IsFiniteSet(R) /\ Cardinality(R) \in Nat /\ Cardinality(S) \in Nat
      /\ Cardinality(R) = Cardinality(S) - One(e \in S)
  <2>1. CASE e \in S
    BY <2>1, FS_RemoveElement, FS_CardinalityType DEF One
  <2>2. CASE e \notin S
    <3>1. R = S
      BY <2>2
    <3> HIDE DEF R
    <3> QED BY <2>2, <3>1, FS_CardinalityType DEF One
  <2> QED BY <2>1, <2>2
<1>2. CASE e \in T
  <2>1. T = R \cup {e} /\ e \notin R
    BY <1>2
  <2> HIDE DEF R
  <2>2. IsFiniteSet(T) /\ Cardinality(T) = Cardinality(R) + 1
    BY <1>1, <2>1, FS_AddElement
  <2> QED BY <1>1, <1>2, <2>2 DEF One
<1>3. CASE e \notin T
  <2>1. T = R
    BY <1>3
  <2> HIDE DEF R
  <2> QED BY <1>1, <1>3, <2>1 DEF One
<1> QED BY <1>2, <1>3

LEMMA BlocksAreCounted ==
    /\ IsFiniteSet(Live) /\ IsFiniteSet(Full)
    /\ Cardinality(Live) \in Nat /\ Cardinality(Full) \in Nat
    /\ SessionBlocks = Cardinality(Live) + Cardinality(Full)
<1>1. IsFiniteSet(Live) /\ IsFiniteSet(Full)
  BY RxSessionAssumption, FS_Subset DEF Live, Full
<1>2. Full = {n \in Live : session[n].buf > 0}
  BY DEF Live, Full
<1> QED BY <1>1, <1>2, FS_CardinalityType DEF SessionBlocks, Live

(* The updates change one session.                                         *)
LEMMA BlocksOfUpdate ==
    ASSUME TypesInv, NEW n \in Node, NEW x \in Session, Becomes(n, x)
    PROVE  /\ SessionBlocks \in Nat
           /\ SessionBlocks' = SessionBlocks - Cost(session[n]) + Cost(x)
<1>1. session'[n] = x /\ \A m \in Node : m # n => session'[m] = session[m]
  BY DEF Becomes, TypesInv
<1>2. Live \ {n} = Live' \ {n} /\ Full \ {n} = Full' \ {n}
  BY <1>1 DEF Live, Full
<1>3. /\ IsFiniteSet(Live) /\ IsFiniteSet(Full)
      /\ SessionBlocks = Cardinality(Live) + Cardinality(Full)
  BY BlocksAreCounted
<1>4. SessionBlocks' = Cardinality(Live') + Cardinality(Full')
  <2>1. IsFiniteSet(Live')
    BY <1>2, <1>3, CountOne
  <2>2. Full' = {m \in Live' : session'[m].buf > 0}
    BY DEF Live, Full
  <2> QED BY <2>2 DEF SessionBlocks, Live
<1>5. /\ Cardinality(Live) \in Nat /\ Cardinality(Live') \in Nat
      /\ Cardinality(Live') = Cardinality(Live) - One(n \in Live) + One(n \in Live')
      /\ Cardinality(Full) \in Nat /\ Cardinality(Full') \in Nat
      /\ Cardinality(Full') = Cardinality(Full) - One(n \in Full) + One(n \in Full')
  BY <1>2, <1>3, CountOne
<1>6. x # NoSession
  BY Types
<1>7. One(n \in Live) + One(n \in Full) = Cost(session[n])
  BY DEF One, Cost, Live, Full
<1>8. One(n \in Live') + One(n \in Full') = Cost(x)
  BY <1>1, <1>6 DEF One, Cost, Live, Full
<1>9. /\ One(n \in Live) \in Nat /\ One(n \in Full) \in Nat
      /\ One(n \in Live') \in Nat /\ One(n \in Full') \in Nat
  BY DEF One
<1> HIDE DEF Live, Full
<1> QED BY <1>3, <1>4, <1>5, <1>7, <1>8, <1>9

(* A frame moves fragments between the heap, its session and the callback. *)
LEMMA AcceptConserves ==
    ASSUME TypesInv, BufferInv, NEW n \in Node, NEW f \in Frame, canardRxAccept(n, f),
           handed = NoTransfer
    PROVE  /\ SessionBlocks \in Nat
           /\ heapFree' + HandCost' + SessionBlocks' = heapFree + SessionBlocks
<1>1. heapFree \in Nat /\ SessionBlocks \in Nat /\ HandCost = 0 /\ extent \in Nat
  BY BlocksAreCounted, Types DEF TypesInv, HandCost
<1>2. CASE Ignored(n, f)
  <2>1. SessionBlocks' = SessionBlocks /\ HandCost' = HandCost /\ heapFree' = heapFree
    BY <1>2 DEF Ignored, SessionBlocks, HandCost
  <2> QED BY <1>1, <2>1
<1>3. ASSUME NEW s \in Session, Tried(n, f, s)
      PROVE  heapFree' + HandCost' + SessionBlocks' = heapFree + SessionBlocks
  <2>1. /\ s.buf = 0 \/ s.buf = extent
        /\ session[n] = NoSession => s.buf = 0
        /\ session[n] # NoSession => s.buf = session[n].buf
        /\ Left(n) \in Nat
        /\ ~(NeedsBuffer(s) /\ Left(n) = 0) => Left(n) - Need(s) \in Nat
    BY <1>3, SyncedBuffer
  <2>2. Restarted(s, f) \in Session /\ Continued(s, f) \in Session
    BY NewSessionTypes
  <2>3. s # NoSession /\ Restarted(s, f) # NoSession /\ Continued(s, f) # NoSession
    BY <2>2, Types
  <2>4. Cost(Restarted(s, f)) = 1 /\ Cost(Continued(s, f)) = IF Buffer(s) > 0 THEN 2 ELSE 1
    BY <2>3 DEF Cost, Restarted, Continued, SessionOf
  <2>5. Left(n) + Cost(s) = heapFree + Cost(session[n]) /\ Cost(s) \in Nat /\ Cost(session[n]) \in Nat
    BY <1>1, <2>1, <2>3 DEF Left, Cost
  <2>6. Cost(s) + Need(s) = IF Buffer(s) > 0 THEN 2 ELSE 1
    BY <1>1, <2>1, <2>3 DEF Cost, Need, NeedsBuffer, Buffer
  <2>7. Buffer(s) > 0 <=> extent > 0
    BY <1>1, <2>1 DEF NeedsBuffer, Buffer
  <2>8. Need(s) \in Nat /\ HandCost = 0
    BY <1>1 DEF Need
  <2>9. \A x \in Session : Becomes(n, x) => SessionBlocks' = SessionBlocks - Cost(session[n]) + Cost(x)
    BY BlocksOfUpdate
  <2>10. handed' = handed => HandCost' = 0
    BY DEF HandCost
  <2> DEFINE l == Left(n)
             c == Cost(session[n])
             full == IF Buffer(s) > 0 THEN 1 ELSE 0
  <2>0. /\ l \in Nat /\ c \in Nat /\ Cost(s) \in Nat /\ Need(s) \in Nat /\ full \in Nat
        /\ heapFree \in Nat /\ SessionBlocks \in Nat
        /\ l + Cost(s) = heapFree + c /\ Cost(s) + Need(s) = 1 + full
    BY <1>1, <2>1, <2>5, <2>6, <2>8
  <2> SUFFICES heapFree' + HandCost' + SessionBlocks' = l + Cost(s) - c + SessionBlocks
    BY <2>0
  <2> HIDE DEF l, c, full
  <2>11. CASE Rejected(n, f, s)
    <3>1. SessionBlocks' = SessionBlocks - c + Cost(s) /\ HandCost' = 0 /\ heapFree' = l
      BY <2>9, <2>10, <2>11 DEF Rejected, l, c
    <3> QED BY <2>0, <3>1
  <2>12. CASE Starved(n, f, s)
    <3>1. SessionBlocks' = SessionBlocks - c + 1 /\ HandCost' = 0 /\ heapFree' = l
      BY <2>2, <2>4, <2>9, <2>10, <2>12 DEF Starved, l, c
    <3>2. Cost(s) = 1
      BY <2>3, <2>12 DEF Starved, NeedsBuffer, Cost
    <3> QED BY <2>0, <3>1, <3>2
  <2>13. CASE Copied(n, f, s)
    <3>1. SessionBlocks' = SessionBlocks - c + (1 + full) /\ HandCost' = 0 /\ heapFree' = l - Need(s)
      BY <2>2, <2>4, <2>9, <2>10, <2>13 DEF Copied, l, c, full
    <3> QED BY <2>0, <3>1
  <2>14. CASE Completed(n, f, s)
    <3>1. /\ Becomes(n, Restarted(s, f)) /\ heapFree' = l - Need(s)
          /\ handed' = TransferOf(Append(s.chunks, <<f.nth, f.idx>>), f)
      BY <2>14, Zenon DEF Completed, l
    <3>2. handed' \in Transfer /\ handed'.extent = extent
      <4>1. Append(s.chunks, <<f.nth, f.idx>>) \in Seq(Chunk)
        BY FrameTypes, SessionTypes, AppendProperties
      <4> QED BY <3>1, <4>1, TransferType
    <3>3. HandCost' = full
      BY <2>7, <3>2, Types DEF HandCost, full
    <3>4. SessionBlocks' = SessionBlocks - c + 1
      BY <2>2, <2>4, <2>9, <3>1 DEF c
    <3>5. heapFree' = l - Need(s)
      BY <3>1
    <3> QED BY <2>0, <3>3, <3>4, <3>5
  <2>15. CASE Dropped(n, f, s)
    <3>1. SessionBlocks' = SessionBlocks - c + 1 /\ HandCost' = 0 /\ heapFree' = l - Need(s) + full
      BY <2>2, <2>4, <2>9, <2>10, <2>15 DEF Dropped, l, c, full
    <3>2. Cost(s) = 1 + full - Need(s)
      BY <2>0
    <3>3. heapFree' = l + full - Need(s)
      BY <2>0, <3>1
    <3> QED BY <2>0, <3>1, <3>2, <3>3
  <2> QED BY <1>3, <2>11, <2>12, <2>13, <2>14, <2>15, Zenon DEF Tried
<1> QED BY <1>1, <1>2, <1>3, StepsOfAccept

LEMMA AcceptBuffers ==
    ASSUME TypesInv, BufferInv, NEW n \in Node, NEW f \in Frame, canardRxAccept(n, f),
           extent' = extent
    PROVE  BufferInv'
<1>1. CASE Ignored(n, f)
  BY <1>1 DEF Ignored, BufferInv
<1>2. ASSUME NEW s \in Session, Tried(n, f, s), NEW x, Becomes(n, x),
             x = s \/ x = Restarted(s, f) \/ x = Continued(s, f)
      PROVE  BufferInv'
  <2>1. /\ s.buf = 0 \/ s.buf = extent
        /\ s.chunks # <<>> => s.buf = extent
        /\ extent \in Nat
    BY <1>2, SyncedBuffer
  <2>2. /\ x.buf = 0 \/ x.buf = extent
        /\ x.chunks # <<>> => x.buf = extent
    <3>1. CASE x = s
      BY <2>1, <3>1
    <3>2. CASE x = Restarted(s, f)
      BY <3>2 DEF Restarted, SessionOf
    <3>3. CASE x = Continued(s, f)
      <4>1. x.buf = Buffer(s)
        BY <3>3 DEF Continued, SessionOf
      <4>2. Buffer(s) = extent
        BY <2>1 DEF Buffer, NeedsBuffer
      <4> QED BY <4>1, <4>2
    <3> QED BY <1>2, <3>1, <3>2, <3>3
  <2>3. session'[n] = x /\ \A m \in Node : m # n => session'[m] = session[m]
    BY <1>2 DEF Becomes, TypesInv
  <2> QED BY <2>2, <2>3 DEF BufferInv
<1>3. ASSUME NEW s \in Session, Tried(n, f, s) PROVE BufferInv'
  <2>1. Becomes(n, s) \/ Becomes(n, Restarted(s, f)) \/ Becomes(n, Continued(s, f))
    BY <1>3, Zenon DEF Tried, Rejected, Starved, Copied, Completed, Dropped
  <2>2. PICK x : Becomes(n, x) /\ (x = s \/ x = Restarted(s, f) \/ x = Continued(s, f))
    BY <2>1, Zenon
  <2> QED BY <1>2, <1>3, <2>2
<1> QED BY <1>1, <1>3, StepsOfAccept

-----------------------------------------------------------------------------
(* The steps, one by one.                                                  *)

LEMMA AdvanceSteps ==
    ASSUME TypesInv, NEW n \in Node, sender[n].nth \in Transfers, Advance(n)
    PROVE  /\ NextFrame(n) \in Frame
           /\ sender' \in [Node -> Sender]
           /\ \A m \in Node : m # n => sender'[m] = sender[m]
           /\ End(NextFrame(n)) =>
                 sender'[n] = [nth |-> sender[n].nth + 1, idx |-> 1, tid |-> NextTid(sender[n].tid)]
           /\ ~End(NextFrame(n)) =>
                 sender'[n] = [nth |-> sender[n].nth, idx |-> sender[n].idx + 1, tid |-> sender[n].tid]
<1> DEFINE s == sender[n]
<1>1. s \in Sender
  BY DEF TypesInv
<1>2. /\ s.nth \in 1 .. Len(Frames) + 1 /\ s.idx \in Nat /\ s.tid \in 0 .. TidModulo - 1
      /\ s.nth \in Transfers /\ s.tid \in Nat
  BY <1>1, Types DEF Sender
<1>3. NextFrame(n) \in Frame
  BY <1>2 DEF NextFrame, Frame
<1>4. NextTid(s.tid) \in 0 .. TidModulo - 1
  BY <1>2, NextTidType
<1>5. s.nth + 1 \in 1 .. Len(Frames) + 1 /\ s.idx + 1 \in Nat
  BY <1>2, Types
<1> DEFINE x1 == [nth |-> s.nth + 1, idx |-> 1, tid |-> NextTid(s.tid)]
           x2 == [nth |-> s.nth, idx |-> s.idx + 1, tid |-> s.tid]
<1>6. x1 \in Sender /\ x2 \in Sender
  BY <1>2, <1>4, <1>5 DEF Sender
<1>7. [s EXCEPT !.idx = s.idx + 1] = x2
  BY <1>1 DEF Sender
<1>8. End(NextFrame(n)) <=> s.idx = Frames[s.nth]
  BY DEF End, NextFrame
<1> HIDE DEF s
<1>9. Advanced(s) = IF s.idx = Frames[s.nth] THEN x1 ELSE x2
  BY <1>7, Zenon DEF Advanced, NextTid
<1>10. sender' = [sender EXCEPT ![n] = Advanced(s)]
  BY DEF Advance, s
<1> HIDE DEF x1, x2
<1>11. Advanced(s) \in Sender
  BY <1>6, <1>9
<1>12. /\ sender' \in [Node -> Sender] /\ sender'[n] = Advanced(s)
       /\ \A m \in Node : m # n => sender'[m] = sender[m]
  BY <1>10, <1>11 DEF TypesInv
<1> QED BY <1>3, <1>8, <1>9, <1>12, Zenon DEF s, x1, x2

LEMMA HandedFragment ==
    ASSUME NEW h \in Transfer \cup {NoTransfer}
    PROVE  (IF h = NoTransfer THEN 0 ELSE Least(h.extent, 1))
              = IF h = NoTransfer THEN 0 ELSE IF h.extent > 0 THEN 1 ELSE 0
<1>1. CASE h = NoTransfer
  BY <1>1
<1>2. CASE h # NoTransfer
  <2>1. h.extent \in Nat
    BY <1>2, Types DEF Transfer
  <2> QED BY <1>2, <2>1 DEF Least
<1> QED BY <1>1, <1>2

LEMMA ConservedIs ==
    ASSUME handed \in Transfer \cup {NoTransfer}
    PROVE  HeapIsConserved <=> heapFree + othersHold + HandCost + SessionBlocks = HeapBlocks
BY HandedFragment, Zenon DEF HeapIsConserved, HandCost

LEMMA StillConserved ==
    ASSUME MemoryInv, TypesInv',
           heapFree' + othersHold' + HandCost' + SessionBlocks' = heapFree + othersHold + HandCost + SessionBlocks
    PROVE  HeapIsConserved'
<1>1. heapFree + othersHold + HandCost + SessionBlocks = HeapBlocks
  BY ConservedIs DEF MemoryInv, TypesInv
<1>2. handed' \in Transfer \cup {NoTransfer}
  BY DEF TypesInv
<1> QED BY <1>1, <1>2, HandedFragment, Zenon DEF HeapIsConserved, HandCost

LEMMA CostTypes ==
    ASSUME TypesInv
    PROVE  heapFree \in Nat /\ othersHold \in Nat /\ HandCost \in Nat /\ SessionBlocks \in Nat
BY BlocksAreCounted DEF TypesInv, HandCost

LEMMA BlocksType == SessionBlocks \in Nat
BY BlocksAreCounted

LEMMA NextBlocksType == SessionBlocks' \in Nat
<1>1. IsFiniteSet(Live') /\ IsFiniteSet(Full')
  BY RxSessionAssumption, FS_Subset DEF Live, Full
<1>2. Full' = {n \in Live' : session'[n].buf > 0}
  BY DEF Live, Full
<1>3. SessionBlocks' = Cardinality(Live') + Cardinality(Full')
  BY <1>2 DEF SessionBlocks, Live
<1> QED BY <1>1, <1>3, FS_CardinalityType

LEMMA SameSessions ==
    ASSUME session' = session
    PROVE  SessionBlocks' = SessionBlocks
BY DEF SessionBlocks

LEMMA ArriveMemory ==
    ASSUME MemoryInv, NEW n \in Node, Arrive(n)
    PROVE  MemoryInv'
<1> USE DEF MemoryInv
<1>1. /\ handed = NoTransfer /\ sender[n].nth \in Transfers /\ Advance(n)
      /\ canardRxAccept(n, NextFrame(n)) /\ again' = [again EXCEPT ![n] = NextFrame(n)]
      /\ clock' = clock /\ extent' = extent /\ othersHold' = othersHold
  BY Zenon DEF Arrive, Sending
<1>2. NextFrame(n) \in Frame /\ sender' \in [Node -> Sender]
  BY <1>1, AdvanceSteps
<1>3. TypesInv'
  BY <1>1, <1>2, AcceptTypes DEF TypesInv
<1>4. BufferInv'
  BY <1>1, <1>2, AcceptBuffers
<1>5. HeapIsConserved'
  <2>1. heapFree' + HandCost' + SessionBlocks' = heapFree + SessionBlocks
    BY <1>1, <1>2, AcceptConserves
  <2>2. HandCost = 0
    BY <1>1 DEF HandCost
  <2>3. SessionBlocks' \in Nat
    BY NextBlocksType
  <2>4. heapFree \in Nat /\ heapFree' \in Nat /\ othersHold \in Nat /\ HandCost' \in Nat /\ SessionBlocks \in Nat
    BY <1>3, CostTypes DEF TypesInv, HandCost
  <2>5. heapFree' + othersHold' + HandCost' + SessionBlocks' = heapFree + othersHold + HandCost + SessionBlocks
    <3>1. othersHold' = othersHold
      BY <1>1
    <3> HIDE DEF MemoryInv
    <3>2. heapFree' + othersHold + HandCost' + SessionBlocks' = heapFree + othersHold + 0 + SessionBlocks
      <4>1. PICK a, b, c : a = heapFree' /\ b = HandCost' /\ c = SessionBlocks'
        OBVIOUS
      <4>2. PICK d, e, h : d = heapFree /\ e = SessionBlocks /\ h = othersHold
        OBVIOUS
      <4>3. a \in Nat /\ b \in Nat /\ c \in Nat /\ d \in Nat /\ e \in Nat /\ h \in Nat /\ a + b + c = d + e
        BY <2>1, <2>3, <2>4, <4>1, <4>2
      <4>4. a + h + b + c = d + h + 0 + e
        BY <4>3
      <4> QED BY <4>1, <4>2, <4>4
    <3> QED BY <2>2, <3>1, <3>2
  <2> QED BY <2>5, <1>3, StillConserved
<1> QED BY <1>3, <1>4, <1>5

LEMMA ArriveAgainMemory ==
    ASSUME MemoryInv, NEW n \in Node, ArriveAgain(n)
    PROVE  MemoryInv'
<1> USE DEF MemoryInv
<1>1. /\ handed = NoTransfer /\ again[n] # NoTransfer
      /\ canardRxAccept(n, again[n]) /\ again' = [m \in Node |-> IF m = n THEN NoTransfer ELSE again[m]]
      /\ clock' = clock /\ extent' = extent /\ othersHold' = othersHold /\ sender' = sender
  BY DEF ArriveAgain, TypesInv
<1>2. again[n] \in Frame
  BY <1>1 DEF TypesInv
<1>3. TypesInv'
  BY <1>1, <1>2, AcceptTypes DEF TypesInv
<1>4. BufferInv'
  BY <1>1, <1>2, AcceptBuffers
<1>5. HeapIsConserved'
  <2>1. heapFree' + HandCost' + SessionBlocks' = heapFree + SessionBlocks
    BY <1>1, <1>2, AcceptConserves
  <2>2. HandCost = 0
    BY <1>1 DEF HandCost
  <2>3. SessionBlocks' \in Nat
    BY NextBlocksType
  <2>4. heapFree \in Nat /\ heapFree' \in Nat /\ othersHold \in Nat /\ HandCost' \in Nat /\ SessionBlocks \in Nat
    BY <1>3, CostTypes DEF TypesInv, HandCost
  <2>5. heapFree' + othersHold' + HandCost' + SessionBlocks' = heapFree + othersHold + HandCost + SessionBlocks
    <3>1. othersHold' = othersHold
      BY <1>1
    <3> HIDE DEF MemoryInv
    <3>2. heapFree' + othersHold + HandCost' + SessionBlocks' = heapFree + othersHold + 0 + SessionBlocks
      <4>1. PICK a, b, c : a = heapFree' /\ b = HandCost' /\ c = SessionBlocks'
        OBVIOUS
      <4>2. PICK d, e, h : d = heapFree /\ e = SessionBlocks /\ h = othersHold
        OBVIOUS
      <4>3. a \in Nat /\ b \in Nat /\ c \in Nat /\ d \in Nat /\ e \in Nat /\ h \in Nat /\ a + b + c = d + e
        BY <2>1, <2>3, <2>4, <4>1, <4>2
      <4>4. a + h + b + c = d + h + 0 + e
        BY <4>3
      <4> QED BY <4>1, <4>2, <4>4
    <3> QED BY <2>2, <3>1, <3>2
  <2> QED BY <2>5, <1>3, StillConserved
<1> QED BY <1>3, <1>4, <1>5

(* The steps in which the sessions stay as they are.                       *)
LEMMA StepsBesideMemory ==
    ASSUME MemoryInv,
           \/ \E n \in Node : Lose(n) \/ SenderRestart(n)
           \/ ArriveAnonymous \/ Release \/ OthersTake \/ OthersGive \/ Tick
    PROVE  MemoryInv'
<1> USE DEF MemoryInv
<1>1. session' = session /\ extent' = extent /\ delivered' = delivered
  BY Zenon DEF Lose, SenderRestart, ArriveAnonymous, Release, OthersTake, OthersGive, Tick
<1>2. BufferInv'
  BY <1>1 DEF BufferInv
<1>3. /\ heapFree \in Nat /\ othersHold \in Nat /\ HandCost \in Nat /\ SessionBlocks \in Nat
      /\ SessionBlocks' = SessionBlocks
  BY <1>1, CostTypes, SameSessions
<1>4. extent \in Nat /\ extent \in Extents /\ clock \in Nat /\ clock <= MaxClock
  BY Types DEF TypesInv
<1>5. ASSUME NEW n \in Node, Lose(n) PROVE MemoryInv'
  <2>1. sender[n].nth \in Transfers /\ Advance(n)
    BY <1>5 DEF Lose, Sending
  <2>2. sender' \in [Node -> Sender]
    BY <2>1, AdvanceSteps
  <2>3. TypesInv'
    BY <1>1, <1>5, <2>2 DEF TypesInv, Lose
  <2>4. heapFree' + othersHold' + HandCost' + SessionBlocks' = heapFree + othersHold + HandCost + SessionBlocks
    BY <1>3, <1>5 DEF Lose, HandCost
  <2> QED BY <1>2, <2>3, <2>4, StillConserved
<1>6. ASSUME NEW n \in Node, SenderRestart(n) PROVE MemoryInv'
  <2>1. sender[n] \in Sender /\ sender[n].nth \in Transfers
    BY <1>6 DEF TypesInv, SenderRestart
  <2>2. [nth |-> IF sender[n].idx = 1 THEN sender[n].nth ELSE sender[n].nth + 1, idx |-> 1, tid |-> 0] \in Sender
    BY <2>1, Types DEF Sender
  <2>3. sender' \in [Node -> Sender]
    BY <1>6, <2>2 DEF SenderRestart, TypesInv
  <2>4. TypesInv'
    BY <1>1, <1>6, <2>3 DEF TypesInv, SenderRestart
  <2>5. heapFree' + othersHold' + HandCost' + SessionBlocks' = heapFree + othersHold + HandCost + SessionBlocks
    BY <1>3, <1>6 DEF SenderRestart, HandCost
  <2> QED BY <1>2, <2>4, <2>5, StillConserved
<1>7. ASSUME ArriveAnonymous PROVE MemoryInv'
  <2>1. handed' = [nth |-> Anonymous, tid |-> 0, extent |-> extent, payload |-> <<>>]
    BY <1>7 DEF ArriveAnonymous, AcceptAnonymous
  <2>2. 0 \in 0 .. TidModulo - 1 /\ <<>> \in Seq(Chunk)
    BY Types
  <2>3. handed' \in Transfer
    BY <1>4, <2>1, <2>2 DEF Transfer
  <2>4. HandCost = 0 /\ HandCost' = 1 /\ heapFree' = heapFree - 1 /\ heapFree > 0 /\ othersHold' = othersHold
    BY <1>4, <1>7, <2>1, <2>3, Types DEF ArriveAnonymous, AcceptAnonymous, HandCost
  <2>5. TypesInv'
    BY <1>1, <1>3, <1>7, <2>3, <2>4 DEF TypesInv, ArriveAnonymous
  <2>6. heapFree' + othersHold' + HandCost' + SessionBlocks' = heapFree + othersHold + HandCost + SessionBlocks
    BY <1>3, <2>4
  <2> QED BY <1>2, <2>5, <2>6, StillConserved
<1>8. ASSUME Release PROVE MemoryInv'
  <2>1. HandCost' = 0 /\ heapFree' = heapFree + HandCost /\ othersHold' = othersHold
    BY <1>8 DEF Release, HandCost
  <2>2. TypesInv'
    BY <1>1, <1>3, <1>8, <2>1 DEF TypesInv, Release
  <2>3. heapFree' + othersHold' + HandCost' + SessionBlocks' = heapFree + othersHold + HandCost + SessionBlocks
    BY <1>3, <2>1
  <2> QED BY <1>2, <2>2, <2>3, StillConserved
<1>9. ASSUME OthersTake \/ OthersGive PROVE MemoryInv'
  <2>1. /\ heapFree' \in Nat /\ othersHold' \in Nat /\ HandCost' = HandCost
        /\ heapFree' + othersHold' = heapFree + othersHold
    BY <1>3, <1>9 DEF OthersTake, OthersGive, HandCost
  <2>2. TypesInv'
    BY <1>1, <1>9, <2>1 DEF TypesInv, OthersTake, OthersGive
  <2>3. heapFree' + othersHold' + HandCost' + SessionBlocks' = heapFree + othersHold + HandCost + SessionBlocks
    BY <1>3, <2>1
  <2> QED BY <1>2, <2>2, <2>3, StillConserved
<1>10. ASSUME Tick PROVE MemoryInv'
  <2>1. HandCost' = HandCost /\ heapFree' = heapFree /\ othersHold' = othersHold
    BY <1>10 DEF Tick, HandCost
  <2>2. TypesInv'
    BY <1>1, <1>4, <1>10, Types DEF TypesInv, Tick
  <2>3. heapFree' + othersHold' + HandCost' + SessionBlocks' = heapFree + othersHold + HandCost + SessionBlocks
    BY <1>3, <2>1
  <2> QED BY <1>2, <2>2, <2>3, StillConserved
<1> QED BY <1>5, <1>6, <1>7, <1>8, <1>9, <1>10

LEMMA SubscribeMemory ==
    ASSUME MemoryInv, Subscribe
    PROVE  MemoryInv'
<1>1. \A n \in Node : session'[n] = NoSession
  BY DEF Subscribe, canardRxSubscribe
<1>2. SessionBlocks' = 0
  <2>1. {n \in Node : session'[n] # NoSession} = {}
    BY <1>1
  <2>2. SessionBlocks' = Cardinality({}) + Cardinality({n \in {} : session'[n].buf > 0})
    BY <2>1, Zenon DEF SessionBlocks
  <2>3. {n \in {} : session'[n].buf > 0} = {}
    OBVIOUS
  <2> QED BY <2>2, <2>3, FS_EmptySet
<1>3. BufferInv'
  BY <1>1 DEF BufferInv
<1>4. /\ heapFree \in Nat /\ othersHold \in Nat /\ HandCost \in Nat /\ SessionBlocks \in Nat
      /\ HandCost' = HandCost /\ heapFree' = heapFree + SessionBlocks /\ othersHold' = othersHold
  BY CostTypes DEF Subscribe, canardRxSubscribe, HandCost, MemoryInv
<1>5. TypesInv'
  <2>1. session' \in [Node -> Session \cup {NoSession}]
    BY DEF Subscribe, canardRxSubscribe
  <2>2. again' \in [Node -> Frame \cup {NoTransfer}] /\ delivered' \in [Node -> Seq(Transfer)]
    BY DEF Subscribe
  <2>3. extent' \in Extents /\ heapFree' \in Nat
    BY <1>4 DEF Subscribe, canardRxSubscribe
  <2> QED BY <2>1, <2>2, <2>3 DEF TypesInv, Subscribe, MemoryInv
<1>6. heapFree' + othersHold' + HandCost' + SessionBlocks' = heapFree + othersHold + HandCost + SessionBlocks
  BY <1>2, <1>4
<1>7. HeapIsConserved'
  BY <1>5, <1>6, StillConserved
<1> QED BY <1>3, <1>5, <1>7 DEF MemoryInv

LEMMA InitMemory == Init => MemoryInv
<1> SUFFICES ASSUME Init PROVE MemoryInv
  OBVIOUS
<1>1. \A n \in Node : session[n] = NoSession
  BY DEF Init
<1>2. SessionBlocks = 0
  <2>1. {n \in Node : session[n] # NoSession} = {}
    BY <1>1
  <2>2. SessionBlocks = Cardinality({}) + Cardinality({n \in {} : session[n].buf > 0})
    BY <2>1, Zenon DEF SessionBlocks
  <2>3. {n \in {} : session[n].buf > 0} = {}
    OBVIOUS
  <2> QED BY <2>2, <2>3, FS_EmptySet
<1>3. TypesInv
  <2>1. [nth |-> 1, idx |-> 1, tid |-> 0] \in Sender
    BY Types DEF Sender
  <2>2. 0 \in 0 .. MaxClock /\ HeapBlocks \in Nat
    BY Types
  <2> QED BY <2>1, <2>2 DEF Init, TypesInv
<1>4. BufferInv
  BY <1>1 DEF BufferInv
<1>5. HeapIsConserved
  <2>1. HandCost = 0 /\ heapFree = HeapBlocks /\ othersHold = 0
    BY DEF Init, HandCost
  <2>2. heapFree + othersHold + HandCost + SessionBlocks = HeapBlocks
    BY <1>2, <2>1, Types
  <2> QED BY <1>3, <2>2, ConservedIs DEF TypesInv
<1> QED BY <1>3, <1>4, <1>5 DEF MemoryInv

LEMMA NextMemory == MemoryInv /\ [Next]_vars => MemoryInv'
<1> SUFFICES ASSUME MemoryInv, [Next]_vars PROVE MemoryInv'
  OBVIOUS
<1>1. CASE UNCHANGED vars
  <2>1. SessionBlocks' = SessionBlocks
    BY <1>1, SameSessions DEF vars
  <2>2. TypesInv'
    BY <1>1 DEF vars, MemoryInv, TypesInv
  <2>3. BufferInv'
    BY <1>1 DEF vars, MemoryInv, BufferInv
  <2>4. HeapIsConserved'
    BY <1>1, <2>1 DEF vars, MemoryInv, HeapIsConserved
  <2> QED BY <2>2, <2>3, <2>4 DEF MemoryInv
<1>2. CASE Next
  BY <1>2, ArriveMemory, ArriveAgainMemory, StepsBesideMemory, SubscribeMemory, Zenon DEF Next
<1> QED BY <1>1, <1>2

LEMMA MemoryHolds == Spec => []MemoryInv
BY InitMemory, NextMemory, PTL DEF Spec

(***************************************************************************)
(* Every variable keeps its type; in particular neither the heap nor what  *)
(* the others hold ever counts more fragments than there are.              *)
(***************************************************************************)
THEOREM SessionTypeOK == Spec => []TypeOK
<1>1. MemoryInv => TypeOK
  <2> SUFFICES ASSUME MemoryInv PROVE TypeOK
    OBVIOUS
  <2>1. heapFree + othersHold + HandCost + SessionBlocks = HeapBlocks
    BY ConservedIs DEF MemoryInv, TypesInv
  <2>2. heapFree \in Nat /\ othersHold \in Nat /\ HandCost \in Nat /\ SessionBlocks \in Nat /\ HeapBlocks \in Nat
    BY CostTypes, Types DEF MemoryInv
  <2>3. heapFree \in 0 .. HeapBlocks /\ othersHold \in 0 .. HeapBlocks
    BY <2>1, <2>2
  <2> QED BY <2>3 DEF MemoryInv, TypesInv, TypeOK, Sender
<1> QED BY <1>1, MemoryHolds, PTL

(***************************************************************************)
(* Whatever arrives, is lost or runs out of memory: every fragment of the  *)
(* heap is free, in a session, with the callback or held by the others.    *)
(***************************************************************************)
THEOREM NoFragmentIsLost == Spec => []HeapIsConserved
<1>1. MemoryInv => HeapIsConserved
  BY DEF MemoryInv
<1> QED BY <1>1, MemoryHolds, PTL

(***************************************************************************)
(* No session copies beyond its buffer, though buffers are allocated for   *)
(* one subscription and written for another.                               *)
(***************************************************************************)
THEOREM CopiesFit == Spec => []NoOverrun
<1>1. MemoryInv => NoOverrun
  <2> SUFFICES ASSUME MemoryInv, NEW n \in Node, session[n] # NoSession
               PROVE  Least(Len(session[n].chunks), extent) <= session[n].buf
    BY DEF NoOverrun
  <2>1. session[n] \in Session /\ extent \in Nat
    BY Types DEF MemoryInv, TypesInv
  <2>2. Len(session[n].chunks) \in Nat /\ session[n].buf \in Nat
    BY <2>1, SessionTypes, LenProperties
  <2>3. session[n].chunks # <<>> => session[n].buf = extent
    BY DEF MemoryInv, BufferInv
  <2>4. session[n].chunks = <<>> => Len(session[n].chunks) = 0
    OBVIOUS
  <2> QED BY <2>1, <2>2, <2>3, <2>4 DEF Least
<1> QED BY <1>1, MemoryHolds, PTL

-----------------------------------------------------------------------------
(* The order of the transfers and the contents of their payloads.          *)

WholeInOrder(d) ==
    \A i \in DOMAIN d :
        /\ i > 1 => d[i - 1].nth < d[i].nth
        /\ d[i].payload = [k \in 1 .. Least(d[i].extent, Frames[d[i].nth]) |-> <<d[i].nth, k>>]

LEMMA WholeInOrderIs == DeliveredWhole <=> \A n \in Node : WholeInOrder(delivered[n])
BY DEF DeliveredWhole, WholeInOrder

LEMMA CompletedPayload ==
    ASSUME TypesInv, NEW s \in Session, NEW f \in Frame, Expected(s, f), End(f),
           Start(f) \/ CrcResidue(Append(s.chunks, <<f.nth, f.idx>>)),
           NEW t, t = TransferOf(Append(s.chunks, <<f.nth, f.idx>>), f)
    PROVE  /\ t.nth = f.nth
           /\ t.payload = [k \in 1 .. Least(t.extent, Frames[t.nth]) |-> <<t.nth, k>>]
<1> DEFINE c == <<f.nth, f.idx>>
           chunks == Append(s.chunks, c)
           last == Frames[f.nth]
<1>1. s.chunks \in Seq(Chunk) /\ c \in Chunk /\ Len(s.chunks) \in Nat
  BY FrameTypes, SessionTypes, LenProperties
<1>2. f.nth \in Nat /\ f.idx = last /\ last \in Nat /\ last > 0
  BY FrameTypes DEF End
<1>3. /\ chunks \in Seq(Chunk) /\ Len(chunks) = Len(s.chunks) + 1
      /\ chunks[Len(s.chunks) + 1] = c
      /\ DOMAIN chunks = 1 .. Len(chunks)
  BY <1>1, AppendProperties, LenProperties
<1>4. Len(chunks) = last /\ \A i \in 1 .. last : chunks[i] = <<f.nth, i>>
  <2>1. CASE Start(f)
    <3>1. s.chunks = <<>> /\ last = 1
      BY <1>2, <2>1 DEF Expected, Start
    <3>2. Len(s.chunks) = 0
      BY <3>1
    <3>3. Len(chunks) = 1 /\ chunks[1] = <<f.nth, 1>>
      BY <1>2, <1>3, <3>1, <3>2
    <3> QED BY <3>1, <3>3
  <2>2. CASE CrcResidue(chunks)
    <3> DEFINE nth == chunks[1][1]
    <3>1. chunks = [i \in 1 .. Frames[nth] |-> <<nth, i>>]
      BY <2>2, ZenonT(60) DEF CrcResidue
    <3>2. chunks[1] \in Chunk
      BY <1>1, <1>3, ElementOfSeq
    <3>3. nth \in 1 .. Len(Frames)
      BY <3>2, Types DEF Chunk
    <3>4. Frames[nth] \in Nat
      BY <3>3, Types
    <3> HIDE DEF nth, chunks, c
    <3>5. DOMAIN chunks = 1 .. Frames[nth]
      BY <3>1
    <3>6. Len(chunks) = Frames[nth]
      BY <1>1, <1>3, <3>4, <3>5
    <3>7. chunks[Frames[nth]] = <<nth, Frames[nth]>>
      BY <1>1, <1>3, <3>1, <3>4, <3>6
    <3>8. nth = f.nth
      BY <1>3, <3>6, <3>7 DEF c
    <3> QED BY <3>1, <3>6, <3>8, ZenonT(60)
  <2> QED BY <2>1, <2>2
<1> HIDE DEF chunks, c, last
<1>5. extent \in Nat
  BY Types DEF TypesInv
<1> DEFINE e == Least(extent, last)
<1>6. e \in Nat /\ e <= last
  BY <1>2, <1>5 DEF Least
<1>7. SubSeq(chunks, 1, e) = [k \in 1 .. e |-> <<f.nth, k>>]
  <2>1. /\ SubSeq(chunks, 1, e) \in Seq(Chunk)
        /\ Len(SubSeq(chunks, 1, e)) = e
        /\ \A k \in 1 .. e : SubSeq(chunks, 1, e)[k] = chunks[k]
    <3>1. \A i \in 1 .. e : chunks[i] \in Chunk
      BY <1>3, <1>4, <1>6, ElementOfSeq
    <3>2. /\ SubSeq(chunks, 1, e) \in Seq(Chunk)
          /\ Len(SubSeq(chunks, 1, e)) = IF 1 <= e THEN e - 1 + 1 ELSE 0
          /\ \A i \in 1 .. e - 1 + 1 : SubSeq(chunks, 1, e)[i] = chunks[1 + i - 1]
      BY <1>6, <3>1, SubSeqProperties
    <3> HIDE DEF e
    <3> QED BY <1>6, <3>2
  <2>2. \A k \in 1 .. e : SubSeq(chunks, 1, e)[k] = <<f.nth, k>>
    <3> HIDE DEF e
    <3>1. \A k \in 1 .. e : k \in 1 .. last
      BY <1>2, <1>6
    <3> QED BY <1>4, <2>1, <3>1, Zenon
  <2>3. SubSeq(chunks, 1, e) = [k \in 1 .. e |-> SubSeq(chunks, 1, e)[k]]
    BY <2>1, LenProperties
  <2> QED BY <2>2, <2>3
<1>8. /\ TransferOf(chunks, f).payload = SubSeq(chunks, 1, e)
      /\ TransferOf(chunks, f).nth = f.nth /\ TransferOf(chunks, f).extent = extent
  BY <1>4 DEF TransferOf
<1> QED BY <1>7, <1>8 DEF chunks, c, last

LEMMA WholeAppended ==
    ASSUME NEW d \in Seq(Transfer), NEW t \in Transfer, WholeInOrder(d),
           \A i \in DOMAIN d : d[i].nth < t.nth,
           t.payload = [k \in 1 .. Least(t.extent, Frames[t.nth]) |-> <<t.nth, k>>]
    PROVE  /\ WholeInOrder(Append(d, t))
           /\ \A i \in DOMAIN Append(d, t) : Append(d, t)[i].nth < t.nth + 1
<1> DEFINE a == Append(d, t)
           len == Len(d)
<1>1. /\ len \in Nat /\ DOMAIN d = 1 .. len
      /\ DOMAIN a = 1 .. len + 1
      /\ a[len + 1] = t /\ \A i \in 1 .. len : a[i] = d[i]
  BY AppendProperties, LenProperties
<1>2. t.nth \in Int /\ \A i \in 1 .. len : d[i].nth \in Int
  <2>1. \A x \in Transfer : x.nth \in Int
    BY Types DEF Transfer, Anonymous
  <2>2. \A i \in 1 .. len : d[i] \in Transfer
    BY ElementOfSeq
  <2> QED BY <2>1, <2>2
<1> HIDE DEF a, len
<1>3. ASSUME NEW i \in 1 .. len + 1
      PROVE  /\ i > 1 => a[i - 1].nth < a[i].nth
             /\ a[i].payload = [k \in 1 .. Least(a[i].extent, Frames[a[i].nth]) |-> <<a[i].nth, k>>]
             /\ a[i].nth < t.nth + 1
  <2>1. CASE i = len + 1
    <3>1. a[i] = t
      BY <1>1, <2>1
    <3>2. i > 1 => i - 1 \in 1 .. len
      BY <1>1, <2>1
    <3>3. i > 1 => a[i - 1].nth < t.nth
      BY <1>1, <3>2
    <3> QED BY <1>2, <3>1, <3>3
  <2>2. CASE i # len + 1
    <3>1. i \in 1 .. len /\ (i > 1 => i - 1 \in 1 .. len)
      BY <1>1, <2>2
    <3>2. a[i] = d[i] /\ (i > 1 => a[i - 1] = d[i - 1])
      BY <1>1, <3>1
    <3>3. /\ i > 1 => d[i - 1].nth < d[i].nth
          /\ d[i].payload = [k \in 1 .. Least(d[i].extent, Frames[d[i].nth]) |-> <<d[i].nth, k>>]
      BY <1>1, <3>1 DEF WholeInOrder
    <3>4. d[i].nth < t.nth /\ d[i].nth \in Int
      BY <1>1, <1>2, <3>1
    <3>5. d[i].nth < t.nth + 1
      BY <1>2, <3>4
    <3> QED BY <3>2, <3>3, <3>5, Zenon
  <2> QED BY <2>1, <2>2
<1> QED BY <1>1, <1>3 DEF WholeInOrder, a

LEMMA OthersKeepTheirSession ==
    ASSUME TypesInv, NEW n \in Node, NEW f \in Frame, canardRxAccept(n, f)
    PROVE  \A m \in Node : m # n => session'[m] = session[m] /\ delivered'[m] = delivered[m]
<1>1. CASE Ignored(n, f)
  BY <1>1 DEF Ignored
<1>2. ASSUME NEW s \in Session, Tried(n, f, s)
      PROVE  \A m \in Node : m # n => session'[m] = session[m] /\ delivered'[m] = delivered[m]
  <2>1. \E x : Becomes(n, x)
    BY <1>2, Zenon DEF Tried, Rejected, Starved, Copied, Completed, Dropped
  <2>2. \A m \in Node : m # n => session'[m] = session[m]
    BY <2>1 DEF Becomes, TypesInv
  <2>3. delivered' = delivered \/ \E x : delivered' = [delivered EXCEPT ![n] = x]
    BY <1>2, Zenon DEF Tried, Rejected, Starved, Copied, Completed, Dropped
  <2>4. \A m \in Node : m # n => delivered'[m] = delivered[m]
    BY <2>3 DEF TypesInv
  <2> QED BY <2>2, <2>4
<1> QED BY <1>1, <1>2, StepsOfAccept

(* A repetition of what has been delivered is rejected.                    *)
LEMMA DoneIsRejected ==
    ASSUME TypesInv, NEW n \in Node, NEW f \in Frame, canardRxAccept(n, f), Done(n, f)
    PROVE  delivered' = delivered
<1>1. CASE Ignored(n, f)
  BY <1>1 DEF Ignored
<1>2. ASSUME NEW s \in Session, Tried(n, f, s) PROVE delivered' = delivered
  <2> DEFINE old == session[n]
  <2>1. old \in Session /\ s = Synced(old, f) /\ old.chunks = <<>> /\ old.tid = NextTid(f.tid)
    BY <1>2 DEF Done, Old, Tried, NextTid
  <2>2. ~Expected(s, f)
    <3>1. CASE Start(f)
      <4>1. old.ts = Timestamp /\ Timestamp \in Int
        BY <3>1, ClockTypes DEF Done
      <4>2. ~TidTimedOut(old)
        BY <4>1 DEF TidTimedOut
      <4>3. NextTid(f.tid) # f.tid /\ rxComputeTransferIDDifference(old.tid, f.tid) = 1
        BY <2>1, FrameTypes, NextTidApart
      <4>4. ~Resync(old, f)
        BY <4>2, <4>3 DEF Resync
      <4>5. s = old
        BY <2>1, <4>4 DEF Synced
      <4> QED BY <2>1, <4>3, <4>5 DEF Expected
    <3>2. CASE ~Start(f)
      <4>1. s = old
        BY <2>1, <3>2 DEF Synced, Resync
      <4> QED BY <2>1, <3>2, <4>1 DEF Expected
    <3> QED BY <3>1, <3>2
  <2> QED BY <1>2, <2>2, Zenon DEF Tried, Rejected, Starved, Copied, Completed, Dropped
<1> QED BY <1>1, <1>2, StepsOfAccept

LEMMA AcceptOrder ==
    ASSUME TypesInv, BufferInv, DeliveredWhole, NEW n \in Node, NEW f \in Frame,
           canardRxAccept(n, f), clock' = clock, Before(n, f.nth) \/ Done(n, f)
    PROVE  /\ DeliveredWhole'
           /\ \/ delivered' = delivered
              \/ /\ End(f) /\ Done(n, f)'
                 /\ \A nth \in Nat : nth > f.nth => Before(n, nth)'
<1>1. CASE delivered' = delivered
  BY <1>1 DEF DeliveredWhole
<1>2. CASE delivered' # delivered
  <2>1. PICK s \in Session : Tried(n, f, s) /\ Completed(n, f, s)
    BY <1>2, StepsOfAccept, Zenon DEF Ignored, Tried, Rejected, Starved, Copied, Dropped
  <2> DEFINE chunks == Append(s.chunks, <<f.nth, f.idx>>)
             t == TransferOf(chunks, f)
  <2>2. /\ Expected(s, f) /\ End(f) /\ (Start(f) \/ CrcResidue(chunks))
        /\ Becomes(n, Restarted(s, f))
        /\ handed' = t /\ delivered' = [delivered EXCEPT ![n] = Append(@, handed')]
    BY <2>1, Zenon DEF Completed
  <2>3. chunks \in Seq(Chunk)
    BY FrameTypes, SessionTypes, AppendProperties
  <2>4. t \in Transfer
    BY <2>3, TransferType
  <2>5. t.nth = f.nth /\ t.payload = [k \in 1 .. Least(t.extent, Frames[t.nth]) |-> <<t.nth, k>>]
    <3>1. Expected(s, f) /\ End(f) /\ (Start(f) \/ CrcResidue(Append(s.chunks, <<f.nth, f.idx>>)))
      BY <2>2, Zenon DEF chunks
    <3>2. t = TransferOf(Append(s.chunks, <<f.nth, f.idx>>), f)
      BY Zenon DEF t, chunks
    <3> HIDE DEF t, chunks
    <3> QED BY <3>1, <3>2, CompletedPayload
  <2> HIDE DEF t, chunks
  <2>6. Before(n, f.nth)
    BY <1>2, DoneIsRejected
  <2>7. delivered[n] \in Seq(Transfer) /\ WholeInOrder(delivered[n])
    BY WholeInOrderIs DEF TypesInv
  <2>8. /\ delivered'[n] = Append(delivered[n], t)
        /\ \A m \in Node : m # n => delivered'[m] = delivered[m]
    BY <2>2 DEF TypesInv
  <2>9. /\ WholeInOrder(delivered'[n])
        /\ \A i \in DOMAIN delivered'[n] : delivered'[n][i].nth < f.nth + 1
    BY <2>4, <2>5, <2>6, <2>7, <2>8, WholeAppended DEF Before
  <2>10. DeliveredWhole'
    <3>1. \A m \in Node : WholeInOrder(delivered'[m])
      BY <2>8, <2>9, WholeInOrderIs
    <3> QED BY <3>1 DEF DeliveredWhole, WholeInOrder
  <2>11. \A nth \in Nat : nth > f.nth => Before(n, nth)'
    <3> SUFFICES ASSUME NEW nth \in Nat, nth > f.nth, NEW i \in DOMAIN delivered'[n]
                 PROVE  delivered'[n][i].nth < nth
      BY DEF Before
    <3>1. delivered'[n][i] \in Transfer
      <4>1. delivered'[n] \in Seq(Transfer)
        BY <2>4, <2>7, <2>8, AppendProperties
      <4> QED BY <4>1, ElementOfSeq, LenProperties
    <3>2. delivered'[n][i].nth \in Nat
      BY <3>1, Types DEF Transfer, Anonymous
    <3>3. delivered'[n][i].nth < f.nth + 1
      BY <2>9
    <3>4. PICK k : k = delivered'[n][i].nth
      OBVIOUS
    <3>5. PICK m : m = f.nth
      OBVIOUS
    <3>6. k \in Nat /\ m \in Nat /\ k < m + 1 /\ nth > m
      BY <3>2, <3>3, <3>4, <3>5, FrameTypes
    <3>7. k < nth
      BY <3>6
    <3> QED BY <3>4, <3>7
  <2>12. Done(n, f)'
    <3>1. Restarted(s, f) \in Session
      BY NewSessionTypes
    <3>2. session'[n] = Restarted(s, f) /\ session'[n] # NoSession
      BY <2>2, <3>1, Types DEF Becomes, TypesInv
    <3>3. s.tid = f.tid
      BY <2>2, Zenon DEF Expected
    <3>4. session'[n] = SessionOf(NextTid(f.tid), TRUE, <<>>, 0, StartTime(s, f))
      BY <3>2, <3>3 DEF Restarted
    <3>5. Timestamp' = Timestamp
      BY DEF Timestamp
    <3> QED BY <3>2, <3>4, <3>5 DEF Done, SessionOf, NextTid, StartTime
  <2>13. End(f)
    BY <2>2, Zenon
  <2> QED BY <2>10, <2>11, <2>12, <2>13, Zenon
<1> QED BY <1>1, <1>2

LEMMA LaterTransfer ==
    ASSUME NEW f \in Frame
    PROVE  f.nth \in Nat /\ f.nth + 1 \in Nat /\ f.nth <= f.nth + 1 /\ f.nth + 1 > f.nth
<1>1. f.nth \in Nat
  BY FrameTypes
<1> QED BY <1>1

LEMMA BeforeLater ==
    ASSUME TypesInv, NEW n \in Node, NEW a \in Nat, NEW b \in Nat, a <= b, Before(n, a)
    PROVE  Before(n, b)
<1> SUFFICES ASSUME NEW i \in DOMAIN delivered[n] PROVE delivered[n][i].nth < b
  BY DEF Before
<1>1. delivered[n] \in Seq(Transfer)
  BY DEF TypesInv
<1>2. delivered[n][i] \in Transfer
  BY <1>1, ElementOfSeq, LenProperties
<1>3. PICK k : k = delivered[n][i].nth
  OBVIOUS
<1>4. k \in Nat
  BY <1>2, <1>3, Types DEF Transfer, Anonymous
<1>5. k < a
  BY <1>3 DEF Before
<1>6. k < b
  BY <1>4, <1>5
<1> QED BY <1>3, <1>6

LEMMA KeptOrder ==
    ASSUME NEW n \in Node, RepeatAt(n) /\ OrderAt(n), clock' = clock, sender'[n] = sender[n],
           again'[n] = again[n], session'[n] = session[n], delivered'[n] = delivered[n]
    PROVE  RepeatAt(n)' /\ OrderAt(n)'
BY DEF RepeatAt, OrderAt, Before, Done, Timestamp, End, Start

LEMMA NothingToRepeat ==
    ASSUME TypesInv, NEW n \in Node, OrderAt(n), again'[n] = NoTransfer, delivered'[n] = delivered[n],
           sender'[n].nth \in Nat, sender[n].nth \in Nat, sender[n].nth <= sender'[n].nth
    PROVE  RepeatAt(n)' /\ OrderAt(n)'
<1>1. Before(n, sender'[n].nth)
  BY BeforeLater DEF OrderAt
<1>2. Before(n, sender[n].nth)'
  BY <1>1 DEF Before
<1> QED BY <1>2 DEF RepeatAt, OrderAt

LEMMA SenderNth ==
    ASSUME TypesInv, NEW n \in Node
    PROVE  sender[n] \in Sender /\ sender[n].nth \in Nat /\ sender[n].idx \in Nat /\ sender[n].tid \in Nat
BY Types DEF TypesInv, Sender

LEMMA ArriveOrder ==
    ASSUME MemoryInv, OrderInv, NEW n \in Node, Arrive(n)
    PROVE  OrderInv'
<1> PICK f : f = NextFrame(n)
  OBVIOUS
<1>0. TypesInv /\ BufferInv
  BY DEF MemoryInv
<1>1. /\ sender[n].nth \in Transfers /\ Advance(n)
      /\ canardRxAccept(n, f) /\ again' = [again EXCEPT ![n] = f]
      /\ clock' = clock
  BY Zenon DEF Arrive, Sending
<1>2. f \in Frame /\ f.nth = sender[n].nth /\ f.idx = sender[n].idx /\ f.tid = sender[n].tid
  BY <1>0, <1>1, AdvanceSteps DEF NextFrame
<1>3. /\ \A m \in Node : m # n => sender'[m] = sender[m] /\ again'[m] = again[m]
      /\ again'[n] = f
      /\ End(f) => sender'[n] = [nth |-> f.nth + 1, idx |-> 1, tid |-> NextTid(f.tid)]
      /\ ~End(f) => sender'[n] = [nth |-> f.nth, idx |-> f.idx + 1, tid |-> f.tid]
  BY <1>0, <1>1, <1>2, AdvanceSteps DEF TypesInv
<1>4. Before(n, f.nth)
  BY <1>2 DEF OrderInv, OrderAt
<1>5. /\ DeliveredWhole'
      /\ \/ delivered' = delivered
         \/ End(f) /\ Done(n, f)' /\ \A nth \in Nat : nth > f.nth => Before(n, nth)'
  BY <1>0, <1>1, <1>2, <1>4, AcceptOrder DEF OrderInv
<1>6. RepeatAt(n)'
  BY <1>3 DEF RepeatAt, NextTid, End
<1>7. f.nth \in Nat /\ f.nth + 1 \in Nat /\ f.nth <= f.nth + 1 /\ f.nth + 1 > f.nth
  BY <1>2, LaterTransfer
<1>8. OrderAt(n)'
  <2>1. CASE delivered' = delivered
    <3>1. Before(n, f.nth) /\ Before(n, f.nth + 1)
      BY <1>0, <1>4, <1>7, BeforeLater
    <3>2. sender'[n].nth = f.nth \/ sender'[n].nth = f.nth + 1
      BY <1>3
    <3>3. Before(n, sender'[n].nth)
      BY <3>1, <3>2
    <3>4. Before(n, sender[n].nth)' /\ Before(n, again[n].nth)'
      BY <1>3, <2>1, <3>1, <3>3 DEF Before
    <3> QED BY <3>4 DEF OrderAt
  <2>2. CASE End(f) /\ Done(n, f)' /\ \A nth \in Nat : nth > f.nth => Before(n, nth)'
    <3>1. sender'[n].nth = f.nth + 1 /\ again'[n] = f
      BY <1>3, <2>2
    <3>2. \A i \in DOMAIN delivered'[n] : delivered'[n][i].nth < f.nth + 1
      BY <1>7, <2>2 DEF Before
    <3>3. Before(n, sender[n].nth)'
      BY <3>1, <3>2 DEF Before
    <3>4. Done(n, again[n])'
      BY <2>2, <3>1 DEF Done, Start
    <3> QED BY <3>3, <3>4 DEF OrderAt
  <2> QED BY <1>5, <2>1, <2>2
<1>9. ASSUME NEW m \in Node, m # n PROVE RepeatAt(m)' /\ OrderAt(m)'
  <2>1. session'[m] = session[m] /\ delivered'[m] = delivered[m]
    BY <1>0, <1>1, <1>2, <1>9, OthersKeepTheirSession
  <2>2. sender'[m] = sender[m] /\ again'[m] = again[m] /\ clock' = clock
    BY <1>1, <1>3, <1>9
  <2> QED BY <2>1, <2>2, KeptOrder DEF OrderInv
<1> QED BY <1>5, <1>6, <1>8, <1>9 DEF OrderInv

LEMMA ArriveAgainOrder ==
    ASSUME MemoryInv, OrderInv, NEW n \in Node, ArriveAgain(n)
    PROVE  OrderInv'
<1> PICK f : f = again[n]
  OBVIOUS
<1>0. TypesInv /\ BufferInv
  BY DEF MemoryInv
<1>1. /\ f # NoTransfer /\ canardRxAccept(n, f) /\ clock' = clock /\ sender' = sender
      /\ again'[n] = NoTransfer /\ \A m \in Node : m # n => again'[m] = again[m]
  BY <1>0 DEF ArriveAgain, TypesInv
<1>2. f \in Frame
  BY <1>0, <1>1 DEF TypesInv
<1>3. /\ Before(n, f.nth) \/ Done(n, f)
      /\ End(f) => sender[n].nth = f.nth + 1
      /\ Before(n, sender[n].nth)
  <2>1. RepeatAt(n) /\ OrderAt(n)
    BY DEF OrderInv
  <2>2. Before(n, sender[n].nth) /\ (Before(n, f.nth) \/ Done(n, f))
    BY <1>1, <2>1, Zenon DEF OrderAt
  <2>3. End(f) => sender[n] = [nth |-> f.nth + 1, idx |-> 1, tid |-> (f.tid + 1) % TidModulo]
    BY <1>1, <2>1, Zenon DEF RepeatAt
  <2>4. End(f) => sender[n].nth = f.nth + 1
    BY <2>3
  <2> QED BY <2>2, <2>4
<1>4. /\ DeliveredWhole'
      /\ \/ delivered' = delivered
         \/ End(f) /\ Done(n, f)' /\ \A nth \in Nat : nth > f.nth => Before(n, nth)'
  BY <1>0, <1>1, <1>2, <1>3, AcceptOrder DEF OrderInv
<1>5. Before(n, sender[n].nth)'
  <2>1. CASE delivered' = delivered
    BY <1>1, <1>3, <2>1 DEF Before
  <2>2. CASE End(f) /\ \A nth \in Nat : nth > f.nth => Before(n, nth)'
    <3>1. f.nth + 1 \in Nat /\ f.nth + 1 > f.nth
      BY <1>2, LaterTransfer
    <3>2. \A i \in DOMAIN delivered'[n] : delivered'[n][i].nth < f.nth + 1
      BY <2>2, <3>1 DEF Before
    <3> QED BY <1>1, <1>3, <2>2, <3>2 DEF Before
  <2> QED BY <1>4, <2>1, <2>2
<1>6. RepeatAt(n)' /\ OrderAt(n)'
  BY <1>1, <1>5 DEF RepeatAt, OrderAt
<1>7. ASSUME NEW m \in Node, m # n PROVE RepeatAt(m)' /\ OrderAt(m)'
  <2>1. session'[m] = session[m] /\ delivered'[m] = delivered[m]
    BY <1>0, <1>1, <1>2, <1>7, OthersKeepTheirSession
  <2>2. sender'[m] = sender[m] /\ again'[m] = again[m] /\ clock' = clock
    BY <1>1, <1>7
  <2> QED BY <2>1, <2>2, KeptOrder DEF OrderInv
<1> QED BY <1>4, <1>6, <1>7 DEF OrderInv

LEMMA SilentOrder ==
    ASSUME MemoryInv, OrderInv, NEW n \in Node, Lose(n) \/ SenderRestart(n)
    PROVE  OrderInv'
<1>0. TypesInv
  BY DEF MemoryInv
<1>1. /\ clock' = clock /\ session' = session /\ delivered' = delivered
      /\ again' = [again EXCEPT ![n] = NoTransfer]
  BY Zenon DEF Lose, SenderRestart
<1>2. again'[n] = NoTransfer /\ \A m \in Node : m # n => again'[m] = again[m]
  BY <1>0, <1>1 DEF TypesInv
<1>3. /\ sender'[n].nth = sender[n].nth \/ sender'[n].nth = sender[n].nth + 1
      /\ \A m \in Node : m # n => sender'[m] = sender[m]
  <2>1. CASE Lose(n)
    <3>1. sender[n].nth \in Transfers /\ Advance(n)
      BY <2>1 DEF Lose, Sending
    <3>2. /\ \A m \in Node : m # n => sender'[m] = sender[m]
          /\ \/ sender'[n] = [nth |-> sender[n].nth + 1, idx |-> 1, tid |-> NextTid(sender[n].tid)]
             \/ sender'[n] = [nth |-> sender[n].nth, idx |-> sender[n].idx + 1, tid |-> sender[n].tid]
      BY <1>0, <3>1, AdvanceSteps, Zenon
    <3> QED BY <3>2
  <2>2. CASE SenderRestart(n)
    BY <1>0, <2>2 DEF SenderRestart, TypesInv
  <2> QED BY <2>1, <2>2
<1>4. sender[n].nth \in Nat /\ sender'[n].nth \in Nat /\ sender[n].nth <= sender'[n].nth
  BY <1>0, <1>3, SenderNth
<1>5. RepeatAt(n)' /\ OrderAt(n)'
  BY <1>0, <1>1, <1>2, <1>4, NothingToRepeat DEF OrderInv
<1>6. ASSUME NEW m \in Node, m # n PROVE RepeatAt(m)' /\ OrderAt(m)'
  BY <1>1, <1>2, <1>3, <1>6, KeptOrder DEF OrderInv
<1>7. DeliveredWhole'
  BY <1>1 DEF OrderInv, DeliveredWhole
<1> QED BY <1>5, <1>6, <1>7 DEF OrderInv

LEMMA NextOrder == MemoryInv /\ OrderInv /\ [Next]_vars => OrderInv'
<1> SUFFICES ASSUME MemoryInv, OrderInv, [Next]_vars PROVE OrderInv'
  OBVIOUS
<1>1. ASSUME UNCHANGED <<clock, sender, again, session, delivered>> PROVE OrderInv'
  <2>1. \A n \in Node : RepeatAt(n)' /\ OrderAt(n)'
    BY <1>1, KeptOrder DEF OrderInv
  <2>2. DeliveredWhole'
    BY <1>1 DEF OrderInv, DeliveredWhole
  <2> QED BY <2>1, <2>2 DEF OrderInv
<1>2. CASE Subscribe
  <2>1. \A n \in Node : delivered'[n] = <<>> /\ again'[n] = NoTransfer
    BY <1>2 DEF Subscribe
  <2> QED BY <2>1 DEF OrderInv, OrderAt, RepeatAt, Before, DeliveredWhole
<1>3. CASE Tick
  <2>1. /\ \A n \in Node : again'[n] = NoTransfer
        /\ sender' = sender /\ delivered' = delivered
    BY <1>3 DEF Tick
  <2>2. DeliveredWhole'
    BY <2>1 DEF OrderInv, DeliveredWhole
  <2> QED BY <2>1, <2>2 DEF OrderInv, OrderAt, RepeatAt, Before
<1>4. CASE ArriveAnonymous \/ Release \/ OthersTake \/ OthersGive
  BY <1>1, <1>4 DEF ArriveAnonymous, Release, OthersTake, OthersGive
<1>5. CASE \E n \in Node : Arrive(n) \/ ArriveAgain(n) \/ Lose(n) \/ SenderRestart(n)
  BY <1>5, ArriveOrder, ArriveAgainOrder, SilentOrder
<1>6. CASE UNCHANGED vars
  BY <1>1, <1>6 DEF vars
<1> QED BY <1>2, <1>3, <1>4, <1>5, <1>6, Zenon DEF Next

LEMMA InitOrder == Init => OrderInv
<1> SUFFICES ASSUME Init PROVE OrderInv
  OBVIOUS
<1>1. \A n \in Node : delivered[n] = <<>> /\ again[n] = NoTransfer
  BY DEF Init
<1> QED BY <1>1 DEF OrderInv, OrderAt, RepeatAt, Before, DeliveredWhole

(***************************************************************************)
(* What the application gets are transfers that were sent, whole up to the *)
(* extent, in their order and none twice, for every length of transfer and *)
(* across every wrap of the transfer-ID and of the clock.                  *)
(***************************************************************************)
THEOREM TransfersComeWhole == Spec => []DeliveredWhole
<1>1. OrderInv => DeliveredWhole
  BY DEF OrderInv
<1> QED BY <1>1, InitOrder, NextOrder, MemoryHolds, PTL DEF Spec

-----------------------------------------------------------------------------
(* The timeout of the transfer-ID, while the clock does not wrap.          *)

HeardOf(nth, at, run, intact) == [nth |-> nth, at |-> at, run |-> run, intact |-> intact]

LEMMA ArrivalRecord ==
    ASSUME NEW n \in Node, heard[n] \in Heard, NEW f \in Frame
    PROVE  /\ Counted(n, f) \in Nat
           /\ Arrival(n, f) \in Heard
           /\ Arrival(n, f) = HeardOf(heard[n].nth, heard[n].at, Counted(n, f),
                  IF End(f) /\ Counted(n, f) > 0 THEN f.nth ELSE heard[n].intact)
<1> PICK h : h = heard[n]
  OBVIOUS
<1> DEFINE run == Counted(n, f)
           intact == IF End(f) /\ run > 0 THEN f.nth ELSE h.intact
<1>1. h \in Heard
  OBVIOUS
<1>2. h = HeardOf(h.nth, h.at, h.run, h.intact) /\ h.nth \in Int /\ h.at \in Nat /\ h.intact \in Nat
  BY <1>1 DEF Heard, HeardOf
<1>3. f.nth \in Nat /\ f.idx \in Nat
  BY FrameTypes
<1>4. run \in Nat
  <2>1. run = 1 \/ run = f.idx \/ run = 0
    BY Zenon DEF Counted
  <2> HIDE DEF run
  <2> QED BY <1>3, <2>1
<1> HIDE DEF run
<1>5. intact \in Nat
  BY <1>2, <1>3
<1>6. Arrival(n, f) = [[h EXCEPT !.run = run] EXCEPT !.intact = intact]
  <2>1. Arrival(n, f) = [h EXCEPT !.run = run, !.intact = intact]
    BY Zenon DEF Arrival, run
  <2> HIDE DEF intact
  <2> QED BY <2>1, Zenon
<1> HIDE DEF intact
<1>7. PICK x : x = [h EXCEPT !.run = run]
  BY Zenon
<1>8. x = HeardOf(h.nth, h.at, run, h.intact)
  BY <1>2, <1>7 DEF HeardOf
<1>9. PICK y : y = [x EXCEPT !.intact = intact]
  BY Zenon
<1>10. y = HeardOf(h.nth, h.at, run, intact)
  BY <1>8, <1>9 DEF HeardOf
<1>11. y \in Heard
  BY <1>2, <1>4, <1>5, <1>10 DEF Heard, HeardOf
<1>12. Arrival(n, f) = y
  BY <1>6, <1>7, <1>9, Zenon
<1> QED BY <1>4, <1>10, <1>11, <1>12, Zenon DEF run, intact

LEMMA TakenRecord ==
    ASSUME clock \in Nat, NEW n \in Node, NEW f \in Frame, NEW h \in Heard
    PROVE  /\ Taken(n, f, h) \in Heard
           /\ Taken(n, f, h) = IF Took(n, f) THEN HeardOf(f.nth, clock, h.run, h.intact) ELSE h
<1>1. h = HeardOf(h.nth, h.at, h.run, h.intact) /\ h.run \in Nat /\ h.intact \in Nat
  BY DEF Heard, HeardOf
<1>2. f.nth \in Int
  BY LaterTransfer
<1>3. PICK x : x = [h EXCEPT !.nth = f.nth]
  BY Zenon
<1>4. x = HeardOf(f.nth, h.at, h.run, h.intact)
  BY <1>1, <1>3 DEF HeardOf
<1>5. PICK y : y = [x EXCEPT !.at = clock]
  BY Zenon
<1>6. y = HeardOf(f.nth, clock, h.run, h.intact)
  BY <1>4, <1>5 DEF HeardOf
<1>7. y \in Heard
  BY <1>1, <1>2, <1>6 DEF Heard, HeardOf
<1>8. Taken(n, f, h) = IF Took(n, f) THEN y ELSE h
  BY <1>3, <1>5, Zenon DEF Taken
<1> QED BY <1>6, <1>7, <1>8, Zenon

(* A start that resynchronizes the session, or creates it, is expected.    *)
LEMMA ResyncedStart ==
    ASSUME NEW old \in Session, NEW f \in Frame, Resync(old, f)
    PROVE  Expected(Synced(old, f), f)
<1>1. Start(f) /\ f.idx = 1 /\ 1 % 2 = 1
  BY DEF Resync, Start
<1>2. Synced(old, f).tid = f.tid /\ Synced(old, f).toggle = TRUE /\ Synced(old, f).chunks = <<>>
  BY DEF Synced, SessionOf
<1>3. Toggle(f) = TRUE
  BY <1>1 DEF Toggle
<1> QED BY <1>1, <1>2, <1>3, Zenon DEF Expected

LEMMA CreatedStart ==
    ASSUME TypesInv, NEW f \in Frame, Start(f)
    PROVE  Expected(Synced(NewSession(f), f), f)
<1> DEFINE old == NewSession(f)
<1>1. old.tid = f.tid /\ old.toggle = TRUE /\ old.chunks = <<>> /\ f.idx = 1 /\ 1 % 2 = 1
  BY DEF NewSession, Start
<1>2. old \in Session
  BY FrameTypes, ClockTypes, Types DEF NewSession, Session, Frame
<1> HIDE DEF old
<1>3. CASE Resync(old, f)
  BY <1>2, <1>3, ResyncedStart DEF old
<1>4. CASE ~Resync(old, f)
  <2>1. Synced(old, f) = old
    BY <1>4 DEF Synced
  <2>2. Toggle(f) = TRUE
    BY <1>1 DEF Toggle
  <2> QED BY <1>1, <2>1, <2>2, Zenon DEF Expected, old
<1> QED BY <1>3, <1>4

(* A frame that is not taken leaves the session as it was.                 *)
LEMMA RejectedKeeps ==
    ASSUME TypesInv, NEW n \in Node, NEW f \in Frame, NEW s \in Session, Tried(n, f, s), ~Expected(s, f)
    PROVE  session[n] # NoSession /\ s = session[n]
<1>1. s = Synced(Old(n, f), f) /\ Old(n, f) \in Session /\ (session[n] = NoSession => Start(f))
  BY Zenon DEF Tried
<1>2. session[n] # NoSession
  <2> SUFFICES ASSUME session[n] = NoSession PROVE FALSE
    OBVIOUS
  <2>1. Old(n, f) = NewSession(f) /\ Start(f)
    BY <1>1 DEF Old
  <2> QED BY <1>1, <2>1, CreatedStart
<1>3. ~Resync(Old(n, f), f)
  BY <1>1, ResyncedStart
<1> QED BY <1>1, <1>2, <1>3 DEF Synced, Old

LEMMA AcceptTime ==
    ASSUME TypesInv, NEW n \in Node, NEW f \in Frame, canardRxAccept(n, f)
    PROVE  \/ session'[n] = session[n]
           \/ /\ session'[n] \in Session
              /\ session'[n].ts = IF Start(f) THEN Timestamp ELSE session[n].ts
              /\ ~Start(f) => session[n] # NoSession
<1>1. CASE Ignored(n, f)
  BY <1>1 DEF Ignored
<1>2. ASSUME NEW s \in Session, Tried(n, f, s)
      PROVE  \/ session'[n] = session[n]
             \/ /\ session'[n] \in Session
                /\ session'[n].ts = IF Start(f) THEN Timestamp ELSE session[n].ts
                /\ ~Start(f) => session[n] # NoSession
  <2>0. \A x : Becomes(n, x) => session'[n] = x
    BY DEF Becomes, TypesInv
  <2>1. CASE ~Expected(s, f)
    <3>1. s = session[n]
      BY <1>2, <2>1, RejectedKeeps
    <3>2. Becomes(n, s)
      BY <1>2, <2>1, Zenon DEF Tried, Rejected, Starved, Copied, Completed, Dropped
    <3> QED BY <2>0, <3>1, <3>2
  <2>2. CASE Expected(s, f)
    <3>1. Becomes(n, Restarted(s, f)) \/ Becomes(n, Continued(s, f))
      BY <1>2, <2>2, Zenon DEF Tried, Rejected, Starved, Copied, Completed, Dropped
    <3>2. Restarted(s, f) \in Session /\ Continued(s, f) \in Session
      BY NewSessionTypes
    <3>3. Restarted(s, f).ts = StartTime(s, f) /\ Continued(s, f).ts = StartTime(s, f)
      BY DEF Restarted, Continued, SessionOf
    <3>4. session'[n] \in Session /\ session'[n].ts = StartTime(s, f)
      BY <2>0, <3>1, <3>2, <3>3
    <3>5. CASE Start(f)
      BY <3>4, <3>5 DEF StartTime
    <3>6. CASE ~Start(f)
      <4>1. session[n] # NoSession
        BY <1>2, <3>6, Zenon DEF Tried
      <4>2. s = session[n]
        BY <1>2, <3>6, <4>1, Zenon DEF Tried, Synced, Resync, Old
      <4> QED BY <3>4, <3>6, <4>1, <4>2 DEF StartTime
    <3> QED BY <3>5, <3>6
  <2> QED BY <2>1, <2>2
<1> QED BY <1>1, <1>2, StepsOfAccept

LEMMA EarlyTimestamp ==
    ASSUME TypesInv, clock < ClockModulo
    PROVE  Timestamp = clock /\ clock \in Nat
<1>1. clock \in Nat
  BY ClockTypes
<1> QED BY <1>1, Types, OneTurn DEF Timestamp

(* What one arrival does to the memory of its own session.                 *)
LEMMA AcceptTimeAt ==
    ASSUME TypesInv, clock < ClockModulo, NEW n \in Node, NEW f \in Frame, canardRxAccept(n, f),
           TimeAt(n), NEW h \in Heard, h.at = heard[n].at, heard'[n] = Taken(n, f, h), clock' = clock
    PROVE  TimeAt(n)' /\ heard'[n] \in Heard
<1>1. Timestamp = clock /\ clock \in Nat
  BY EarlyTimestamp
<1>2. /\ heard'[n] \in Heard
      /\ heard'[n].at = IF Took(n, f) THEN clock ELSE heard[n].at
  <2>1. /\ Taken(n, f, h) \in Heard
        /\ Taken(n, f, h) = IF Took(n, f) THEN HeardOf(f.nth, clock, h.run, h.intact) ELSE h
    BY <1>1, TakenRecord, Zenon
  <2>2. HeardOf(f.nth, clock, h.run, h.intact).at = clock
    BY DEF HeardOf
  <2> QED BY <2>1, <2>2, Zenon
<1>3. SUFFICES ASSUME session'[n] # NoSession
               PROVE  session'[n].ts = heard'[n].at /\ heard'[n].at <= clock
  BY <1>2 DEF TimeAt
<1>4. CASE session'[n] = session[n]
  BY <1>2, <1>3, <1>4 DEF TimeAt, Took
<1>5. CASE session'[n] # session[n]
  <2>1. /\ session'[n].ts = IF Start(f) THEN Timestamp ELSE session[n].ts
        /\ ~Start(f) => session[n] # NoSession
    BY <1>5, AcceptTime
  <2>2. Took(n, f) <=> Start(f)
    BY <1>5 DEF Took
  <2>3. CASE Start(f)
    BY <1>1, <1>2, <2>1, <2>2, <2>3
  <2>4. CASE ~Start(f)
    BY <1>2, <2>1, <2>2, <2>4 DEF TimeAt
  <2> QED BY <2>3, <2>4
<1> QED BY <1>4, <1>5

EarlyNext == Next /\ clock' < ClockModulo

LEMMA NextTime == MemoryInv /\ TimeInv /\ [EarlyNext]_vars => TimeInv'
<1> SUFFICES ASSUME MemoryInv, TimeInv, [EarlyNext]_vars PROVE TimeInv'
  OBVIOUS
<1>0. TypesInv /\ clock \in Nat /\ heard \in [Node -> Heard] /\ clock < ClockModulo
  BY ClockTypes DEF MemoryInv, TimeInv
<1>1. clock' < ClockModulo
  BY DEF EarlyNext, TimeInv, vars
<1>2. ASSUME NEW n \in Node, Arrive(n) PROVE TimeInv'
  <2> PICK f : f = NextFrame(n)
    OBVIOUS
  <2>1. /\ canardRxAccept(n, f) /\ clock' = clock /\ f \in Frame
        /\ heard' = [heard EXCEPT ![n] = Taken(n, f, Arrival(n, f))]
    <3>1. sender[n].nth \in Transfers /\ Advance(n)
      BY <1>2, Zenon DEF Arrive, Sending
    <3>2. f \in Frame
      BY <1>0, <3>1, AdvanceSteps
    <3> QED BY <1>2, <3>2, Zenon DEF Arrive
  <2>2. heard[n] \in Heard
    BY <1>0
  <2>3. PICK h : h = Arrival(n, f)
    OBVIOUS
  <2>4. h \in Heard /\ h.at = heard[n].at
    BY <2>1, <2>2, <2>3, ArrivalRecord DEF HeardOf
  <2>5. heard' = [heard EXCEPT ![n] = Taken(n, f, h)]
    BY <2>1, <2>3, Zenon
  <2>6. heard'[n] = Taken(n, f, h) /\ \A m \in Node : m # n => heard'[m] = heard[m]
    BY <1>0, <2>5
  <2>7. TimeAt(n)' /\ heard'[n] \in Heard
    BY <1>0, <2>1, <2>4, <2>6, AcceptTimeAt DEF TimeInv
  <2>8. \A m \in Node : m # n => session'[m] = session[m]
    BY <1>0, <2>1, OthersKeepTheirSession
  <2>9. \A m \in Node : TimeAt(m)'
    BY <2>1, <2>6, <2>7, <2>8 DEF TimeInv, TimeAt
  <2>10. heard' \in [Node -> Heard]
    <3>1. Taken(n, f, h) \in Heard
      BY <2>6, <2>7
    <3> QED BY <1>0, <2>5, <3>1
  <2> QED BY <1>1, <2>9, <2>10 DEF TimeInv
<1>3. ASSUME NEW n \in Node, ArriveAgain(n) PROVE TimeInv'
  <2> PICK f : f = again[n]
    OBVIOUS
  <2>1. /\ canardRxAccept(n, f) /\ clock' = clock /\ f \in Frame
        /\ heard' = [heard EXCEPT ![n] = Taken(n, f, @)]
    <3>1. again[n] # NoTransfer
      BY <1>3, Zenon DEF ArriveAgain
    <3>2. f \in Frame
      BY <1>0, <3>1 DEF TypesInv
    <3> QED BY <1>3, <3>2, Zenon DEF ArriveAgain
  <2>3. PICK h : h = heard[n]
    OBVIOUS
  <2>4. h \in Heard /\ h.at = heard[n].at
    BY <1>0, <2>3
  <2>5. heard' = [heard EXCEPT ![n] = Taken(n, f, h)]
    BY <2>1, <2>3, Zenon
  <2>6. heard'[n] = Taken(n, f, h) /\ \A m \in Node : m # n => heard'[m] = heard[m]
    BY <1>0, <2>5
  <2>7. TimeAt(n)' /\ heard'[n] \in Heard
    BY <1>0, <2>1, <2>4, <2>6, AcceptTimeAt DEF TimeInv
  <2>8. \A m \in Node : m # n => session'[m] = session[m]
    BY <1>0, <2>1, OthersKeepTheirSession
  <2>9. \A m \in Node : TimeAt(m)'
    BY <2>1, <2>6, <2>7, <2>8 DEF TimeInv, TimeAt
  <2>10. heard' \in [Node -> Heard]
    <3>1. Taken(n, f, h) \in Heard
      BY <2>6, <2>7
    <3> QED BY <1>0, <2>5, <3>1
  <2> QED BY <1>1, <2>9, <2>10 DEF TimeInv
<1>4. ASSUME NEW n \in Node, Lose(n) \/ SenderRestart(n) PROVE TimeInv'
  <2>1. session' = session /\ clock' = clock
    BY <1>4, Zenon DEF Lose, SenderRestart
  <2>2. PICK h : h = heard[n]
    OBVIOUS
  <2>3. h = HeardOf(h.nth, h.at, h.run, h.intact) /\ h \in Heard
    BY <1>0, <2>2 DEF Heard, HeardOf
  <2>4. PICK x : heard' = [heard EXCEPT ![n] = x] /\ x \in Heard /\ x.at = h.at
    <3>1. CASE Lose(n)
      <4>1. PICK x : x = [h EXCEPT !.run = 0]
        BY Zenon
      <4>2. x = HeardOf(h.nth, h.at, 0, h.intact)
        BY <2>3, <4>1 DEF HeardOf
      <4>3. x \in Heard /\ x.at = h.at
        BY <2>3, <4>2 DEF Heard, HeardOf
      <4>4. heard' = [heard EXCEPT ![n] = x]
        BY <2>2, <3>1, <4>1, Zenon DEF Lose
      <4> QED BY <4>3, <4>4
    <3>2. CASE SenderRestart(n)
      <4>1. PICK x : x = [h EXCEPT !.nth = -TidModulo]
        BY Zenon
      <4>2. x = HeardOf(-TidModulo, h.at, h.run, h.intact)
        BY <2>3, <4>1 DEF HeardOf
      <4>3. x \in Heard /\ x.at = h.at
        BY <2>3, <4>2, Types DEF Heard, HeardOf
      <4>4. heard' = [heard EXCEPT ![n] = x]
        BY <2>2, <3>2, <4>1, Zenon DEF SenderRestart
      <4> QED BY <4>3, <4>4
    <3> QED BY <1>4, <3>1, <3>2
  <2>5. heard' \in [Node -> Heard] /\ \A m \in Node : heard'[m].at = heard[m].at
    BY <1>0, <2>2, <2>4
  <2> QED BY <1>1, <2>1, <2>5 DEF TimeInv, TimeAt
<1>5. ASSUME Subscribe PROVE TimeInv'
  <2>1. \A n \in Node : session'[n] = NoSession /\ heard'[n] = Unheard
    BY <1>5 DEF Subscribe, canardRxSubscribe
  <2>2. Unheard \in Heard
    BY Types DEF Unheard, Heard
  <2>3. heard' \in [Node -> Heard]
    BY <1>5, <2>2 DEF Subscribe
  <2> QED BY <1>1, <2>1, <2>3 DEF TimeInv, TimeAt
<1>6. ASSUME Tick PROVE TimeInv'
  <2>1. session' = session /\ heard' = heard /\ clock' = clock + 1
    BY <1>6 DEF Tick
  <2>2. \A n \in Node : heard[n].at \in Nat
    BY <1>0 DEF Heard
  <2>3. \A n \in Node : heard[n].at <= clock => heard[n].at <= clock + 1
    BY <1>0, <2>2
  <2> QED BY <1>0, <1>1, <2>1, <2>3 DEF TimeInv, TimeAt
<1>7. ASSUME UNCHANGED <<clock, session, heard>> PROVE TimeInv'
  BY <1>7 DEF TimeInv, TimeAt
<1>8. CASE ArriveAnonymous \/ Release \/ OthersTake \/ OthersGive
  BY <1>7, <1>8 DEF ArriveAnonymous, Release, OthersTake, OthersGive
<1>9. CASE UNCHANGED vars
  BY <1>7, <1>9 DEF vars
<1> QED BY <1>2, <1>3, <1>4, <1>5, <1>6, <1>8, <1>9, Zenon DEF EarlyNext, Next

LEMMA EarlyHolds == EarlySpec => [](MemoryInv /\ TimeInv)
<1>1. Init => TimeInv
  <2> SUFFICES ASSUME Init PROVE TimeInv
    OBVIOUS
  <2>1. Unheard \in Heard /\ 0 < ClockModulo
    BY Types DEF Unheard, Heard
  <2>2. heard \in [Node -> Heard] /\ clock = 0 /\ \A n \in Node : session[n] = NoSession
    BY <2>1 DEF Init
  <2> QED BY <2>1, <2>2 DEF TimeInv, TimeAt
<1>2. [EarlyNext]_vars => [Next]_vars
  BY DEF EarlyNext
<1>3. EarlySpec <=> Init /\ [][EarlyNext]_vars
  BY DEF EarlySpec, EarlyNext
<1> QED BY <1>1, <1>2, <1>3, InitMemory, NextMemory, NextTime, PTL

Readmits(n) ==
    /\ Arrive(n) /\ Start(NextFrame(n))
    /\ session[n] # NoSession /\ clock - heard[n].at > TidTimeout
    => session'[n] # session[n]

(***************************************************************************)
(* While the clock has not wrapped, the timeout readmits a sender whatever *)
(* its transfer-ID and whatever state the session was left in.             *)
(***************************************************************************)
THEOREM TimeoutRestartsSession == EarlySpec => TimeoutReadmits
<1>1. MemoryInv /\ TimeInv => \A n \in Node : Readmits(n)
  <2> SUFFICES ASSUME MemoryInv, TimeInv, NEW n \in Node, Arrive(n), Start(NextFrame(n)),
                      session[n] # NoSession, clock - heard[n].at > TidTimeout
               PROVE  session'[n] # session[n]
    BY DEF Readmits
  <2>1. TypesInv /\ clock < ClockModulo /\ heard[n] \in Heard /\ session[n].ts = heard[n].at
    BY DEF MemoryInv, TimeInv, TimeAt
  <2>2. Timestamp = clock /\ clock \in Nat
    BY <2>1, EarlyTimestamp
  <2> PICK f : f = NextFrame(n)
    OBVIOUS
  <2>3. /\ canardRxAccept(n, f) /\ f \in Frame /\ Start(f)
    <3>1. sender[n].nth \in Transfers /\ Advance(n)
      BY Zenon DEF Arrive, Sending
    <3>2. f \in Frame
      BY <2>1, <3>1, AdvanceSteps
    <3> QED BY <3>2, Zenon DEF Arrive
  <2>4. PICK ts : ts = session[n].ts
    OBVIOUS
  <2>5. ts \in Nat /\ clock - ts > TidTimeout
    BY <2>1, <2>4 DEF Heard
  <2>6. ts < clock /\ clock > ts
    BY <2>2, <2>5, Types
  <2>7. TidTimedOut(session[n])
    BY <2>2, <2>4, <2>5, <2>6 DEF TidTimedOut
  <2>8. ~Ignored(n, f)
    BY DEF Ignored
  <2>9. PICK s \in Session : Tried(n, f, s)
    BY <2>1, <2>3, <2>8, StepsOfAccept
  <2>10. Resync(session[n], f) /\ Old(n, f) = session[n] /\ session[n] \in Session
    BY <2>1, <2>3, <2>7 DEF Resync, Old, TypesInv
  <2>11. s = Synced(session[n], f)
    BY <2>9, <2>10, Zenon DEF Tried
  <2>12. Expected(s, f)
    BY <2>3, <2>10, <2>11, ResyncedStart
  <2>13. \A x : Becomes(n, x) => session'[n] = x
    BY <2>1 DEF Becomes, TypesInv
  <2>14. session'[n] = Restarted(s, f) \/ session'[n] = Continued(s, f)
    BY <2>9, <2>12, <2>13, Zenon DEF Tried, Rejected, Starved, Copied, Completed, Dropped
  <2>15. session'[n].ts = clock
    BY <2>2, <2>3, <2>14 DEF Restarted, Continued, SessionOf, StartTime
  <2> QED BY <2>2, <2>4, <2>5, <2>6, <2>15
<1>2. (\A n \in Node : Readmits(n)) => [\A n \in Node :
          /\ Arrive(n) /\ Start(NextFrame(n))
          /\ session[n] # NoSession /\ clock - heard[n].at > TidTimeout
          => session'[n] # session[n]]_vars
  BY Zenon DEF Readmits
<1> QED BY <1>1, <1>2, EarlyHolds, PTL DEF TimeoutReadmits

-----------------------------------------------------------------------------
(* Transfers that arrive intact.  First the arithmetic of transfer-IDs.    *)

LEMMA TidType ==
    ASSUME NEW s \in Sender, NEW k \in Int
    PROVE  TidOf(s, k) \in Nat /\ TidOf(s, k) < TidModulo
<1>1. s.tid \in Int /\ s.nth \in Int
  BY Types DEF Sender
<1> PICK x : x = s.tid - (s.nth - k)
  OBVIOUS
<1>2. x \in Int
  BY <1>1
<1>3. x % TidModulo \in 0 .. TidModulo - 1
  BY <1>2, Types, Quotient
<1> QED BY <1>3, Types DEF TidOf

LEMMA TidNow ==
    ASSUME NEW s \in Sender
    PROVE  TidOf(s, s.nth) = s.tid
<1>1. s.tid \in Nat /\ s.nth \in Int /\ s.tid < TidModulo
  BY Types DEF Sender
<1>2. s.tid - (s.nth - s.nth) = s.tid
  BY <1>1
<1>3. s.tid % TidModulo = s.tid
  BY <1>1, Types, OneTurn
<1> QED BY <1>2, <1>3 DEF TidOf

(* The next transfer of the sender gets the next transfer-ID.              *)
LEMMA TidLater ==
    ASSUME NEW s \in Sender, NEW u, u.nth = s.nth + 1, u.tid = NextTid(s.tid), NEW k \in Int
    PROVE  TidOf(u, k) = TidOf(s, k)
<1> PICK tid : tid = s.tid
  OBVIOUS
<1> PICK nth : nth = s.nth
  OBVIOUS
<1>1. tid \in Int /\ nth \in Int
  BY Types DEF Sender
<1>2. TidOf(u, k) = (((tid + 1) % TidModulo) - ((nth + 1) - k)) % TidModulo
  <2>1. u.tid = (tid + 1) % TidModulo
    BY Zenon DEF NextTid
  <2>2. u.nth = nth + 1
    BY Zenon
  <2>3. TidOf(u, k) = (u.tid - (u.nth - k)) % TidModulo
    BY Zenon DEF TidOf
  <2> QED BY ONLY <2>1, <2>2, <2>3, Zenon
<1> PICK x : x = tid + 1
  OBVIOUS
<1> PICK y : y = -((nth + 1) - k)
  OBVIOUS
<1>3. x \in Int /\ y \in Int /\ x + y = tid - (nth - k)
  BY <1>1
<1>4. (x % TidModulo) \in Int /\ (x % TidModulo) - ((nth + 1) - k) = (x % TidModulo) + y
  <2>1. (x % TidModulo) \in Int
    <3> PICK m : m = TidModulo
      OBVIOUS
    <3>1. m \in Nat /\ m > 1
      BY Types
    <3>2. x % m \in 0 .. m - 1
      BY <1>3, <3>1, Quotient
    <3> QED BY <3>1, <3>2
  <2> PICK z : z = x % TidModulo
    OBVIOUS
  <2> QED BY <1>1, <2>1
<1>5. ((x % TidModulo) + y) % TidModulo = (x + y) % TidModulo
  BY <1>3, Types, Shift
<1> QED BY <1>2, <1>3, <1>4, <1>5 DEF TidOf

(* A session that missed fewer than TidModulo - 2 transfers can tell.      *)
LEMMA TidOfOlder ==
    ASSUME NEW s \in Sender, NEW k \in Int, k < s.nth, s.nth - k < TidModulo - 1
    PROVE  /\ rxComputeTransferIDDifference(TidOf(s, k), s.tid) > 1
           /\ \/ rxComputeTransferIDDifference(NextTid(TidOf(s, k)), s.tid) > 1
              \/ NextTid(TidOf(s, k)) = s.tid
<1> PICK m : m = TidModulo
  OBVIOUS
<1> PICK t : t = s.tid
  OBVIOUS
<1> PICK d : d = s.nth - k
  OBVIOUS
<1>1. m \in Nat /\ m > 1 /\ t \in Nat /\ t < m /\ d \in Nat /\ d > 0 /\ d < m - 1
  <2>1. s.nth \in Int
    BY Types DEF Sender
  <2>2. d \in Int /\ d > 0 /\ d < TidModulo - 1
    BY <2>1
  <2> QED BY <2>2, Types DEF Sender
<1>2. TidOf(s, k) = (t - d) % m
  BY DEF TidOf
<1>3. NextTid(TidOf(s, k)) = ((t - d) + 1) % m
  <2> PICK a : a = t - d
    OBVIOUS
  <2>1. a \in Int /\ 1 \in Int
    BY <1>1
  <2>2. ((a % m) + 1) % m = (a + 1) % m
    BY <1>1, <2>1, Shift
  <2> QED BY <1>2, <2>2 DEF NextTid
<1>4. (((t - d) % m) - t) % m = m - d
  <2> PICK a : a = t - d
    OBVIOUS
  <2> PICK b : b = -t
    OBVIOUS
  <2>1. a \in Int /\ b \in Int /\ a + b = -d
    BY <1>1
  <2>2. ((a % m) + b) % m = (a + b) % m
    BY <1>1, <2>1, Shift, ZenonT(60)
  <2>3. (-d) % m = -d + m
    BY <1>1, OneTurn
  <2>4. a % m \in Int
    BY <1>1, <2>1, Quotient
  <2>5. (a % m) - t = (a % m) + b
    BY <1>1, <2>4
  <2>6. -d + m = m - d
    BY <1>1
  <2> QED BY <2>1, <2>2, <2>3, <2>5, <2>6
<1>5. CASE d = 1
  <2>1. (t - d) + 1 = t /\ t % m = t
    BY <1>1, <1>5, OneTurn
  <2>2. m - d > 1
    BY <1>1, <1>5
  <2> QED BY <1>2, <1>3, <1>4, <2>1, <2>2 DEF rxComputeTransferIDDifference
<1>6. CASE d # 1
  <2> PICK a : a = (t - d) + 1
    OBVIOUS
  <2> PICK b : b = -t
    OBVIOUS
  <2> PICK c : c = 1 - d
    OBVIOUS
  <2>1. a \in Int /\ b \in Int /\ a + b = c /\ c \in Int /\ c < 0 /\ c >= -m
    BY <1>1, <1>6
  <2>2. ((a % m) + b) % m = (a + b) % m
    BY <1>1, <2>1, Shift, ZenonT(60)
  <2>3. c % m = c + m
    BY <1>1, <2>1, OneTurn
  <2>4. c + m > 1 /\ m - d > 1
    BY <1>1
  <2>5. a % m \in Int
    BY <1>1, <2>1, Quotient
  <2>6. (a % m) - t = (a % m) + b
    BY <1>1, <2>5
  <2>7. ((a % m) - t) % m > 1
    BY <2>1, <2>2, <2>3, <2>4, <2>6
  <2> QED BY <1>2, <1>3, <1>4, <2>4, <2>7 DEF rxComputeTransferIDDifference
<1> QED BY <1>5, <1>6

-----------------------------------------------------------------------------
(* Frames that are expected, and what becomes of them.                     *)

LEMMA NextFrameFields ==
    ASSUME NEW n \in Node
    PROVE  /\ NextFrame(n).nth = sender[n].nth /\ NextFrame(n).idx = sender[n].idx
           /\ NextFrame(n).tid = sender[n].tid
BY DEF NextFrame

LEMMA KnownIsExpected ==
    ASSUME TypesInv, TimeInv, NEW n \in Node, TidAt(n), ToggleAt(n), NEW f \in Frame,
           f = NextFrame(n), Start(f), Known(n, f)
    PROVE  Expected(Synced(Old(n, f), f), f)
<1> DEFINE old == session[n]
<1>1. f.nth = sender[n].nth /\ f.idx = sender[n].idx /\ f.tid = sender[n].tid /\ sender[n] \in Sender
  BY NextFrameFields, SenderNth
<1>2. CASE session[n] = NoSession
  BY <1>2, CreatedStart DEF Old
<1>3. ASSUME session[n] # NoSession, Resync(old, f)
      PROVE  Expected(Synced(Old(n, f), f), f)
  <2>1. old \in Session /\ Old(n, f) = old
    BY <1>3 DEF TypesInv, Old
  <2> QED BY <1>3, <2>1, ResyncedStart
<1>4. ASSUME session[n] # NoSession, clock - heard[n].at > TidTimeout
      PROVE  Expected(Synced(Old(n, f), f), f)
  <2>1. old.ts = heard[n].at /\ heard[n].at \in Nat /\ clock \in Nat /\ Timestamp = clock
    BY <1>4, EarlyTimestamp DEF TimeInv, TimeAt, Heard
  <2> PICK at : at = heard[n].at
    OBVIOUS
  <2>2. clock > at
    BY <1>4, <2>1, Types
  <2>3. TidTimedOut(old)
    BY <1>4, <2>1, <2>2 DEF TidTimedOut
  <2> QED BY <1>3, <1>4, <2>3 DEF Resync
<1>5. ASSUME session[n] # NoSession, f.nth - heard[n].nth < TidModulo - 1
      PROVE  Expected(Synced(Old(n, f), f), f)
  <2> PICK k : k = heard[n].nth
    OBVIOUS
  <2> PICK s : s = sender[n]
    OBVIOUS
  <2>1. k \in Int /\ s \in Sender /\ s.nth \in Nat /\ s.nth > 0
    BY <1>1 DEF TimeInv, Heard, Sender
  <2>2. k # -TidModulo
    <3>1. PICK a : a = s.nth
      OBVIOUS
    <3>2. a \in Nat /\ a - k < TidModulo - 1
      BY <1>1, <1>5, <2>1, <3>1
    <3> QED BY <2>1, <3>2, Types
  <2>3. k \in 1 .. s.nth /\ (k = s.nth => s.idx > 1)
    BY <2>2 DEF TidAt
  <2>4. k < s.nth
    BY <1>1, <2>1, <2>3 DEF Start
  <2>5. s.nth - k < TidModulo - 1
    BY <1>1, <1>5
  <2>6. old.tid = IF old.chunks = <<>> THEN NextTid(TidOf(s, k)) ELSE TidOf(s, k)
    BY <1>5, <2>2, Zenon DEF TidAt
  <2>7. /\ rxComputeTransferIDDifference(TidOf(s, k), f.tid) > 1
        /\ \/ rxComputeTransferIDDifference(NextTid(TidOf(s, k)), f.tid) > 1
           \/ NextTid(TidOf(s, k)) = f.tid
    BY <1>1, <2>1, <2>4, <2>5, TidOfOlder
  <2>8. CASE rxComputeTransferIDDifference(old.tid, f.tid) > 1
    BY <1>3, <1>5, <2>8 DEF Resync
  <2>9. CASE ~(rxComputeTransferIDDifference(old.tid, f.tid) > 1) /\ ~Resync(old, f)
    <3>1. old.chunks = <<>> /\ old.tid = f.tid
      BY <2>6, <2>7, <2>9, Zenon
    <3>2. old.toggle = TRUE
      <4>1. Len(old.chunks) = 0 /\ 0 % 2 = 0
        BY <3>1
      <4>2. old.toggle \in BOOLEAN
        BY <1>5, SessionTypes DEF TypesInv
      <4> QED BY <1>5, <4>1, <4>2 DEF ToggleAt
    <3>3. Toggle(f) = TRUE
      <4>1. 1 % 2 = 1
        OBVIOUS
      <4> QED BY <4>1 DEF Start, Toggle
    <3>4. Synced(Old(n, f), f) = old
      BY <1>5, <2>9 DEF Synced, Old
    <3> QED BY <3>1, <3>2, <3>3, <3>4, Zenon DEF Expected
  <2> QED BY <1>3, <1>5, <2>8, <2>9
<1> QED BY <1>2, <1>4, <1>5, Zenon DEF Known

LEMMA RunIsExpected ==
    ASSUME TypesInv, NEW n \in Node, ToggleAt(n), RunAt(n), NEW f \in Frame,
           f = NextFrame(n), ~Start(f), heard[n].run > 0
    PROVE  /\ session[n] # NoSession /\ session[n].chunks # <<>>
           /\ Synced(Old(n, f), f) = session[n]
           /\ Expected(session[n], f)
           /\ session[n].chunks = Prefix(f.nth, f.idx - 1)
           /\ f.idx \in Nat /\ f.idx > 1
<1>1. f.nth = sender[n].nth /\ f.idx = sender[n].idx /\ f.tid = sender[n].tid /\ sender[n].idx \in Nat
  BY NextFrameFields, SenderNth
<1>2. f.idx > 1
  BY <1>1 DEF RunAt, Start
<1>3. InSync(n)
  BY <1>1, <1>2 DEF RunAt
<1>4. /\ session[n] # NoSession /\ session[n].tid = f.tid
      /\ session[n].chunks = Prefix(f.nth, f.idx - 1)
  BY <1>1, <1>3 DEF InSync
<1>5. Len(session[n].chunks) = f.idx - 1 /\ session[n].chunks # <<>>
  <2> PICK c : c = session[n].chunks
    OBVIOUS
  <2> PICK i : i = f.idx - 1
    OBVIOUS
  <2>1. i \in Nat /\ i > 0 /\ c = [k \in 1 .. i |-> <<f.nth, k>>]
    BY <1>1, <1>2, <1>4 DEF Prefix
  <2>2. Len(c) = i
    BY <2>1
  <2>3. c # <<>>
    BY <2>1, <2>2
  <2> QED BY <2>2, <2>3
<1>6. Toggle(f) = session[n].toggle
  <2>1. session[n].toggle \in BOOLEAN
    BY <1>4, SessionTypes DEF TypesInv
  <2>2. session[n].toggle <=> (f.idx - 1) % 2 = 0
    BY <1>4, <1>5 DEF ToggleAt
  <2>3. (f.idx - 1) % 2 = 0 <=> f.idx % 2 = 1
    <3> PICK i : i = f.idx
      OBVIOUS
    <3>1. i \in Nat /\ i > 1
      BY <1>1, <1>2
    <3>2. (i - 1) % 2 = 0 <=> i % 2 = 1
      BY <3>1
    <3> QED BY <3>2
  <2> QED BY <2>1, <2>2, <2>3 DEF Toggle
<1>7. Synced(Old(n, f), f) = session[n]
  BY <1>4 DEF Synced, Old, Resync
<1> QED BY <1>1, <1>2, <1>4, <1>5, <1>6, <1>7, Zenon DEF Expected

(* An expected frame for which there is memory is copied or completes.     *)
LEMMA FoundMemory ==
    ASSUME TypesInv, BufferInv, NEW n \in Node, NEW f \in Frame, NEW s \in Session,
           Tried(n, f, s), Expected(s, f), Start(f) => EnoughMemory(n)
    PROVE  ~(NeedsBuffer(s) /\ Left(n) = 0)
<1>1. heapFree \in Nat /\ extent \in Nat
  BY Types DEF TypesInv
<1>2. CASE Start(f)
  BY <1>1, <1>2 DEF EnoughMemory, NeedsBuffer, Left
<1>3. CASE ~Start(f)
  <2>1. s.chunks # <<>>
    BY <1>3, Zenon DEF Expected
  <2>2. s.buf = extent
    BY <2>1, SyncedBuffer
  <2> QED BY <1>1, <2>2 DEF NeedsBuffer
<1> QED BY <1>2, <1>3

LEMMA CopiedOrDelivered ==
    ASSUME TypesInv, BufferInv, NEW n \in Node, NEW f \in Frame, NEW s \in Session,
           Tried(n, f, s), Expected(s, f), Start(f) => EnoughMemory(n)
    PROVE  /\ ~End(f) => session'[n] = Continued(s, f)
           /\ End(f) /\ (Start(f) \/ CrcResidue(Append(s.chunks, <<f.nth, f.idx>>))) =>
                 delivered'[n] = Append(delivered[n], TransferOf(Append(s.chunks, <<f.nth, f.idx>>), f))
<1>1. ~(NeedsBuffer(s) /\ Left(n) = 0)
  BY FoundMemory
<1>2. ~End(f) => Becomes(n, Continued(s, f))
  BY <1>1, Zenon DEF Tried, Rejected, Starved, Copied, Completed, Dropped
<1>3. ~End(f) => session'[n] = Continued(s, f)
  BY <1>2 DEF Becomes, TypesInv
<1> PICK t : t = TransferOf(Append(s.chunks, <<f.nth, f.idx>>), f)
  OBVIOUS
<1>4. End(f) /\ (Start(f) \/ CrcResidue(Append(s.chunks, <<f.nth, f.idx>>))) =>
         handed' = t /\ delivered' = [delivered EXCEPT ![n] = Append(@, handed')]
  BY <1>1, Zenon DEF Tried, Rejected, Starved, Copied, Completed, Dropped
<1>5. End(f) /\ (Start(f) \/ CrcResidue(Append(s.chunks, <<f.nth, f.idx>>))) =>
         delivered'[n] = Append(delivered[n], t)
  BY <1>4 DEF TypesInv
<1> QED BY <1>3, <1>5

(* The last transfer that was delivered only becomes a later one.          *)
LEMMA LastLater ==
    ASSUME MemoryInv, OrderInv, NEW n \in Node, NEW f \in Frame, canardRxAccept(n, f), clock' = clock,
           Before(n, f.nth) \/ Done(n, f), delivered[n] # <<>>
    PROVE  /\ delivered'[n] # <<>>
           /\ Last(delivered[n]).nth \in Nat /\ Last(delivered'[n]).nth \in Nat
           /\ Last(delivered'[n]).nth >= Last(delivered[n]).nth
<1>0. TypesInv /\ BufferInv /\ DeliveredWhole
  BY DEF MemoryInv, OrderInv
<1> DEFINE d == delivered[n]
           len == Len(d)
<1>1. d \in Seq(Transfer) /\ len \in Nat /\ len > 0 /\ DOMAIN d = 1 .. len
  BY <1>0, EmptySeq, LenProperties DEF TypesInv
<1>2. d[len] \in Transfer /\ Last(d) = d[len]
  BY <1>1, ElementOfSeq DEF Last
<1>3. \A t \in Transfer : t.nth \in Nat
  BY Types DEF Transfer, Anonymous
<1>4. CASE delivered'[n] = d
  BY <1>2, <1>3, <1>4
<1>5. ASSUME NEW t \in Transfer, delivered'[n] = Append(d, t), DeliveredWhole'
      PROVE  /\ delivered'[n] # <<>>
             /\ Last(delivered'[n]).nth \in Nat
             /\ Last(delivered'[n]).nth >= Last(delivered[n]).nth
  <2> PICK e : e = delivered'[n]
    OBVIOUS
  <2>1. /\ e \in Seq(Transfer) /\ Len(e) = len + 1 /\ e[len] = d[len] /\ e[len + 1] = t
        /\ DOMAIN e = 1 .. len + 1
    BY <1>1, <1>5, AppendProperties, LenProperties
  <2>2. \A i \in DOMAIN e : i > 1 => e[i - 1].nth < e[i].nth
    BY <1>5 DEF DeliveredWhole
  <2>3. (len + 1) - 1 = len /\ len + 1 \in DOMAIN e /\ len + 1 > 1
    BY <1>1, <2>1
  <2>4. d[len].nth < t.nth
    BY <2>1, <2>2, <2>3
  <2>5. Last(e) = t
    BY <2>1 DEF Last
  <2>6. e # <<>>
    BY <1>1, <2>1
  <2> PICK a : a = d[len].nth
    OBVIOUS
  <2> PICK b : b = t.nth
    OBVIOUS
  <2>7. a \in Nat /\ b \in Nat /\ a < b
    BY <1>2, <1>3, <2>4
  <2>8. b >= a
    BY <2>7
  <2> QED BY <1>2, <2>5, <2>6, <2>7, <2>8
<1>6. CASE delivered'[n] # d
  <2>1. PICK s \in Session : Tried(n, f, s) /\ Completed(n, f, s)
    <3>1. delivered' # delivered
      BY <1>6
    <3> QED BY <1>0, <3>1, StepsOfAccept, Zenon DEF Ignored, Tried, Rejected, Starved, Copied, Dropped
  <2> PICK t : t = TransferOf(Append(s.chunks, <<f.nth, f.idx>>), f)
    OBVIOUS
  <2>2. handed' = t /\ delivered' = [delivered EXCEPT ![n] = Append(@, handed')]
    BY <2>1, Zenon DEF Completed
  <2>3. t \in Transfer
    <3>1. Append(s.chunks, <<f.nth, f.idx>>) \in Seq(Chunk)
      BY FrameTypes, SessionTypes, AppendProperties
    <3> QED BY <1>0, <3>1, TransferType
  <2>4. delivered'[n] = Append(d, t)
    BY <1>0, <2>2 DEF TypesInv
  <2>5. DeliveredWhole'
    BY <1>0, AcceptOrder
  <2> QED BY <1>2, <1>3, <1>5, <2>3, <2>4, <2>5
<1> QED BY <1>4, <1>6

-----------------------------------------------------------------------------
(* The invariant of intact transfers, one part at a time.                  *)

LEMMA AcceptTid ==
    ASSUME TypesInv, NEW n \in Node, NEW f \in Frame, canardRxAccept(n, f), ToggleAt(n)
    PROVE  /\ ToggleAt(n)'
           /\ \/ session'[n] = session[n]
              \/ /\ session'[n] \in Session
                 /\ ~Start(f) => session[n] # NoSession /\ session[n].tid = f.tid /\ session[n].chunks # <<>>
                 /\ \/ session'[n].chunks = <<>> /\ session'[n].tid = NextTid(f.tid)
                    \/ session'[n].chunks # <<>> /\ session'[n].tid = f.tid
<1>1. CASE session'[n] = session[n]
  BY <1>1 DEF ToggleAt
<1>2. CASE session'[n] # session[n]
  <2>1. PICK s \in Session : Tried(n, f, s)
    <3>1. ~Ignored(n, f)
      BY <1>2 DEF Ignored
    <3> QED BY <3>1, StepsOfAccept
  <2>2. \A x : Becomes(n, x) => session'[n] = x
    BY DEF Becomes, TypesInv
  <2>3. Expected(s, f)
    <3> SUFFICES ASSUME ~Expected(s, f) PROVE FALSE
      OBVIOUS
    <3>1. s = session[n]
      BY <2>1, RejectedKeeps
    <3>2. Becomes(n, s)
      BY <2>1, Zenon DEF Tried, Rejected, Starved, Copied, Completed, Dropped
    <3> QED BY <1>2, <2>2, <3>1, <3>2
  <2>4. session'[n] = Restarted(s, f) \/ session'[n] = Continued(s, f)
    BY <2>1, <2>2, <2>3, Zenon DEF Tried, Rejected, Starved, Copied, Completed, Dropped
  <2>5. s.tid = f.tid /\ (Start(f) <=> s.chunks = <<>>)
    BY <2>3, Zenon DEF Expected
  <2>6. ~Start(f) => session[n] # NoSession /\ session[n] = s
    BY <2>1, Zenon DEF Tried, Synced, Resync, Old
  <2>7. s.toggle \in BOOLEAN /\ s.chunks \in Seq(Chunk) /\ (s.toggle <=> Len(s.chunks) % 2 = 0)
    <3>1. s.toggle \in BOOLEAN /\ s.chunks \in Seq(Chunk)
      BY SessionTypes
    <3>2. CASE Start(f)
      <4>1. Len(s.chunks) = 0 /\ 0 % 2 = 0
        BY <2>5, <3>2
      <4>2. Toggle(f) = s.toggle
        BY <2>3, Zenon DEF Expected
      <4>3. 1 % 2 = 1
        OBVIOUS
      <4>4. Toggle(f) = TRUE
        BY <3>2, <4>3 DEF Start, Toggle
      <4> QED BY <3>1, <4>1, <4>2, <4>4
    <3>3. CASE ~Start(f)
      BY <2>6, <3>1, <3>3 DEF ToggleAt
    <3> QED BY <3>1, <3>2, <3>3
  <2>8. ~Start(f) => session[n] # NoSession /\ session[n].tid = f.tid /\ session[n].chunks # <<>>
    BY <2>5, <2>6
  <2>9. CASE session'[n] = Restarted(s, f)
    <3>1. session'[n] = SessionOf(NextTid(f.tid), TRUE, <<>>, 0, StartTime(s, f))
      BY <2>5, <2>9 DEF Restarted
    <3>2. session'[n] \in Session
      BY <2>9, NewSessionTypes
    <3>3. session'[n].chunks = <<>> /\ session'[n].tid = NextTid(f.tid) /\ session'[n].toggle = TRUE
      BY <3>1 DEF SessionOf
    <3>4. Len(session'[n].chunks) = 0 /\ 0 % 2 = 0
      BY <3>3
    <3> QED BY <2>8, <3>2, <3>3, <3>4 DEF ToggleAt
  <2>10. CASE session'[n] = Continued(s, f)
    <3> PICK c : c = Append(s.chunks, <<f.nth, f.idx>>)
      OBVIOUS
    <3>1. c # <<>> /\ Len(c) = Len(s.chunks) + 1 /\ Len(s.chunks) \in Nat
      BY <2>7, FrameTypes, AppendProperties, LenProperties
    <3>2. session'[n] \in Session
      BY <2>10, NewSessionTypes
    <3>3. session'[n].chunks = c /\ session'[n].tid = f.tid /\ session'[n].toggle = ~s.toggle
      BY <2>5, <2>10 DEF Continued, SessionOf
    <3>4. Len(c) % 2 = 0 <=> ~(Len(s.chunks) % 2 = 0)
      <4> PICK k : k = Len(s.chunks)
        OBVIOUS
      <4>1. k \in Nat /\ Len(c) = k + 1
        BY <3>1
      <4>2. (k + 1) % 2 = 0 <=> ~(k % 2 = 0)
        BY <4>1, Parity
      <4> QED BY <4>1, <4>2
    <3>5. session'[n].toggle <=> Len(session'[n].chunks) % 2 = 0
      BY <2>7, <3>3, <3>4
    <3>6. ToggleAt(n)'
      BY <3>5 DEF ToggleAt
    <3> QED BY <2>8, <3>1, <3>2, <3>3, <3>6
  <2> QED BY <2>4, <2>9, <2>10
<1> QED BY <1>1, <1>2

(* u is the sender after the step.                                         *)
LEMMA TidStep ==
    ASSUME TypesInv, NEW n \in Node, NEW f \in Frame, canardRxAccept(n, f), clock \in Nat,
           TidAt(n), ToggleAt(n), NEW h \in Heard, h.nth = heard[n].nth, heard'[n] = Taken(n, f, h),
           NEW u \in Sender, sender'[n] = u,
           \A k \in Int : TidOf(u, k) = TidOf(sender[n], k),
           TidOf(u, f.nth) = f.tid, f.nth \in 1 .. u.nth, f.nth = u.nth => u.idx > 1,
           heard[n].nth # -TidModulo =>
               heard[n].nth \in 1 .. u.nth /\ (heard[n].nth = u.nth => u.idx > 1)
    PROVE  TidAt(n)'
<1>1. /\ Taken(n, f, h) = IF Took(n, f) THEN HeardOf(f.nth, clock, h.run, h.intact) ELSE h
      /\ HeardOf(f.nth, clock, h.run, h.intact).nth = f.nth
  BY TakenRecord, Zenon DEF HeardOf
<1>2. heard'[n].nth = IF Took(n, f) THEN f.nth ELSE heard[n].nth
  BY <1>1, Zenon
<1>3. /\ \/ session'[n] = session[n]
         \/ /\ session'[n] \in Session
            /\ ~Start(f) => session[n] # NoSession /\ session[n].tid = f.tid /\ session[n].chunks # <<>>
            /\ \/ session'[n].chunks = <<>> /\ session'[n].tid = NextTid(f.tid)
               \/ session'[n].chunks # <<>> /\ session'[n].tid = f.tid
  BY AcceptTid, Zenon
<1> PICK k : k = heard[n].nth
  OBVIOUS
<1>4. k \in Int
  BY DEF Heard
<1>5. TidOf(u, k) = TidOf(sender[n], k)
  BY <1>4
<1>6. CASE Took(n, f)
  <2>1. heard'[n].nth = f.nth /\ session'[n] # session[n]
    BY <1>2, <1>6 DEF Took
  <2>2. session'[n].tid = IF session'[n].chunks = <<>> THEN NextTid(TidOf(u, f.nth)) ELSE TidOf(u, f.nth)
    BY <1>3, <2>1
  <2> QED BY <2>1, <2>2 DEF TidAt
<1>7. CASE ~Took(n, f)
  <2>1. heard'[n].nth = k
    BY <1>2, <1>7
  <2> SUFFICES ASSUME k # -TidModulo, session'[n] # NoSession
               PROVE  session'[n].tid = IF session'[n].chunks = <<>> THEN NextTid(TidOf(u, k)) ELSE TidOf(u, k)
    BY <2>1 DEF TidAt
  <2>2. session[n] # NoSession =>
           session[n].tid = IF session[n].chunks = <<>> THEN NextTid(TidOf(u, k)) ELSE TidOf(u, k)
    BY <1>5 DEF TidAt
  <2>3. CASE session'[n] = session[n]
    BY <2>2, <2>3
  <2>4. CASE session'[n] # session[n]
    <3>1. ~Start(f)
      BY <1>7, <2>4 DEF Took
    <3>2. f.tid = TidOf(u, k)
      BY <1>3, <2>2, <2>4, <3>1
    <3> QED BY <1>3, <2>4, <3>2
  <2> QED BY <2>3, <2>4
<1> QED BY <1>6, <1>7

LEMMA PrefixGrows ==
    ASSUME NEW nth \in Transfers, NEW i \in Nat
    PROVE  /\ Prefix(nth, i) \in Seq(Chunk) /\ Len(Prefix(nth, i)) = i
           /\ Append(Prefix(nth, i), <<nth, i + 1>>) = Prefix(nth, i + 1)
           /\ Prefix(nth, 0) = <<>>
<1>1. \A j \in Nat : Prefix(nth, j) \in Seq(Chunk) /\ Len(Prefix(nth, j)) = j
  <2> SUFFICES ASSUME NEW j \in Nat PROVE Prefix(nth, j) \in Seq(Chunk) /\ Len(Prefix(nth, j)) = j
    OBVIOUS
  <2>1. \A k \in 1 .. j : <<nth, k>> \in Chunk
    BY DEF Chunk
  <2>2. Prefix(nth, j) \in [1 .. j -> Chunk]
    BY <2>1, Zenon DEF Prefix
  <2> PICK p : p = Prefix(nth, j)
    OBVIOUS
  <2>3. p \in Seq(Chunk) /\ Len(p) = j
    BY <2>2
  <2> QED BY <2>3
<1> PICK a : a = Append(Prefix(nth, i), <<nth, i + 1>>)
  OBVIOUS
<1> PICK b : b = Prefix(nth, i + 1)
  OBVIOUS
<1> PICK c : c = Prefix(nth, i)
  OBVIOUS
<1>2. i + 1 \in Nat /\ i + 1 \in 1 .. i + 1 /\ <<nth, i + 1>> \in Chunk
  BY DEF Chunk
<1>3. c \in Seq(Chunk) /\ Len(c) = i /\ b \in Seq(Chunk) /\ Len(b) = i + 1
  BY <1>1, <1>2
<1>4. /\ a \in Seq(Chunk) /\ Len(a) = i + 1 /\ a[i + 1] = <<nth, i + 1>>
      /\ \A k \in 1 .. i : a[k] = c[k]
  BY <1>2, <1>3, AppendProperties
<1>5. (\A k \in 1 .. i : c[k] = <<nth, k>>) /\ (\A k \in 1 .. i + 1 : b[k] = <<nth, k>>)
  BY DEF Prefix
<1>6. \A k \in 1 .. i + 1 : k = i + 1 \/ k \in 1 .. i
  OBVIOUS
<1>7. \A k \in 1 .. i + 1 : a[k] = b[k]
  BY <1>4, <1>5, <1>6, Zenon
<1>8. a = b
  BY <1>3, <1>4, <1>7, SeqEqual
<1>9. Prefix(nth, 0) = <<>>
  <2>1. Prefix(nth, 0) \in Seq(Chunk) /\ Len(Prefix(nth, 0)) = 0
    BY <1>1
  <2> PICK p : p = Prefix(nth, 0)
    OBVIOUS
  <2>2. p \in Seq(Chunk) /\ Len(p) = 0
    BY <2>1
  <2>3. p = <<>>
    BY <2>2, EmptySeq
  <2> QED BY <2>3
<1> QED BY <1>3, <1>8, <1>9

LEMMA CountedCases ==
    ASSUME NEW n, NEW f
    PROVE  /\ Start(f) /\ Known(n, f) /\ EnoughMemory(n) => Counted(n, f) = 1
           /\ ~Start(f) /\ heard[n].run > 0 => Counted(n, f) = f.idx
           /\ Start(f) /\ ~(Known(n, f) /\ EnoughMemory(n)) => Counted(n, f) = 0
           /\ ~Start(f) /\ ~(heard[n].run > 0) => Counted(n, f) = 0
BY Zenon DEF Counted

LEMMA CountedIsTaken ==
    ASSUME MemoryInv, TimeInv, NEW n \in Node, TidAt(n), ToggleAt(n), RunAt(n), NEW f \in Frame,
           f = NextFrame(n), canardRxAccept(n, f), Counted(n, f) > 0
    PROVE  \E s \in Session :
              /\ Tried(n, f, s) /\ Expected(s, f)
              /\ Start(f) => EnoughMemory(n)
              /\ Append(s.chunks, <<f.nth, f.idx>>) = Prefix(f.nth, f.idx)
              /\ Counted(n, f) = f.idx
<1>0. TypesInv /\ BufferInv
  BY DEF MemoryInv
<1>1. f.nth \in Transfers /\ f.idx \in Nat
  BY DEF Frame
<1>2. CASE Start(f)
  <2>1. f.idx = 1 /\ Known(n, f) /\ EnoughMemory(n) /\ Counted(n, f) = 1
    <3>1. ~(Counted(n, f) = 0)
      OBVIOUS
    <3>2. Known(n, f) /\ EnoughMemory(n)
      BY <1>2, <3>1, CountedCases, Zenon
    <3> QED BY <1>2, <3>2, CountedCases, Zenon DEF Start
  <2>2. ~Ignored(n, f)
    <3>1. heapFree \in Nat /\ extent \in Nat
      BY <1>0, Types DEF TypesInv
    <3>2. session[n] = NoSession => heapFree > 0
      BY <2>1, <3>1 DEF EnoughMemory
    <3> QED BY <1>2, <3>2 DEF Ignored
  <2>3. PICK s \in Session : Tried(n, f, s)
    BY <1>0, <2>2, StepsOfAccept
  <2>4. s = Synced(Old(n, f), f)
    BY <2>3, Zenon DEF Tried
  <2>5. Expected(s, f)
    BY <1>0, <1>2, <2>1, <2>4, KnownIsExpected
  <2>6. s.chunks = <<>>
    BY <1>2, <2>5, Zenon DEF Expected
  <2>7. Append(<<>>, <<f.nth, 1>>) = Prefix(f.nth, 1)
    <3>1. /\ Append(Prefix(f.nth, 0), <<f.nth, 0 + 1>>) = Prefix(f.nth, 0 + 1)
          /\ Prefix(f.nth, 0) = <<>>
      <4>1. 0 \in Nat
        OBVIOUS
      <4> QED BY <1>1, <4>1, PrefixGrows, Zenon
    <3>2. 0 + 1 = 1
      OBVIOUS
    <3> QED BY <3>1, <3>2, Zenon
  <2>8. Append(s.chunks, <<f.nth, f.idx>>) = Prefix(f.nth, f.idx)
    BY <2>1, <2>6, <2>7, Zenon
  <2>9. Counted(n, f) = f.idx
    BY <2>1
  <2> QED BY <2>1, <2>3, <2>5, <2>8, <2>9, Zenon
<1>3. CASE ~Start(f)
  <2>1. heard[n].run > 0 /\ Counted(n, f) = f.idx
    <3>1. ~(Counted(n, f) = 0)
      OBVIOUS
    <3> QED BY <1>3, <3>1, CountedCases, Zenon
  <2>2. /\ session[n] # NoSession
        /\ Synced(Old(n, f), f) = session[n]
        /\ Expected(session[n], f)
        /\ session[n].chunks = Prefix(f.nth, f.idx - 1)
        /\ f.idx > 1
    BY <1>0, <1>3, <2>1, RunIsExpected
  <2>3. ~Ignored(n, f)
    BY <2>2 DEF Ignored
  <2>4. PICK s \in Session : Tried(n, f, s)
    BY <1>0, <2>3, StepsOfAccept
  <2>5. s = session[n]
    BY <2>2, <2>4, Zenon DEF Tried
  <2>6. Append(s.chunks, <<f.nth, f.idx>>) = Prefix(f.nth, f.idx)
    <3> PICK i : i = f.idx - 1
      OBVIOUS
    <3> PICK nth : nth = f.nth
      OBVIOUS
    <3>1. i \in Nat /\ i + 1 = f.idx /\ nth \in Transfers
      BY <1>1, <2>2
    <3>2. Append(Prefix(nth, i), <<nth, i + 1>>) = Prefix(nth, i + 1)
      BY <3>1, PrefixGrows
    <3>3. s.chunks = Prefix(nth, i)
      BY <2>2, <2>5, Zenon
    <3> QED BY <3>1, <3>2, <3>3, Zenon
  <2> QED BY <1>3, <2>1, <2>2, <2>4, <2>5, <2>6, Zenon
<1> QED BY <1>2, <1>3

LEMMA ArriveFacts ==
    ASSUME MemoryInv, TimeInv, NEW n \in Node, Arrive(n), NEW f, f = NextFrame(n)
    PROVE  /\ f \in Frame /\ canardRxAccept(n, f)
           /\ clock' = clock /\ extent' = extent /\ again'[n] = f
           /\ sender'[n] \in Sender
           /\ End(f) => sender'[n] = [nth |-> f.nth + 1, idx |-> 1, tid |-> NextTid(f.tid)]
           /\ ~End(f) => sender'[n] = [nth |-> f.nth, idx |-> f.idx + 1, tid |-> f.tid]
           /\ \E h \in Heard : h.nth = heard[n].nth /\ heard'[n] = Taken(n, f, h)
           /\ heard'[n].run = Counted(n, f) /\ Counted(n, f) \in Nat
           /\ heard'[n].intact = IF End(f) /\ Counted(n, f) > 0 THEN f.nth ELSE heard[n].intact
<1>0. TypesInv /\ heard \in [Node -> Heard] /\ heard[n] \in Heard
  BY DEF MemoryInv, TimeInv
<1>1. /\ sender[n].nth \in Transfers /\ Advance(n)
      /\ canardRxAccept(n, f) /\ again' = [again EXCEPT ![n] = f]
      /\ clock' = clock /\ extent' = extent
      /\ heard' = [heard EXCEPT ![n] = Taken(n, f, Arrival(n, f))]
  BY Zenon DEF Arrive, Sending
<1>2. /\ f \in Frame /\ f.nth = sender[n].nth /\ f.idx = sender[n].idx /\ f.tid = sender[n].tid
      /\ sender'[n] \in Sender
      /\ End(f) => sender'[n] = [nth |-> f.nth + 1, idx |-> 1, tid |-> NextTid(f.tid)]
      /\ ~End(f) => sender'[n] = [nth |-> f.nth, idx |-> f.idx + 1, tid |-> f.tid]
  <2>1. f.nth = sender[n].nth /\ f.idx = sender[n].idx /\ f.tid = sender[n].tid
    BY NextFrameFields
  <2>2. /\ f \in Frame /\ sender' \in [Node -> Sender]
        /\ End(f) => sender'[n] = [nth |-> sender[n].nth + 1, idx |-> 1, tid |-> NextTid(sender[n].tid)]
        /\ ~End(f) => sender'[n] = [nth |-> sender[n].nth, idx |-> sender[n].idx + 1, tid |-> sender[n].tid]
    BY <1>0, <1>1, AdvanceSteps, Zenon
  <2>3. sender'[n] \in Sender
    BY <2>2
  <2> QED BY <2>1, <2>2, <2>3, Zenon
<1>3. again'[n] = f
  BY <1>0, <1>1 DEF TypesInv
<1> PICK h : h = Arrival(n, f)
  OBVIOUS
<1> PICK run : run = Counted(n, f)
  OBVIOUS
<1> PICK intact : intact = IF End(f) /\ Counted(n, f) > 0 THEN f.nth ELSE heard[n].intact
  OBVIOUS
<1>4. run \in Nat /\ h \in Heard /\ h = HeardOf(heard[n].nth, heard[n].at, run, intact)
  BY <1>0, <1>2, ArrivalRecord, Zenon
<1>5. h.nth = heard[n].nth /\ h.run = run /\ h.intact = intact
  BY <1>4 DEF HeardOf
<1>6. heard'[n] = Taken(n, f, h)
  <2>1. heard' = [heard EXCEPT ![n] = Taken(n, f, h)]
    BY <1>1, Zenon
  <2> QED BY <1>0, <2>1
<1>7. Taken(n, f, h) = IF Took(n, f) THEN HeardOf(f.nth, clock, run, intact) ELSE h
  <2>1. clock \in Nat
    BY <1>0, ClockTypes
  <2> QED BY <1>2, <1>4, <1>5, <2>1, TakenRecord, Zenon
<1>8. HeardOf(f.nth, clock, run, intact).run = run /\ HeardOf(f.nth, clock, run, intact).intact = intact
  BY DEF HeardOf
<1>9. heard'[n].run = run /\ heard'[n].intact = intact
  BY <1>5, <1>6, <1>7, <1>8, Zenon
<1> QED BY <1>1, <1>2, <1>3, <1>4, <1>5, <1>6, <1>9, Zenon

LEMMA ArriveTid ==
    ASSUME MemoryInv, TimeInv, NEW n \in Node, TidAt(n), ToggleAt(n), RunAt(n), Arrive(n)
    PROVE  TidAt(n)' /\ ToggleAt(n)'
<1> PICK f : f = NextFrame(n)
  OBVIOUS
<1> PICK s : s = sender[n]
  OBVIOUS
<1> PICK u : u = sender'[n]
  OBVIOUS
<1>0. /\ f \in Frame /\ canardRxAccept(n, f) /\ sender'[n] \in Sender
      /\ End(f) => sender'[n] = [nth |-> f.nth + 1, idx |-> 1, tid |-> NextTid(f.tid)]
      /\ ~End(f) => sender'[n] = [nth |-> f.nth, idx |-> f.idx + 1, tid |-> f.tid]
      /\ \E h \in Heard : h.nth = heard[n].nth /\ heard'[n] = Taken(n, f, h)
  BY ArriveFacts
<1>1. /\ f \in Frame /\ canardRxAccept(n, f) /\ u \in Sender
      /\ End(f) => u = [nth |-> f.nth + 1, idx |-> 1, tid |-> NextTid(f.tid)]
      /\ ~End(f) => u = [nth |-> f.nth, idx |-> f.idx + 1, tid |-> f.tid]
      /\ \E h \in Heard : h.nth = heard[n].nth /\ heard'[n] = Taken(n, f, h)
  BY <1>0, Zenon
<1>2. TypesInv /\ s \in Sender /\ clock \in Nat /\ heard[n] \in Heard
  BY ClockTypes DEF MemoryInv, TypesInv, TimeInv
<1>3. s.nth = f.nth /\ s.idx = f.idx /\ s.tid = f.tid /\ f.idx > 0
  BY NextFrameFields DEF RunAt
<1> PICK a : a = f.nth
  OBVIOUS
<1>4. /\ a \in Nat /\ a + 1 \in Nat /\ a > 0 /\ f.idx \in Nat
      /\ a \in 1 .. a /\ a \in 1 .. a + 1 /\ a # a + 1
      /\ f.idx + 1 > 1
  <2>1. f.nth \in Nat /\ f.nth > 0 /\ f.idx \in Nat
    BY <1>1, FrameTypes, Zenon
  <2> PICK i : i = f.idx
    OBVIOUS
  <2>2. a \in Nat /\ a > 0 /\ i \in Nat /\ i > 0
    BY <1>3, <2>1
  <2>3. i + 1 > 1 /\ a + 1 \in Nat /\ a \in 1 .. a /\ a \in 1 .. a + 1 /\ a # a + 1
    BY <2>2
  <2> QED BY <2>2, <2>3
<1>5. /\ End(f) => u.nth = s.nth + 1 /\ u.tid = NextTid(s.tid)
      /\ ~End(f) => u.nth = s.nth /\ u.tid = s.tid /\ u.idx = s.idx + 1
  BY <1>1, <1>3
<1>6. ASSUME NEW k \in Int PROVE TidOf(u, k) = TidOf(s, k)
  <2>1. CASE End(f)
    BY <1>2, <1>5, <2>1, TidLater
  <2>2. CASE ~End(f)
    BY <1>5, <2>2, Zenon DEF TidOf
  <2> QED BY <2>1, <2>2
<1>7. TidOf(u, f.nth) = f.tid
  <2>1. TidOf(s, s.nth) = s.tid
    BY <1>2, TidNow
  <2>2. f.nth \in Int
    BY <1>4
  <2> QED BY <1>3, <1>6, <2>1, <2>2
<1>8. f.nth \in 1 .. u.nth /\ (f.nth = u.nth => u.idx > 1)
  BY <1>3, <1>4, <1>5
<1>9. heard[n].nth # -TidModulo =>
         heard[n].nth \in 1 .. u.nth /\ (heard[n].nth = u.nth => u.idx > 1)
  <2> SUFFICES ASSUME heard[n].nth # -TidModulo
               PROVE  heard[n].nth \in 1 .. u.nth /\ (heard[n].nth = u.nth => u.idx > 1)
    OBVIOUS
  <2> PICK k : k = heard[n].nth
    OBVIOUS
  <2>1. k \in 1 .. a /\ a \in Nat
    BY <1>3, <1>4 DEF TidAt
  <2>2. k \in 1 .. a + 1 /\ k # a + 1
    BY <2>1
  <2>3. CASE End(f)
    BY <1>3, <1>5, <2>2, <2>3
  <2>4. CASE ~End(f)
    BY <1>3, <1>4, <1>5, <2>1, <2>4
  <2> QED BY <2>3, <2>4
<1> PICK h \in Heard : h.nth = heard[n].nth /\ heard'[n] = Taken(n, f, h)
  BY <1>1
<1>10. TidAt(n)'
  BY <1>1, <1>2, <1>6, <1>7, <1>8, <1>9, TidStep
<1>11. ToggleAt(n)'
  BY <1>1, <1>2, AcceptTid
<1> QED BY <1>10, <1>11

LEMMA ContinuedFields ==
    ASSUME NEW s, NEW f
    PROVE  /\ Continued(s, f).tid = s.tid
           /\ Continued(s, f).chunks = Append(s.chunks, <<f.nth, f.idx>>)
           /\ Continued(s, f).ts = StartTime(s, f)
BY DEF Continued, SessionOf

LEMMA ArriveRun ==
    ASSUME MemoryInv, TimeInv, NEW n \in Node, TidAt(n), ToggleAt(n), RunAt(n), Arrive(n)
    PROVE  RunAt(n)'
<1> PICK f : f = NextFrame(n)
  OBVIOUS
<1> PICK u : u = sender'[n]
  OBVIOUS
<1>1. /\ f \in Frame /\ canardRxAccept(n, f) /\ clock' = clock
      /\ End(f) => u = [nth |-> f.nth + 1, idx |-> 1, tid |-> NextTid(f.tid)]
      /\ ~End(f) => u = [nth |-> f.nth, idx |-> f.idx + 1, tid |-> f.tid]
      /\ heard'[n].run = Counted(n, f) /\ Counted(n, f) \in Nat
      /\ again'[n] = f
  BY ArriveFacts, Zenon
<1>2. TypesInv /\ BufferInv
  BY DEF MemoryInv
<1>3. f.idx = sender[n].idx /\ f.idx > 0 /\ f.idx \in Nat
  BY <1>1, NextFrameFields, FrameTypes DEF RunAt
<1>4. CASE End(f)
  <2>1. u.idx = 1
    BY <1>1, <1>4
  <2> QED BY <1>1, <1>3, <2>1 DEF RunAt
<1>5. CASE ~End(f)
  <2>1. u.nth = f.nth /\ u.idx = f.idx + 1 /\ u.tid = f.tid
    BY <1>1, <1>5
  <2>2. u.idx > 0
    BY <1>3, <2>1
  <2> SUFFICES ASSUME heard'[n].run > 0
               PROVE  heard'[n].run = u.idx - 1 /\ InSync(n)'
    BY <1>1, <1>3, <2>2 DEF RunAt
  <2>3. PICK s \in Session :
              /\ Tried(n, f, s) /\ Expected(s, f)
              /\ Start(f) => EnoughMemory(n)
              /\ Append(s.chunks, <<f.nth, f.idx>>) = Prefix(f.nth, f.idx)
              /\ Counted(n, f) = f.idx
    <3>1. Counted(n, f) > 0
      BY <1>1
    <3> QED BY <1>1, <3>1, CountedIsTaken
  <2>4. session'[n] = Continued(s, f)
    <3>1. Tried(n, f, s) /\ Expected(s, f) /\ (Start(f) => EnoughMemory(n))
      BY <2>3
    <3> HIDE DEF Tried, Expected, EnoughMemory
    <3>2. ~End(f) => session'[n] = Continued(s, f)
      BY <1>1, <1>2, <3>1, CopiedOrDelivered, Zenon
    <3> QED BY <1>5, <3>2
  <2>5. s.tid = f.tid
    BY <2>3, Zenon DEF Expected
  <2>6. session'[n] \in Session /\ session'[n] # NoSession
    <3>1. Continued(s, f) \in Session
      BY <1>1, <1>2, NewSessionTypes, Zenon
    <3> QED BY <2>4, <3>1, Types, Zenon
  <2>7. session'[n].tid = u.tid
    BY <2>1, <2>4, <2>5, ContinuedFields
  <2>8. f.idx = u.idx - 1
    BY <1>3, <2>1
  <2>9. session'[n].chunks = Prefix(u.nth, u.idx - 1)
    BY <2>1, <2>3, <2>4, <2>8, ContinuedFields, ZenonT(60)
  <2>10. u.idx = 2 => session'[n].ts = Timestamp'
    <3> SUFFICES ASSUME u.idx = 2 PROVE session'[n].ts = Timestamp'
      OBVIOUS
    <3>1. Start(f)
      BY <1>3, <2>1 DEF Start
    <3>2. session'[n].ts = StartTime(s, f)
      BY <2>4, ContinuedFields, Zenon
    <3>3. StartTime(s, f) = Timestamp
      BY <3>1 DEF StartTime
    <3> QED BY <1>1, <3>2, <3>3 DEF Timestamp
  <2>11. heard'[n].run = u.idx - 1
    BY <1>1, <2>3, <2>8
  <2> QED BY <2>6, <2>7, <2>9, <2>10, <2>11 DEF InSync
<1> QED BY <1>4, <1>5

LEMMA WholePrefix ==
    ASSUME NEW nth \in Transfers
    PROVE  CrcResidue(Prefix(nth, Frames[nth]))
<1>1. Frames[nth] \in Nat \ {0}
  BY Types
<1>2. 1 \in 1 .. Frames[nth]
  BY <1>1
<1>3. Prefix(nth, Frames[nth])[1] = <<nth, 1>>
  BY <1>2 DEF Prefix
<1>4. Prefix(nth, Frames[nth])[1][1] = nth
  BY <1>3
<1> QED BY <1>4, Zenon DEF CrcResidue, Prefix

LEMMA ArriveIntact ==
    ASSUME MemoryInv, TimeInv, OrderInv, NEW n \in Node, TidAt(n), ToggleAt(n), RunAt(n), IntactAt(n),
           Arrive(n)
    PROVE  IntactAt(n)'
<1> PICK f : f = NextFrame(n)
  OBVIOUS
<1> PICK d : d = delivered[n]
  OBVIOUS
<1>1. /\ f \in Frame /\ canardRxAccept(n, f) /\ clock' = clock /\ Counted(n, f) \in Nat
      /\ heard'[n].intact = IF End(f) /\ Counted(n, f) > 0 THEN f.nth ELSE heard[n].intact
  BY ArriveFacts
<1>2. TypesInv /\ BufferInv /\ d \in Seq(Transfer) /\ f.nth = sender[n].nth
  BY NextFrameFields DEF MemoryInv, TypesInv
<1>3. Before(n, f.nth)
  BY <1>2 DEF OrderInv, OrderAt
<1>4. CASE End(f) /\ Counted(n, f) > 0
  <2>1. heard'[n].intact = f.nth
    BY <1>1, <1>4
  <2> PICK s \in Session :
              /\ Tried(n, f, s) /\ Expected(s, f)
              /\ Start(f) => EnoughMemory(n)
              /\ Append(s.chunks, <<f.nth, f.idx>>) = Prefix(f.nth, f.idx)
              /\ Counted(n, f) = f.idx
    BY <1>1, <1>4, CountedIsTaken
  <2> PICK chunks : chunks = Append(s.chunks, <<f.nth, f.idx>>)
    OBVIOUS
  <2>2. CrcResidue(chunks)
    <3>1. f.nth \in Transfers /\ f.idx = Frames[f.nth]
      BY <1>1, <1>4 DEF Frame, End
    <3>2. chunks = Prefix(f.nth, Frames[f.nth])
      BY <3>1
    <3> QED BY <3>1, <3>2, WholePrefix
  <2> PICK t : t = TransferOf(chunks, f)
    OBVIOUS
  <2>3. t \in Transfer
    <3>1. chunks \in Seq(Chunk)
      BY <1>1, FrameTypes, SessionTypes, AppendProperties
    <3> QED BY <1>1, <1>2, <3>1, TransferType
  <2>4. t.nth = f.nth
    BY DEF TransferOf
  <2>5. delivered'[n] = Append(d, t)
    <3>1. Tried(n, f, s) /\ Expected(s, f) /\ (Start(f) => EnoughMemory(n))
      OBVIOUS
    <3>2. End(f) /\ (Start(f) \/ CrcResidue(chunks)) =>
              delivered'[n] = Append(delivered[n], TransferOf(chunks, f))
      BY <1>1, <1>2, <3>1, CopiedOrDelivered, Zenon
    <3> QED BY <1>4, <2>2, <3>2
  <2>6. Last(delivered'[n]) = t /\ delivered'[n] # <<>>
    <3> PICK e : e = delivered'[n]
      OBVIOUS
    <3>0. d \in Seq(Transfer) /\ e = Append(d, t)
      BY <1>2, <2>5
    <3>1. /\ e \in Seq(Transfer) /\ Len(e) = Len(d) + 1 /\ Len(d) \in Nat /\ e[Len(d) + 1] = t
      BY <2>3, <3>0, AppendProperties, LenProperties
    <3>2. Last(e) = t
      BY <3>1, Zenon DEF Last
    <3>3. e # <<>>
      BY <3>1
    <3> QED BY <3>2, <3>3
  <2>7. f.nth \in Nat
    BY <1>1, FrameTypes
  <2>8. f.nth >= f.nth
    BY <2>7
  <2> QED BY <2>1, <2>4, <2>6, <2>8 DEF IntactAt
<1>5. CASE ~(End(f) /\ Counted(n, f) > 0)
  <2>1. heard'[n].intact = heard[n].intact
    BY <1>1, <1>5
  <2> SUFFICES ASSUME heard[n].intact # 0
               PROVE  delivered'[n] # <<>> /\ Last(delivered'[n]).nth >= heard[n].intact
    BY <2>1 DEF IntactAt
  <2>2. delivered[n] # <<>> /\ Last(delivered[n]).nth >= heard[n].intact
    BY DEF IntactAt
  <2>3. /\ delivered'[n] # <<>>
        /\ Last(delivered[n]).nth \in Nat /\ Last(delivered'[n]).nth \in Nat
        /\ Last(delivered'[n]).nth >= Last(delivered[n]).nth
    BY <1>1, <1>3, <2>2, LastLater
  <2> PICK a : a = Last(delivered[n]).nth
    OBVIOUS
  <2> PICK b : b = Last(delivered'[n]).nth
    OBVIOUS
  <2> PICK c : c = heard[n].intact
    OBVIOUS
  <2>4. a \in Nat /\ b \in Nat /\ b >= a /\ a >= c /\ c \in Nat
    BY <2>2, <2>3 DEF TimeInv, Heard
  <2>5. b >= c
    BY <2>4
  <2> QED BY <2>3, <2>5
<1> QED BY <1>4, <1>5

LEMMA AgainFacts ==
    ASSUME MemoryInv, TimeInv, OrderInv, NEW n \in Node, RunAt(n), ArriveAgain(n), NEW f, f = again[n]
    PROVE  /\ f \in Frame /\ f.idx > 0 /\ canardRxAccept(n, f)
           /\ clock' = clock /\ extent' = extent /\ sender' = sender /\ again'[n] = NoTransfer
           /\ Before(n, f.nth) \/ Done(n, f)
           /\ End(f) => sender[n] = [nth |-> f.nth + 1, idx |-> 1, tid |-> NextTid(f.tid)]
           /\ ~End(f) => sender[n] = [nth |-> f.nth, idx |-> f.idx + 1, tid |-> f.tid]
           /\ heard'[n] = Taken(n, f, heard[n])
           /\ heard'[n].run = heard[n].run /\ heard'[n].intact = heard[n].intact
<1>0. TypesInv /\ heard \in [Node -> Heard] /\ heard[n] \in Heard
  BY DEF MemoryInv, TimeInv
<1>1. /\ f # NoTransfer /\ canardRxAccept(n, f) /\ again' = [again EXCEPT ![n] = NoTransfer]
      /\ clock' = clock /\ extent' = extent /\ sender' = sender
      /\ heard' = [heard EXCEPT ![n] = Taken(n, f, @)]
  BY Zenon DEF ArriveAgain
<1>2. f \in Frame /\ again'[n] = NoTransfer
  BY <1>0, <1>1 DEF TypesInv
<1>3. RepeatAt(n) /\ OrderAt(n) /\ f.idx > 0
  BY <1>1, Zenon DEF OrderInv, RunAt
<1>4. Before(n, f.nth) \/ Done(n, f)
  BY <1>1, <1>3, Zenon DEF OrderAt
<1>5. /\ End(f) => sender[n] = [nth |-> f.nth + 1, idx |-> 1, tid |-> NextTid(f.tid)]
      /\ ~End(f) => sender[n] = [nth |-> f.nth, idx |-> f.idx + 1, tid |-> f.tid]
  BY <1>1, <1>3, Zenon DEF RepeatAt, NextTid
<1>6. heard'[n] = Taken(n, f, heard[n])
  BY <1>0, <1>1
<1> PICK h : h = heard[n]
  OBVIOUS
<1>7. Taken(n, f, h) = IF Took(n, f) THEN HeardOf(f.nth, clock, h.run, h.intact) ELSE h
  <2>1. clock \in Nat
    BY <1>0, ClockTypes
  <2> QED BY <1>0, <1>2, <2>1, TakenRecord, Zenon
<1>8. HeardOf(f.nth, clock, h.run, h.intact).run = h.run /\ HeardOf(f.nth, clock, h.run, h.intact).intact = h.intact
  BY DEF HeardOf
<1>9. heard'[n].run = h.run /\ heard'[n].intact = h.intact
  BY <1>6, <1>7, <1>8, Zenon
<1> QED BY <1>1, <1>2, <1>3, <1>4, <1>5, <1>6, <1>9, Zenon

LEMMA AgainTid ==
    ASSUME MemoryInv, TimeInv, OrderInv, NEW n \in Node, TidAt(n), ToggleAt(n), RunAt(n), ArriveAgain(n)
    PROVE  TidAt(n)' /\ ToggleAt(n)'
<1> PICK f : f = again[n]
  OBVIOUS
<1> PICK s : s = sender[n]
  OBVIOUS
<1>1. /\ f \in Frame /\ f.idx > 0 /\ canardRxAccept(n, f) /\ sender' = sender
      /\ End(f) => s = [nth |-> f.nth + 1, idx |-> 1, tid |-> NextTid(f.tid)]
      /\ ~End(f) => s = [nth |-> f.nth, idx |-> f.idx + 1, tid |-> f.tid]
      /\ heard'[n] = Taken(n, f, heard[n])
  BY AgainFacts
<1>2. TypesInv /\ s \in Sender /\ sender'[n] = s /\ clock \in Nat /\ heard[n] \in Heard
  BY <1>1, ClockTypes DEF MemoryInv, TypesInv, TimeInv
<1> PICK a : a = f.nth
  OBVIOUS
<1>3. /\ a \in Nat /\ a + 1 \in Nat /\ a > 0 /\ f.idx \in Nat
      /\ a \in 1 .. a /\ a \in 1 .. a + 1 /\ a # a + 1
      /\ f.idx + 1 > 1
  <2>1. f.nth \in Nat /\ f.nth > 0 /\ f.idx \in Nat
    BY <1>1, FrameTypes, Zenon
  <2> PICK i : i = f.idx
    OBVIOUS
  <2>2. a \in Nat /\ a > 0 /\ i \in Nat /\ i > 0
    BY <1>1, <2>1
  <2>3. i + 1 > 1 /\ a + 1 \in Nat /\ a \in 1 .. a /\ a \in 1 .. a + 1 /\ a # a + 1
    BY <2>2
  <2> QED BY <2>2, <2>3
<1>4. TidOf(s, f.nth) = f.tid
  <2>1. CASE End(f)
    <3> PICK v : v = [nth |-> f.nth, idx |-> 1, tid |-> f.tid]
      OBVIOUS
    <3>1. v \in Sender /\ v.nth = f.nth /\ v.tid = f.tid
      <4>1. f.nth \in 1 .. Len(Frames) /\ f.tid \in 0 .. TidModulo - 1
        BY <1>1, FrameTypes DEF Frame
      <4>2. f.nth \in 1 .. Len(Frames) + 1
        BY <4>1, Types
      <4> QED BY <4>1, <4>2 DEF Sender
    <3>2. s.nth = v.nth + 1 /\ s.tid = NextTid(v.tid)
      BY <1>1, <2>1, <3>1
    <3>3. TidOf(v, v.nth) = v.tid
      BY <3>1, TidNow
    <3>4. v.nth \in Int
      BY <1>3, <3>1
    <3>5. TidOf(s, v.nth) = TidOf(v, v.nth)
      BY <3>1, <3>2, <3>4, TidLater
    <3> QED BY <3>1, <3>3, <3>5
  <2>2. CASE ~End(f)
    <3>1. s.nth = f.nth /\ s.tid = f.tid
      BY <1>1, <2>2
    <3> QED BY <1>2, <3>1, TidNow
  <2> QED BY <2>1, <2>2
<1>5. f.nth \in 1 .. s.nth /\ (f.nth = s.nth => s.idx > 1)
  <2>1. CASE End(f)
    BY <1>1, <1>3, <2>1
  <2>2. CASE ~End(f)
    BY <1>1, <1>3, <2>2
  <2> QED BY <2>1, <2>2
<1>6. heard[n].nth # -TidModulo =>
         heard[n].nth \in 1 .. s.nth /\ (heard[n].nth = s.nth => s.idx > 1)
  BY DEF TidAt
<1>7. TidAt(n)'
  BY <1>1, <1>2, <1>4, <1>5, <1>6, TidStep
<1>8. ToggleAt(n)'
  BY <1>1, <1>2, AcceptTid
<1> QED BY <1>7, <1>8

LEMMA RepeatIsRejected ==
    ASSUME TypesInv, NEW n \in Node, NEW f \in Frame, canardRxAccept(n, f), ToggleAt(n), f.idx > 0,
           session[n] # NoSession, session[n].tid = f.tid, session[n].chunks = Prefix(f.nth, f.idx),
           Start(f) => session[n].ts = Timestamp
    PROVE  session'[n] = session[n]
<1> PICK s : s = session[n]
  OBVIOUS
<1>1. s \in Session
  BY DEF TypesInv
<1>2. Len(s.chunks) = f.idx /\ s.chunks # <<>>
  <2>1. f.nth \in Transfers /\ f.idx \in Nat
    BY DEF Frame
  <2>2. Len(s.chunks) = f.idx
    BY <2>1, PrefixGrows
  <2> QED BY <2>1, <2>2
<1>3. Synced(Old(n, f), f) = s
  <2>1. ASSUME Start(f) PROVE ~Resync(s, f)
    <3>1. rxComputeTransferIDDifference(s.tid, f.tid) = 0
      <4> PICK a : a = s.tid
        OBVIOUS
      <4>1. a \in Nat /\ f.tid = a
        BY <1>1, SessionTypes
      <4>2. a - a = 0 /\ 0 % TidModulo = 0
        BY <4>1, Types, OneTurn
      <4> QED BY <4>1, <4>2 DEF rxComputeTransferIDDifference
    <3>2. ~(0 > 1)
      OBVIOUS
    <3>3. ~(Timestamp > s.ts)
      <4> PICK t : t = Timestamp
        OBVIOUS
      <4>1. t \in Nat /\ s.ts = t
        BY <2>1, ClockTypes
      <4>2. ~(t > t)
        BY <4>1
      <4> QED BY <4>1, <4>2
    <3> QED BY <3>1, <3>2, <3>3 DEF Resync, TidTimedOut
  <2>2. ~Resync(s, f)
    BY <2>1 DEF Resync
  <2> QED BY <2>2, Zenon DEF Synced, Old
<1>4. ~Expected(s, f)
  <2>1. CASE Start(f)
    BY <1>2, <2>1, Zenon DEF Expected
  <2>2. s.toggle <=> f.idx % 2 = 0
    BY <1>2, Zenon DEF ToggleAt
  <2>3. ~(f.idx % 2 = 1 /\ f.idx % 2 = 0) /\ (f.idx % 2 = 1 \/ f.idx % 2 = 0)
    <3> PICK i : i = f.idx
      OBVIOUS
    <3>1. i \in Nat
      BY DEF Frame
    <3> QED BY <3>1
  <2>4. s.toggle \in BOOLEAN
    BY <1>1, SessionTypes
  <2>5. Toggle(f) # s.toggle
    BY <2>2, <2>3, <2>4 DEF Toggle
  <2> QED BY <2>5 DEF Expected
<1>5. PICK x \in Session : Tried(n, f, x)
  <2>1. ~Ignored(n, f)
    BY DEF Ignored
  <2> QED BY <2>1, StepsOfAccept
<1>6. x = s
  BY <1>3, <1>5, Zenon DEF Tried
<1>7. Becomes(n, s)
  BY <1>4, <1>5, <1>6, Zenon DEF Tried, Rejected, Starved, Copied, Completed, Dropped
<1> QED BY <1>7 DEF Becomes, TypesInv

LEMMA AgainRun ==
    ASSUME MemoryInv, TimeInv, OrderInv, NEW n \in Node, ToggleAt(n), RunAt(n), ArriveAgain(n)
    PROVE  RunAt(n)'
<1> PICK f : f = again[n]
  OBVIOUS
<1> PICK s : s = sender[n]
  OBVIOUS
<1>1. /\ f \in Frame /\ f.idx > 0 /\ canardRxAccept(n, f) /\ sender' = sender /\ again'[n] = NoTransfer
      /\ End(f) => s = [nth |-> f.nth + 1, idx |-> 1, tid |-> NextTid(f.tid)]
      /\ ~End(f) => s = [nth |-> f.nth, idx |-> f.idx + 1, tid |-> f.tid]
      /\ heard'[n].run = heard[n].run
  BY AgainFacts
<1>2. TypesInv /\ s.idx > 0
  BY DEF MemoryInv, RunAt
<1>3. ASSUME heard[n].run > 0, s.idx > 1
      PROVE  heard[n].run = s.idx - 1 /\ InSync(n)'
  <2>1. heard[n].run = s.idx - 1 /\ InSync(n)
    BY <1>3 DEF RunAt
  <2>2. s.nth = f.nth /\ s.idx = f.idx + 1 /\ s.tid = f.tid
    <3>1. ~End(f)
      BY <1>1, <1>3
    <3> QED BY <1>1, <3>1
  <2>3. s.idx - 1 = f.idx
    <3> PICK i : i = f.idx
      OBVIOUS
    <3>1. i \in Nat /\ (i + 1) - 1 = i
      BY <1>1 DEF Frame
    <3> QED BY <2>2, <3>1
  <2>4. session[n] # NoSession /\ session[n].tid = f.tid /\ session[n].chunks = Prefix(f.nth, f.idx)
    BY <2>1, <2>2, <2>3, Zenon DEF InSync
  <2>5. Start(f) => session[n].ts = Timestamp
    <3> SUFFICES ASSUME Start(f) PROVE session[n].ts = Timestamp
      OBVIOUS
    <3>1. s.idx = 2
      BY <2>2 DEF Start
    <3>2. again[n] # NoTransfer
      BY <1>1, Types
    <3> QED BY <2>1, <3>1, <3>2, Zenon DEF InSync
  <2>6. session'[n] = session[n]
    BY <1>1, <1>2, <2>4, <2>5, RepeatIsRejected
  <2> QED BY <1>1, <2>1, <2>6, Zenon DEF InSync
<1> QED BY <1>1, <1>2, <1>3, Zenon DEF RunAt

LEMMA AgainIntact ==
    ASSUME MemoryInv, TimeInv, OrderInv, NEW n \in Node, RunAt(n), IntactAt(n), ArriveAgain(n)
    PROVE  IntactAt(n)'
<1> PICK f : f = again[n]
  OBVIOUS
<1>1. /\ f \in Frame /\ canardRxAccept(n, f) /\ clock' = clock
      /\ Before(n, f.nth) \/ Done(n, f)
      /\ heard'[n].intact = heard[n].intact
  BY AgainFacts
<1> SUFFICES ASSUME heard[n].intact # 0
             PROVE  delivered'[n] # <<>> /\ Last(delivered'[n]).nth >= heard[n].intact
  BY <1>1 DEF IntactAt
<1>2. delivered[n] # <<>> /\ Last(delivered[n]).nth >= heard[n].intact
  BY DEF IntactAt
<1>3. /\ delivered'[n] # <<>>
      /\ Last(delivered[n]).nth \in Nat /\ Last(delivered'[n]).nth \in Nat
      /\ Last(delivered'[n]).nth >= Last(delivered[n]).nth
  BY <1>1, <1>2, LastLater
<1> PICK a : a = Last(delivered[n]).nth
  OBVIOUS
<1> PICK b : b = Last(delivered'[n]).nth
  OBVIOUS
<1> PICK c : c = heard[n].intact
  OBVIOUS
<1>4. a \in Nat /\ b \in Nat /\ b >= a /\ a >= c /\ c \in Nat
  BY <1>2, <1>3 DEF TimeInv, Heard
<1>5. b >= c
  BY <1>4
<1> QED BY <1>3, <1>5

LEMMA KeptReceived ==
    ASSUME NEW n \in Node, ReceivedAt(n), sender'[n] = sender[n], session'[n] = session[n],
           delivered'[n] = delivered[n], heard'[n] = heard[n],
           again'[n] = NoTransfer \/ (again'[n] = again[n] /\ clock' = clock)
    PROVE  ReceivedAt(n)'
<1>1. TidAt(n)' /\ ToggleAt(n)' /\ IntactAt(n)'
  BY Zenon DEF ReceivedAt, TidAt, ToggleAt, IntactAt
<1>2. RunAt(n)'
  BY Zenon DEF ReceivedAt, RunAt, InSync, Timestamp
<1> QED BY <1>1, <1>2, Zenon DEF ReceivedAt

LEMMA ArriveReceived ==
    ASSUME MemoryInv, TimeInv, OrderInv, IntactInv, NEW n \in Node, Arrive(n) \/ ArriveAgain(n)
    PROVE  IntactInv'
<1>0. TypesInv /\ heard \in [Node -> Heard]
  BY DEF MemoryInv, TimeInv
<1>1. \A m \in Node : ReceivedAt(m)
  BY DEF IntactInv
<1>2. TidAt(n) /\ ToggleAt(n) /\ RunAt(n) /\ IntactAt(n)
  BY <1>1, Zenon DEF ReceivedAt
<1>3. CASE Arrive(n)
  <2>1. ReceivedAt(n)'
    BY <1>2, <1>3, ArriveTid, ArriveRun, ArriveIntact DEF ReceivedAt
  <2> PICK f : f = NextFrame(n)
    OBVIOUS
  <2>2. f \in Frame /\ canardRxAccept(n, f) /\ clock' = clock
    BY <1>3, ArriveFacts
  <2>3. sender[n].nth \in Transfers /\ Advance(n)
    BY <1>3, Zenon DEF Arrive, Sending
  <2>4. \A m \in Node : m # n => sender'[m] = sender[m]
    BY <1>0, <2>3, AdvanceSteps
  <2>5. \A m \in Node : m # n => again'[m] = again[m] /\ heard'[m] = heard[m]
    <3>1. /\ again' = [again EXCEPT ![n] = f]
          /\ heard' = [heard EXCEPT ![n] = Taken(n, f, Arrival(n, f))]
      BY <1>3, Zenon DEF Arrive
    <3> QED BY <1>0, <3>1 DEF TypesInv
  <2>6. \A m \in Node : m # n => session'[m] = session[m] /\ delivered'[m] = delivered[m]
    BY <1>0, <2>2, OthersKeepTheirSession
  <2>7. ASSUME NEW m \in Node, m # n PROVE ReceivedAt(m)'
    BY <1>1, <2>2, <2>4, <2>5, <2>6, <2>7, KeptReceived
  <2> QED BY <2>1, <2>7 DEF IntactInv
<1>4. CASE ArriveAgain(n)
  <2>1. ReceivedAt(n)'
    BY <1>2, <1>4, AgainTid, AgainRun, AgainIntact DEF ReceivedAt
  <2> PICK f : f = again[n]
    OBVIOUS
  <2>2. f \in Frame /\ canardRxAccept(n, f) /\ clock' = clock /\ sender' = sender
    BY <1>2, <1>4, AgainFacts
  <2>5. \A m \in Node : m # n => again'[m] = again[m] /\ heard'[m] = heard[m]
    <3>1. /\ again' = [again EXCEPT ![n] = NoTransfer]
          /\ heard' = [heard EXCEPT ![n] = Taken(n, f, @)]
      BY <1>4, Zenon DEF ArriveAgain
    <3> QED BY <1>0, <3>1 DEF TypesInv
  <2>6. \A m \in Node : m # n => session'[m] = session[m] /\ delivered'[m] = delivered[m]
    BY <1>0, <2>2, OthersKeepTheirSession
  <2>7. ASSUME NEW m \in Node, m # n PROVE ReceivedAt(m)'
    BY <1>1, <2>2, <2>5, <2>6, <2>7, KeptReceived
  <2> QED BY <2>1, <2>7 DEF IntactInv
<1> QED BY <1>3, <1>4

LEMMA LoseReceived ==
    ASSUME MemoryInv, TimeInv, IntactInv, NEW n \in Node, Lose(n)
    PROVE  IntactInv'
<1>0. TypesInv /\ heard \in [Node -> Heard] /\ heard[n] \in Heard /\ ReceivedAt(n)
  BY DEF MemoryInv, TimeInv, IntactInv
<1> PICK f : f = NextFrame(n)
  OBVIOUS
<1> PICK s : s = sender[n]
  OBVIOUS
<1> PICK u : u = sender'[n]
  OBVIOUS
<1> PICK h : h = heard[n]
  OBVIOUS
<1>1. /\ sender[n].nth \in Transfers /\ Advance(n) /\ again' = [again EXCEPT ![n] = NoTransfer]
      /\ heard' = [heard EXCEPT ![n].run = 0] /\ session' = session /\ delivered' = delivered
      /\ clock' = clock
  BY Zenon DEF Lose, Sending
<1>2. /\ f \in Frame
      /\ \A m \in Node : m # n => sender'[m] = sender[m]
      /\ End(f) => u = [nth |-> s.nth + 1, idx |-> 1, tid |-> NextTid(s.tid)]
      /\ ~End(f) => u = [nth |-> s.nth, idx |-> s.idx + 1, tid |-> s.tid]
  BY <1>0, <1>1, AdvanceSteps
<1>3. s \in Sender /\ s.idx \in Nat /\ s.idx > 0 /\ s.nth \in Nat /\ h \in Heard
  BY <1>0 DEF TypesInv, Sender, ReceivedAt, RunAt
<1>4. heard'[n].run = 0 /\ heard'[n].nth = h.nth /\ heard'[n].intact = h.intact
  <2>1. PICK x : x = [h EXCEPT !.run = 0]
    BY Zenon
  <2>2. h = HeardOf(h.nth, h.at, h.run, h.intact)
    BY <1>3 DEF Heard, HeardOf
  <2>3. x = HeardOf(h.nth, h.at, 0, h.intact)
    BY <2>1, <2>2 DEF HeardOf
  <2>4. heard' = [heard EXCEPT ![n] = x]
    BY <1>1, <2>1, Zenon
  <2>5. heard'[n] = x
    BY <1>0, <2>4
  <2> QED BY <2>3, <2>5 DEF HeardOf
<1>5. \A m \in Node : m # n => heard'[m] = heard[m] /\ again'[m] = again[m]
  BY <1>0, <1>1 DEF TypesInv
<1>6. again'[n] = NoTransfer
  BY <1>0, <1>1 DEF TypesInv
<1>7. RunAt(n)'
  <2>1. CASE End(f)
    <3>1. u.idx = 1
      BY <1>2, <2>1
    <3> QED BY <1>4, <1>6, <3>1 DEF RunAt
  <2>2. CASE ~End(f)
    <3> PICK i : i = s.idx
      OBVIOUS
    <3>1. u.idx = i + 1 /\ i \in Nat
      BY <1>2, <1>3, <2>2
    <3>2. u.idx > 0
      BY <3>1
    <3> QED BY <1>4, <1>6, <3>2 DEF RunAt
  <2> QED BY <2>1, <2>2
<1>8. TidAt(n)'
  <2> PICK k : k = h.nth
    OBVIOUS
  <2> SUFFICES ASSUME k # -TidModulo PROVE TidAt(n)'
    BY <1>4 DEF TidAt
  <2>1. /\ k \in 1 .. s.nth
        /\ k = s.nth => s.idx > 1
        /\ session[n] # NoSession =>
             session[n].tid = IF session[n].chunks = <<>> THEN NextTid(TidOf(s, k)) ELSE TidOf(s, k)
    BY <1>0, Zenon DEF ReceivedAt, TidAt
  <2>2. TidOf(u, k) = TidOf(s, k)
    <3>1. k \in Int
      BY <2>1
    <3>2. CASE End(f)
      <4>1. u.nth = s.nth + 1 /\ u.tid = NextTid(s.tid)
        BY <1>2, <3>2
      <4> QED BY <1>3, <3>1, <4>1, TidLater
    <3>3. CASE ~End(f)
      <4>1. u.nth = s.nth /\ u.tid = s.tid
        BY <1>2, <3>3
      <4> QED BY <4>1, Zenon DEF TidOf
    <3> QED BY <3>2, <3>3
  <2>3. k \in 1 .. u.nth /\ (k = u.nth => u.idx > 1)
    <3> PICK a : a = s.nth
      OBVIOUS
    <3> PICK i : i = s.idx
      OBVIOUS
    <3>1. a \in Nat /\ i \in Nat /\ i > 0 /\ k \in 1 .. a
      BY <1>3, <2>1
    <3>2. k \in 1 .. a + 1 /\ k # a + 1 /\ i + 1 > 1
      BY <3>1
    <3>3. CASE End(f)
      <4>1. u.nth = a + 1
        BY <1>2, <3>3
      <4> QED BY <3>2, <4>1
    <3>4. CASE ~End(f)
      <4>1. u.nth = a /\ u.idx = i + 1
        BY <1>2, <3>4
      <4> QED BY <3>1, <3>2, <4>1
    <3> QED BY <3>3, <3>4
  <2> QED BY <1>1, <1>4, <2>1, <2>2, <2>3, Zenon DEF TidAt
<1>9. ToggleAt(n)' /\ IntactAt(n)'
  BY <1>0, <1>1, <1>4, Zenon DEF ReceivedAt, ToggleAt, IntactAt
<1>10. ReceivedAt(n)'
  BY <1>7, <1>8, <1>9 DEF ReceivedAt
<1>11. ASSUME NEW m \in Node, m # n PROVE ReceivedAt(m)'
  <2>1. ReceivedAt(m)
    BY DEF IntactInv
  <2> QED BY <1>1, <1>2, <1>5, <1>11, <2>1, KeptReceived
<1> QED BY <1>10, <1>11 DEF IntactInv

LEMMA SenderRestartReceived ==
    ASSUME MemoryInv, TimeInv, IntactInv, NEW n \in Node, SenderRestart(n)
    PROVE  IntactInv'
<1>0. TypesInv /\ heard \in [Node -> Heard] /\ heard[n] \in Heard /\ ReceivedAt(n)
  BY DEF MemoryInv, TimeInv, IntactInv
<1> PICK h : h = heard[n]
  OBVIOUS
<1>1. /\ again' = [again EXCEPT ![n] = NoTransfer]
      /\ heard' = [heard EXCEPT ![n].nth = -TidModulo] /\ session' = session /\ delivered' = delivered
      /\ clock' = clock
  BY Zenon DEF SenderRestart
<1>2. sender'[n].idx = 1 /\ \A m \in Node : m # n => sender'[m] = sender[m]
  <2> PICK x : x = [nth |-> IF sender[n].idx = 1 THEN sender[n].nth ELSE sender[n].nth + 1, idx |-> 1, tid |-> 0]
    OBVIOUS
  <2>1. sender' = [sender EXCEPT ![n] = x]
    BY Zenon DEF SenderRestart
  <2>2. x.idx = 1
    OBVIOUS
  <2> QED BY <1>0, <2>1, <2>2 DEF TypesInv
<1>4. heard'[n].nth = -TidModulo /\ heard'[n].intact = h.intact
  <2>1. PICK x : x = [h EXCEPT !.nth = -TidModulo]
    BY Zenon
  <2>2. h = HeardOf(h.nth, h.at, h.run, h.intact)
    BY <1>0 DEF Heard, HeardOf
  <2>3. x = HeardOf(-TidModulo, h.at, h.run, h.intact)
    BY <2>1, <2>2 DEF HeardOf
  <2>4. heard' = [heard EXCEPT ![n] = x]
    BY <1>1, <2>1, Zenon
  <2>5. heard'[n] = x
    BY <1>0, <2>4
  <2> QED BY <2>3, <2>5 DEF HeardOf
<1>5. \A m \in Node : m # n => heard'[m] = heard[m] /\ again'[m] = again[m]
  BY <1>0, <1>1 DEF TypesInv
<1>6. again'[n] = NoTransfer
  BY <1>0, <1>1 DEF TypesInv
<1>7. RunAt(n)' /\ TidAt(n)'
  BY <1>2, <1>4, <1>6 DEF RunAt, TidAt
<1>8. ToggleAt(n)' /\ IntactAt(n)'
  BY <1>0, <1>1, <1>4, Zenon DEF ReceivedAt, ToggleAt, IntactAt
<1>9. ReceivedAt(n)'
  BY <1>7, <1>8 DEF ReceivedAt
<1>10. ASSUME NEW m \in Node, m # n PROVE ReceivedAt(m)'
  <2>1. ReceivedAt(m)
    BY DEF IntactInv
  <2> QED BY <1>1, <1>2, <1>5, <1>10, <2>1, KeptReceived
<1> QED BY <1>9, <1>10 DEF IntactInv

LEMMA NextReceived == MemoryInv /\ TimeInv /\ OrderInv /\ IntactInv /\ [EarlyNext]_vars => IntactInv'
<1> SUFFICES ASSUME MemoryInv, TimeInv, OrderInv, IntactInv, [EarlyNext]_vars PROVE IntactInv'
  OBVIOUS
<1>0. TypesInv /\ \A n \in Node : ReceivedAt(n)
  BY DEF MemoryInv, IntactInv
<1>1. CASE Subscribe
  <2>1. /\ sender' = sender
        /\ \A n \in Node : session'[n] = NoSession /\ heard'[n] = Unheard /\ again'[n] = NoTransfer
    BY <1>1 DEF Subscribe, canardRxSubscribe
  <2>2. Unheard.nth = -TidModulo /\ Unheard.run = 0 /\ Unheard.intact = 0
    BY DEF Unheard
  <2>3. ASSUME NEW n \in Node PROVE ReceivedAt(n)'
    <3>1. sender'[n].idx > 0
      BY <1>0, <2>1 DEF ReceivedAt, RunAt
    <3>2. heard'[n] = Unheard /\ session'[n] = NoSession /\ again'[n] = NoTransfer
      BY <2>1
    <3>3. heard'[n].nth = -TidModulo /\ heard'[n].run = 0 /\ heard'[n].intact = 0
      BY <2>2, <3>2
    <3>4. ~(0 > 0)
      OBVIOUS
    <3>5. RunAt(n)'
      BY <3>1, <3>2, <3>3, <3>4, Zenon DEF RunAt
    <3>6. TidAt(n)' /\ ToggleAt(n)' /\ IntactAt(n)'
      BY <3>2, <3>3, Zenon DEF TidAt, ToggleAt, IntactAt
    <3> QED BY <3>5, <3>6 DEF ReceivedAt
  <2> QED BY <2>3 DEF IntactInv
<1>2. CASE Tick
  <2>1. /\ sender' = sender /\ session' = session /\ heard' = heard /\ delivered' = delivered
        /\ \A n \in Node : again'[n] = NoTransfer
    BY <1>2 DEF Tick
  <2>2. ASSUME NEW n \in Node PROVE ReceivedAt(n)'
    BY <1>0, <2>1, KeptReceived
  <2> QED BY <2>2 DEF IntactInv
<1>3. ASSUME UNCHANGED <<clock, sender, again, session, delivered, heard>> PROVE IntactInv'
  <2>1. ASSUME NEW n \in Node PROVE ReceivedAt(n)'
    BY <1>0, <1>3, KeptReceived
  <2> QED BY <2>1 DEF IntactInv
<1>4. CASE ArriveAnonymous \/ Release \/ OthersTake \/ OthersGive
  BY <1>3, <1>4 DEF ArriveAnonymous, Release, OthersTake, OthersGive
<1>5. CASE UNCHANGED vars
  BY <1>3, <1>5 DEF vars
<1> QED BY <1>1, <1>2, <1>4, <1>5, ArriveReceived, LoseReceived, SenderRestartReceived, Zenon DEF EarlyNext, Next

LEMMA InitReceived == Init => IntactInv
<1> SUFFICES ASSUME Init PROVE IntactInv
  OBVIOUS
<1>1. ASSUME NEW n \in Node PROVE ReceivedAt(n)
  <2>1. /\ sender[n] = [nth |-> 1, idx |-> 1, tid |-> 0] /\ heard[n] = Unheard
        /\ session[n] = NoSession /\ again[n] = NoTransfer
    BY DEF Init
  <2>2. heard[n].nth = -TidModulo /\ heard[n].run = 0 /\ heard[n].intact = 0
    BY <2>1 DEF Unheard
  <2>3. sender[n].idx = 1
    BY <2>1
  <2>4. RunAt(n)
    BY <2>1, <2>2, <2>3 DEF RunAt
  <2>5. TidAt(n) /\ ToggleAt(n) /\ IntactAt(n)
    BY <2>1, <2>2, Zenon DEF TidAt, ToggleAt, IntactAt
  <2> QED BY <2>4, <2>5 DEF ReceivedAt
<1> QED BY <1>1 DEF IntactInv

(***************************************************************************)
(* While the clock has not wrapped, whatever was lost, repeated or cut     *)
(* short before it: a transfer that arrives with all its frames, finds     *)
(* memory and cannot be taken for an old one is delivered.                 *)
(***************************************************************************)
THEOREM IntactTransfersArrive == EarlySpec => []IntactIsDelivered
<1>1. [EarlyNext]_vars => [Next]_vars
  BY DEF EarlyNext
<1>2. EarlySpec <=> Init /\ [][EarlyNext]_vars
  BY DEF EarlySpec, EarlyNext
<1>3. IntactInv => IntactIsDelivered
  BY DEF IntactInv, ReceivedAt, IntactAt, IntactIsDelivered
<1> QED BY <1>1, <1>2, <1>3, EarlyHolds, InitOrder, NextOrder, InitReceived, NextReceived, PTL
=============================================================================
