------------------------ MODULE NodeSchedulerProofs ------------------------
(***************************************************************************)
(* For every period and every main loop that comes round four times in the *)
(* period of the heartbeat: while no deadline has wrapped, the heartbeat   *)
(* and the port list keep their schedules though they share one branch.    *)
(***************************************************************************)
EXTENDS NodeScheduler, TLAPS

EarlyNext == Next /\ clock' + Period + ListPeriod < ClockModulo

(* The time of the last publication branch.                                *)
lastCall == clock - sinceCall

(* The numbers, and what process() read on entry: no branch was taken      *)
(* since then.                                                             *)
ClockInv ==
    /\ clock \in Nat /\ crnt_time_ms \in Nat /\ beats \in Nat
    /\ next_beat \in Nat /\ next_list \in Nat
    /\ lastBeat \in Nat /\ lastList \in Nat /\ updatedAt \in Nat
    /\ sinceCall \in 0 .. MaxGap /\ lastCall >= 0
    /\ receiving => crnt_time_ms >= lastCall /\ crnt_time_ms <= clock

(* The deadline of the heartbeat counts the heartbeats, and the last of    *)
(* them came less than half a period after its own deadline.               *)
BeatInv ==
    /\ next_beat = FirstBeat + beats * Period
    /\ lastCall <= next_beat + MaxGap
    /\ beats > 0 => /\ next_beat < lastBeat + Period
                    /\ lastBeat + Period <= next_beat + 2 * MaxGap

(* A branch that was due to publish the list and did not was a heartbeat.  *)
ListInv ==
    /\ \/ next_list = lastList + ListPeriod
       \/ lastList = 0 /\ next_list = FirstList
    /\ lastCall >= next_list =>
          beats > 0 /\ lastBeat = lastCall /\ lastCall <= next_list + MaxGap

(* Only a heartbeat can have come between a change and its announcement.   *)
UpdateInv ==
    /\ updatedAt <= clock
    /\ ports_updated =>
          \/ lastCall <= updatedAt
          \/ beats > 0 /\ lastBeat = lastCall /\ lastCall <= updatedAt + MaxGap
    /\ unannounced /\ ~ports_updated =>
          lastList >= updatedAt /\ next_list = lastList + ListPeriod

SchedulerInv == ClockInv /\ BeatInv /\ ListInv /\ UpdateInv

-----------------------------------------------------------------------------
LEMMA Constants ==
    /\ Period \in Nat /\ Period > 4 * MaxGap /\ FirstBeat \in Nat
    /\ ListPeriod \in Nat /\ ListPeriod > 0 /\ FirstList \in Nat /\ FirstList > 0
    /\ MaxGap \in Nat /\ MaxGap > 0 /\ ClockModulo \in Nat
BY NodeSchedulerAssumption

(* The readings and the sums do not wrap.                                  *)
LEMMA NoWrap ==
    ASSUME NEW a \in Nat, a < ClockModulo
    PROVE  a % ClockModulo = a
BY Constants, SMT

LEMMA InitScheduler == Init => SchedulerInv
BY Constants
   DEF Init, SchedulerInv, ClockInv, BeatInv, ListInv, UpdateInv, lastCall

(* One more heartbeat, one more period.                                    *)
LEMMA OneMore ==
    ASSUME NEW n \in Nat
    PROVE  (n + 1) * Period = n * Period + Period
BY Constants, SMT

(* A round of the main loop is too short for two heartbeats.               *)
LEMMA NoTwoHeartbeats ==
    ASSUME SchedulerInv, receiving, BeatDue
    PROVE  ~(beats > 0 /\ lastBeat = lastCall)
BY Constants DEF SchedulerInv, ClockInv, BeatInv, BeatDue, lastCall

LEMMA ProcessStep ==
    ASSUME SchedulerInv, process, clock' + Period + ListPeriod < ClockModulo
    PROVE  SchedulerInv'
<1>1. /\ ~receiving /\ receiving' = TRUE /\ crnt_time_ms' = clock
      /\ UNCHANGED <<clock, next_beat, next_list, ports_updated, sinceCall, beats,
                     lastBeat, lastList, updatedAt, unannounced>>
  BY NoWrap, Constants DEF process, platformSpecificGetTimeMs, SchedulerInv, ClockInv
<1>2. ClockInv'
  BY <1>1 DEF SchedulerInv, ClockInv, lastCall
<1> QED BY <1>1, <1>2 DEF SchedulerInv, BeatInv, ListInv, UpdateInv, lastCall

LEMMA WriteStep ==
    ASSUME SchedulerInv, writeParam
    PROVE  SchedulerInv'
<1>1. ClockInv'
  BY DEF SchedulerInv, ClockInv, writeParam, lastCall
<1>2. BeatInv' /\ ListInv'
  BY DEF SchedulerInv, BeatInv, ListInv, writeParam, lastCall
<1>3. UpdateInv'
  BY DEF SchedulerInv, ClockInv, UpdateInv, writeParam, lastCall
<1> QED BY <1>1, <1>2, <1>3 DEF SchedulerInv

LEMMA TickStep ==
    ASSUME SchedulerInv, Tick
    PROVE  SchedulerInv'
<1>1. lastCall' = lastCall
  BY Constants DEF SchedulerInv, ClockInv, Tick, lastCall
<1>2. ClockInv'
  BY <1>1, Constants DEF SchedulerInv, ClockInv, Tick
<1> QED BY <1>1, <1>2 DEF SchedulerInv, ClockInv, BeatInv, ListInv, UpdateInv, Tick

(* What every branch does.                                                 *)
LEMMA BranchStep ==
    ASSUME SchedulerInv, Publish
    PROVE  /\ lastCall' = clock /\ clock' = clock /\ clock \in Nat
           /\ clock <= lastCall + MaxGap
           /\ receiving /\ ~receiving' /\ sinceCall' = 0
BY Constants DEF SchedulerInv, ClockInv, Publish, lastCall

LEMMA HeartbeatStep ==
    ASSUME SchedulerInv, Publish, PublishHeartbeat,
           clock' + Period + ListPeriod < ClockModulo
    PROVE  SchedulerInv'
<1>1. /\ receiving /\ next_beat < crnt_time_ms /\ crnt_time_ms <= clock /\ crnt_time_ms \in Nat
      /\ next_beat \in Nat /\ beats \in Nat
      /\ next_list \in Nat /\ lastCall \in Nat /\ updatedAt \in Nat /\ lastBeat \in Nat
  BY BranchStep, Constants DEF PublishHeartbeat, BeatDue, SchedulerInv, ClockInv, lastCall
<1>2. /\ next_beat' = next_beat + Period
      /\ beats' = beats + 1 /\ lastBeat' = clock
      /\ UNCHANGED <<clock, crnt_time_ms, next_list, ports_updated, lastList, updatedAt,
                     unannounced>>
  <2>1. next_beat + Period < ClockModulo /\ next_beat + Period \in Nat
    BY <1>1, BranchStep, Constants
  <2> QED BY <2>1, NoWrap DEF PublishHeartbeat, Publish
<1>3. ClockInv'
  BY <1>1, <1>2, BranchStep, Constants DEF SchedulerInv, ClockInv
<1>4. BeatInv'
  <2>1. next_beat' = FirstBeat + (beats + 1) * Period
    BY <1>1, <1>2, OneMore, Constants DEF SchedulerInv, BeatInv
  <2>2. clock <= next_beat + 2 * MaxGap
    BY <1>1, BranchStep, Constants DEF SchedulerInv, BeatInv
  <2> QED BY <1>1, <1>2, <2>1, <2>2, BranchStep, Constants DEF BeatInv
<1>5. ~(beats > 0 /\ lastBeat = lastCall)
  BY <1>1, NoTwoHeartbeats DEF PublishHeartbeat
<1>6. ListInv'
  BY <1>1, <1>2, <1>5, BranchStep, Constants DEF SchedulerInv, ListInv
<1>7. UpdateInv'
  BY <1>1, <1>2, <1>5, BranchStep, Constants DEF SchedulerInv, UpdateInv
<1> QED BY <1>3, <1>4, <1>6, <1>7 DEF SchedulerInv

(* A branch without a heartbeat comes within a round of the deadline.      *)
LEMMA NoBeatStep ==
    ASSUME SchedulerInv, Publish, ~BeatDue,
           UNCHANGED <<next_beat, beats, lastBeat>>
    PROVE  BeatInv'
<1>1. crnt_time_ms <= next_beat /\ crnt_time_ms >= lastCall /\ crnt_time_ms \in Nat
      /\ next_beat \in Nat /\ lastCall \in Nat
  BY BranchStep DEF BeatDue, SchedulerInv, ClockInv, lastCall
<1> QED BY <1>1, BranchStep, Constants DEF SchedulerInv, BeatInv

LEMMA PortListStep ==
    ASSUME SchedulerInv, Publish, PublishPortList,
           clock' + Period + ListPeriod < ClockModulo
    PROVE  SchedulerInv'
<1>1. /\ next_list' = clock + ListPeriod /\ lastList' = clock /\ ports_updated' = FALSE
      /\ UNCHANGED <<clock, crnt_time_ms, next_beat, beats, lastBeat, updatedAt>>
  <2>1. /\ clock \in Nat /\ clock' = clock /\ clock < ClockModulo
        /\ clock + ListPeriod \in Nat /\ clock + ListPeriod < ClockModulo
    BY BranchStep, Constants
  <2> QED BY <2>1, NoWrap
          DEF PublishPortList, Publish, platformSpecificGetTimeMs, SchedulerInv, ClockInv
<1>2. ClockInv'
  BY <1>1, BranchStep, Constants DEF SchedulerInv, ClockInv
<1>3. BeatInv'
  BY <1>1, NoBeatStep DEF PublishPortList
<1>4. ListInv' /\ UpdateInv'
  BY <1>1, BranchStep, Constants DEF SchedulerInv, ListInv, UpdateInv
<1> QED BY <1>2, <1>3, <1>4 DEF SchedulerInv

LEMMA NothingStep ==
    ASSUME SchedulerInv, Publish, PublishNothing,
           clock' + Period + ListPeriod < ClockModulo
    PROVE  SchedulerInv'
<1>1. /\ clock < next_list /\ ~ports_updated /\ next_list \in Nat
      /\ UNCHANGED <<clock, crnt_time_ms, next_beat, next_list, ports_updated, beats,
                     lastBeat, lastList, updatedAt, unannounced>>
  <2>1. clock \in Nat /\ clock' = clock /\ clock < ClockModulo
    BY BranchStep, Constants
  <2>2. platformSpecificGetTimeMs = clock
    BY <2>1, NoWrap DEF platformSpecificGetTimeMs
  <2> QED BY <2>1, <2>2 DEF PublishNothing, Publish, ListDue, SchedulerInv, ClockInv
<1>2. ClockInv'
  BY <1>1, BranchStep, Constants DEF SchedulerInv, ClockInv
<1>3. BeatInv'
  BY <1>1, NoBeatStep DEF PublishNothing
<1>4. ListInv' /\ UpdateInv'
  BY <1>1, BranchStep, Constants DEF SchedulerInv, ListInv, UpdateInv
<1> QED BY <1>2, <1>3, <1>4 DEF SchedulerInv

LEMMA NextScheduler == SchedulerInv /\ [EarlyNext]_vars => SchedulerInv'
<1> SUFFICES ASSUME SchedulerInv, [EarlyNext]_vars PROVE SchedulerInv'
    OBVIOUS
<1>1. CASE UNCHANGED vars
  BY <1>1 DEF vars, SchedulerInv, ClockInv, BeatInv, ListInv, UpdateInv, lastCall
<1>2. CASE EarlyNext /\ Publish
  BY <1>2, HeartbeatStep, PortListStep, NothingStep DEF EarlyNext, Publish
<1>3. CASE EarlyNext /\ ~Publish
  BY <1>3, ProcessStep, WriteStep, TickStep DEF EarlyNext, Next
<1> QED BY <1>1, <1>2, <1>3

LEMMA SchedulerAlways == EarlySpec => []SchedulerInv
BY InitScheduler, NextScheduler, PTL DEF EarlySpec, EarlyNext

-----------------------------------------------------------------------------
(***************************************************************************)
(* next_pub_time_ms += 1000 (cyphal.cpp:69-72): the nth heartbeat belongs  *)
(* to the nth period, is never early, and is late by less than two rounds  *)
(* of the main loop, however often a round was long.                       *)
(***************************************************************************)
THEOREM HeartbeatsKeepTime == EarlySpec => []HeartbeatOnSchedule
<1>1. SchedulerInv => HeartbeatOnSchedule
  <2> SUFFICES ASSUME SchedulerInv PROVE HeartbeatOnSchedule
      OBVIOUS
  <2>1. /\ beats \in Nat /\ lastBeat \in Nat /\ clock \in Nat /\ next_beat \in Nat
        /\ clock <= next_beat + 2 * MaxGap
    BY Constants DEF SchedulerInv, ClockInv, BeatInv, lastCall
  <2>2. Due(beats + 1) = next_beat
    BY <2>1, Constants DEF SchedulerInv, BeatInv, Due
  <2>3. ASSUME beats > 0 PROVE lastBeat > Due(beats)
    <3>1. beats - 1 \in Nat
      BY <2>1, <2>3
    <3>2. beats * Period = (beats - 1) * Period + Period
      BY <3>1, <2>1, OneMore
    <3>3. (beats - 1) * Period \in Nat
      BY <3>1, Constants, SMT
    <3>4. Due(beats) + Period = next_beat
      BY <3>2, <3>3, Constants DEF SchedulerInv, BeatInv, Due
    <3> QED BY <3>3, <3>4, <2>1, <2>3, Constants DEF SchedulerInv, BeatInv, Due
  <2> QED BY <2>1, <2>2, <2>3 DEF HeartbeatOnSchedule
<1> QED BY <1>1, SchedulerAlways, PTL

(***************************************************************************)
(* The port list shares the branch with the heartbeat, which goes first    *)
(* (cyphal.cpp:69-75), and is not starved by it.                           *)
(***************************************************************************)
THEOREM PortListKeepsTime == EarlySpec => []PortListOnSchedule
<1>1. SchedulerInv => PortListOnSchedule
  BY Constants DEF SchedulerInv, ClockInv, ListInv, PortListOnSchedule, lastCall
<1> QED BY <1>1, SchedulerAlways, PTL

(***************************************************************************)
(* PortListPublisher::update() only sets a flag: the list that holds the   *)
(* change is built within two rounds, and when push refuses it, the next   *)
(* within the period of the list.                                          *)
(***************************************************************************)
THEOREM ChangesAreAnnounced == EarlySpec => []UpdateIsAnnounced
<1>1. SchedulerInv => UpdateIsAnnounced
  BY Constants DEF SchedulerInv, ClockInv, ListInv, UpdateInv, UpdateIsAnnounced, lastCall
<1> QED BY <1>1, SchedulerAlways, PTL
=============================================================================
