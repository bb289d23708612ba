--------------------------- MODULE NodeScheduler ---------------------------
(***************************************************************************)
(* The periodic publications of Cyphal::process: the heartbeat and, in the *)
(* calls that publish no heartbeat, the port list.  Deadlines are uint32_t *)
(* counts of milliseconds, compared with the wrapping clock of the         *)
(* platform.  One call of process() reads the clock, handles the received  *)
(* frames, and then takes one of the two branches.                         *)
(***************************************************************************)
EXTENDS Integers

CONSTANTS Period,         \* of the heartbeat: 1000
          FirstBeat,      \* next_pub_time_ms starts at 10
          ListPeriod,     \* of the port list: 5000
          FirstList,      \* and its next_pub_time_ms at 1000
          OfflineTimeout, \* 3000: the others take a silent node for offline
          MaxGap,         \* time from one publication branch to the next
          ClockModulo,    \* platformSpecificGetTimeMs() is a uint32_t
          MaxClock        \* bound on time

ASSUME NodeSchedulerAssumption ==
    /\ {Period, FirstBeat, ListPeriod, FirstList, OfflineTimeout, MaxGap} \subseteq Nat \ {0}
    /\ MaxClock \in Nat /\ ClockModulo \in Nat \ {0}
    /\ 4 * MaxGap < Period /\ FirstBeat < ClockModulo /\ FirstList < ClockModulo

VARIABLES
    clock,         \* time since the start
    receiving,     \* process() is handling received frames
    crnt_time_ms,  \* what process() read on entry
    next_beat,     \* Cyphal::next_pub_time_ms
    next_list,     \* PortListPublisher::next_pub_time_ms
    ports_updated,
    uptime,        \* of the last heartbeat, in periods
    sinceCall,     \* time since the last publication branch
    beats,         \* history: heartbeats so far
    lastBeat,      \* history: the time of the last one
    lastList,      \* history: when the last port list was handed to push
    updatedAt,     \* history: when ports_updated was first set
    unannounced    \* history: there is a change that no queued list holds

vars == <<clock, receiving, crnt_time_ms, next_beat, next_list, ports_updated,
          uptime, sinceCall, beats, lastBeat, lastList, updatedAt, unannounced>>

Time == 0 .. MaxClock
Reading == 0 .. ClockModulo - 1

TypeOK ==
    /\ {clock, lastBeat, lastList, updatedAt} \subseteq Time
    /\ {crnt_time_ms, next_beat, next_list} \subseteq Reading
    /\ {receiving, ports_updated, unannounced} \subseteq BOOLEAN
    /\ uptime \in Nat /\ beats \in Nat
    /\ sinceCall \in 0 .. MaxGap

Init ==
    /\ clock = 0 /\ receiving = FALSE /\ crnt_time_ms = 0
    /\ next_beat = FirstBeat /\ next_list = FirstList
    /\ ports_updated = FALSE /\ unannounced = FALSE
    /\ uptime = 0 /\ sinceCall = 0
    /\ beats = 0 /\ lastBeat = 0 /\ lastList = 0 /\ updatedAt = 0

platformSpecificGetTimeMs == clock % ClockModulo

process ==
    /\ ~receiving /\ receiving' = TRUE
    /\ crnt_time_ms' = platformSpecificGetTimeMs
    /\ UNCHANGED <<clock, next_beat, next_list, ports_updated, uptime,
                   sinceCall, beats, lastBeat, lastList, updatedAt, unannounced>>

(* A register request writes an integer parameter as a natural16.          *)
writeParam ==
    /\ receiving
    /\ ports_updated' = TRUE /\ unannounced' = TRUE
    /\ updatedAt' = IF ports_updated THEN updatedAt ELSE clock
    /\ UNCHANGED <<clock, receiving, crnt_time_ms, next_beat, next_list, uptime,
                   sinceCall, beats, lastBeat, lastList>>

BeatDue == next_beat < crnt_time_ms

(* Mutant: the next heartbeat counts from this one.                        *)
PublishHeartbeatDrifting ==
    /\ BeatDue
    /\ next_beat' = (crnt_time_ms + Period) % ClockModulo
    /\ uptime' = crnt_time_ms \div Period
    /\ beats' = beats + 1 /\ lastBeat' = clock
    /\ UNCHANGED <<next_list, ports_updated, lastList, updatedAt, unannounced>>

(* next_pub_time_ms += 1000, in 32 bits.                                   *)
PublishHeartbeat ==
    /\ BeatDue
    /\ next_beat' = (next_beat + Period) % ClockModulo
    /\ uptime' = crnt_time_ms \div Period
    /\ beats' = beats + 1 /\ lastBeat' = clock
    /\ UNCHANGED <<next_list, ports_updated, lastList, updatedAt, unannounced>>

(* Mutants: an update waits for the period, or is not looked at.           *)
ListDueOnBoth == platformSpecificGetTimeMs >= next_list /\ ports_updated

ListDueByTime == platformSpecificGetTimeMs >= next_list

ListDue == platformSpecificGetTimeMs >= next_list \/ ports_updated

(* PortListPublisher reads the clock again.  The queue may refuse the list *)
(* (it is full, or the heap is); publish ignores what push returns.        *)
PublishPortList ==
    /\ ~BeatDue /\ ListDue
    /\ next_list' = (platformSpecificGetTimeMs + ListPeriod) % ClockModulo
    /\ ports_updated' = FALSE
    /\ lastList' = clock
    /\ unannounced' \in {FALSE, unannounced}
    /\ UNCHANGED <<next_beat, uptime, beats, lastBeat, updatedAt>>

PublishNothing ==
    /\ ~BeatDue /\ ~ListDue
    /\ UNCHANGED <<next_beat, next_list, ports_updated, uptime, beats,
                   lastBeat, lastList, updatedAt, unannounced>>

(* The publication branch ends the call, but for spinTransmit.             *)
Publish ==
    /\ receiving /\ receiving' = FALSE
    /\ PublishHeartbeat \/ PublishPortList \/ PublishNothing
    /\ sinceCall' = 0
    /\ UNCHANGED <<clock, crnt_time_ms>>

(* The main loop comes round within MaxGap.                                *)
Tick ==
    /\ clock < MaxClock /\ sinceCall < MaxGap
    /\ clock' = clock + 1 /\ sinceCall' = sinceCall + 1
    /\ UNCHANGED <<receiving, crnt_time_ms, next_beat, next_list, ports_updated,
                   uptime, beats, lastBeat, lastList, updatedAt, unannounced>>

Next == process \/ writeParam \/ Publish \/ Tick

Spec == Init /\ [][Next]_vars

(* While no deadline has wrapped: the first 49 days.                       *)
EarlySpec == Init /\ [][Next /\ clock' + Period + ListPeriod < ClockModulo]_vars

-----------------------------------------------------------------------------
(***************************************************************************)
(* The nth heartbeat is published after FirstBeat + (n - 1) * Period and   *)
(* within two rounds of the main loop from then: a late one does not delay *)
(* the later ones, and there are never two for one period.                 *)
(***************************************************************************)
Due(n) == FirstBeat + (n - 1) * Period

HeartbeatOnSchedule ==
    /\ beats > 0 => lastBeat > Due(beats)
    /\ clock <= Due(beats + 1) + 2 * MaxGap

(***************************************************************************)
(* The heartbeats do not starve the port list: it is published every       *)
(* ListPeriod, give or take the rounds that wait for it and for a          *)
(* heartbeat that takes its turn.                                          *)
(***************************************************************************)
PortListOnSchedule ==
    clock - lastList <= (IF ListPeriod > FirstList THEN ListPeriod ELSE FirstList) + 2 * MaxGap

(***************************************************************************)
(* A change of a port register is announced, not only noted: a list that   *)
(* holds it is handed to the queue within two rounds of the main loop,     *)
(* though the heartbeat has the first claim.  When the queue refuses the   *)
(* list, which publish() does not look at, the next one is offered within  *)
(* the period of the list.                                                 *)
(***************************************************************************)
UpdateIsAnnounced ==
    unannounced => IF ports_updated THEN clock - updatedAt <= 2 * MaxGap
                   ELSE /\ lastList >= updatedAt
                        /\ clock - lastList <= ListPeriod + 2 * MaxGap

(***************************************************************************)
(* The heartbeat's definition: a node is offline for the others            *)
(* OFFLINE_TIMEOUT after its last heartbeat, which a live node never is.   *)
(***************************************************************************)
NodeStaysOnline == clock - lastBeat <= OfflineTimeout
=============================================================================
