------------------------------ MODULE Deadman ------------------------------
(***************************************************************************)
(* The dead man's switch of a hidden service                               *)
(* (src/src/greenhouse/deadman.c): the operator publishes sealed alarms    *)
(* and renews a heartbeat in the DHT, and a recipient who finds no recent  *)
(* heartbeat fetches its alarm.  A lookup may miss a record that is there. *)
(* Times are counted down, so that no clock has to be bounded.             *)
(***************************************************************************)
EXTENDS Naturals

CONSTANTS
    HeartbeatInterval, \* DMS_HB_INTERVAL_MS (48 h)
    HeartbeatMaxAge,   \* DMS_HB_MAX_AGE_MS (72 h)
    PollInterval       \* DMS_HB_MAX_AGE_MS / 4

ASSUME DeadmanAssumption ==
    /\ {HeartbeatInterval, HeartbeatMaxAge, PollInterval} \subseteq Nat \ {0}
    /\ HeartbeatInterval < HeartbeatMaxAge

VARIABLES
    operator,  \* the operator: "off", "armed", or "gone" with the switch armed
    beatIn,    \* when hb_timer fires
    heartbeat, \* whether the DHT has a heartbeat
    age,       \* the age of that heartbeat, up to HeartbeatMaxAge
    alarms,    \* whether the DHT has the sealed alarms
    pollIn,    \* when poll_timer fires
    asking,    \* the recipient's lookup: "none", "heartbeat", "alarm"
    alarmed    \* whether the recipient's callback was called

deadmanVars == <<operator, beatIn, heartbeat, age, alarms, pollIn, asking, alarmed>>

\* trellis_dms_watch polls at once.
DeadmanInit ==
    /\ operator = "off" /\ beatIn = 0 /\ heartbeat = FALSE /\ age = 0
    /\ alarms = FALSE /\ pollIn = PollInterval /\ asking = "heartbeat" /\ alarmed = FALSE

\* dms_publish_heartbeat.
Beat == heartbeat' = TRUE /\ age' = 0 /\ beatIn' = HeartbeatInterval

\* trellis_dms_arm: the alarms, then the first heartbeat.
Arm ==
    /\ operator = "off"
    /\ operator' = "armed" /\ alarms' = TRUE /\ Beat
    /\ UNCHANGED <<pollIn, asking, alarmed>>

\* dms_hb_timer_cb and trellis_dms_heartbeat.
Renew ==
    /\ operator = "armed"
    /\ Beat
    /\ UNCHANGED <<operator, alarms, pollIn, asking, alarmed>>

\* trellis_dms_disarm: the alarms are removed before the heartbeat.
Disarm ==
    /\ operator = "armed"
    /\ operator' = "off" /\ alarms' = FALSE /\ heartbeat' = FALSE
    /\ UNCHANGED <<beatIn, age, pollIn, asking, alarmed>>

\* The operator is taken away; the records stay in the DHT.
Vanish ==
    /\ operator = "armed"
    /\ operator' = "gone"
    /\ UNCHANGED <<beatIn, heartbeat, age, alarms, pollIn, asking, alarmed>>

\* dms_watch_poll_cb.
PollTimer ==
    /\ pollIn = 0 /\ asking = "none"
    /\ pollIn' = PollInterval /\ asking' = "heartbeat"
    /\ UNCHANGED <<operator, beatIn, heartbeat, age, alarms, alarmed>>

\* Faulty variant of HeartbeatFetched: the age of a heartbeat is not looked at.
HeartbeatFetchedOnly(found) ==
    /\ asking = "heartbeat" /\ (found => heartbeat)
    /\ asking' = IF found THEN "none" ELSE "alarm"
    /\ UNCHANGED <<operator, beatIn, heartbeat, age, alarms, pollIn, alarmed>>

\* on_hb_fetched: a heartbeat that is missing, or too old, leads to the alarm.
HeartbeatFetched(found) ==
    /\ asking = "heartbeat" /\ (found => heartbeat)
    /\ asking' = IF found /\ age < HeartbeatMaxAge THEN "none" ELSE "alarm"
    /\ UNCHANGED <<operator, beatIn, heartbeat, age, alarms, pollIn, alarmed>>

\* on_alarm_fetched.
AlarmFetched(found) ==
    /\ asking = "alarm" /\ (found => alarms)
    /\ asking' = "none"
    /\ alarmed' = (alarmed \/ found)
    /\ UNCHANGED <<operator, beatIn, heartbeat, age, alarms, pollIn>>

Sooner(t) == IF t = 0 THEN 0 ELSE t - 1

\* Time passes between two polls or heartbeats; lookups and timers are quicker.
DeadmanTick ==
    /\ asking = "none" /\ pollIn > 0 /\ (operator = "armed" => beatIn > 0)
    /\ pollIn' = Sooner(pollIn) /\ beatIn' = Sooner(beatIn)
    /\ age' = IF age < HeartbeatMaxAge THEN age + 1 ELSE age
    /\ UNCHANGED <<operator, heartbeat, alarms, asking, alarmed>>

DeadmanNext ==
    \/ Arm \/ Renew \/ Disarm \/ Vanish \/ PollTimer \/ DeadmanTick
    \/ \E found \in BOOLEAN : HeartbeatFetched(found) \/ AlarmFetched(found)

\* Timers fire, lookups end, and one that is repeated finds its record in the end.
DeadmanFairness ==
    /\ WF_deadmanVars(DeadmanTick) /\ WF_deadmanVars(PollTimer)
    /\ WF_deadmanVars(\E found \in BOOLEAN : HeartbeatFetched(found))
    /\ WF_deadmanVars(\E found \in BOOLEAN : AlarmFetched(found))
    /\ SF_deadmanVars(AlarmFetched(TRUE))

DeadmanSpec == DeadmanInit /\ [][DeadmanNext]_deadmanVars /\ DeadmanFairness

\* When the operator of an armed switch vanishes, the recipient gets the alarm
\* (dms_watch_poll_cb to on_alarm_fetched).
SilenceIsNoticed == operator = "gone" ~> alarmed
=============================================================================
