------------------------------ MODULE MCSched -------------------------------
(* Small instances of Sched. *)
EXTENDS Sched, TLC

CONSTANTS p1, p2, p3

TwoProcs   == <<p1, p2>>
ThreeProcs == <<p1, p2, p3>>

\* red: sleeps, and has an alarm whose handler sleeps; console: waits for
\* input, is killed by a bad memory command. Both share an event.
UsesMixed ==
    (p1 :> {"sleep", "alarm", "wake", "event_set", "fault"})
        @@ (p2 :> {"wait", "sleep", "event_wait", "fault"})

\* Three processes of which one only computes: timers and alarms compete with it.
UsesTimed ==
    (p1 :> {"sleep", "alarm"}) @@ (p2 :> {"sleep"}) @@ (p3 :> {"yield"})

\* One process that waits and has an alarm.
UsesWaitAlarm == (p1 :> {"wait", "alarm"}) @@ (p2 :> {"wake"})
=============================================================================
