------------------------------- MODULE Health -------------------------------
(***************************************************************************)
(* Liveness supervision: every monitored task kicks its bit once per loop  *)
(* (hk_health_kick), the health task reads the bits, refreshes the         *)
(* independent watchdog if none is missing and clears them, in three       *)
(* separate steps (hk_health_service), and reports a mask that stays       *)
(* (task_health in App/tasks/app.c).                                       *)
(*                                                                         *)
(* Tasks are released by vTaskDelayUntil: task t every Period[t] ticks of  *)
(* this model, and a task that is not stalled runs before it is Jitter[t]  *)
(* ticks late.  A stalled task (blocked, spinning, crashed) does not run.  *)
(***************************************************************************)
EXTENDS Integers, FiniteSets

CONSTANTS
  Tasks,        \* the tasks that kick, the storage task among them
  Expected,     \* the IWDG mask of hk_health_init
  Period,       \* ticks between two releases, of each task and of "health"
  Jitter,       \* ticks by which a task that is not stalled may be late
  WarnPasses,   \* HK_HEALTH_WARN_PASSES
  Timeout,      \* ticks the watchdog waits for a refresh
  ProbeTicks    \* ticks hk_app_init may spend probing the SD card, with the
                \* watchdog already running and nobody there to refresh it

Threads == Tasks \cup {"health"}

ASSUME HealthAssumption ==
  /\ "health" \notin Tasks /\ Expected \subseteq Tasks
  /\ Period \in [Threads -> Nat \ {0}]
  /\ Jitter \in [Threads -> Nat \ {0}]
  /\ \A t \in Threads : Jitter[t] <= Period[t]
  /\ WarnPasses \in Nat \ {0} /\ Timeout \in Nat \ {0}
  /\ ProbeTicks \subseteq Nat

VARIABLES
  s_kicked,      \* the accumulated kicks
  pc, kicked,    \* the health task inside hk_health_service, and what it read
  boot_left,     \* ticks until hk_app_start creates the tasks
  stuck_mask, stuck_passes, warned,   \* locals of task_health
  iwdg,          \* ticks since the last refresh
  phase,         \* ticks since the last release of each thread
  pending,       \* threads released and not yet run
  stalled,       \* tasks that have stopped running
  outlived,      \* history: refreshes each stalled expected task has outlived
  resumed        \* history: an expected task came back since the last refresh

reporting   == <<stuck_mask, stuck_passes, warned>>
schedule    == <<phase, pending>>
faults      == <<stalled, outlived, resumed>>
vars == <<s_kicked, pc, kicked, boot_left, reporting, iwdg, schedule, faults>>

\* Mutant: the storage task in the mask.
MissingAny == Tasks \ kicked

missing == Expected \ kicked

expired == iwdg = Timeout

\* outlived after a refresh; it counts no further than Fatal.
Fatal == 2

Outlived == [t \in Expected |->
               CASE t \notin stalled      -> 0
                 [] outlived[t] = Fatal -> Fatal
                 [] OTHER               -> outlived[t] + 1]

-----------------------------------------------------------------------------
(* hk_app_init and hk_app_start. *)

BootTick ==
  /\ boot_left > 0 /\ ~expired
  /\ boot_left' = boot_left - 1
  /\ iwdg' = iwdg + 1
  /\ UNCHANGED <<s_kicked, pc, kicked, reporting, schedule, faults>>

Start ==
  /\ pc = "boot" /\ boot_left = 0 /\ ~expired
  /\ pc' = "sleep"
  /\ pending' = Threads
  /\ UNCHANGED <<s_kicked, kicked, boot_left, reporting, iwdg, phase, faults>>

-----------------------------------------------------------------------------
(* The tasks. *)

\* hk_health_kick, at the end of a pass through the loop of task t.
Kick(t) ==
  /\ t \in pending \ stalled /\ ~expired
  /\ s_kicked' = s_kicked \cup {t}
  /\ pending' = pending \ {t}
  /\ UNCHANGED <<pc, kicked, boot_left, reporting, iwdg, phase, faults>>

\* hk_health_service, first critical section.
ServiceRead ==
  /\ pc = "sleep" /\ "health" \in pending /\ ~expired
  /\ kicked' = s_kicked
  /\ pc' = "read"
  /\ UNCHANGED <<s_kicked, boot_left, reporting, iwdg, schedule, faults>>

\* Mutant: the watchdog refreshed whoever is missing.
ServiceRefreshAlways ==
  /\ pc = "read" /\ ~expired
  /\ iwdg' = 0
  /\ pc' = "refreshed"
  /\ outlived' = Outlived
  /\ resumed' = FALSE
  /\ UNCHANGED <<s_kicked, kicked, boot_left, reporting, schedule, stalled>>

\* HAL_IWDG_Refresh, if nobody is missing.
ServiceRefresh ==
  /\ pc = "read" /\ missing = {} /\ ~expired
  /\ iwdg' = 0
  /\ pc' = "refreshed"
  /\ outlived' = Outlived
  /\ resumed' = FALSE
  /\ UNCHANGED <<s_kicked, kicked, boot_left, reporting, schedule, stalled>>

\* Mutant: the accumulator is never cleared.
ServiceClearNothing ==
  /\ pc = "refreshed" /\ ~expired
  /\ pc' = "serviced"
  /\ UNCHANGED <<s_kicked, kicked, boot_left, reporting, iwdg, schedule, faults>>

\* Second critical section: the kicks since the first one go too.
ServiceClear ==
  /\ pc = "refreshed" /\ ~expired
  /\ s_kicked' = {}
  /\ pc' = "serviced"
  /\ UNCHANGED <<kicked, boot_left, reporting, iwdg, schedule, faults>>

\* Mutants: passes counted across masks, and a count that never grows.
PassesAnyMask == IF missing = {} THEN stuck_passes ELSE stuck_passes + 1
PassesForgot  == IF missing = {} THEN 0 ELSE 1

\* The passes of task_health that have seen the mask of this one.
Passes == IF missing = {} THEN 0
          ELSE IF missing = stuck_mask THEN stuck_passes + 1 ELSE 1

\* The rest of the pass: warn once of a mask that stays, and give the
\* all-clear once.
Report ==
  /\ pc = "serviced" \/ (pc = "read" /\ missing # {})
  /\ ~expired
  /\ stuck_mask' = missing
  /\ stuck_passes' = Passes
  /\ warned' = (stuck_passes' = WarnPasses \/ (warned /\ missing # {}))
  /\ pc' = "sleep" /\ kicked' = {}
  /\ pending' = pending \ {"health"}
  /\ UNCHANGED <<s_kicked, boot_left, iwdg, phase, faults>>

-----------------------------------------------------------------------------
(* The scheduler, the faults and the watchdog. *)

Tick ==
  /\ pc # "boot" /\ ~expired
  /\ \A t \in pending \ stalled : phase[t] + 1 < Jitter[t]
  /\ LET next == [t \in Threads |-> (phase[t] + 1) % Period[t]]
     IN /\ phase' = next
        /\ pending' = pending \cup {t \in Threads : next[t] = 0}
  /\ iwdg' = iwdg + 1
  /\ UNCHANGED <<s_kicked, pc, kicked, boot_left, reporting, faults>>

Stall(t) ==
  /\ pc # "boot" /\ t \notin stalled /\ ~expired
  /\ stalled' = stalled \cup {t}
  /\ UNCHANGED <<s_kicked, pc, kicked, boot_left, reporting, iwdg, schedule,
                 outlived, resumed>>

Resume(t) ==
  /\ t \in stalled /\ ~expired
  /\ stalled' = stalled \ {t}
  /\ resumed' = (resumed \/ t \in Expected)
  /\ outlived' = [x \in Expected |-> IF x = t THEN 0 ELSE outlived[x]]
  /\ UNCHANGED <<s_kicked, pc, kicked, boot_left, reporting, iwdg, schedule>>

Init ==
  /\ s_kicked = {} /\ kicked = {} /\ pc = "boot"
  /\ boot_left \in ProbeTicks
  /\ stuck_mask = {} /\ stuck_passes = 0 /\ warned = FALSE
  /\ iwdg = 0
  /\ phase = [t \in Threads |-> 0] /\ pending = {}
  /\ stalled = {} /\ outlived = [t \in Expected |-> 0] /\ resumed = FALSE

\* The watchdog resets the MCU: everything starts over.
Reset ==
  /\ expired
  /\ s_kicked' = {} /\ kicked' = {} /\ pc' = "boot"
  /\ boot_left' \in ProbeTicks
  /\ stuck_mask' = {} /\ stuck_passes' = 0 /\ warned' = FALSE
  /\ iwdg' = 0
  /\ phase' = [t \in Threads |-> 0] /\ pending' = {}
  /\ stalled' = {} /\ outlived' = [t \in Expected |-> 0] /\ resumed' = FALSE

Service == ServiceRead \/ ServiceRefresh \/ ServiceClear \/ Report

Next == \/ BootTick \/ Start \/ Service \/ Tick \/ Reset
        \/ \E t \in Tasks : Kick(t) \/ Stall(t) \/ Resume(t)

Spec == Init /\ [][Next]_vars

\* The scheduler runs whoever is ready, and time passes: the counter of the
\* watchdog is hardware.  Tasks stall and resume finitely often in between.
FairSpec ==
  Spec /\ SF_vars(BootTick \/ Start \/ Service \/ Tick \/ Reset
                  \/ \E t \in Tasks : Kick(t))

-----------------------------------------------------------------------------
(* Properties. *)

\* The expected tasks that explain a watchdog reset or a warning.
Culprits == stalled \cap Expected

\* The watchdog bites only for an expected task that stopped: kicks lost
\* between read and clear, late tasks and a dead storage task ("a dead SD card
\* must not reboot the capsule", health.h:19-20) never cost the refresh.
HealthyNeverReset == expired => Culprits # {} \/ resumed

\* A stopped task feeds the watchdog at most once more, from a kick it left
\* behind: kicks are not counted twice (health.c:40-47).
StallIsFatal == \A t \in Culprits : outlived[t] < Fatal

\* The warning of task_health names the stopped tasks in the log before the
\* reset wipes it, unless tasks came and went meanwhile.
WarnedBeforeReset == expired /\ ~resumed /\ pc # "boot" => warned

\* A task slower than the health task is no reason to warn
\* (app_config.h:13-20), not even when its kick was lost.
NoFalseAlarm == [][~warned /\ warned' => Culprits # {} \/ resumed]_vars

\* An expected task that stops for good ends in a reset.
StallDetected == \A t \in Expected :
                   t \in stalled ~> (expired \/ t \notin stalled)
=============================================================================
