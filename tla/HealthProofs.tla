---------------------------- MODULE HealthProofs ----------------------------
(***************************************************************************)
(* Proofs about Health for every set of tasks, periods, jitter and time-   *)
(* out.  A stopped task is forgotten by the watchdog after one refresh;    *)
(* where a second would come from is a kick left in s_kicked, or in the    *)
(* copy that the service has taken of it.  The three theorems after it     *)
(* bound times: how long the next refresh can take (DueInv), how long the  *)
(* missing mask has been the same (WarnInv), and how many passes ago a     *)
(* task that runs has kicked (AlarmInv).                                   *)
(***************************************************************************)
EXTENDS Health, TLAPS

\* No kick of t is left that could refresh the watchdog once more.
Spent(t) == /\ pc # "refreshed" => t \notin s_kicked
            /\ pc = "read" => t \notin kicked

StallInv ==
  /\ outlived \in [Expected -> 0 .. Fatal]
  /\ \A t \in Expected :
       /\ t \notin stalled => outlived[t] = 0
       /\ t \in stalled => \/ outlived[t] = 0
                           \/ outlived[t] = 1 /\ Spent(t)

LEMMA StallInit == Init => StallInv
  BY DEF Init, StallInv, Fatal

\* A refresh needs a kick of every expected task, so none of a spent one.
LEMMA StallRefresh == StallInv /\ ServiceRefresh => StallInv'
<1> SUFFICES ASSUME StallInv, ServiceRefresh PROVE StallInv'
  OBVIOUS
<1> USE DEF StallInv, ServiceRefresh
<1>1. \A t \in Expected : t \in kicked
  BY DEF missing
<1>2. \A t \in Expected : t \in stalled => outlived[t] = 0
  BY <1>1 DEF Spent
<1>3. \A t \in Expected : outlived'[t] = IF t \in stalled THEN 1 ELSE 0
  BY <1>2 DEF Outlived, Fatal
<1>4. outlived' \in [Expected -> 0 .. Fatal]
  BY <1>2 DEF Outlived, Fatal
<1> QED
  BY <1>3, <1>4 DEF Spent

LEMMA StallNext == StallInv /\ [Next]_vars => StallInv'
<1> SUFFICES ASSUME StallInv, [Next]_vars PROVE StallInv'
  OBVIOUS
<1> USE DEF StallInv, Spent
<1>1. CASE BootTick
  BY <1>1 DEF BootTick, faults
<1>2. CASE Start
  BY <1>2 DEF Start, faults
<1>3. CASE Service
  <2>1. CASE ServiceRead
    BY <2>1 DEF ServiceRead, faults
  <2>2. CASE ServiceRefresh
    BY <2>2, StallRefresh
  <2>3. CASE ServiceClear
    BY <2>3 DEF ServiceClear, faults
  <2>4. CASE Report
    BY <2>4 DEF Report, faults
  <2> QED
    BY <1>3, <2>1, <2>2, <2>3, <2>4 DEF Service
<1>4. CASE Tick
  BY <1>4 DEF Tick, faults
<1>5. CASE Reset
  BY <1>5 DEF Reset, Fatal
<1>6. ASSUME NEW t \in Tasks, Kick(t) PROVE StallInv'
  BY <1>6 DEF Kick, faults
<1>7. ASSUME NEW t \in Tasks, Stall(t) PROVE StallInv'
  BY <1>7 DEF Stall
<1>8. ASSUME NEW t \in Tasks, Resume(t) PROVE StallInv'
  BY <1>8 DEF Resume, Fatal
<1>9. CASE UNCHANGED vars
  BY <1>9 DEF vars, faults
<1> QED
  BY <1>1, <1>2, <1>3, <1>4, <1>5, <1>6, <1>7, <1>8, <1>9 DEF Next

\* A stopped task feeds the watchdog at most once more, from a kick it left
\* behind, however the tasks interleave with the three steps of
\* hk_health_service (health.c:33-47).
THEOREM StallHolds == Spec => []StallIsFatal
<1>1. StallInv => StallIsFatal
  BY DEF StallInv, StallIsFatal, Culprits, Fatal
<1> QED
  BY StallInit, StallNext, <1>1, PTL DEF Spec
-----------------------------------------------------------------------------
(* The schedule: who runs when, for how long. *)

\* The firmware's figures: a task that runs has kicked again b ticks after a
\* refresh, or after a boot that probed the SD card.
KicksWithin(b) ==
  /\ \A t \in Expected :
       Jitter["health"] - 1 + Period[t] + Jitter[t] - 1 <= b
  /\ \A q \in ProbeTicks : /\ q <= b
                           /\ \A t \in Expected : q + Jitter[t] - 1 <= b

\* They leave the health task n passes before the watchdog bites.
InTime(b, n) ==
  KicksWithin(b) /\ b + n * Period["health"] + Jitter["health"] - 1 < Timeout

\* Between the clear and its next kick a task is missed by fewer passes of the
\* health task than a warning takes.
Patient ==
  \A t \in Expected :
    /\ Jitter["health"] - 1 + Period[t] + Jitter[t] - 1
         < WarnPasses * Period["health"]
    /\ Period["health"] + Jitter[t] - 1 < WarnPasses * Period["health"]

\* Ticks until t, if it is not stalled, has run for its next release.
Slack(t) ==
  (IF t \in pending THEN 0 ELSE Period[t]) + Jitter[t] - 1 - phase[t]

\* The tasks that have not kicked since the last clear; and the ticks until
\* the health task has acted on it: in the pass it is in, if that has read or
\* is to read just this, or else in the next one.
Left     == Expected \ s_kicked
NextPass == Period["health"] + Jitter["health"] - 1 - phase["health"]
Sees     == pc = "sleep" \/ (pc = "read" /\ missing = Left)
Answer   == IF Sees THEN Slack("health") ELSE NextPass

\* Passes that still have to see them before the warning.
More == IF Sees /\ stuck_mask = Left THEN WarnPasses - stuck_passes
        ELSE WarnPasses

\* Neither a boot nor the moment between the refresh and the clear.
Steady == pc \in {"sleep", "read", "serviced"} /\ ~resumed

SchedInv ==
  /\ phase \in [Threads -> Nat] /\ \A t \in Threads : phase[t] < Period[t]
  /\ pending \subseteq Threads /\ stalled \subseteq Tasks
  /\ iwdg \in Nat /\ boot_left \in Nat /\ stuck_passes \in Nat
  /\ pc \in {"boot", "sleep", "read", "refreshed", "serviced"}
  /\ pc = "boot" => /\ iwdg + boot_left \in ProbeTicks
                    /\ s_kicked = {} /\ pending = {} /\ stuck_passes = 0
                    /\ \A t \in Threads : phase[t] = 0
                    /\ ~warned
  /\ pc # "boot" => boot_left = 0
  /\ pc \notin {"boot", "sleep"} => "health" \in pending
  /\ "health" \in pending => phase["health"] < Jitter["health"]
  /\ pc = "read" => kicked \subseteq s_kicked
  /\ pc \in {"refreshed", "serviced"} => missing = {} /\ iwdg <= phase["health"]
  /\ stuck_passes >= WarnPasses => warned

\* Every running task kicks in time, and the health task answers in time.
DueInv(b) ==
  /\ SchedInv
  /\ Steady =>
       /\ \A t \in Left \ stalled : iwdg + Slack(t) <= b /\ iwdg <= b
       /\ Left = {} =>
            iwdg + Answer <= b + Period["health"] + Jitter["health"] - 1

\* Once only stopped tasks are left, the mask stays and each pass counts.
WarnInv(b) ==
  /\ DueInv(b)
  /\ Steady /\ Left # {} /\ Left \subseteq stalled =>
       iwdg + Answer + (More - 1) * Period["health"]
         <= b + WarnPasses * Period["health"] + Jitter["health"] - 1

\* Ticks since the clear in terms of the passes of the health task, those that
\* counted and the one released.
Count == IF pc = "serviced" THEN 0
         ELSE stuck_passes + (IF "health" \in pending THEN 1 ELSE 0)
Spell == Count * Period["health"] + phase["health"]

AlarmInv ==
  /\ SchedInv
  /\ Steady => \A t \in Left \ stalled :
                 /\ Spell + Slack(t) < WarnPasses * Period["health"]
                 /\ Spell < WarnPasses * Period["health"]
  /\ pc = "read" /\ missing # {} /\ ~resumed /\ Culprits = {} =>
       stuck_passes + 1 < WarnPasses

LEMMA Figures ==
  /\ "health" \in Threads /\ Expected \subseteq Tasks /\ Tasks \subseteq Threads
  /\ "health" \notin Tasks
  /\ \A t \in Threads : /\ Period[t] \in Nat \ {0} /\ Jitter[t] \in Nat \ {0}
                        /\ Jitter[t] <= Period[t]
  /\ WarnPasses \in Nat \ {0} /\ Timeout \in Nat \ {0} /\ ProbeTicks \subseteq Nat
  BY HealthAssumption DEF Threads

LEMMA Times ==
  ASSUME NEW p \in Nat \ {0}, NEW a \in Int, NEW c \in Int
  PROVE  /\ a * p \in Int /\ 0 * p = 0 /\ 1 * p = p
         /\ (a + 1) * p = a * p + p /\ (a - 1) * p = a * p - p
         /\ a <= c => a * p <= c * p
         /\ a * p < c * p => a < c
<1>1. a * p \in Int /\ 0 * p = 0 /\ 1 * p = p
  OBVIOUS
<1>2. (a + 1) * p = a * p + p /\ (a - 1) * p = a * p - p
  OBVIOUS
<1>3. a <= c => a * p <= c * p
  OBVIOUS
<1>4. a * p < c * p => a < c
  OBVIOUS
<1> QED BY <1>1, <1>2, <1>3, <1>4

LEMMA Wraps ==
  ASSUME NEW p \in Nat \ {0}, NEW f \in Nat, f < p
  PROVE  (f + 1) % p = IF f + 1 < p THEN f + 1 ELSE 0
  OBVIOUS

\* Nobody has more to wait than a period and its delay.
LEMMA Slacks ==
  ASSUME SchedInv
  PROVE  /\ \A t \in Threads : /\ Slack(t) \in Int
                               /\ Slack(t) <= Period[t] + Jitter[t] - 1
         /\ Slack("health") >= 0 /\ NextPass \in Nat
         /\ Answer \in Nat /\ Answer <= Period["health"] + Jitter["health"] - 1
         /\ "health" \notin pending => Slack("health") = NextPass
         /\ "health" \in pending =>
              NextPass = Slack("health") + Period["health"]
<1>1. ASSUME NEW t \in Threads
      PROVE  Slack(t) \in Int /\ Slack(t) <= Period[t] + Jitter[t] - 1
  BY Figures DEF SchedInv, Slack
<1>2. /\ phase["health"] \in Nat /\ phase["health"] < Period["health"]
      /\ Period["health"] \in Nat /\ Jitter["health"] \in Nat \ {0}
      /\ "health" \in pending => phase["health"] < Jitter["health"]
  BY Figures DEF SchedInv
<1>3. /\ NextPass \in Nat /\ NextPass <= Period["health"] + Jitter["health"] - 1
  BY <1>2 DEF NextPass
<1>4. CASE "health" \in pending
  <2>1. Slack("health") = Jitter["health"] - 1 - phase["health"]
    BY <1>2, <1>4 DEF Slack
  <2>2. Slack("health") >= 0 /\ NextPass = Slack("health") + Period["health"]
    BY <1>2, <1>4, <2>1 DEF NextPass
  <2> QED BY <1>1, <1>3, <1>4, <2>2, Figures DEF Answer
<1>5. CASE "health" \notin pending
  <2>1. Slack("health") = NextPass
    BY <1>2, <1>5 DEF Slack, NextPass
  <2> QED BY <1>1, <1>3, <1>5, <2>1 DEF Answer
<1> QED BY <1>4, <1>5

\* A tick brings everybody who runs nearer to the next pass.
LEMMA TickFacts ==
  ASSUME SchedInv, Tick
  PROVE  /\ \A t \in Threads :
              /\ phase'[t] = IF phase[t] + 1 < Period[t] THEN phase[t] + 1 ELSE 0
              /\ t \in pending' <=> t \in pending \/ phase'[t] = 0
         /\ \A t \in Threads \ stalled : Slack(t)' = Slack(t) - 1 /\ Slack(t) >= 1
         /\ NextPass' = NextPass - 1 \/ "health" \notin pending
         /\ "health" \in pending =>
              /\ phase'["health"] = phase["health"] + 1
              /\ phase'["health"] < Jitter["health"]
         /\ phase' \in [Threads -> Nat] /\ "health" \in Threads \ stalled
         /\ iwdg' = iwdg + 1 /\ pc # "boot"
         /\ UNCHANGED <<s_kicked, pc, kicked, boot_left, reporting, faults>>
<1>1. phase' = [t \in Threads |-> (phase[t] + 1) % Period[t]]
  BY DEF Tick
<1>2. ASSUME NEW t \in Threads
      PROVE  /\ phase[t] \in Nat /\ phase[t] < Period[t]
             /\ Period[t] \in Nat \ {0} /\ Jitter[t] \in Nat \ {0}
             /\ Jitter[t] <= Period[t]
             /\ phase'[t] = IF phase[t] + 1 < Period[t] THEN phase[t] + 1 ELSE 0
             /\ t \in pending' <=> t \in pending \/ phase'[t] = 0
  <2>1. /\ phase[t] \in Nat /\ phase[t] < Period[t]
        /\ Period[t] \in Nat \ {0} /\ Jitter[t] \in Nat \ {0}
        /\ Jitter[t] <= Period[t]
    BY Figures DEF SchedInv
  <2>2. phase'[t] = (phase[t] + 1) % Period[t]
    BY <1>1
  <2>3. phase'[t] = IF phase[t] + 1 < Period[t] THEN phase[t] + 1 ELSE 0
    BY <2>1, <2>2, Wraps
  <2>4. pending' = pending \cup {x \in Threads : phase'[x] = 0}
    BY DEF Tick
  <2> QED BY <2>1, <2>3, <2>4
<1>3. \A t \in pending \ stalled : phase[t] + 1 < Jitter[t]
  BY DEF Tick
<1>4. ASSUME NEW t \in Threads \ stalled
      PROVE  Slack(t)' = Slack(t) - 1 /\ Slack(t) >= 1
  <2>1. CASE t \in pending
    BY <1>2, <1>3, <2>1 DEF Slack
  <2>2. CASE t \notin pending
    BY <1>2, <2>2 DEF Slack
  <2> QED BY <2>1, <2>2
<1>5. "health" \in Threads \ stalled
  BY Figures DEF SchedInv
<1>6. "health" \in pending => /\ phase'["health"] = phase["health"] + 1
                              /\ phase'["health"] < Jitter["health"]
  BY <1>2, <1>3, <1>5
<1>7. NextPass' = NextPass - 1 \/ "health" \notin pending
  BY <1>2, <1>5, <1>6 DEF NextPass
<1>8. phase' \in [Threads -> Nat]
  BY <1>1, <1>2
<1>9. /\ iwdg' = iwdg + 1 /\ pc # "boot"
      /\ UNCHANGED <<s_kicked, pc, kicked, boot_left, reporting, faults>>
  BY DEF Tick
<1> QED BY <1>2, <1>4, <1>5, <1>6, <1>7, <1>8, <1>9

LEMMA SchedInit == Init => SchedInv
  BY Figures DEF Init, SchedInv

\* A pass of the health task.
LEMMA SchedService == SchedInv /\ Service => SchedInv'
<1> SUFFICES ASSUME SchedInv, Service PROVE SchedInv'
  OBVIOUS
<1> USE DEF SchedInv
<1>1. CASE ServiceRead
  BY <1>1 DEF ServiceRead, schedule, reporting, faults
<1>2. CASE ServiceRefresh
  <2>1. missing' = {} /\ phase["health"] \in Nat
    BY <1>2, Figures DEF ServiceRefresh, missing
  <2> QED BY <1>2, <2>1 DEF ServiceRefresh, schedule, reporting
<1>3. CASE ServiceClear
  <2>1. missing' = {}
    BY <1>3 DEF ServiceClear, missing
  <2> QED BY <1>3, <2>1 DEF ServiceClear, schedule, reporting, faults
<1>4. CASE Report
  <2>1. /\ pc # "boot" /\ pc' = "sleep" /\ pending' = pending \ {"health"}
        /\ stuck_passes' = Passes
        /\ warned' = (Passes = WarnPasses \/ (warned /\ missing # {}))
        /\ UNCHANGED <<s_kicked, boot_left, iwdg, phase, stalled>>
    BY <1>4 DEF Report, faults
  <2>2. Passes \in Nat
    BY DEF Passes
  <2>3. Passes >= WarnPasses => Passes = WarnPasses \/ (warned /\ missing # {})
    <3>1. CASE missing # {} /\ missing = stuck_mask
      <4>1. Passes = stuck_passes + 1
        BY <3>1 DEF Passes
      <4>2. Passes > WarnPasses => warned
        BY <4>1, Figures
      <4> QED BY <2>2, <3>1, <4>2, Figures
    <3>2. CASE missing # {} /\ missing # stuck_mask
      <4>1. Passes = 1
        BY <3>2 DEF Passes
      <4> QED BY <4>1, Figures
    <3>3. CASE missing = {}
      <4>1. Passes = 0
        BY <3>3 DEF Passes
      <4> QED BY <4>1, Figures
    <3> QED BY <3>1, <3>2, <3>3
  <2> QED BY <2>1, <2>2, <2>3
<1> QED BY <1>1, <1>2, <1>3, <1>4 DEF Service

LEMMA SchedStep == SchedInv /\ [Next]_vars => SchedInv'
<1> SUFFICES ASSUME SchedInv, [Next]_vars PROVE SchedInv'
  OBVIOUS
<1>1. CASE BootTick
  <2>1. /\ boot_left \in Nat /\ boot_left > 0 /\ iwdg \in Nat
        /\ boot_left' = boot_left - 1 /\ iwdg' = iwdg + 1
    BY <1>1 DEF BootTick, SchedInv
  <2>2. iwdg' + boot_left' = iwdg + boot_left /\ iwdg' \in Nat /\ boot_left' \in Nat
    BY <2>1
  <2>3. pc \in {"boot", "sleep", "read"}
    BY <2>1 DEF SchedInv
  <2> QED BY <1>1, <2>2, <2>3 DEF BootTick, SchedInv, schedule, reporting, faults, missing
<1>2. CASE Start
  BY <1>2, Figures DEF Start, SchedInv, reporting, faults, missing
<1>3. CASE Tick
  <2>1. \A t \in Threads : phase'[t] < Period[t]
    BY <1>3, TickFacts, Figures DEF SchedInv
  <2>2. pending' \subseteq Threads
    BY <1>3 DEF Tick, SchedInv
  <2>3. "health" \in pending' => phase'["health"] < Jitter["health"]
    BY <1>3, TickFacts, Figures
  <2>4. missing' = missing
    BY <1>3 DEF Tick, missing
  <2>5. pc \in {"refreshed", "serviced"} => iwdg' <= phase'["health"]
    <3> SUFFICES ASSUME pc \in {"refreshed", "serviced"}
                 PROVE  iwdg' <= phase'["health"]
      OBVIOUS
    <3>1. /\ iwdg <= phase["health"] /\ iwdg' = iwdg + 1 /\ iwdg \in Nat
          /\ phase["health"] \in Nat /\ phase'["health"] = phase["health"] + 1
      BY <1>3, TickFacts, Figures DEF SchedInv
    <3> QED BY <3>1
  <2>6. pc \notin {"boot", "sleep"} => "health" \in pending'
    BY <1>3, TickFacts, Figures DEF SchedInv
  <2>7. /\ phase' \in [Threads -> Nat] /\ iwdg' \in Nat /\ pc # "boot"
        /\ UNCHANGED <<s_kicked, pc, kicked, boot_left, stuck_passes,
                        warned, stalled>>
    BY <1>3, TickFacts DEF SchedInv, reporting, faults
  <2>8. pc \in {"refreshed", "serviced"} => missing' = {}
    BY <2>4 DEF SchedInv
  <2> QED BY <2>1, <2>2, <2>3, <2>5, <2>6, <2>7, <2>8 DEF SchedInv
<1>4. CASE Reset
  BY <1>4, Figures DEF Reset, SchedInv
<1>5. ASSUME NEW t \in Tasks, Kick(t) PROVE SchedInv'
  <2>1. "health" \in pending' <=> "health" \in pending
    BY <1>5, Figures DEF Kick
  <2> QED BY <1>5, <2>1 DEF Kick, SchedInv, reporting, faults, missing
<1>6. ASSUME NEW t \in Tasks, Stall(t) PROVE SchedInv'
  BY <1>6 DEF Stall, SchedInv, schedule, reporting, missing
<1>7. ASSUME NEW t \in Tasks, Resume(t) PROVE SchedInv'
  BY <1>7 DEF Resume, SchedInv, schedule, reporting, missing
<1>8. CASE UNCHANGED vars
  BY <1>8 DEF vars, SchedInv, schedule, reporting, faults, missing
<1> QED BY <1>1, <1>2, SchedService, <1>3, <1>4, <1>5, <1>6, <1>7, <1>8 DEF Next

-----------------------------------------------------------------------------
(* How far the answer of the health task is off, action by action. *)

LEMMA Types ==
  ASSUME SchedInv
  PROVE  Answer \in Nat /\ More \in Int /\ More <= WarnPasses
<1>1. stuck_passes \in Nat /\ WarnPasses \in Nat
  BY Figures DEF SchedInv
<1> QED BY <1>1, Slacks DEF More

LEMMA AnswerTick ==
  ASSUME SchedInv, Tick
  PROVE  /\ Answer' = Answer - 1 /\ More' = More /\ Left' = Left
         /\ Steady' = Steady /\ iwdg' = iwdg + 1
<1>1. UNCHANGED <<s_kicked, pc, kicked, reporting, faults>> /\ pc # "boot"
  BY TickFacts
<1>2. Left' = Left /\ Sees' = Sees /\ Steady' = Steady
  BY <1>1 DEF Left, Sees, missing, Steady, faults
<1>3. More' = More
  BY <1>1, <1>2 DEF More, reporting
<1>4. Slack("health")' = Slack("health") - 1
  BY TickFacts
<1>5. ~Sees => NextPass' = NextPass - 1
  <2>1. ~Sees => "health" \in pending
    BY <1>1 DEF Sees, SchedInv
  <2> QED BY <2>1, TickFacts
<1>6. Answer' = Answer - 1
  BY <1>2, <1>4, <1>5 DEF Answer
<1> QED BY <1>2, <1>3, <1>6, TickFacts

LEMMA AnswerRead ==
  ASSUME SchedInv, ServiceRead
  PROVE  /\ Answer' = Answer /\ More' = More /\ Left' = Left
         /\ Steady' = Steady
<1>1. /\ pc = "sleep" /\ pc' = "read" /\ kicked' = s_kicked
      /\ UNCHANGED <<s_kicked, reporting, schedule, faults>>
  BY DEF ServiceRead
<1>2. Left' = Left /\ missing' = Left' /\ Sees /\ Sees' /\ Steady' = Steady
  BY <1>1 DEF Left, Sees, missing, Steady, faults
<1>3. Slack("health")' = Slack("health")
  BY <1>1 DEF Slack, schedule
<1> QED BY <1>1, <1>2, <1>3 DEF Answer, More, reporting

\* A pass that has seen the mask of now counts it; any other starts anew.
LEMMA AnswerReport ==
  ASSUME SchedInv, Report
  PROVE  /\ Left' = Left /\ Steady' = Steady /\ iwdg' = iwdg
         /\ IF Sees
            THEN /\ Left # {}
                 /\ Answer' = Answer + Period["health"] /\ More' = More - 1
            ELSE Answer' = Answer /\ More' = WarnPasses /\ More = WarnPasses
<1>1. /\ pc = "serviced" \/ (pc = "read" /\ missing # {})
      /\ pc' = "sleep" /\ pending' = pending \ {"health"}
      /\ stuck_mask' = missing /\ stuck_passes' = Passes
      /\ UNCHANGED <<s_kicked, iwdg, phase, resumed>>
  BY DEF Report, faults
<1>2. Left' = Left /\ Steady' = Steady /\ iwdg' = iwdg /\ Sees'
  BY <1>1 DEF Left, Steady, Sees
<1>3. "health" \in pending /\ (pc = "serviced" => missing = {})
  BY <1>1 DEF SchedInv
<1>4. /\ Period["health"] \in Nat /\ Jitter["health"] \in Nat
      /\ phase["health"] \in Nat /\ stuck_passes \in Nat /\ WarnPasses \in Nat
  BY Figures DEF SchedInv
<1>5. /\ Answer' = NextPass
      /\ NextPass = Slack("health") + Period["health"]
      /\ Slack("health") \in Int
  <2>1. "health" \notin pending' /\ phase' = phase
    BY <1>1
  <2>2. Answer' = Slack("health")'
    BY <1>2 DEF Answer
  <2>3. Slack("health")' = NextPass
    BY <1>4, <2>1 DEF Slack, NextPass
  <2> QED BY <1>3, <2>2, <2>3, Slacks, Figures
<1>6. CASE Sees
  <2>1. missing = Left /\ missing # {} /\ pc = "read"
    BY <1>1, <1>6 DEF Sees
  <2>2. Answer' = Answer + Period["health"]
    BY <1>5, <1>6 DEF Answer
  <2>3. More' = WarnPasses - Passes
    BY <1>1, <1>2, <2>1 DEF More
  <2>4. More = IF stuck_mask = missing THEN WarnPasses - stuck_passes
               ELSE WarnPasses
    BY <1>6, <2>1 DEF More
  <2>5. Passes = IF missing = stuck_mask THEN stuck_passes + 1 ELSE 1
    BY <2>1 DEF Passes
  <2>6. More' = More - 1
    BY <1>4, <2>3, <2>4, <2>5
  <2> QED BY <1>2, <1>6, <2>1, <2>2, <2>6
<1>7. CASE ~Sees
  <2>1. Answer' = Answer /\ More = WarnPasses
    BY <1>5, <1>7 DEF Answer, More
  <2>2. stuck_mask' = Left' => Passes = 0
    BY <1>1, <1>2, <1>3, <1>7 DEF Sees, Passes
  <2>3. More' = WarnPasses
    BY <1>1, <1>2, <1>4, <2>2 DEF More
  <2> QED BY <1>2, <1>7, <2>1, <2>3
<1> QED BY <1>6, <1>7

\* A kick that was not awaited, and faults, leave the answer where it is.
LEMMA AnswerKept ==
  ASSUME SchedInv, NEW t \in Tasks,
         \/ Kick(t) /\ t \notin Left
         \/ Stall(t) \/ Resume(t)
  PROVE  /\ Answer' = Answer /\ More' = More /\ Left' = Left
         /\ iwdg' = iwdg /\ pc' = pc
         /\ \A u \in Left : Slack(u)' = Slack(u)
<1>1. /\ UNCHANGED <<pc, kicked, stuck_mask, stuck_passes, phase, iwdg>>
      /\ \A u \in Left \cup {"health"} : u \in pending' <=> u \in pending
  BY Figures DEF Kick, Stall, Resume, reporting, schedule, Left
<1>2. Left' = Left
  BY DEF Kick, Stall, Resume, Left
<1>3. \A u \in Left \cup {"health"} : Slack(u)' = Slack(u)
  BY <1>1 DEF Slack
<1>4. Sees' = Sees /\ NextPass' = NextPass
  BY <1>1, <1>2 DEF Sees, missing, NextPass
<1> QED BY <1>1, <1>2, <1>3, <1>4 DEF Answer, More

-----------------------------------------------------------------------------
(* The refresh comes in time. *)

LEMMA DueInit ==
  ASSUME NEW b \in Nat PROVE Init => DueInv(b)
  BY SchedInit DEF Init, DueInv, Steady

LEMMA DueStep ==
  ASSUME NEW b \in Nat, KicksWithin(b), DueInv(b), [Next]_vars
  PROVE  DueInv(b)'
<1>1. SchedInv /\ SchedInv'
  BY SchedStep DEF DueInv
<1> DEFINE last  == b + Period["health"] + Jitter["health"] - 1
           Kicks == \A t \in Left \ stalled : iwdg + Slack(t) <= b /\ iwdg <= b
           Comes == Left = {} => iwdg + Answer <= last
<1>2. /\ Period["health"] \in Nat \ {0} /\ Jitter["health"] \in Nat \ {0}
      /\ iwdg \in Nat /\ iwdg' \in Nat /\ Left \subseteq Tasks
      /\ \A t \in Left : t \in Threads /\ t # "health"
  BY <1>1, Figures DEF SchedInv, Left
<1>3. Answer \in Nat /\ Answer' \in Nat
      /\ Answer' <= Period["health"] + Jitter["health"] - 1
  <2>1. (SchedInv => Answer \in Nat
                     /\ Answer <= Period["health"] + Jitter["health"] - 1)'
    <3>1. SchedInv => Answer \in Nat
                      /\ Answer <= Period["health"] + Jitter["health"] - 1
      BY Slacks
    <3> QED BY Slacks, PTL
  <2> QED BY <1>1, <2>1, Slacks
<1>4. Steady => Kicks /\ Comes
  BY DEF DueInv
<1> SUFFICES ASSUME Steady' PROVE (Kicks /\ Comes)'
  BY <1>1 DEF DueInv
<1>5. CASE Tick
  <2>1. Steady /\ Left' = Left /\ stalled' = stalled /\ iwdg' = iwdg + 1
        /\ Answer' = Answer - 1
    BY <1>1, <1>5, AnswerTick, TickFacts DEF faults
  <2>2. Comes'
    BY <1>2, <1>3, <1>4, <2>1
  <2>3. ASSUME NEW t \in Left \ stalled
        PROVE  iwdg' + Slack(t)' <= b /\ iwdg' <= b
    <3>1. Slack(t)' = Slack(t) - 1 /\ Slack(t) >= 1 /\ Slack(t) \in Int
      BY <1>1, <1>2, <1>5, <2>3, TickFacts, Slacks
    <3>2. iwdg + Slack(t) <= b
      BY <1>4, <2>1, <2>3
    <3> QED BY <1>2, <2>1, <3>1, <3>2
  <2> QED BY <2>1, <2>2, <2>3
<1>6. CASE ServiceRead
  <2>1. Steady /\ Left' = Left /\ Answer' = Answer
    BY <1>1, <1>6, AnswerRead
  <2>2. UNCHANGED <<phase, pending, stalled, iwdg>>
    BY <1>6 DEF ServiceRead, schedule, faults
  <2> QED BY <1>4, <2>1, <2>2 DEF Slack
<1>7. CASE ServiceRefresh
  BY <1>7 DEF ServiceRefresh, Steady
<1>8. CASE ServiceClear
  <2>1. /\ Left' = Expected /\ pc' = "serviced" /\ iwdg <= phase["health"]
        /\ phase["health"] < Jitter["health"] /\ phase["health"] \in Nat
        /\ UNCHANGED <<phase, pending, stalled, iwdg>>
    BY <1>1, <1>8, Figures DEF ServiceClear, Left, SchedInv, schedule, faults
  <2>2. ASSUME NEW t \in Expected
        PROVE  iwdg' + Slack(t)' <= b /\ iwdg' <= b
    <3>1. /\ Slack(t)' = Slack(t) /\ Slack(t) \in Int
          /\ Slack(t) <= Period[t] + Jitter[t] - 1
          /\ Period[t] \in Nat \ {0} /\ Jitter[t] \in Nat \ {0}
      BY <1>1, <2>1, Slacks, Figures DEF Slack
    <3>2. Jitter["health"] - 1 + Period[t] + Jitter[t] - 1 <= b
      BY DEF KicksWithin
    <3> QED BY <1>2, <2>1, <3>1, <3>2
  <2>3. Answer' = NextPass
    BY <2>1 DEF Answer, Sees, NextPass
  <2>4. iwdg' + Answer' <= last
    BY <1>2, <2>1, <2>3 DEF NextPass
  <2> QED BY <2>1, <2>2, <2>4
<1>9. CASE Report
  <2>1. /\ Steady /\ Left' = Left /\ iwdg' = iwdg
        /\ Left = {} => Answer' = Answer
    BY <1>1, <1>9, AnswerReport
  <2>2. stalled' = stalled
    BY <1>9 DEF Report, faults
  <2>3. \A t \in Left : Slack(t)' = Slack(t)
    <3>1. phase' = phase /\ pending' = pending \ {"health"}
      BY <1>9 DEF Report
    <3> QED BY <1>2, <3>1 DEF Slack
  <2> QED BY <1>4, <2>1, <2>2, <2>3
<1>10. ASSUME NEW t \in Tasks, Kick(t), t \in Left PROVE (Kicks /\ Comes)'
  <2>1. /\ t \in Left \ stalled /\ Left' = Left \ {t} /\ stalled' = stalled
        /\ iwdg' = iwdg /\ phase' = phase /\ pending' = pending \ {t} /\ Steady
    BY <1>10 DEF Kick, Left, faults, Steady
  <2>2. \A u \in Left' : Slack(u)' = Slack(u)
    BY <2>1 DEF Slack
  <2>3. iwdg <= b
    BY <1>4, <2>1
  <2>4. iwdg' + Answer' <= last
    BY <1>2, <1>3, <2>1, <2>3
  <2> QED BY <1>4, <2>1, <2>2, <2>4
<1>11. ASSUME NEW t \in Tasks, Kick(t) \/ Stall(t) \/ Resume(t),
              Kick(t) => t \notin Left
       PROVE  (Kicks /\ Comes)'
  <2>1. /\ Answer' = Answer /\ Left' = Left /\ iwdg' = iwdg /\ pc' = pc
        /\ \A u \in Left : Slack(u)' = Slack(u)
    BY <1>1, <1>11, AnswerKept
  <2>2. Steady /\ \A u \in Left : u \in stalled => u \in stalled'
    <3>1. CASE Kick(t) \/ Stall(t)
      BY <2>1, <3>1 DEF Kick, Stall, Steady, faults
    <3>2. CASE Resume(t)
      <4>1. stalled' = stalled \ {t} /\ resumed' = (resumed \/ t \in Expected)
        BY <3>2 DEF Resume
      <4>2. ~resumed /\ t \notin Expected
        BY <4>1 DEF Steady
      <4> QED BY <2>1, <4>1, <4>2 DEF Steady, Left
    <3> QED BY <1>11, <3>1, <3>2
  <2> QED BY <1>4, <2>1, <2>2
<1>12. CASE Start
  <2>1. /\ pc' = "sleep" /\ Left' = Expected /\ iwdg' \in ProbeTicks
        /\ pending' = Threads /\ \A t \in Threads : phase'[t] = 0
    <3>1. iwdg \in ProbeTicks
      <4>1. iwdg + boot_left \in ProbeTicks /\ boot_left = 0 /\ iwdg + 0 = iwdg
        BY <1>1, <1>2, <1>12 DEF Start, SchedInv
      <4> QED BY <4>1
    <3> QED BY <1>1, <1>12, <3>1 DEF Start, SchedInv, Left
  <2>2. \A t \in Threads : Slack(t)' = Jitter[t] - 1
    BY <2>1, Figures DEF Slack
  <2>3. ASSUME NEW t \in Expected
        PROVE  iwdg' + Slack(t)' <= b /\ iwdg' <= b
    <3>1. Slack(t)' = Jitter[t] - 1 /\ Jitter[t] \in Nat
      BY <2>2, Figures
    <3>2. iwdg' + Jitter[t] - 1 <= b /\ iwdg' <= b
      BY <2>1 DEF KicksWithin
    <3> QED BY <1>2, <3>1, <3>2
  <2>4. iwdg' + Answer' <= last
    <3>1. iwdg' <= b
      BY <2>1 DEF KicksWithin
    <3> QED BY <1>2, <1>3, <3>1
  <2> QED BY <2>1, <2>3, <2>4
<1>13. CASE BootTick \/ Reset
  BY <1>1, <1>13 DEF BootTick, Reset, Steady, SchedInv
<1>14. CASE UNCHANGED vars
  BY <1>4, <1>14 DEF vars, schedule, reporting, faults, Steady, Left, Slack,
                     Answer, Sees, NextPass, missing
<1> QED BY <1>5, <1>6, <1>7, <1>8, <1>9, <1>10, <1>11, <1>12, <1>13, <1>14
        DEF Next, Service

\* The watchdog never bites while every expected task runs: neither the kicks
\* lost between the read and the clear of hk_health_service nor the time that
\* the SD card took at boot cost the refresh (health.c:33-47).
THEOREM HealthyHolds ==
  ASSUME NEW b \in Nat, InTime(b, 1)
  PROVE  Spec => []HealthyNeverReset
<1>1. KicksWithin(b) /\ b + Period["health"] + Jitter["health"] - 1 < Timeout
  BY Figures DEF InTime
<1>2. DueInv(b) => HealthyNeverReset
  <2> SUFFICES ASSUME DueInv(b), expired, Culprits = {}, ~resumed PROVE FALSE
    BY DEF HealthyNeverReset
  <2>1. /\ iwdg = Timeout /\ SchedInv /\ iwdg \in Nat /\ phase["health"] \in Nat
        /\ Period["health"] \in Nat \ {0} /\ Jitter["health"] \in Nat \ {0}
        /\ Answer \in Nat
    BY Figures, Types DEF expired, DueInv, SchedInv
  <2>2. CASE pc = "boot"
    <3>1. iwdg + boot_left <= b /\ boot_left \in Nat
      BY <1>1, <2>1, <2>2 DEF SchedInv, KicksWithin
    <3> QED BY <1>1, <2>1, <3>1
  <2>3. CASE pc = "refreshed"
    <3>1. iwdg <= phase["health"] /\ phase["health"] < Jitter["health"]
      BY <2>1, <2>3 DEF SchedInv
    <3> QED BY <1>1, <2>1, <3>1
  <2>4. CASE pc \notin {"boot", "refreshed"}
    <3>1. Steady
      BY <2>1, <2>4 DEF Steady, SchedInv
    <3>2. ASSUME NEW t \in Left PROVE FALSE
      <4>1. t \notin stalled
        BY DEF Left, Culprits
      <4>2. iwdg <= b
        BY <3>1, <4>1 DEF DueInv
      <4> QED BY <1>1, <2>1, <4>2
    <3>3. iwdg + Answer <= b + Period["health"] + Jitter["health"] - 1
      BY <3>1, <3>2 DEF DueInv
    <3> QED BY <1>1, <2>1, <3>3
  <2> QED BY <2>2, <2>3, <2>4
<1>3. DueInv(b) /\ [Next]_vars => DueInv(b)'
  BY <1>1, DueStep
<1>4. Init => DueInv(b)
  BY DueInit
<1> QED BY <1>2, <1>3, <1>4, PTL DEF Spec

-----------------------------------------------------------------------------
(* The warning comes in time. *)

LEMMA WarnInit ==
  ASSUME NEW b \in Nat PROVE Init => WarnInv(b)
  BY DueInit DEF Init, WarnInv, Steady

LEMMA WarnStep ==
  ASSUME NEW b \in Nat, KicksWithin(b), WarnInv(b), [Next]_vars
  PROVE  WarnInv(b)'
<1> DEFINE per  == Period["health"]
           last == b + WarnPasses * per + Jitter["health"] - 1
           rest == (More - 1) * per
<1>1. DueInv(b) /\ DueInv(b)' /\ SchedInv /\ SchedInv'
  BY DueStep DEF WarnInv, DueInv
<1>2. per \in Nat \ {0} /\ WarnPasses \in Nat \ {0} /\ Jitter["health"] \in Nat \ {0}
  BY Figures
<1>3. iwdg \in Nat /\ iwdg' \in Nat /\ Answer \in Nat /\ More \in Int
      /\ WarnPasses * per \in Int
  BY <1>1, <1>2, Types, Times DEF SchedInv
\* Wherever the last running task is seen off, there is time for all of them.
<1>4. iwdg' <= b => iwdg' + Answer' + rest' <= last
  <2>1. (SchedInv => /\ Answer \in Nat /\ Answer <= per + Jitter["health"] - 1
                     /\ More \in Int /\ More <= WarnPasses)'
    <3>1. SchedInv => /\ Answer \in Nat /\ Answer <= per + Jitter["health"] - 1
                      /\ More \in Int /\ More <= WarnPasses
      BY Slacks, Types
    <3> QED BY Slacks, Types, PTL
  <2> HIDE DEF per
  <2>2. /\ Answer' \in Nat /\ Answer' <= per + Jitter["health"] - 1
        /\ More' \in Int /\ More' <= WarnPasses
    BY <1>1, <2>1
  <2>3. (More' - 1) * per = More' * per - per /\ More' * per <= WarnPasses * per
        /\ More' * per \in Int
    <3>1. ASSUME NEW m \in Int, m <= WarnPasses
          PROVE  /\ (m - 1) * per = m * per - per /\ m * per <= WarnPasses * per
                 /\ m * per \in Int
      BY <1>2, <3>1, Times
    <3> QED BY <2>2, <3>1
  <2> QED BY <1>2, <1>3, <2>2, <2>3
<1>5. Steady /\ Left # {} /\ Left \subseteq stalled => iwdg + Answer + rest <= last
  BY DEF WarnInv
<1> SUFFICES ASSUME Steady', (Left # {} /\ Left \subseteq stalled)'
             PROVE  iwdg' + Answer' + rest' <= last
  BY <1>1 DEF WarnInv
<1>6. CASE Tick
  <2>1. /\ Steady /\ Left' = Left /\ stalled' = stalled /\ iwdg' = iwdg + 1
        /\ Answer' = Answer - 1 /\ More' = More
    BY <1>1, <1>6, AnswerTick, TickFacts DEF faults
  <2>2. rest' = rest /\ iwdg + Answer + rest <= last
    BY <1>5, <2>1
  <2>3. rest \in Int
    BY <1>2, <1>3, Times
  <2> HIDE DEF rest, last
  <2> QED BY <1>3, <2>1, <2>2, <2>3
<1>7. CASE ServiceRead
  <2>1. Steady /\ Left' = Left /\ Answer' = Answer /\ More' = More
    BY <1>1, <1>7, AnswerRead
  <2>2. UNCHANGED <<stalled, iwdg>>
    BY <1>7 DEF ServiceRead, faults
  <2> QED BY <1>5, <2>1, <2>2
<1>8. CASE ServiceRefresh
  BY <1>8 DEF ServiceRefresh, Steady
<1>9. CASE ServiceClear
  <2>1. /\ iwdg <= phase["health"] /\ iwdg' = iwdg
        /\ phase["health"] < Jitter["health"] /\ phase["health"] \in Nat
    BY <1>1, <1>9, Figures DEF ServiceClear, SchedInv
  <2>2. PICK t \in Expected : TRUE
    BY DEF Left
  <2>3. /\ Jitter["health"] - 1 + Period[t] + Jitter[t] - 1 <= b
        /\ Period[t] \in Nat \ {0} /\ Jitter[t] \in Nat \ {0}
    BY Figures DEF KicksWithin
  <2>4. iwdg' <= b
    BY <1>2, <1>3, <2>1, <2>3
  <2> QED BY <1>4, <2>4
<1>10. CASE Report
  <2>1. Steady /\ Left' = Left /\ iwdg' = iwdg /\ stalled' = stalled
    BY <1>1, <1>10, AnswerReport DEF Report, faults
  <2>2. iwdg + Answer + rest <= last
    BY <1>5, <2>1
  <2>3. CASE Sees
    <3>1. Answer' = Answer + per /\ More' = More - 1
      BY <1>1, <1>10, <2>3, AnswerReport
    <3>2. rest' = rest - per /\ rest \in Int
      <4> HIDE DEF per
      <4>1. (More - 1 - 1) * per = (More - 1) * per - per
            /\ (More - 1) * per \in Int
        BY <1>2, <1>3, Times
      <4> QED BY <3>1, <4>1
    <3> HIDE DEF rest, last, per
    <3> QED BY <1>2, <1>3, <2>1, <2>2, <3>1, <3>2
  <2>4. CASE ~Sees
    <3>1. Answer' = Answer /\ More' = More
      BY <1>1, <1>10, <2>4, AnswerReport
    <3> QED BY <2>1, <2>2, <3>1
  <2> QED BY <2>3, <2>4
<1>11. ASSUME NEW t \in Tasks, Kick(t), t \in Left
       PROVE  iwdg' + Answer' + rest' <= last
  <2>1. t \in Left \ stalled /\ Steady /\ iwdg' = iwdg
    BY <1>11 DEF Kick, faults, Steady
  <2>2. iwdg <= b
    BY <1>1, <2>1 DEF DueInv
  <2> QED BY <1>4, <2>1, <2>2
<1>12. ASSUME NEW t \in Tasks, Kick(t) \/ Stall(t) \/ Resume(t),
              Kick(t) => t \notin Left
       PROVE  iwdg' + Answer' + rest' <= last
  <2>1. /\ Answer' = Answer /\ More' = More /\ Left' = Left /\ iwdg' = iwdg
        /\ pc' = pc
    BY <1>1, <1>12, AnswerKept
  <2>2. Steady
    <3>1. CASE Kick(t) \/ Stall(t)
      BY <2>1, <3>1 DEF Kick, Stall, Steady, faults
    <3>2. CASE Resume(t)
      <4>1. resumed' = (resumed \/ t \in Expected)
        BY <3>2 DEF Resume
      <4> QED BY <2>1, <4>1 DEF Steady
    <3> QED BY <1>12, <3>1, <3>2
  <2>3. CASE Left \subseteq stalled
    BY <1>5, <2>1, <2>2, <2>3
  <2>4. CASE ~(Left \subseteq stalled)
    <3>1. PICK u \in Left : u \notin stalled
      BY <2>4
    <3>2. iwdg <= b
      BY <1>1, <2>2, <3>1 DEF DueInv
    <3> QED BY <1>4, <2>1, <3>2
  <2> QED BY <2>3, <2>4
<1>13. CASE Start
  <2>1. iwdg + boot_left \in ProbeTicks /\ boot_left = 0 /\ iwdg + 0 = iwdg
        /\ iwdg' = iwdg
    BY <1>1, <1>3, <1>13 DEF Start, SchedInv
  <2>2. iwdg' <= b
    BY <2>1 DEF KicksWithin
  <2> QED BY <1>4, <2>2
<1>14. CASE BootTick \/ Reset
  BY <1>1, <1>14 DEF BootTick, Reset, Steady, SchedInv
<1>15. CASE UNCHANGED vars
  <2>1. Steady /\ Left' = Left /\ stalled' = stalled /\ iwdg' = iwdg
    BY <1>15 DEF vars, faults, Steady, Left
  <2>2. Answer' = Answer /\ More' = More
    BY <1>15, <2>1 DEF vars, schedule, reporting, Left, Slack, Answer, Sees,
                       NextPass, missing, More
  <2> QED BY <1>5, <2>1, <2>2
<1> QED BY <1>6, <1>7, <1>8, <1>9, <1>10, <1>11, <1>12, <1>13, <1>14, <1>15
        DEF Next, Service

\* The log names the stopped tasks before the watchdog wipes it: the mask only
\* shrinks between two refreshes, so it settles as soon as the tasks that run
\* have kicked, and then every pass counts (task_health in app.c).
THEOREM WarnedHolds ==
  ASSUME NEW b \in Nat, InTime(b, WarnPasses)
  PROVE  Spec => []WarnedBeforeReset
<1> DEFINE per == Period["health"]
<1>1. KicksWithin(b) /\ b + WarnPasses * per + Jitter["health"] - 1 < Timeout
  BY DEF InTime
<1>2. WarnInv(b) => WarnedBeforeReset
  <2> SUFFICES ASSUME WarnInv(b), expired, ~resumed, pc # "boot", ~warned
               PROVE  FALSE
    BY DEF WarnedBeforeReset
  <2>1. /\ iwdg = Timeout /\ DueInv(b) /\ SchedInv /\ iwdg \in Nat
        /\ phase["health"] \in Nat /\ Answer \in Nat /\ More \in Int
        /\ per \in Nat \ {0} /\ Jitter["health"] \in Nat \ {0}
        /\ WarnPasses \in Nat \ {0}
    BY Figures, Types DEF expired, WarnInv, DueInv, SchedInv
  <2>2. WarnPasses * per \in Int /\ WarnPasses * per >= per
    <3> HIDE DEF per
    <3>1. 1 * per <= WarnPasses * per /\ 1 * per = per /\ WarnPasses * per \in Int
      BY <2>1, Times
    <3> QED BY <2>1, <3>1
  <2>3. pc # "refreshed"
    <3> SUFFICES ASSUME pc = "refreshed" PROVE FALSE
      OBVIOUS
    <3>1. iwdg <= phase["health"] /\ phase["health"] < Jitter["health"]
      BY <2>1 DEF SchedInv
    <3> HIDE DEF per
    <3> QED BY <1>1, <2>1, <2>2, <3>1
  <2>4. Steady
    BY <2>1, <2>3 DEF Steady, SchedInv
  <2>5. Left \subseteq stalled
    <3> SUFFICES ASSUME NEW t \in Left \ stalled PROVE FALSE
      OBVIOUS
    <3>1. iwdg <= b
      BY <2>1, <2>4 DEF DueInv
    <3> HIDE DEF per
    <3> QED BY <1>1, <2>1, <2>2, <3>1
  <2>6. Left # {}
    <3> SUFFICES ASSUME Left = {} PROVE FALSE
      OBVIOUS
    <3>1. iwdg + Answer <= b + per + Jitter["health"] - 1
      BY <2>1, <2>4 DEF DueInv
    <3> HIDE DEF per
    <3> QED BY <1>1, <2>1, <2>2, <3>1
  <2>7. iwdg + Answer + (More - 1) * per
          <= b + WarnPasses * per + Jitter["health"] - 1
    BY <2>4, <2>5, <2>6 DEF WarnInv
  <2>8. More >= 1
    <3>1. stuck_passes \in Nat /\ stuck_passes < WarnPasses
      BY <2>1 DEF SchedInv
    <3> QED BY <2>1, <3>1 DEF More
  <2>9. (More - 1) * per \in Nat
    BY <2>1, <2>8, Times
  <2> DEFINE rest == (More - 1) * per
             all  == WarnPasses * per
  <2>10. rest \in Nat /\ all \in Int /\ all = WarnPasses * per
         /\ iwdg + Answer + rest <= b + all + Jitter["health"] - 1
         /\ b + all + Jitter["health"] - 1 < Timeout
    BY <1>1, <2>2, <2>7, <2>9
  <2> HIDE DEF rest, all
  <2> QED BY <2>1, <2>10
<1>3. WarnInv(b) /\ [Next]_vars => WarnInv(b)'
  BY <1>1, WarnStep
<1>4. Init => WarnInv(b)
  BY WarnInit
<1> QED BY <1>2, <1>3, <1>4, PTL DEF Spec
-----------------------------------------------------------------------------
(* No warning comes for tasks that run. *)

LEMMA AlarmInit == Init => AlarmInv
  BY SchedInit DEF Init, AlarmInv, Steady

\* A tick makes the spell one longer, whether it ends a period or not.
LEMMA Spells ==
  ASSUME SchedInv
  PROVE  /\ Count \in Nat /\ Spell \in Nat
         /\ Tick => Count' * Period["health"] \in Nat /\ Spell' = Spell + 1
<1> DEFINE per == Period["health"]
           f   == phase["health"]
<1>1. per \in Nat \ {0} /\ f \in Nat /\ f < per /\ stuck_passes \in Nat
  BY Figures DEF SchedInv
<1>2. Count \in Nat
  BY <1>1 DEF Count
<1>3. ASSUME NEW c \in Nat
      PROVE  c * per \in Nat /\ (c + 1) * per = c * per + per
  <2> HIDE DEF per
  <2>1. 0 * per <= c * per /\ 0 * per = 0 /\ c * per \in Int
    BY <1>1, Times
  <2>2. (c + 1) * per = c * per + per
    BY <1>1, Times
  <2> QED BY <2>1, <2>2
<1>4. Spell = Count * per + f
  BY DEF Spell
<1>5. ASSUME Tick PROVE Count' * per \in Nat /\ Spell' = Spell + 1
  <2>1. Spell' = Count' * per + phase'["health"]
    BY DEF Spell
  <2>2. /\ UNCHANGED <<pc, stuck_passes>> /\ "health" \in Threads
        /\ pc = "serviced" => "health" \in pending
    BY <1>5, TickFacts DEF reporting, SchedInv
  <2>3. CASE "health" \in pending \/ f + 1 < per
    <3>1. phase'["health"] = f + 1
          /\ ("health" \in pending' <=> "health" \in pending)
      BY <1>1, <1>5, <2>2, <2>3, TickFacts
    <3>2. Count' = Count
      BY <2>2, <3>1 DEF Count
    <3> HIDE DEF per, f
    <3> QED BY <1>1, <1>2, <1>3, <1>4, <2>1, <3>1, <3>2
  <2>4. CASE "health" \notin pending /\ f + 1 = per
    <3>1. phase'["health"] = 0 /\ "health" \in pending' /\ pc # "serviced"
      BY <1>1, <1>5, <2>2, <2>4, TickFacts
    <3>2. Count' = Count + 1
      BY <1>1, <2>2, <2>4, <3>1 DEF Count
    <3>3. Count' * per = Count * per + per /\ Count * per \in Nat
      BY <1>2, <1>3, <3>2
    <3> HIDE DEF per, f
    <3> QED BY <1>1, <1>4, <2>1, <2>4, <3>1, <3>3
  <2> QED BY <1>1, <2>3, <2>4
<1>6. Spell \in Nat
  <2>1. Count * per \in Nat
    BY <1>2, <1>3
  <2> HIDE DEF per, f
  <2> QED BY <1>1, <1>4, <2>1
<1> QED BY <1>2, <1>5, <1>6

LEMMA AlarmStep ==
  ASSUME Patient, AlarmInv, [Next]_vars
  PROVE  AlarmInv'
<1> DEFINE per   == Period["health"]
           warn  == WarnPasses * per
           Soon  == \A t \in Left \ stalled :
                      Spell + Slack(t) < warn /\ Spell < warn
           Seen  == pc = "read" /\ missing # {} /\ ~resumed /\ Culprits = {}
                      => stuck_passes + 1 < WarnPasses
<1>1. SchedInv /\ SchedInv'
  BY SchedStep DEF AlarmInv
<1>2. /\ per \in Nat \ {0} /\ WarnPasses \in Nat \ {0} /\ stuck_passes \in Nat
      /\ Jitter["health"] \in Nat \ {0} /\ Count \in Nat /\ Spell \in Nat
      /\ phase["health"] \in Nat /\ phase["health"] < per
      /\ \A t \in Left : t \in Threads /\ t # "health" /\ t \in Tasks
  BY <1>1, Figures, Spells DEF SchedInv, Left
<1>3. warn \in Nat
  <2> HIDE DEF per
  <2>1. 0 * per <= WarnPasses * per /\ 0 * per = 0 /\ WarnPasses * per \in Int
    BY <1>2, Times
  <2> QED BY <2>1
<1>4. (Steady => Soon) /\ Seen
  BY DEF AlarmInv
<1> SUFFICES (Steady' => Soon') /\ Seen'
  BY <1>1 DEF AlarmInv
<1>5. CASE Tick
  <2>1. /\ Steady' = Steady /\ Left' = Left /\ stalled' = stalled
        /\ Spell' = Spell + 1
    BY <1>1, <1>5, AnswerTick, TickFacts, Spells DEF faults
  <2>2. Seen'
    BY <1>1, <1>4, <1>5, TickFacts DEF reporting, faults, missing, Culprits
  <2>3. ASSUME Steady, NEW t \in Left \ stalled
        PROVE  Spell' + Slack(t)' < warn /\ Spell' < warn
    <3>1. Slack(t)' = Slack(t) - 1 /\ Slack(t) >= 1 /\ Slack(t) \in Int
      BY <1>1, <1>2, <1>5, <2>3, TickFacts, Slacks
    <3>2. Spell + Slack(t) < warn
      BY <1>4, <2>3
    <3> HIDE DEF warn
    <3> QED BY <1>2, <1>3, <2>1, <3>1, <3>2
  <2> QED BY <2>1, <2>2, <2>3
<1>6. CASE ServiceRead
  <2>1. /\ pc = "sleep" /\ pc' = "read" /\ "health" \in pending
        /\ Left' = Left /\ Steady' = Steady /\ missing' = Left
        /\ UNCHANGED <<phase, pending, stuck_passes, stalled, resumed>>
    BY <1>1, <1>6, AnswerRead
       DEF ServiceRead, schedule, reporting, faults, missing, Left
  <2>2. Count' = Count /\ Spell' = Spell
    <3>1. Count' = Count
      BY <2>1 DEF Count
    <3> QED BY <2>1, <3>1 DEF Spell
  <2>3. \A t \in Left : Slack(t)' = Slack(t)
    BY <2>1 DEF Slack
  <2>4. ASSUME Left # {}, ~resumed, Culprits = {}
        PROVE  stuck_passes + 1 < WarnPasses
    <3>1. PICK t \in Left : t \notin stalled
      BY <2>4 DEF Left, Culprits
    <3>2. Steady /\ Spell < warn
      BY <1>4, <2>1, <2>4, <3>1 DEF Steady
    <3>3. Count = stuck_passes + 1 /\ Spell = Count * per + phase["health"]
      BY <1>2, <2>1 DEF Count, Spell
    <3>4. Count * per \in Int
      BY <1>2, Times
    <3> HIDE DEF per
    <3>5. Count * per < WarnPasses * per
      BY <1>2, <1>3, <3>2, <3>3, <3>4
    <3> QED BY <1>2, <3>3, <3>5, Times
  <2>5. Seen'
    BY <2>1, <2>4 DEF Culprits
  <2> QED BY <1>4, <2>1, <2>2, <2>3, <2>5
<1>7. CASE ServiceRefresh
  BY <1>7 DEF ServiceRefresh, Steady
<1>8. CASE ServiceClear
  <2>1. /\ Left' = Expected /\ pc' = "serviced"
        /\ UNCHANGED <<phase, pending, stalled>>
        /\ phase["health"] < Jitter["health"]
    BY <1>1, <1>8 DEF ServiceClear, Left, SchedInv, schedule, faults
  <2>2. Spell' = phase["health"]
    <3>1. Count' = 0 /\ 0 * per = 0
      BY <1>2, <2>1, Times DEF Count
    <3> QED BY <1>2, <2>1, <3>1 DEF Spell
  <2>3. ASSUME NEW t \in Expected
        PROVE  Spell' + Slack(t)' < warn /\ Spell' < warn
    <3>1. /\ Slack(t)' = Slack(t) /\ Slack(t) \in Int
          /\ Slack(t) <= Period[t] + Jitter[t] - 1
          /\ Period[t] \in Nat \ {0} /\ Jitter[t] \in Nat \ {0}
      BY <1>1, <2>1, Slacks, Figures DEF Slack
    <3>2. Jitter["health"] - 1 + Period[t] + Jitter[t] - 1 < warn
      BY DEF Patient
    <3> HIDE DEF warn
    <3> QED BY <1>2, <1>3, <2>1, <2>2, <3>1, <3>2
  <2> QED BY <2>1, <2>3
<1>9. CASE Report
  <2>1. Steady' = Steady /\ Left' = Left
    BY <1>1, <1>9, AnswerReport
  <2>2. /\ pc \in {"read", "serviced"} /\ pc' = "sleep"
        /\ pending' = pending \ {"health"} /\ "health" \in pending
        /\ stuck_passes' = Passes /\ phase' = phase /\ stalled' = stalled
        /\ pc = "serviced" => missing = {}
    BY <1>1, <1>9 DEF Report, SchedInv, faults
  <2>3. Count' = Passes
    <3>1. Passes \in Nat
      BY <1>2 DEF Passes
    <3> QED BY <2>2, <3>1 DEF Count
  <2>4. Passes \in Nat /\ Passes <= Count
    <3>1. pc = "serviced" => Passes = 0 /\ Count = 0
      BY <2>2 DEF Passes, Count
    <3>2. pc = "read" => Count = stuck_passes + 1
      BY <1>2, <2>2 DEF Count
    <3>3. Passes \in {0, 1, stuck_passes + 1}
      BY DEF Passes
    <3> QED BY <1>2, <2>2, <3>1, <3>2, <3>3
  <2>5. Spell' \in Int /\ Spell' <= Spell
    <3>1. Spell' = Passes * per + phase["health"]
          /\ Spell = Count * per + phase["health"]
      BY <2>2, <2>3 DEF Spell
    <3> HIDE DEF per
    <3>2. /\ Passes * per <= Count * per
          /\ Passes * per \in Int /\ Count * per \in Int
      BY <1>2, <2>4, Times
    <3> QED BY <1>2, <3>1, <3>2
  <2>6. ASSUME Steady, NEW t \in Left \ stalled
        PROVE  Spell' + Slack(t)' < warn /\ Spell' < warn
    <3>1. Slack(t)' = Slack(t) /\ Slack(t) \in Int
      BY <1>1, <1>2, <2>2, <2>6, Slacks DEF Slack
    <3>2. Spell + Slack(t) < warn /\ Spell < warn
      BY <1>4, <2>6
    <3> HIDE DEF warn
    <3> QED BY <1>2, <1>3, <2>5, <3>1, <3>2
  <2> QED BY <2>1, <2>2, <2>6
<1>10. ASSUME NEW t \in Tasks, Kick(t) PROVE (Steady' => Soon') /\ Seen'
  <2>1. /\ Left' = Left \ {t} /\ pending' = pending \ {t} /\ t # "health"
        /\ UNCHANGED <<pc, kicked, phase, stuck_passes, stalled, resumed>>
    BY <1>10, Figures DEF Kick, Left, reporting, faults
  <2>2. Count' = Count /\ Spell' = Spell
    <3>1. Count' = Count
      BY <2>1 DEF Count
    <3> QED BY <2>1, <3>1 DEF Spell
  <2>3. \A u \in Left' : Slack(u)' = Slack(u)
    BY <2>1 DEF Slack
  <2>4. Seen'
    BY <1>4, <2>1 DEF missing, Culprits
  <2> QED BY <1>4, <2>1, <2>2, <2>3, <2>4 DEF Steady
<1>11. ASSUME NEW t \in Tasks, Stall(t) \/ Resume(t)
       PROVE  (Steady' => Soon') /\ Seen'
  <2>1. /\ Left' = Left
        /\ UNCHANGED <<pc, kicked, phase, pending, stuck_passes>>
    BY <1>11 DEF Stall, Resume, Left, reporting, schedule
  <2>2. Count' = Count /\ Spell' = Spell /\ \A u \in Left : Slack(u)' = Slack(u)
    <3>1. Count' = Count
      BY <2>1 DEF Count
    <3> QED BY <2>1, <3>1 DEF Spell, Slack
  <2>3. ~resumed' => ~resumed /\ stalled \cap Expected \subseteq stalled'
    <3>1. CASE Stall(t)
      BY <3>1 DEF Stall
    <3>2. CASE Resume(t)
      <4>1. stalled' = stalled \ {t} /\ resumed' = (resumed \/ t \in Expected)
        BY <3>2 DEF Resume
      <4> QED BY <4>1
    <3> QED BY <1>11, <3>1, <3>2
  <2>4. Seen'
    BY <1>4, <2>1, <2>3 DEF missing, Culprits
  <2> QED BY <1>4, <2>1, <2>2, <2>3, <2>4 DEF Steady, Left
<1>12. CASE Start
  <2>1. /\ pc' = "sleep" /\ Left' = Expected /\ pending' = Threads
        /\ \A t \in Threads : phase'[t] = 0
        /\ stuck_passes' = 0
    BY <1>1, <1>12 DEF Start, SchedInv, Left, reporting
  <2>2. Spell' = per
    <3>1. Count' = 1 /\ 1 * per = per
      BY <1>2, <2>1, Figures, Times DEF Count
    <3> QED BY <1>2, <2>1, <3>1, Figures DEF Spell
  <2>3. ASSUME NEW t \in Expected
        PROVE  Spell' + Slack(t)' < warn /\ Spell' < warn
    <3>1. Slack(t)' = Jitter[t] - 1 /\ Jitter[t] \in Nat \ {0}
      BY <2>1, Figures DEF Slack
    <3>2. per + Jitter[t] - 1 < warn
      BY DEF Patient
    <3> HIDE DEF warn
    <3> QED BY <1>2, <1>3, <2>2, <3>1, <3>2
  <2> QED BY <2>1, <2>3
<1>13. CASE BootTick \/ Reset
  <2>1. pc' = "boot"
    BY <1>1, <1>13 DEF BootTick, Reset, SchedInv
  <2> QED BY <2>1 DEF Steady
<1>14. CASE UNCHANGED vars
  <2>1. /\ Left' = Left
        /\ UNCHANGED <<pc, kicked, phase, pending, stuck_passes, stalled, resumed>>
    BY <1>14 DEF vars, Left, reporting, schedule, faults
  <2>2. Count' = Count /\ Spell' = Spell /\ \A u \in Left : Slack(u)' = Slack(u)
    <3>1. Count' = Count
      BY <2>1 DEF Count
    <3> QED BY <2>1, <3>1 DEF Spell, Slack
  <2> QED BY <1>4, <2>1, <2>2 DEF Steady, missing, Culprits
<1> QED BY <1>5, <1>6, <1>7, <1>8, <1>9, <1>10, <1>11, <1>12, <1>13, <1>14
        DEF Next, Service

\* A task slower than the health task is missed by pass after pass and yet is
\* no reason to warn (app_config.h:13-20).
THEOREM NoFalseAlarmHolds ==
  ASSUME Patient
  PROVE  Spec => NoFalseAlarm
<1> DEFINE Right == ~warned /\ warned' => Culprits # {} \/ resumed
<1>1. AlarmInv /\ [Next]_vars => [Right]_vars
  <2> SUFFICES ASSUME AlarmInv, Next, ~warned, warned', Culprits = {}, ~resumed
               PROVE  FALSE
    OBVIOUS
  <2>1. Report
    BY DEF Next, BootTick, Start, Service, ServiceRead, ServiceRefresh,
           ServiceClear, Tick, Reset, Kick, Stall, Resume, reporting
  <2>2. WarnPasses \in Nat \ {0} /\ stuck_passes \in Nat
        /\ (pc = "serviced" => missing = {})
    BY Figures DEF AlarmInv, SchedInv
  <2>3. Passes = WarnPasses
    BY <2>1 DEF Report
  <2>4. missing # {} /\ pc = "read"
    BY <2>1, <2>2, <2>3 DEF Passes, Report
  <2>5. stuck_passes + 1 < WarnPasses
    BY <2>4 DEF AlarmInv
  <2> QED BY <2>2, <2>3, <2>4, <2>5 DEF Passes
<1>2. AlarmInv /\ [Next]_vars => AlarmInv'
  BY AlarmStep
<1> QED BY AlarmInit, <1>1, <1>2, PTL DEF Spec, NoFalseAlarm
=============================================================================
