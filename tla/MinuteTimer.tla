---------------------------- MODULE MinuteTimer ----------------------------
(***************************************************************************)
(* The minute timer of src/src/min_timer.c and the cron() callback of      *)
(* src/src/main.c, composed with the rate limiter of AutoBlacklist.        *)
(*                                                                         *)
(* run_timer() runs start_minute_timer(cron) on the main thread: the loop  *)
(* reads the wall clock, sleeps to the next boundary of time_unit (5       *)
(* seconds) and calls cron() once in every new unit.  cron() does its work *)
(* once per wall-clock minute (the tm_min dedup): it closes idle database  *)
(* connections, reaps idle proxy connections and calls                     *)
(* blacklistService->expiring(), which is wakeup(): it signals the         *)
(* expiring thread to run one expiring() pass.  The first two calls change *)
(* the state of DbService and Proxy and are modelled there; this module    *)
(* keeps the third, the only one that touches the rate limiter.            *)
(*                                                                         *)
(* The clock is time(NULL) in seconds and advances one time_unit per step; *)
(* AutoBlacklist's absolute slot index now is second / frequency_in_seconds.*)
(* day_of_year and prev_day_of_year are written by the loop and read by    *)
(* nobody; terminate_minute_timer() has no caller (SIGINT ends the process *)
(* through interrupt()).  Neither is modelled.                             *)
(***************************************************************************)
EXTENDS AutoBlacklist

CONSTANTS
  TimeUnit,      \* time_unit of start_minute_timer(): 5 seconds
  Frequency,     \* frequency_in_seconds = monitor_period / RESERVED_ENTRY
  TouchHorizon,  \* last second at which the model starts a find_and_increase()
  MaxSecond      \* bound on the clock

ASSUME /\ TimeUnit \in Nat \ {0}
       /\ Frequency >= TimeUnit
       /\ MaxTime = MaxSecond \div Frequency
       /\ TouchHorizon <= MaxSecond

VARIABLES
  second,    \* tv.tv_sec of gettimeofday(), time(NULL)
  lastUnit,  \* last_unit of start_minute_timer()
  lastMin    \* static last_min of cron()

timerVars == <<second, lastUnit, lastMin>>
allVars == <<vars, timerVars>>

\* Mutant: cron() dedups on tm_hour instead of tm_min.
MinuteOfHour(s) == (s \div 3600) % 24

\* localtime_r()'s tm_min, for a time zone whose offset is whole minutes.
MinuteOf(s) == (s \div 60) % 60

-----------------------------------------------------------------------------
(* The timer thread                                                        *)

\* cron() (main.c 55-62): its work runs once per tm_min.  Its wakeup()
\* locks expiring_mutex, which the expiring thread holds for a whole pass,
\* so the timer blocks until the pass ends; the signal is lost if the
\* thread has not yet waited again.
Cron ==
  IF MinuteOf(second) # lastMin
    THEN /\ lastMin' = MinuteOf(second)
         /\ Wakeup
    ELSE UNCHANGED <<lastMin, vars>>

\* One iteration of the while loop of start_minute_timer() (lines 54-72) in
\* a unit it has not handled: last_unit = current_unit and cron().
TimerPoll ==
  /\ second \div TimeUnit # lastUnit
  /\ lastUnit' = second \div TimeUnit
  /\ Cron
  /\ UNCHANGED second

\* The usleep() to the next unit boundary: time advances one time_unit once
\* the timer has handled the current one.  A call of find_and_increase()
\* takes microseconds: at most one slot boundary passes during it.  An
\* expiring pass, and the way from its unlock back into cond_wait(), end
\* within the unit of the wakeup (lines 226-236).  Only the thread's start
\* (pthread_create() in new_auto_blacklist_service(), before run_timer())
\* may still be under way at the first unit boundary, which can come at
\* once after start_minute_timer() reads last_unit.
ClockStep ==
  /\ second + TimeUnit <= MaxSecond
  /\ second \div TimeUnit = lastUnit
  /\ tpc = "idle" \/ now = tl.slot
  /\ epc \in {"wait", "unlocked"}
  /\ epc = "unlocked" => lastMin = -1
  /\ second' = second + TimeUnit
  /\ now' = second' \div Frequency
  /\ UNCHANGED <<lastUnit, lastMin, head, cell, pool, fresh, tpc, tl, epc, el,
                 recentIndex, hits, result>>

\* accepting_request() calls find_and_increase() for a client, up to the
\* model's horizon.
Touch(ip) ==
  /\ second <= TouchHorizon
  /\ TouchBegin(ip)
  /\ UNCHANGED timerVars

TouchSteps ==
  \/ TouchFound \/ TouchCreate \/ TouchIncSlot \/ TouchSlotStore \/ TouchLoad \/ TouchStore

ExpireSteps == ExpireRelock \/ ExpireSkip \/ ExpireStart \/ ExpireBucket \/ ExpireFree

-----------------------------------------------------------------------------

\* init_minute_timer() and the first gettimeofday(): last_unit is the unit
\* the timer starts in; cron()'s last_min starts at -1.
TimerInit ==
  /\ Init
  /\ second = T0 * Frequency
  /\ lastUnit = second \div TimeUnit
  /\ lastMin = -1

TimerNext ==
  \/ \E ip \in IPs : Touch(ip)
  \/ TouchSteps /\ UNCHANGED timerVars
  \/ ExpireSteps /\ UNCHANGED timerVars
  \/ TimerPoll
  \/ ClockStep

\* Time passes, the timer thread is scheduled, and the proxy and expiring
\* threads finish what they started; clients are free to stop connecting.
TimerSpec ==
  /\ TimerInit /\ [][TimerNext]_allVars
  /\ WF_allVars(TouchSteps /\ UNCHANGED timerVars)
  /\ WF_allVars(ExpireSteps /\ UNCHANGED timerVars)
  /\ WF_allVars(TimerPoll)
  /\ WF_allVars(ClockStep)

-----------------------------------------------------------------------------
(* Properties                                                              *)

TimerTypeOK ==
  /\ TypeOK
  /\ second \in (T0 * Frequency) .. MaxSecond
  /\ now = second \div Frequency
  /\ lastUnit \in Nat
  /\ lastMin \in {-1} \cup 0 .. 59

\* Position i of entry c holds accesses of a slot that has left the window.
StaleSlot(c, i) ==
  /\ c \in Linked
  /\ cell[c].access_count[i].counter > 0
  /\ cell[c].access_count[i].slot_index <= now - Slots

\* Spec 8, sliding-window bound, and spec 4.2 expire(): the accesses of a
\* slot that has left the window are eventually cleared from its entry,
\* touched again or not, by the expiring pass the minute cron() starts.
\* expiring() skips a pass when the slot position (not the absolute slot
\* index) equals the one of the last pass (lines 165-168, 217).
SlotsExpire ==
  \A c \in Cells, i \in Positions : StaleSlot(c, i) ~> ~StaleSlot(c, i)

=============================================================================
