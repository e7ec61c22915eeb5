----------------------------- MODULE WakTimers -----------------------------
(***************************************************************************)
(* The timers (src/util/timers.c): two arrays of time stamps, zero until   *)
(* written, and the report made of them.  Time is the CPU time of the      *)
(* process in ticks of the clock.                                          *)
(***************************************************************************)
EXTENDS Integers

CONSTANTS
  NsecPerSec,   (* ticks in a second                                       *)
  MaxTime       (* bound on the time that passes                           *)

ASSUME TimeAssumption == NsecPerSec \in Nat \ {0} /\ MaxTime \in Nat

VARIABLES now, start_times, end_times

timer_vars == <<now, start_times, end_times>>

Timer_ID == {"TOTAL", "FILE_READ", "LEXETIZE", "PARSE", "SERIALIZE", "FILE_WRITE"}

timespec == [tv_sec : Nat, tv_nsec : 0..(NsecPerSec - 1)]

Stamp(t) == [tv_sec |-> t \div NsecPerSec, tv_nsec |-> t % NsecPerSec]

TimersInit == /\ now = 1
              /\ start_times = [id \in Timer_ID |-> Stamp(0)]
              /\ end_times = [id \in Timer_ID |-> Stamp(0)]

(* clock_gettime: any time has passed since the last reading. *)
Tick == now' \in now..MaxTime

timer_start(id) == /\ Tick
                   /\ start_times' = [start_times EXCEPT ![id] = Stamp(now')]
                   /\ UNCHANGED end_times

timer_end(id) == /\ Tick
                 /\ end_times' = [end_times EXCEPT ![id] = Stamp(now')]
                 /\ UNCHANGED start_times

ms_duration_WithinASecond(start, end) ==  \* mutant
  (end.tv_nsec - start.tv_nsec) % NsecPerSec

(* In ticks: the seconds and the rest are subtracted apart. *)
ms_duration(start, end) ==
  (end.tv_sec - start.tv_sec) * NsecPerSec + (end.tv_nsec - start.tv_nsec)

(* What timer_report prints: no duration, or [ticks |-> duration]. *)
timer_report(id) ==
  IF start_times[id].tv_nsec = 0 THEN [text |-> "not started", ticks |-> 0]
  ELSE IF end_times[id].tv_nsec = 0 THEN [text |-> "not ended", ticks |-> 0]
  ELSE [text |-> "duration", ticks |-> ms_duration(start_times[id], end_times[id])]
=============================================================================
