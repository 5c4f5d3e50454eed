-------------------------------- MODULE Match --------------------------------
(***************************************************************************)
(* What the arena promises a referee, without loops, buttons or clocks: a  *)
(* match goes through its phases in order, and it has one budget of fight  *)
(* time, handed out when the match opens and spent only by fighting.       *)
(* Stopping and starting the clock rounds the budget: by FloatError either *)
(* way, and towards zero by less than a millisecond at a start; never      *)
(* across zero.                                                            *)
(***************************************************************************)
EXTENDS Integers

CONSTANTS FightTime, Milli, FloatError

VARIABLES
  phase,    \* the phase of the match
  budget    \* fight time left; negative once the fight is in overtime

mvars == <<phase, budget>>

Init == phase = "PreStaging" /\ budget = 0

Go(from, to) == phase = from /\ phase' = to

Open   == Go("PreStaging", "Staging") /\ budget' = FightTime
Ready  == Go("Staging", "PreCountdown") /\ UNCHANGED budget
Arm    == Go("PreCountdown", "Countdown") /\ UNCHANGED budget
Start  == /\ Go("Countdown", "Fighting")
          /\ budget' \in Int
          /\ \/ /\ budget >= 0 /\ budget' >= 0
                /\ budget' <= budget + FloatError
                /\ budget' > budget - FloatError - Milli
             \/ /\ budget <= 0 /\ budget' <= 0
                /\ budget' >= budget - FloatError
                /\ budget' < budget + FloatError + Milli
Fight  == /\ phase = "Fighting"
          /\ budget' = budget - 1
          /\ UNCHANGED phase
Pause  == /\ Go("Fighting", "Paused")
          /\ budget' \in (budget - FloatError) .. (budget + FloatError)
          /\ budget > 0 <=> budget' > 0
          /\ budget < 0 <=> budget' < 0
Resume == Go("Paused", "Countdown") /\ UNCHANGED budget
TapOut == Go("Fighting", "End") /\ budget' = 0
Close  == phase \in {"Paused", "End"} /\ phase' = "PreStaging" /\ budget' = 0

Next == \/ Open \/ Ready \/ Arm \/ Start \/ Fight
        \/ Pause \/ Resume \/ TapOut \/ Close

Spec == Init /\ [][Next]_mvars
=============================================================================
