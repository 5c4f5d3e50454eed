----------------------------- MODULE ArenaProofs -----------------------------
(***************************************************************************)
(* Theorems about ArenaStates, MatchHistory and Animations, for every      *)
(* value of the constants that satisfies their assumptions.                *)
(***************************************************************************)
EXTENDS MatchHistory, Animations, TLAPS

\* Rounding to a millisecond goes towards zero and by less than a millisecond.
LEMMA TruncatedBounds ==
  ASSUME NEW t \in Int
  PROVE  /\ Truncated(t) \in Int
         /\ t >= 0 => 0 <= Truncated(t) /\ Truncated(t) <= t /\ t - Truncated(t) < Milli
         /\ t <= 0 => t <= Truncated(t) /\ Truncated(t) <= 0 /\ Truncated(t) - t < Milli
<1>1. ASSUME NEW u \in Nat
      PROVE  u % Milli \in 0 .. (Milli - 1) /\ u % Milli <= u
  BY TimingAssumption
<1>2. CASE t >= 0
  BY <1>2, <1>1, TimingAssumption DEF Truncated
<1>3. CASE t < 0
  <2>1. -t \in Nat
    BY <1>3
  <2>2. (-t) % Milli \in 0 .. (Milli - 1) /\ (-t) % Milli <= -t
    BY <2>1, <1>1
  <2> QED BY <1>3, <2>2, TimingAssumption DEF Truncated
<1> QED BY <1>2, <1>3

\* A float is close to what it stands for, and on the same side of zero.
LEMMA FloatBounds ==
  ASSUME NEW t \in Int, NEW f \in Float(t)
  PROVE  /\ f \in Int /\ t - FloatError <= f /\ f <= t + FloatError
         /\ (f > 0 <=> t > 0) /\ (f < 0 <=> t < 0)
BY FloatAssumption DEF Float

\* What a start truncates is the saved time, as close as a float comes.
LEMMA ToMillisOf ==
  ASSUME NEW t \in Int, NEW m \in ToMillis(t)
  PROVE  \E f \in Int : /\ m = Truncated(f)
                        /\ t - FloatError <= f /\ f <= t + FloatError
                        /\ (f > 0 <=> t > 0) /\ (f < 0 <=> t < 0)
<1>1. PICK f \in IF t % Second = 0 THEN {t} ELSE Float(t) : m = Truncated(f)
  BY DEF ToMillis
<1>2. CASE t % Second = 0
  BY <1>1, <1>2, FloatAssumption
<1>3. CASE t % Second # 0
  BY <1>1, <1>3, FloatBounds
<1> QED BY <1>2, <1>3

\* A start rounds the saved time by less than a millisecond and a float's error,
\* and not across zero.
LEMMA ToMillisBounds ==
  ASSUME NEW t \in Int, NEW m \in ToMillis(t)
  PROVE  /\ m \in Int
         /\ t >= 0 => 0 <= m /\ m <= t + FloatError /\ m > t - FloatError - Milli
         /\ t <= 0 => m <= 0 /\ m >= t - FloatError /\ m < t + FloatError + Milli
<1>1. PICK f \in Int : /\ m = Truncated(f)
                       /\ t - FloatError <= f /\ f <= t + FloatError
                       /\ (f > 0 <=> t > 0) /\ (f < 0 <=> t < 0)
  BY ToMillisOf
<1>2. /\ Truncated(f) \in Int
      /\ f >= 0 => 0 <= Truncated(f) /\ Truncated(f) <= f /\ f - Truncated(f) < Milli
      /\ f <= 0 => f <= Truncated(f) /\ Truncated(f) <= 0 /\ Truncated(f) - f < Milli
  BY TruncatedBounds
<1> HIDE DEF Truncated
<1> QED BY <1>1, <1>2, TimingAssumption, FloatAssumption

\* No float's error is so large that a start rounds up beyond a millisecond that
\* the saved time had not passed.
LEMMA ToMillisBelow ==
  ASSUME NEW t \in Int, NEW m \in ToMillis(t), NEW n \in Nat, t <= n * Milli + FloatError
  PROVE  m <= n * Milli
<1>1. PICK f \in Int : m = Truncated(f) /\ f <= t + FloatError
  BY ToMillisOf
<1> DEFINE c == n * Milli
<1>2. c \in Nat /\ Milli \in Nat \ {0} /\ FloatError \in Nat /\ 2 * FloatError < Milli
  BY TimingAssumption, FloatAssumption
<1>3. f < c + Milli
  <2> HIDE DEF c
  <2>1. t <= c + FloatError
    BY DEF c
  <2> QED BY <1>1, <1>2, <2>1
<1>4. CASE f < 0
  BY <1>1, <1>2, <1>4, TruncatedBounds
<1>5. CASE f >= 0
  <2> DEFINE q == f \div Milli
  <2>1. q \in Int /\ f - (f % Milli) = Milli * q /\ Milli * q <= f
    BY <1>2, <1>5
  <2>2. m = Milli * q
    BY <1>1, <1>5, <2>1 DEF Truncated
  <2> HIDE DEF q
  <2>3. q >= n + 1 => Milli * q >= n * Milli + Milli
    BY <1>2, <2>1
  <2>4. q <= n => Milli * q <= n * Milli
    BY <1>2, <2>1
  <2> QED BY <1>2, <1>3, <2>1, <2>2, <2>3, <2>4
<1> QED BY <1>4, <1>5

-----------------------------------------------------------------------------
(* Type correctness of the state machine.                                  *)

\* A latched press has an age, or there is still none.
LEMMA LatchType ==
  ASSUME NEW t \in Age, NEW p \in BOOLEAN
  PROVE  Latch(t, p) \in Age
BY HorizonAssumption DEF Latch, Age, Never

\* Time passing keeps an age an age, and what has not happened stays so.
LEMMA OlderType ==
  ASSUME NEW t \in Age
  PROVE  Older(t) \in Age /\ (t # Never => Older(t) \in 0 .. Horizon)
BY HorizonAssumption DEF Older, Age, Never

\* Rounding up to a whole second gives an integer.
LEMMA CeilSecondsType == ASSUME NEW t \in Int PROVE CeilSeconds(t) \in Int
BY TimingAssumption DEF CeilSeconds

\* ChangeState constructs an animation whose fields have their types.
LEMMA ChangeStateType ==
  ASSUME NEW s \in ArenaState, TypeOK, ChangeState(s)
  PROVE  /\ state' \in ArenaState
         /\ sinceStart' \in 0 .. Horizon
         /\ sinceStarting' \in Age /\ sinceRed' \in Age /\ sinceBlue' \in Age
         /\ untilEnd' \in Int /\ releasedPause' \in BOOLEAN /\ remTime' \in Int
<1>1. untilEnd' \in Int
  <2>1. ToMillis(timeRemaining) \subseteq Int
    BY ToMillisBounds DEF TypeOK
  <2> QED BY <2>1 DEF ChangeState
<1>2. remTime' \in Int
  <2>1. CASE s = "Paused"
    BY <2>1, IndeterminateAssumption DEF ChangeState
  <2>2. CASE s # "Paused"
    BY <2>2 DEF ChangeState
  <2> QED BY <2>1, <2>2
<1>3. releasedPause' \in BOOLEAN
  BY Zenon DEF ChangeState
<1>4. Never \in Age /\ 0 \in 0 .. Horizon
  BY HorizonAssumption DEF Age, Never
<1> QED
  BY <1>1, <1>2, <1>3, <1>4 DEF ChangeState

\* One Tick, whatever was read from the buttons, keeps every variable in its type.
LEMMA TickType ==
  ASSUME TypeOK, NEW w \in WorldState, Tick(w)
  PROVE  TypeOK'
<1> USE DEF TypeOK
<1>0. /\ w.redButton \in BOOLEAN /\ w.blueButton \in BOOLEAN
      /\ w.refButton \in BOOLEAN /\ w.resetButton \in BOOLEAN
  BY DEF WorldState
<1>1. CASE PreStagingTick(w)
  <2>1. Latch(sinceStarting, w.refButton) \in Age
    BY <1>0, LatchType
  <2>2. CASE ChangeState("Staging") /\ timeRemaining' = FightTime
    BY <1>1, <2>2, ChangeStateType, TimingAssumption DEF PreStagingTick, ArenaState
  <2> QED BY <1>1, <2>1, <2>2 DEF PreStagingTick
<1>2. CASE StagingTick(w)
  <2>1. Latch(sinceRed, w.redButton) \in Age /\ Latch(sinceBlue, w.blueButton) \in Age
    BY <1>0, LatchType
  <2>2. CASE ChangeState("PreCountdown")
    BY <1>2, <2>2, ChangeStateType DEF StagingTick, ArenaState
  <2> QED BY <1>2, <2>1, <2>2 DEF StagingTick
<1>3. CASE PreCountdownTick
  BY <1>3, ChangeStateType DEF PreCountdownTick, ArenaState
<1>4. CASE CountdownTick
  BY <1>4, ChangeStateType DEF CountdownTick, ArenaState
<1>5. CASE FightingTick(w)
  <2>1. Float(untilEnd) \subseteq Int
    BY FloatBounds
  <2> QED BY <1>5, <2>1, ChangeStateType DEF FightingTick, AfterFree, ArenaState, animation
<1>6. CASE PausedTick(w)
  BY <1>0, <1>6, ChangeStateType, CeilSecondsType
     DEF PausedTick, AfterFree, ArenaState, animation
<1>7. CASE EndTick(w)
  BY <1>7, ChangeStateType DEF EndTick, ArenaState
<1>8. CASE IdleTick(w)
  BY <1>8 DEF IdleTick, vars, animation
<1> QED
  BY <1>1, <1>2, <1>3, <1>4, <1>5, <1>6, <1>7, <1>8 DEF Tick

\* So does the passing of time.
LEMMA ElapseType == TypeOK /\ Elapse => TypeOK'
<1> SUFFICES ASSUME TypeOK, Elapse PROVE TypeOK'
  OBVIOUS
<1>1. sinceStart \in Age /\ sinceStart # Never
  BY HorizonAssumption DEF TypeOK, Age, Never
<1> QED
  BY <1>1, OlderType, HorizonAssumption DEF TypeOK, Elapse

\* The state machine that main constructs is well typed.
LEMMA InitType == Init => TypeOK
<1>1. Never \in Age /\ 0 \in 0 .. Horizon /\ 0 \in Int
  BY HorizonAssumption DEF Age, Never
<1> QED BY <1>1, Zenon DEF Init, TypeOK, ArenaState

\* Every behaviour of the state machine is well typed (ArenaStates.cpp, all Ticks).
THEOREM TypeCorrect == Spec => []TypeOK
<1>1. TypeOK /\ [Next]_vars => TypeOK'
  BY TickType, ElapseType DEF Next, TypeOK, vars, animation
<1> QED BY <1>1, InitType, PTL DEF Spec

-----------------------------------------------------------------------------
(* The state machine implements the referee's match.                       *)

\* The budget, by phase.
LEMMA BudgetByPhase ==
  /\ state = "Fighting" => Budget = untilEnd
  /\ state \in {"PreStaging", "End"} => Budget = 0
  /\ state \in {"Staging", "PreCountdown", "Countdown", "Paused"} => Budget = timeRemaining
BY DEF Budget

\* The budget of the next state, by its phase.
LEMMA BudgetByPhasePrime ==
  /\ state' = "Fighting" => Budget' = untilEnd'
  /\ state' \in {"PreStaging", "End"} => Budget' = 0
  /\ state' \in {"Staging", "PreCountdown", "Countdown", "Paused"} => Budget' = timeRemaining'
BY DEF Budget

\* Every Tick is one change of phase that the referee allows, or none at all,
\* also when the object it runs in was freed under it.
LEMMA TickRefines ==
  ASSUME TypeOK, NEW w \in WorldState, Tick(w)
  PROVE  M!Next \/ UNCHANGED M!mvars
<1> USE BudgetByPhase, BudgetByPhasePrime DEF M!mvars, M!Go, TypeOK
<1>1. CASE PreStagingTick(w)
  BY <1>1 DEF PreStagingTick, ChangeState, M!Next, M!Open
<1>2. CASE StagingTick(w)
  BY <1>2 DEF StagingTick, ChangeState, M!Next, M!Ready
<1>3. CASE PreCountdownTick
  BY <1>3 DEF PreCountdownTick, ChangeState, M!Next, M!Arm
<1>4. CASE CountdownTick
  <2>1. /\ state = "Countdown" /\ state' = "Fighting"
        /\ Budget = timeRemaining /\ Budget' \in ToMillis(timeRemaining)
    BY <1>4 DEF CountdownTick, ChangeState
  <2>2. M!Start
    BY <2>1, ToMillisBounds DEF M!Start
  <2> QED BY <2>2 DEF M!Next
<1>5. CASE FightingTick(w)
  <2>1. CASE state' = "Paused" /\ timeRemaining' \in Float(untilEnd)
    <3>1. /\ state = "Fighting" /\ Budget = untilEnd /\ Budget' = timeRemaining'
      BY <1>5, <2>1 DEF FightingTick
    <3>2. M!Pause
      BY <2>1, <3>1, FloatBounds, FloatAssumption DEF M!Pause
    <3> QED BY <3>2 DEF M!Next
  <2>2. CASE state' = "End"
    BY <1>5, <2>2 DEF FightingTick, M!Next, M!TapOut
  <2>3. CASE UNCHANGED <<state, timeRemaining, animation>>
    BY <1>5, <2>3 DEF FightingTick, animation
  <2> QED BY <1>5, <2>1, <2>2, <2>3 DEF FightingTick, AfterFree, ChangeState
<1>6. CASE PausedTick(w)
  BY <1>6 DEF PausedTick, AfterFree, ChangeState, animation, M!Next, M!Resume, M!Close
<1>7. CASE EndTick(w)
  BY <1>7 DEF EndTick, ChangeState, M!Next, M!Close
<1>8. CASE IdleTick(w)
  BY <1>8 DEF IdleTick, vars, animation, ArenaState
<1> QED
  BY <1>1, <1>2, <1>3, <1>4, <1>5, <1>6, <1>7, <1>8 DEF Tick

\* The passing of time spends the budget of a fight and touches no other.
LEMMA ElapseRefines ==
  ASSUME TypeOK, Elapse
  PROVE  M!Next \/ UNCHANGED M!mvars
<1> USE BudgetByPhase, BudgetByPhasePrime
<1>1. CASE state = "Fighting"
  BY <1>1 DEF TypeOK, Elapse, M!mvars, M!Next, M!Fight
<1>2. CASE state # "Fighting"
  BY <1>2 DEF TypeOK, ArenaState, Elapse, M!mvars
<1> QED BY <1>1, <1>2

\* The state machine of ArenaStates.cpp implements Match: phases only change as
\* the referee expects and fight time is only spent by fighting, whatever the
\* buttons do and however late the ticks are.
THEOREM Refinement == Spec => ImplementsMatch
<1>1. Init => M!Init
  BY BudgetByPhase DEF Init, M!Init
<1>2. TypeOK /\ [Next]_vars => [M!Next]_(M!mvars)
  <2> SUFFICES ASSUME TypeOK, [Next]_vars PROVE M!Next \/ UNCHANGED M!mvars
    OBVIOUS
  <2>1. CASE UNCHANGED vars
    BY <2>1 DEF vars, animation, M!mvars, Budget
  <2> QED BY <2>1, TickRefines, ElapseRefines DEF Next
<1> QED
  BY <1>1, <1>2, TypeCorrect, PTL DEF Spec, ImplementsMatch, M!Spec

-----------------------------------------------------------------------------
(* What a stopwatch beside the arena measures: MatchHistory.               *)

\* A Tick that stays in its animation: at most a team's first press is latched.
Stays ==
  /\ UNCHANGED <<state, timeRemaining, untilEnd, sinceStart>>
  /\ sinceRed' = sinceRed \/ (state = "Staging" /\ sinceRed = Never /\ sinceRed' = 0)
  /\ sinceBlue' = sinceBlue \/ (state = "Staging" /\ sinceBlue = Never /\ sinceBlue' = 0)

\* A Tick that changes the animation, with what it does to the clocks.
Moves ==
  /\ sinceStart' = 0 /\ sinceRed' = Never /\ sinceBlue' = Never
  /\ \/ /\ state = "PreStaging" /\ state' = "Staging"
        /\ timeRemaining' = FightTime
     \/ /\ state = "Staging" /\ state' = "PreCountdown"
        /\ sinceRed > TotalAnimFromLastButton /\ sinceBlue > TotalAnimFromLastButton
        /\ UNCHANGED timeRemaining
     \/ /\ state = "PreCountdown" /\ state' = "Countdown"
        /\ sinceStart > AnimEnd
        /\ UNCHANGED timeRemaining
     \/ /\ state = "Countdown" /\ state' = "Fighting"
        /\ sinceStart > CountdownLength
        /\ untilEnd' \in ToMillis(timeRemaining)
     \/ state = "Fighting" /\ state' = "Paused" /\ timeRemaining' \in Float(untilEnd)
     \/ state = "Fighting" /\ state' = "End"
     \/ state = "Paused" /\ state' = "Countdown" /\ UNCHANGED timeRemaining
     \/ state \in {"Paused", "End"} /\ state' = "PreStaging"

\* Every Tick stays or moves; a Tick that dies of a use after free stays.
LEMMA TickStaysOrMoves ==
  ASSUME TypeOK, NEW w \in WorldState, Tick(w)
  PROVE  Stays \/ Moves
<1> USE DEF Stays, Moves
<1>1. CASE PreStagingTick(w)
  BY <1>1 DEF PreStagingTick, ChangeState
<1>2. CASE StagingTick(w)
  <2>1. Latch(sinceRed, w.redButton) > TotalAnimFromLastButton => sinceRed > TotalAnimFromLastButton
    BY TimingAssumption DEF Latch, TypeOK, Age, Never
  <2>2. Latch(sinceBlue, w.blueButton) > TotalAnimFromLastButton
          => sinceBlue > TotalAnimFromLastButton
    BY TimingAssumption DEF Latch, TypeOK, Age, Never
  <2>3. CASE ChangeState("PreCountdown")
    <3>1. sinceRed > TotalAnimFromLastButton /\ sinceBlue > TotalAnimFromLastButton
      BY <1>2, <2>1, <2>2, <2>3 DEF StagingTick, ChangeState
    <3> QED BY <1>2, <2>3, <3>1 DEF StagingTick, ChangeState
  <2>4. CASE /\ sinceRed' = Latch(sinceRed, w.redButton)
             /\ sinceBlue' = Latch(sinceBlue, w.blueButton)
             /\ UNCHANGED <<state, sinceStart, sinceStarting, untilEnd,
                            releasedPause, remTime>>
    BY <1>2, <2>4 DEF StagingTick, Latch
  <2> QED BY <1>2, <2>3, <2>4 DEF StagingTick
<1>3. CASE PreCountdownTick
  BY <1>3 DEF PreCountdownTick, ChangeState
<1>4. CASE CountdownTick
  BY <1>4 DEF CountdownTick, ChangeState
<1>5. CASE FightingTick(w)
  BY <1>5 DEF FightingTick, AfterFree, ChangeState, animation
<1>6. CASE PausedTick(w)
  BY <1>6 DEF PausedTick, AfterFree, ChangeState, animation
<1>7. CASE EndTick(w)
  BY <1>7 DEF EndTick, ChangeState
<1>8. CASE IdleTick(w)
  BY <1>8 DEF IdleTick, vars, animation
<1> QED
  BY <1>1, <1>2, <1>3, <1>4, <1>5, <1>6, <1>7, <1>8 DEF Tick

\* The allowance for roundings grows with every one, and the stopwatch of a fight
\* has room for all of them.
LEMMA RoundingRoom ==
  ASSUME NEW n \in Int
  PROVE  /\ n * FloatError \in Int /\ 0 * FloatError = 0
         /\ (n + 1) * FloatError = n * FloatError + FloatError
         /\ FoughtBound \in Nat \ {0}
         /\ n <= 2 * MaxStarts => FightTime + n * FloatError < FoughtBound
<1>1. FloatError \in Nat /\ FightTime \in Nat /\ MaxStarts \in Nat
  BY FloatAssumption, TimingAssumption, MaxStartsAssumption
<1> DEFINE room == 2 * MaxStarts * FloatError
<1>2. room \in Nat /\ n * FloatError \in Int
  BY <1>1
<1>3. n <= 2 * MaxStarts => n * FloatError <= room
  BY <1>1
<1>4. FoughtBound = FightTime + room + 1
  BY DEF FoughtBound
<1>5. (n + 1) * FloatError = n * FloatError + FloatError /\ 0 * FloatError = 0
  BY <1>1
<1> HIDE DEF room
<1> QED BY <1>1, <1>2, <1>3, <1>4, <1>5

\* The history variables stay within their bounds.
LEMMA HTypeStep == HTypeOK /\ HNext => HTypeOK'
<1> SUFFICES ASSUME HTypeOK, HNext PROVE HTypeOK'
  OBVIOUS
<1>0. FoughtBound \in Nat \ {0}
  BY RoundingRoom
<1> USE TimingAssumption, MaxStartsAssumption DEF HTypeOK, Count, ReadyBound
<1>1. CASE HElapse
  BY <1>0, <1>1, ElapseType DEF HElapse
<1>2. ASSUME NEW w \in WorldState, HTick(w)
      PROVE  HTypeOK'
  <2>1. seen' \in Int
    BY <1>2, CeilSecondsType DEF HTick, TypeOK
  <2> QED BY <1>0, <1>2, <2>1, TickType DEF HTick
<1> QED BY <1>1, <1>2 DEF HNext

\* Every behaviour with its history is well typed.
LEMMA HTypeCorrect == HSpec => []HTypeOK
<1>1. HInit => HTypeOK
  <2>1. FoughtBound \in Nat \ {0}
    BY RoundingRoom
  <2> QED BY <2>1, InitType, TimingAssumption, MaxStartsAssumption
             DEF HInit, HTypeOK, ReadyBound
<1>2. HTypeOK /\ UNCHANGED hvars => HTypeOK'
  BY DEF HTypeOK, hvars, TypeOK, vars, animation
<1> QED BY <1>1, <1>2, HTypeStep, PTL DEF HSpec

\* A match whose time is being accounted for.
Counted == MatchOn /\ Left > 0 /\ starts < MaxStarts

\* What a step does to the account of time fought and time left: it opens a new
\* one, or keeps the sum, or rounds the time left at a start or at a pause.
Opens  == fought' = 0 /\ Left' = FightTime /\ starts' = 0 /\ Roundings' = 0
Keeps  == /\ fought' + Left' = fought + Left
          /\ starts' = starts /\ Roundings' = Roundings
Starts == /\ fought' = fought /\ starts' = starts + 1 /\ Roundings' = Roundings + 1
          /\ Left' <= Left + FloatError /\ Left' >= Left - FloatError - (Milli - 1)
Pauses == /\ fought' = fought /\ starts' = starts /\ Roundings' = Roundings + 1
          /\ Left' <= Left + FloatError /\ Left' >= Left - FloatError

\* No step does anything else while there is time left to account for.
LEMMA AccountStep ==
  ASSUME HTypeOK, NoTimeGained, HNext, Counted'
  PROVE  Opens \/ (Counted /\ (Keeps \/ Starts \/ Pauses))
<1>0. /\ HTypeOK' /\ starts \in 0 .. MaxStarts /\ MaxStarts \in Nat \ {0}
      /\ fought \in Nat /\ untilEnd \in Int /\ timeRemaining \in Int
      /\ FoughtBound \in Nat \ {0}
  BY HTypeStep, RoundingRoom, MaxStartsAssumption DEF HTypeOK, TypeOK
<1>1. CASE HElapse
  <2>1. /\ UNCHANGED <<state, timeRemaining, starts>> /\ Roundings' = Roundings
        /\ state = "Fighting" => untilEnd' <= untilEnd
    BY <1>0, <1>1 DEF HElapse, Elapse, Roundings
  <2>2. Counted
    BY <1>0, <1>1, <2>1 DEF HTypeOK, TypeOK, Counted, MatchOn, Left, HElapse, Elapse
  <2>3. state = "Fighting" => fought < FoughtBound
    <3> SUFFICES ASSUME state = "Fighting" PROVE fought < FoughtBound
      OBVIOUS
    <3>1. /\ Roundings \in Int /\ Roundings <= 2 * MaxStarts
      BY <1>0 DEF Roundings
    <3>2. FightTime + Roundings * FloatError < FoughtBound /\ Roundings * FloatError \in Int
      BY <3>1, RoundingRoom
    <3>3. fought + untilEnd <= FightTime + Roundings * FloatError /\ untilEnd > 0
      BY <2>2 DEF NoTimeGained, Counted, Left
    <3> HIDE DEF Roundings
    <3> QED BY <1>0, <3>2, <3>3, TimingAssumption
  <2>4. fought' + Left' = fought + Left
    <3>1. CASE state = "Fighting"
      BY <1>0, <1>1, <2>2, <2>3, <3>1, HorizonAssumption
         DEF HElapse, Elapse, Counted, Left, Count
    <3>2. CASE state # "Fighting"
      BY <1>1, <2>1, <3>2 DEF HElapse, Left
    <3> QED BY <3>1, <3>2
  <2> QED BY <2>1, <2>2, <2>4 DEF Keeps
<1>2. ASSUME NEW w \in WorldState, HTick(w)
      PROVE  Opens \/ (Counted /\ (Keeps \/ Starts \/ Pauses))
  <2> USE <1>0 DEF Counted, MatchOn, Left, Roundings, HTick, NewMatch, FightStarts, Count
  <2>1. CASE Stays
    BY <1>2, <2>1 DEF Stays, Keeps
  <2>2. CASE Moves
    <3>1. CASE state = "PreStaging" /\ state' = "Staging"
      BY <1>2, <2>2, <3>1 DEF Moves, Opens
    <3>2. CASE /\ state \in {"Staging", "PreCountdown", "Paused"}
               /\ state' \in {"PreCountdown", "Countdown"}
               /\ UNCHANGED timeRemaining
      BY <1>2, <3>2 DEF Keeps
    <3>3. CASE /\ state = "Countdown" /\ state' = "Fighting"
               /\ untilEnd' \in ToMillis(timeRemaining)
      <4>1. /\ untilEnd' > 0 => timeRemaining > 0
            /\ timeRemaining > 0 => /\ untilEnd' <= timeRemaining + FloatError
                                    /\ untilEnd' >= timeRemaining - FloatError - (Milli - 1)
        BY <3>3, ToMillisBounds, FloatAssumption, TimingAssumption
      <4> QED BY <1>2, <3>3, <4>1 DEF Starts
    <3>4. CASE /\ state = "Fighting" /\ state' = "Paused"
               /\ timeRemaining' \in Float(untilEnd)
      <4>1. /\ timeRemaining' > 0 <=> untilEnd > 0
            /\ timeRemaining' <= untilEnd + FloatError
            /\ timeRemaining' >= untilEnd - FloatError
        BY <3>4, FloatBounds
      <4> QED BY <1>2, <3>4, <4>1 DEF Pauses
    <3>5. CASE state' \in {"End", "PreStaging"}
      BY <3>5
    <3> QED BY <2>2, <3>1, <3>2, <3>3, <3>4, <3>5 DEF Moves
  <2> QED BY <1>2, <2>1, <2>2, TickStaysOrMoves DEF HTypeOK
<1> QED BY <1>1, <1>2 DEF HNext

\* Fought time and time left add up: inductive with the types.
ClockInv == HTypeOK /\ FreshMatch /\ NoTimeGained

\* The clock of a match is kept through every Tick and every unit of time.
LEMMA ClockStep == ClockInv /\ HNext => ClockInv'
<1> SUFFICES ASSUME ClockInv, HNext PROVE ClockInv'
  OBVIOUS
<1>0. HTypeOK'
  BY HTypeStep DEF ClockInv
<1>1. FreshMatch'
  <2> USE TimingAssumption DEF ClockInv, HTypeOK, TypeOK, FreshMatch
  <2>1. CASE HElapse
    BY <2>1 DEF HElapse, Elapse
  <2>2. ASSUME NEW w \in WorldState, HTick(w)
        PROVE  FreshMatch'
    <3>1. CASE Stays
      BY <2>2, <3>1 DEF Stays, HTick, NewMatch, FightStarts
    <3>2. CASE Moves
      BY <2>2, <3>2 DEF Moves, HTick, NewMatch, FightStarts
    <3> QED BY <2>2, <3>1, <3>2, TickStaysOrMoves DEF HTick
  <2> QED BY <2>1, <2>2 DEF HNext
<1>2. NoTimeGained'
  <2> DEFINE Allowance(n) == n * FloatError
  <2> SUFFICES ASSUME Counted'
               PROVE  fought' + Left' <= FightTime + Allowance(Roundings')
    BY DEF NoTimeGained, Counted
  <2>1. Opens \/ (Counted /\ (Keeps \/ Starts \/ Pauses))
    BY AccountStep DEF ClockInv
  <2>2. /\ fought \in Int /\ Left \in Int /\ fought' \in Int /\ Left' \in Int
        /\ Roundings \in Int /\ FightTime \in Int
    BY <1>0, TimingAssumption, MaxStartsAssumption
       DEF ClockInv, HTypeOK, TypeOK, Left, Roundings
  <2>3. /\ Allowance(Roundings) \in Int /\ Allowance(0) = 0
        /\ Allowance(Roundings + 1) = Allowance(Roundings) + FloatError
    BY <2>2, RoundingRoom
  <2>4. Counted => fought + Left <= FightTime + Allowance(Roundings)
    BY DEF ClockInv, NoTimeGained, Counted
  <2> HIDE DEF Allowance
  <2>5. CASE Opens
    BY <2>2, <2>3, <2>5 DEF Opens
  <2>6. CASE Counted /\ Keeps
    <3>1. fought' + Left' = fought + Left /\ Allowance(Roundings') = Allowance(Roundings)
      BY <2>6, Zenon DEF Keeps
    <3> QED BY <2>2, <2>3, <2>4, <2>6, <3>1
  <2>7. CASE Counted /\ (Starts \/ Pauses)
    <3>1. /\ fought' = fought /\ Roundings' = Roundings + 1 /\ Left' <= Left + FloatError
      BY <2>7 DEF Starts, Pauses
    <3> QED BY <2>2, <2>3, <2>4, <2>7, <3>1, FloatAssumption
  <2> QED BY <2>1, <2>5, <2>6, <2>7
<1> QED BY <1>0, <1>1, <1>2 DEF ClockInv

\* A match begins with a full clock and pausing buys no fight time.
LEMMA ClockCorrect == HSpec => []ClockInv
<1>1. HInit => FreshMatch /\ NoTimeGained
  BY DEF HInit, Init, FreshMatch, NoTimeGained, MatchOn
<1>2. ClockInv /\ UNCHANGED hvars => ClockInv'
  BY DEF ClockInv, HTypeOK, TypeOK, FreshMatch, NoTimeGained, MatchOn, Left, Roundings,
         hvars, vars, animation
<1>3. HSpec => HTypeOK
  BY HTypeCorrect, PTL
<1>4. HSpec => HInit
  BY DEF HSpec
<1> QED
  BY <1>1, <1>2, <1>3, <1>4, ClockStep, PTL DEF HSpec, ClockInv

\* However often the referee pauses, the time fought and the time left exceed the
\* match's fight time by no more than the roundings to a float at its starts and
\* pauses (Fighting's constructor and Tick).
THEOREM PausingBuysNothing == HSpec => []NoTimeGained
BY ClockCorrect, PTL DEF ClockInv

\* Every match is staged with a full clock, also after an abandoned one
\* (PreStagingAnim::Tick).
THEOREM MatchesStartFresh == HSpec => []FreshMatch
BY ClockCorrect, PTL DEF ClockInv

\* One more start may cost one more millisecond, almost.
LEMMA OneMoreStart ==
  ASSUME NEW n \in Nat
  PROVE  /\ (n + 1) * (Milli - 1) = n * (Milli - 1) + (Milli - 1)
         /\ n * (Milli - 1) \in Nat /\ 0 * (Milli - 1) = 0
BY TimingAssumption

\* Pausing loses no more than its roundings; inductive with the clock invariant.
LEMMA LossStep == ClockInv /\ NoTimeLost /\ HNext => NoTimeLost'
<1> DEFINE Loss(n) == n * (Milli - 1)
           Allowance(n) == n * FloatError
<1> SUFFICES ASSUME ClockInv, NoTimeLost, HNext, Counted'
             PROVE  fought' + Left' >= FightTime - Loss(starts') - Allowance(Roundings')
  BY DEF NoTimeLost, Counted
<1>1. Opens \/ (Counted /\ (Keeps \/ Starts \/ Pauses))
  BY AccountStep DEF ClockInv
<1>2. /\ fought \in Int /\ Left \in Int /\ fought' \in Int /\ Left' \in Int
      /\ Roundings \in Int /\ starts \in Nat /\ FightTime \in Int /\ Milli \in Int
  BY HTypeStep, TimingAssumption, MaxStartsAssumption
     DEF ClockInv, HTypeOK, TypeOK, Left, Roundings
<1>3. /\ Allowance(Roundings) \in Int /\ Allowance(0) = 0
      /\ Allowance(Roundings + 1) = Allowance(Roundings) + FloatError
  BY <1>2, RoundingRoom
<1>4. /\ Loss(starts) \in Nat /\ Loss(0) = 0
      /\ Loss(starts + 1) = Loss(starts) + (Milli - 1)
  BY <1>2, OneMoreStart
<1>5. Counted => fought + Left >= FightTime - Loss(starts) - Allowance(Roundings)
  BY DEF NoTimeLost, Counted
<1> HIDE DEF Loss, Allowance
<1>6. CASE Opens
  BY <1>2, <1>3, <1>4, <1>6 DEF Opens
<1>7. CASE Counted /\ Keeps
  <2>1. /\ fought' + Left' = fought + Left
        /\ Loss(starts') = Loss(starts) /\ Allowance(Roundings') = Allowance(Roundings)
    BY <1>7, Zenon DEF Keeps
  <2> QED BY <1>2, <1>3, <1>4, <1>5, <1>7, <2>1
<1>8. CASE Counted /\ Starts
  BY <1>2, <1>3, <1>4, <1>5, <1>8, FloatAssumption DEF Starts
<1>9. CASE Counted /\ Pauses
  BY <1>2, <1>3, <1>4, <1>5, <1>9, FloatAssumption DEF Pauses
<1> QED BY <1>1, <1>6, <1>7, <1>8, <1>9

\* However often the referee pauses, the teams lose less than a millisecond of
\* fight time per start of the clock, and the roundings to a float (Fighting's
\* constructor and Tick).
THEOREM PausingCostsRounding == HSpec => []NoTimeLost
<1>1. HInit => NoTimeLost
  BY DEF HInit, Init, NoTimeLost, MatchOn
<1>2. NoTimeLost /\ UNCHANGED hvars => NoTimeLost'
  BY DEF NoTimeLost, MatchOn, Left, Roundings, hvars, vars, animation
<1> QED BY <1>1, <1>2, ClockCorrect, LossStep, PTL DEF HSpec

-----------------------------------------------------------------------------
(* No fight begins early.                                                  *)

\* The age of a start never outruns the stopwatch of the teams' readiness.
LEMMA ReadyStep == ClockInv /\ ReadyInv /\ HNext => ReadyInv'
<1> SUFFICES ASSUME ClockInv, ReadyInv, HNext PROVE ReadyInv'
  OBVIOUS
<1>0. HTypeOK'
  BY HTypeStep DEF ClockInv
<1> USE TimingAssumption, MaxStartsAssumption, HorizonAssumption
    DEF ClockInv, HTypeOK, TypeOK, Age, ReadyBound, BothReady, Never
<1>1. CASE HElapse
  BY <1>0, <1>1 DEF ReadyInv, HElapse, Elapse, Older, Count
<1>2. ASSUME NEW w \in WorldState, HTick(w)
      PROVE  ReadyInv'
  <2>1. CASE Stays
    BY <1>0, <1>2, <2>1 DEF ReadyInv, Stays, HTick, NewMatch, FightStarts, TeamReady
  <2>2. CASE Moves
    BY <1>0, <1>2, <2>2
       DEF ReadyInv, Moves, HTick, NewMatch, FightStarts, TeamReady, Count
  <2> QED BY <1>2, <2>1, <2>2, TickStaysOrMoves DEF HTick
<1> QED BY <1>1, <1>2 DEF HNext

\* Why no fight begins early, for every choice of the animations' lengths
\* (the ages that StagingAnim, PreCountdownAnimation and XmasTree compare).
THEOREM ReadyCorrect == HSpec => []ReadyInv
<1>1. HInit => ReadyInv
  BY DEF HInit, Init, ReadyInv, BothReady
<1>2. ReadyInv /\ UNCHANGED hvars => ReadyInv'
  BY DEF ReadyInv, BothReady, hvars, vars, animation
<1> QED BY <1>1, <1>2, ClockCorrect, ReadyStep, PTL DEF HSpec

\* The first fight of a match begins no sooner than the staging, the show and the
\* countdown after the last team got ready.
THEOREM FightsStartOnTime == HSpec => NoEarlyStart
<1> DEFINE OnTime == FightStarts /\ starts = 0 =>
                       sinceReady > TotalAnimFromLastButton + AnimEnd + CountdownLength
<1>1. ClockInv /\ ReadyInv /\ [HNext]_hvars => [OnTime]_hvars
  <2> SUFFICES ASSUME ClockInv, ReadyInv, HNext, FightStarts, starts = 0
               PROVE  sinceReady > TotalAnimFromLastButton + AnimEnd + CountdownLength
    BY DEF hvars
  <2> USE TimingAssumption DEF ClockInv, HTypeOK, TypeOK
  <2>1. CASE HElapse
    BY <2>1 DEF HElapse, Elapse, FightStarts
  <2>2. ASSUME NEW w \in WorldState, HTick(w)
        PROVE  sinceReady > TotalAnimFromLastButton + AnimEnd + CountdownLength
    <3>1. Moves
      BY <2>2, TickStaysOrMoves DEF HTick, Stays, FightStarts
    <3>2. state = "Countdown" /\ sinceStart > CountdownLength
      BY <3>1 DEF Moves, FightStarts
    <3> QED BY <3>2 DEF ReadyInv, ReadyBound
  <2> QED BY <2>1, <2>2 DEF HNext
<1> QED BY <1>1, ClockCorrect, ReadyCorrect, PTL DEF HSpec, NoEarlyStart

-----------------------------------------------------------------------------
(* The clock that the displays show.                                      *)

\* The code's fight of two minutes is legible; ten minutes would not be.
LegibleFight == FightTime <= 599 * Second

\* A fight has no more than the fight time left, and a match that is not fighting
\* no more than a float of it.
LeftBounded ==
  /\ state = "Fighting" => untilEnd <= FightTime
  /\ MatchOn /\ state # "Fighting" => timeRemaining <= FightTime + FloatError

\* Rounding up goes by less than a second.
LEMMA CeilSecondsBounds ==
  ASSUME NEW t \in Int
  PROVE  /\ CeilSeconds(t) \in Int
         /\ CeilSeconds(t) * Second >= t
         /\ (CeilSeconds(t) - 1) * Second < t
<1> DEFINE q == (-t) \div Second
<1>1. /\ q \in Int
      /\ Second * q <= -t /\ -t < Second * q + Second
  BY TimingAssumption
<1>2. (-q) * Second = -(Second * q) /\ (-q - 1) * Second = -(Second * q) - Second
  BY <1>1, TimingAssumption
<1>3. CeilSeconds(t) = -q
  BY DEF CeilSeconds
<1> HIDE DEF q
<1> QED BY <1>1, <1>2, <1>3, TimingAssumption

\* Time left is positive exactly when it rounds up to at least a second; below ten
\* minutes it rounds up to at most 9:59.
LEMMA CeilSecondsPositive ==
  ASSUME NEW t \in Int, t <= 599 * Second
  PROVE  (t > 0 <=> CeilSeconds(t) > 0) /\ CeilSeconds(t) <= 599
<1> DEFINE s == CeilSeconds(t)
<1>1. s \in Int /\ s * Second >= t /\ (s - 1) * Second < t
  BY CeilSecondsBounds
<1> HIDE DEF s
<1>2. s <= 0 => s * Second <= 0
  BY <1>1, TimingAssumption
<1>3. s > 0 => (s - 1) * Second >= 0
  BY <1>1, TimingAssumption
<1>4. s - 1 >= 599 => (s - 1) * Second >= 599 * Second
  BY <1>1, TimingAssumption
<1>5. (t > 0 <=> s > 0) /\ s <= 599
  BY <1>1, <1>2, <1>3, <1>4, TimingAssumption
<1> QED BY <1>5 DEF s

\* What a spectator reads off a clock is what was formatted.
LEMMA ClockTextReads ==
  ASSUME NEW t \in 0 .. 599, NEW d \in 0..1
  PROVE  LET led == [segments |-> ClockText(t), dots |-> d] IN
         /\ \A i \in 1..3 : led.segments[i] \in 48..57
         /\ ReadClock(led) = t
<1> DEFINE m == t \div 60
           r == t - 60 * m
           tens == r \div 10
           ones == t - 10 * (t \div 10)
<1>1. m \in 0..9 /\ r \in 0..59
  OBVIOUS
<1>2. tens \in 0..5 /\ ones \in 0..9
  <2> HIDE DEF m
  <2> QED BY <1>1
<1>3. 60 * m + 10 * tens + ones = t
  BY SMTT(30)
<1>4. Quot(t, 60) = m /\ Rem(t, 60) = r /\ Quot(r, 10) = tens /\ Rem(t, 10) = ones
  BY <1>1 DEF Quot, Rem
<1> HIDE DEF m, r, tens, ones
<1>5. DigitChar(m) = 48 + m /\ DigitChar(tens) = 48 + tens /\ DigitChar(ones) = 48 + ones
  BY <1>1, <1>2 DEF DigitChar
<1>6. ClockText(t) = <<48 + m, 48 + tens, 48 + ones, 32>>
  BY <1>4, <1>5 DEF ClockText
<1> QED BY <1>1, <1>2, <1>3, <1>6 DEF ReadClock

\* The fight time and whole seconds are whole numbers of milliseconds.
LEMMA WholeMillis ==
  /\ \E n \in Nat : FightTime = n * Milli
  /\ \A s \in Nat : \E n \in Nat : s * Second = n * Milli
<1>1. FightTime = (FightTime \div Milli) * Milli /\ FightTime \div Milli \in Nat
  BY TimingAssumption, FloatAssumption
<1> DEFINE d == Second \div Milli
<1>2. Second = d * Milli /\ d \in Nat
  BY TimingAssumption, FloatAssumption
<1> HIDE DEF d
<1>3. ASSUME NEW s \in Nat PROVE s * Second = (s * d) * Milli /\ s * d \in Nat
  BY <1>2, TimingAssumption
<1> QED BY <1>1, <1>3

\* Ticks and time keep what is left within the fight time.
LEMMA LeftStep == TypeOK /\ LeftBounded /\ [Next]_vars => LeftBounded'
<1> SUFFICES ASSUME TypeOK, LeftBounded, [Next]_vars PROVE LeftBounded'
  OBVIOUS
<1> USE TimingAssumption, FloatAssumption DEF TypeOK, LeftBounded, MatchOn
<1>1. CASE Elapse
  BY <1>1 DEF Elapse
<1>2. ASSUME NEW w \in WorldState, Tick(w) PROVE LeftBounded'
  <2>1. CASE Stays
    BY <2>1 DEF Stays
  <2>2. CASE Moves
    <3>1. ASSUME timeRemaining <= FightTime + FloatError, untilEnd' \in ToMillis(timeRemaining)
          PROVE  untilEnd' <= FightTime
      <4>1. PICK n \in Nat : FightTime = n * Milli
        BY WholeMillis
      <4> QED BY <3>1, <4>1, ToMillisBelow
    <3>2. ASSUME timeRemaining' \in Float(untilEnd), untilEnd <= FightTime
          PROVE  timeRemaining' <= FightTime + FloatError
      BY <3>2, FloatBounds
    <3> QED BY <2>2, <3>1, <3>2 DEF Moves
  <2> QED BY <1>2, <2>1, <2>2, TickStaysOrMoves
<1>3. CASE UNCHANGED vars
  BY <1>3 DEF vars, animation
<1> QED BY <1>1, <1>2, <1>3 DEF Next

\* At no time does a match have more left than its fight time.
LEMMA LeftCorrect == Spec => []LeftBounded
<1>1. Init => LeftBounded
  BY DEF Init, LeftBounded, MatchOn
<1> QED BY <1>1, LeftStep, TypeCorrect, PTL DEF Spec

\* While the clock of a fight runs, the displays are given a legible m:ss that is
\* the time left, rounded up to a second, and none once it has run out
\* (Fighting::GetSegmentLed), for every fight shorter than ten minutes.
THEOREM ClockReadsTrue ==
  ASSUME LegibleFight
  PROVE  Spec => []FightClockReadsTrue
<1>1. TypeOK /\ LeftBounded => FightClockReadsTrue
  <2> SUFFICES ASSUME TypeOK, LeftBounded, state = "Fighting" PROVE FightClockReadsTrue
    BY DEF FightClockReadsTrue
  <2> DEFINE left == CeilSeconds(untilEnd)
  <2>1. untilEnd \in Int /\ untilEnd <= 599 * Second
    BY TimingAssumption DEF TypeOK, LeftBounded, LegibleFight
  <2>2. /\ left \in Int /\ left <= 599 /\ (untilEnd > 0 <=> left > 0)
        /\ left * Second >= untilEnd /\ (left - 1) * Second < untilEnd
    BY <2>1, CeilSecondsBounds, CeilSecondsPositive
  <2>3. CASE untilEnd > 0
    <3>1. GetSegmentLed = [segments |-> ClockText(left), dots |-> 1]
      BY <2>2, <2>3 DEF GetSegmentLed
    <3> HIDE DEF left
    <3>2. left \in 0 .. 599 /\ 1 \in 0..1
      BY <2>2, <2>3
    <3>3. /\ \A i \in 1..3 : GetSegmentLed.segments[i] \in 48..57
          /\ ReadClock(GetSegmentLed) = left
      BY <3>1, <3>2, ClockTextReads, Zenon
    <3>4. ShowsClock(GetSegmentLed)
      BY <3>1, <3>3 DEF ShowsClock
    <3> QED BY <2>2, <2>3, <3>3, <3>4 DEF FightClockReadsTrue
  <2>4. CASE ~(untilEnd > 0)
    <3>1. GetSegmentLed.dots = 0
      BY <2>2, <2>4 DEF GetSegmentLed
    <3> QED BY <2>4, <3>1 DEF FightClockReadsTrue, ShowsClock
  <2> QED BY <2>3, <2>4
<1> QED BY <1>1, TypeCorrect, LeftCorrect, PTL

-----------------------------------------------------------------------------
(* A fight goes on from the clock it was paused at.                        *)

\* As many seconds as the clock had come to when t was left are left.
LEMMA SecondsLeft ==
  ASSUME NEW t \in Int, NEW s \in Int, t <= s * Second, t > (s - 2) * Second
  PROVE  CeilSeconds(t) \in {s - 1, s}
<1> DEFINE c == CeilSeconds(t)
<1>1. c \in Int /\ c * Second >= t /\ (c - 1) * Second < t
  BY CeilSecondsBounds
<1> HIDE DEF c
<1>2. c >= s + 1 => (c - 1) * Second >= s * Second
  BY <1>1, TimingAssumption
<1>3. c <= s - 2 => c * Second <= (s - 2) * Second
  BY <1>1, TimingAssumption
<1>4. /\ s * Second \in Int /\ (s - 2) * Second \in Int
      /\ c * Second \in Int /\ (c - 1) * Second \in Int
  BY <1>1, TimingAssumption
<1>5. c >= s - 1 /\ c <= s
  BY <1>1, <1>2, <1>3, <1>4
<1>6. c = s - 1 \/ c = s
  BY <1>1, <1>5
<1> QED BY <1>6 DEF c

\* The seconds seen at a pause bound the time saved by it, until the next fight.
LEMMA SeenStep == HTypeOK /\ SeenInv /\ HNext => SeenInv'
<1> SUFFICES ASSUME HTypeOK, SeenInv, HNext PROVE SeenInv'
  OBVIOUS
<1>0. untilEnd \in Int /\ timeRemaining \in Int /\ seen \in Int
  BY DEF HTypeOK, TypeOK
<1>1. CASE HElapse
  BY <1>1 DEF SeenInv, HElapse, Elapse
<1>2. ASSUME NEW w \in WorldState, HTick(w)
      PROVE  SeenInv'
  <2>1. CASE Stays
    BY <1>2, <2>1 DEF SeenInv, Stays, HTick, NewMatch, FightStarts, FightPauses
  <2>2. CASE Moves
    <3>1. CASE state = "Fighting" /\ state' = "Paused" /\ timeRemaining' \in Float(untilEnd)
      <4> DEFINE s == CeilSeconds(untilEnd)
      <4>1. seen' = s
        BY <1>2, <3>1 DEF HTick, NewMatch, FightStarts, FightPauses
      <4>2. /\ s \in Int /\ s * Second >= untilEnd /\ (s - 1) * Second < untilEnd
            /\ s * Second \in Int /\ (s - 1) * Second \in Int
        BY <1>0, CeilSecondsBounds, TimingAssumption
      <4> HIDE DEF s
      <4>3. s > 0 => (s - 1) * Second >= 0
        BY <4>2, TimingAssumption
      <4>4. /\ timeRemaining' \in Int /\ timeRemaining' >= untilEnd - FloatError
            /\ timeRemaining' <= untilEnd + FloatError
            /\ timeRemaining' > 0 <=> untilEnd > 0
        BY <1>0, <3>1, FloatBounds
      <4>5. s > 0 => /\ timeRemaining' > 0
                     /\ timeRemaining' > (s - 1) * Second - FloatError
                     /\ timeRemaining' <= s * Second + FloatError
        BY <1>0, <4>2, <4>3, <4>4, FloatAssumption
      <4> QED BY <3>1, <4>1, <4>5 DEF SeenInv
    <3>2. CASE state' \in {"Staging", "Fighting", "End", "PreStaging"}
      BY <1>2, <2>2, <3>2 DEF SeenInv, Moves, HTick, NewMatch, FightStarts
    <3>3. CASE state' \in {"PreCountdown", "Countdown"} /\ UNCHANGED <<timeRemaining, seen>>
      BY <2>2, <3>3 DEF SeenInv, Moves
    <3> QED BY <1>2, <2>2, <3>1, <3>2, <3>3
            DEF Moves, HTick, NewMatch, FightStarts, FightPauses
  <2> QED BY <1>2, <2>1, <2>2, TickStaysOrMoves DEF HTick, HTypeOK
<1> QED BY <1>1, <1>2 DEF HNext

\* So they do throughout.
LEMMA SeenCorrect == HSpec => []SeenInv
<1>1. HInit => SeenInv
  BY DEF HInit, Init, SeenInv
<1>2. SeenInv /\ UNCHANGED hvars => SeenInv'
  BY DEF SeenInv, hvars, vars, animation
<1> QED BY <1>1, <1>2, HTypeCorrect, SeenStep, PTL DEF HSpec

\* The seconds on the clock after a pause are those before it or one less, whichever
\* way the pause and the start round (Fighting's Tick, constructor and GetSegmentLed).
THEOREM FightsGoOnFromTheirClock == HSpec => ClockResumes
<1> DEFINE Resumes == FightStarts /\ seen > 0 => CeilSeconds(untilEnd') \in {seen - 1, seen}
<1>1. HTypeOK /\ SeenInv /\ [HNext]_hvars => [Resumes]_hvars
  <2> SUFFICES ASSUME HTypeOK, SeenInv, HNext, FightStarts, seen > 0
               PROVE  CeilSeconds(untilEnd') \in {seen - 1, seen}
    BY DEF hvars
  <2>0. timeRemaining \in Int /\ seen \in Nat
    BY DEF HTypeOK, TypeOK
  <2>1. PICK w \in WorldState : HTick(w)
    BY DEF HNext, HElapse, Elapse, FightStarts
  <2>2. Moves
    BY <2>1, TickStaysOrMoves DEF HTick, HTypeOK, Stays, FightStarts
  <2>3. state = "Countdown" /\ untilEnd' \in ToMillis(timeRemaining)
    BY <2>2 DEF Moves, FightStarts
  <2>4. /\ timeRemaining > 0
        /\ timeRemaining > (seen - 1) * Second - FloatError
        /\ timeRemaining <= seen * Second + FloatError
    BY <2>3 DEF SeenInv
  <2>5. untilEnd' <= seen * Second
    <3>1. PICK n \in Nat : seen * Second = n * Milli
      BY <2>0, WholeMillis
    <3> QED BY <2>0, <2>3, <2>4, <3>1, ToMillisBelow
  <2>6. untilEnd' \in Int /\ untilEnd' > (seen - 2) * Second
    <3>1. untilEnd' \in Int /\ untilEnd' > timeRemaining - FloatError - Milli
      BY <2>0, <2>3, <2>4, ToMillisBounds
    <3>2. (seen - 2) * Second = (seen - 1) * Second - Second /\ (seen - 1) * Second \in Int
      BY <2>0, TimingAssumption
    <3> QED BY <2>0, <2>4, <3>1, <3>2, FloatAssumption, TimingAssumption
  <2> QED BY <2>0, <2>5, <2>6, SecondsLeft
<1> QED BY <1>1, HTypeCorrect, SeenCorrect, PTL DEF HSpec, ClockResumes

-----------------------------------------------------------------------------
(* What the strips show: Animations.                                       *)

\* A share of top is between nothing and all of it.
LEMMA ShareBounds ==
  ASSUME NEW top \in Nat, NEW d \in Nat \ {0}, NEW p \in 0 .. d
  PROVE  (top * p) \div d \in 0 .. top
<1> DEFINE q == (top * p) \div d
<1>1. top * p \in Nat /\ top * p <= top * d
  OBVIOUS
<1>2. q \in Int /\ d * q <= top * p /\ top * p < d * q + d
  BY <1>1
<1> HIDE DEF q
<1>3. q >= top + 1 => d * q >= d * top + d
  BY <1>2
<1>4. q <= -1 => d * q <= -d
  BY <1>2
<1>5. d * top = top * d
  OBVIOUS
<1>6. q \in 0 .. top
  BY <1>1, <1>2, <1>3, <1>4, <1>5
<1> QED BY <1>6 DEF q

\* A rising brightness stays between dark and top.
LEMMA TweenBounds ==
  ASSUME NEW t \in Int, NEW start \in Int, NEW end \in Int, start < end, NEW top \in Nat
  PROVE  tween(t, start, end, top) \in 0 .. top
<1>1. CASE start < t /\ t < end
  <2>1. t - start \in 0 .. (end - start) /\ end - start \in Nat \ {0}
    BY <1>1
  <2>2. (top * (t - start)) \div (end - start) \in 0 .. top
    BY <2>1, ShareBounds
  <2> QED BY <1>1, <2>2 DEF tween
<1>2. CASE t <= start \/ t >= end
  BY <1>2 DEF tween
<1> QED BY <1>1, <1>2

\* So does a falling one, which is top before it starts and dark after its end.
LEMMA FadeBounds ==
  ASSUME NEW t \in Int, NEW start \in Int, NEW end \in Int, start < end, NEW top \in Nat
  PROVE  /\ Fade(t, start, end, top) \in 0 .. top
         /\ t >= end => Fade(t, start, end, top) = 0
         /\ t <= start => Fade(t, start, end, top) = top
<1>1. start + end - t \in Int
  OBVIOUS
<1>2. Fade(t, start, end, top) \in 0 .. top
  BY <1>1, TweenBounds DEF Fade
<1> QED BY <1>2 DEF Fade, tween

\* A team's half glows, faintly until the team has pressed its button.
LEMMA ReadyLevelBounds ==
  ASSUME NEW since \in Age
  PROVE  ReadyLevel(since) \in 12 .. 120 /\ (since = Never => ReadyLevel(since) = 12)
<1>1. CASE since > 0
  <2>1. since \in Nat
    BY <1>1 DEF Age, Never
  <2> DEFINE n == 108 * since * since
             d == Second * Second
             q == n \div d
  <2>2. n \in Nat /\ d \in Nat \ {0}
    BY <2>1, TimingAssumption
  <2>3. q \in Nat
    <3> HIDE DEF n, d
    <3>1. q \in Int /\ d * q <= n /\ n < d * q + d
      BY <2>2
    <3> HIDE DEF q
    <3>2. q <= -1 => d * q <= -d
      BY <2>2, <3>1
    <3> QED BY <2>2, <3>1, <3>2
  <2>4. ReadyLevel(since) = Lower(120, 12 + q)
    BY <1>1 DEF ReadyLevel, MaxLightCounts
  <2> HIDE DEF q
  <2> QED BY <1>1, <2>3, <2>4 DEF Lower, Never
<1>2. CASE ~(since > 0)
  BY <1>2 DEF ReadyLevel
<1> QED BY <1>1, <1>2

\* The fade of a staging lasts until the team that came last is through.
LEMMA StagingFadeBounds ==
  ASSUME TypeOK
  PROVE  /\ StagingFade \in 0 .. 120
         /\ sinceRed = Never \/ sinceBlue = Never => StagingFade = 120
         /\ sinceRed > TotalAnimFromLastButton /\ sinceBlue > TotalAnimFromLastButton
              => StagingFade = 0
<1> DEFINE age == Lower(sinceRed, sinceBlue)
           end == FadeStart + FadeDuration
<1>1. /\ sinceRed \in Int /\ sinceBlue \in Int /\ sinceRed >= Never /\ sinceBlue >= Never
  BY DEF TypeOK, Age, Never
<1>2. /\ age \in Int
      /\ sinceRed = Never \/ sinceBlue = Never => age = Never
      /\ sinceRed > TotalAnimFromLastButton /\ sinceBlue > TotalAnimFromLastButton
              => age > TotalAnimFromLastButton
  BY <1>1, TimingAssumption DEF Lower, Never
<1>3. /\ FadeStart \in Nat /\ end \in Nat /\ FadeStart < end /\ end <= TotalAnimFromLastButton
  BY FadeAssumption
<1>4. StagingFade = Fade(age, FadeStart, end, 120)
  BY DEF StagingFade, MaxLightCounts
<1> HIDE DEF age, end
<1>5. /\ Fade(age, FadeStart, end, 120) \in 0 .. 120
      /\ age >= end => Fade(age, FadeStart, end, 120) = 0
      /\ age <= FadeStart => Fade(age, FadeStart, end, 120) = 120
  <2>1. age \in Int /\ FadeStart \in Int /\ end \in Int /\ 120 \in Nat
    BY <1>2, <1>3
  <2> QED BY <1>3, <2>1, FadeBounds, Zenon
<1> QED BY <1>2, <1>3, <1>4, <1>5, TimingAssumption DEF Never

\* GetColors by the animation.
LEMMA ColorsByState ==
  ASSUME NEW n
  PROVE  /\ state = "PreStaging" =>
              GetColors(n) = {RGB(PreStagingLevel, PreStagingLevel, PreStagingLevel)}
         /\ state = "Staging" => GetColors(n) = {StagingColor(n)}
         /\ state = "PreCountdown" => GetColors(n) = PreCountdownColors
         /\ state = "Countdown" => GetColors(n) = {CountdownColor(n)}
         /\ state = "Fighting" => GetColors(n) = {RGB(0, FightingLevel, 0)}
         /\ state \in {"Paused", "End"} => GetColors(n) = {RGB(FightingLevel, FightingLevel, 0)}
BY DEF GetColors

\* The light of PreStagingAnim is out when the referee's fade is over.
LEMMA PreStagingLevelBounds ==
  ASSUME TypeOK
  PROVE  /\ PreStagingLevel \in 0 .. 120
         /\ sinceStarting > FadeOutStart => PreStagingLevel = 0
<1>1. FadeOutStart \in Nat \ {0} /\ 3 * FadeOutStart \in Nat /\ 3 * FadeOutStart > 0
  BY TimingAssumption, FadeAssumption
<1>2. sinceStart \in Int /\ sinceStarting \in Int
  BY DEF TypeOK, Age, Never
<1> DEFINE end == 3 * FadeOutStart
<1>3. tween(sinceStart, 0, end, 60) \in 0 .. 60
  <2>1. sinceStart \in Int /\ 0 \in Int /\ end \in Int /\ 0 < end /\ 60 \in Nat
    BY <1>1, <1>2
  <2> HIDE DEF end
  <2> QED BY <2>1, TweenBounds, Zenon
<1>4. /\ Fade(sinceStarting, 0, FadeOutStart, 60) \in 0 .. 60
      /\ sinceStarting >= FadeOutStart => Fade(sinceStarting, 0, FadeOutStart, 60) = 0
  <2>1. sinceStarting \in Int /\ 0 \in Int /\ FadeOutStart \in Int /\ 0 < FadeOutStart /\ 60 \in Nat
    BY <1>1, <1>2
  <2> QED BY <2>1, FadeBounds, Zenon
<1> QED BY <1>1, <1>2, <1>3, <1>4 DEF PreStagingLevel, MidLightCounts

\* The colours of StagingAnim fit.
LEMMA StagingBounds ==
  ASSUME TypeOK, NEW n \in Leds
  PROVE  \A ch \in {"r", "g", "b"} : StagingColor(n)[ch] \in 0 .. 120
<1>1. /\ StagingFade \in 0 .. 120
      /\ ReadyLevel(sinceRed) \in 12 .. 120 /\ ReadyLevel(sinceBlue) \in 12 .. 120
  BY StagingFadeBounds, ReadyLevelBounds DEF TypeOK
<1>2. /\ Lower(ReadyLevel(sinceRed), StagingFade) \in 0..120
      /\ Lower(ReadyLevel(sinceBlue), StagingFade) \in 0..120
  BY <1>1 DEF Lower
<1> QED BY <1>2 DEF StagingColor, RGB

\* The show fits, whatever the particles add, and is dark at its end.
LEMMA PreCountdownBounds ==
  ASSUME TypeOK
  PROVE  /\ \A colour \in PreCountdownColors : {colour.r, colour.g, colour.b} \subseteq 0 .. 120
         /\ sinceStart > AnimEnd => PreCountdownColors = {Black}
<1> DEFINE low  == tween(sinceStart, FadeUpStart, FadeUpEnd, MaxLightCounts)
           high == Fade(sinceStart, FadeDownStart, FadeDownEnd, MaxLightCounts)
           Levels == {Lower(Higher(juice, low), high) : juice \in 0 .. 97}
<1>1. /\ sinceStart \in Int /\ MaxLightCounts \in Nat /\ MaxLightCounts = 120
      /\ FadeUpStart \in Int /\ FadeUpEnd \in Int /\ FadeUpStart < FadeUpEnd
      /\ FadeDownStart \in Int /\ FadeDownEnd \in Int /\ FadeDownStart < FadeDownEnd
      /\ FadeDownEnd <= AnimEnd /\ AnimEnd \in Int
  BY FadeAssumption, TimingAssumption DEF TypeOK, MaxLightCounts
<1>2. low \in 0 .. MaxLightCounts
  BY <1>1, TweenBounds, Zenon
<1>3. high \in 0 .. MaxLightCounts /\ (sinceStart >= FadeDownEnd => high = 0)
  <2>1. /\ sinceStart \in Int /\ FadeDownStart \in Int /\ FadeDownEnd \in Int
        /\ FadeDownStart < FadeDownEnd /\ MaxLightCounts \in Nat
    BY <1>1
  <2> QED BY <2>1, FadeBounds, Zenon
<1>4. PreCountdownColors = {RGB(v, v, v) : v \in Levels}
  BY DEF PreCountdownColors
<1> HIDE DEF low, high
<1>5. Levels \subseteq 0 .. 120
  BY <1>1, <1>2, <1>3 DEF Lower, Higher
<1>6. sinceStart > AnimEnd => Levels = {0}
  <2> SUFFICES ASSUME sinceStart > AnimEnd PROVE Levels = {0}
    OBVIOUS
  <2>1. high = 0
    BY <1>1, <1>3
  <2>2. \A juice \in 0 .. 97 : Lower(Higher(juice, low), high) = 0
    BY <1>1, <1>2, <2>1 DEF Lower, Higher
  <2>3. 0 \in 0 .. 97
    OBVIOUS
  <2> QED BY <2>2, <2>3
<1> HIDE DEF Levels
<1> QED BY <1>4, <1>5, <1>6 DEF RGB, Black

\* The flash of the countdown fits: the parabola is clamped at both ends.
LEMMA DootinessBounds == TypeOK => Dootiness \in 0 .. 120
<1> SUFFICES ASSUME TypeOK PROVE Dootiness \in 0 .. 120
  OBVIOUS
<1> DEFINE f == sinceStart % Second
           n == MaxLightCounts * (120 * Second * Second - 144 * f * f)
           d == 100 * Second * Second
           v == n \div d
<1>1. f \in Int
  BY TimingAssumption DEF TypeOK
<1>2. Second * Second \in Nat \ {0} /\ f * f \in Int
  BY <1>1, TimingAssumption
<1>3. n \in Int /\ d \in Nat \ {0}
  BY <1>1, <1>2, TimingAssumption DEF MaxLightCounts
<1> HIDE DEF n, d
<1>4. v \in Int
  BY <1>3
<1> HIDE DEF v
<1>5. Dootiness = Higher(0, Lower(MaxLightCounts, v))
  BY DEF Dootiness, v, n, d
<1> QED BY <1>4, <1>5 DEF Higher, Lower, MaxLightCounts

\* The fade of Fighting, PausedAnim and End fits.
LEMMA FightingLevelBounds == TypeOK => FightingLevel \in 0 .. 120
<1> SUFFICES ASSUME TypeOK PROVE FightingLevel \in 0 .. 120
  OBVIOUS
<1> DEFINE end == 3 * Second
<1>1. sinceStart \in Int /\ 0 \in Int /\ end \in Int /\ 0 < end /\ 120 \in Nat
  BY TimingAssumption DEF TypeOK
<1> HIDE DEF end
<1>2. Fade(sinceStart, 0, end, 120) \in 0 .. 120
  BY <1>1, FadeBounds, Zenon
<1> QED BY <1>2 DEF FightingLevel, MaxLightCounts, end

\* No animation asks for a brightness beyond the supply or outside of a uint8_t
\* (all GetColors), for all lengths of fades and strips.
THEOREM BrightnessCorrect == Spec => []BrightnessBounded
<1>1. TypeOK => BrightnessBounded
  <2> SUFFICES ASSUME TypeOK, NEW n \in Leds, NEW colour \in GetColors(n)
               PROVE  {colour.r, colour.g, colour.b} \subseteq 0 .. 120
    BY DEF BrightnessBounded, MaxLightCounts
  <2> USE ColorsByState DEF RGB
  <2>1. CASE state = "PreStaging"
    BY <2>1, PreStagingLevelBounds
  <2>2. CASE state = "Staging"
    BY <2>2, StagingBounds
  <2>3. CASE state = "PreCountdown"
    BY <2>3, PreCountdownBounds
  <2>4. CASE state = "Countdown"
    BY <2>4, DootinessBounds DEF CountdownColor, Black
  <2>5. CASE state \in {"Fighting", "Paused", "End"}
    BY <2>5, FightingLevelBounds
  <2> QED BY <2>1, <2>2, <2>3, <2>4, <2>5 DEF TypeOK, ArenaState
<1> QED BY <1>1, TypeCorrect, PTL

\* However long ago the other team pressed, the half of a team that has not stays
\* aglow (StagingAnim::GetColors).
THEOREM TeamsAreWaitedFor == Spec => []WaitingTeamGlows
<1>1. TypeOK => WaitingTeamGlows
  <2> SUFFICES ASSUME TypeOK, state = "Staging", NEW n \in Leds
               PROVE  /\ n < N \div 2 /\ sinceRed = Never => GetColors(n) = {RGB(12, 0, 0)}
                      /\ n >= N \div 2 /\ sinceBlue = Never => GetColors(n) = {RGB(0, 0, 12)}
                      /\ sinceRed = Never \/ sinceBlue = Never => Black \notin GetColors(n)
    BY DEF WaitingTeamGlows
  <2>1. n \in Int /\ N \div 2 \in Int
    <3>1. NumVertical * NumHorizontal \in Nat
      BY StripAssumption
    <3> QED BY <3>1 DEF Leds, N
  <2> DEFINE red == ReadyLevel(sinceRed)
             blue == ReadyLevel(sinceBlue)
  <2>2. /\ red \in 12 .. 120 /\ (sinceRed = Never => red = 12)
        /\ blue \in 12 .. 120 /\ (sinceBlue = Never => blue = 12)
    BY ReadyLevelBounds DEF TypeOK
  <2>3. GetColors(n) = {StagingColor(n)}
    BY ColorsByState
  <2>4. sinceRed = Never \/ sinceBlue = Never =>
          StagingColor(n) = IF n < N \div 2 THEN RGB(red, 0, 0) ELSE RGB(0, 0, blue)
    <3>1. sinceRed = Never \/ sinceBlue = Never => StagingFade = 120
      BY StagingFadeBounds
    <3> QED BY <2>2, <3>1 DEF StagingColor, Lower
  <2> HIDE DEF red, blue
  <2> QED BY <2>1, <2>2, <2>3, <2>4 DEF RGB, Black
<1> QED BY <1>1, TypeCorrect, PTL

\* PreStagingAnim hands over no sooner than its fade has ended.
LEMMA LeavingPreStaging ==
  ASSUME TypeOK, NEW w \in WorldState, PreStagingTick(w), state # state'
  PROVE  sinceStarting > FadeOutStart
BY TimingAssumption DEF PreStagingTick, ChangeState, Latch, TypeOK, Age, Never

\* PreStagingAnim, StagingAnim and PreCountdownAnimation are dark when their Tick
\* hands over, however late it comes and whichever team was last.
THEOREM HandOverInTheDark == Spec => DarkHandOver
<1> DEFINE Dark == state # state' /\ state \in {"PreStaging", "Staging", "PreCountdown"} =>
                     \A n \in Leds : GetColors(n) = {Black}
<1>1. TypeOK /\ [Next]_vars => [Dark]_vars
  <2> SUFFICES ASSUME TypeOK, Next, state # state',
                      state \in {"PreStaging", "Staging", "PreCountdown"}, NEW n \in Leds
               PROVE  GetColors(n) = {Black}
    BY DEF vars
  <2>1. PICK w \in WorldState : Tick(w)
    BY DEF Next, Elapse
  <2>2. Moves
    BY <2>1, TickStaysOrMoves DEF Stays
  <2>3. CASE state = "PreStaging"
    <3>1. PreStagingTick(w)
      BY <2>1, <2>3 DEF Tick, StagingTick, PreCountdownTick, CountdownTick,
                        FightingTick, PausedTick, EndTick, IdleTick
    <3>2. PreStagingLevel = 0
      BY <3>1, LeavingPreStaging, PreStagingLevelBounds
    <3> QED BY <2>3, <3>2, ColorsByState DEF Black
  <2>4. CASE state = "Staging"
    <3>1. StagingFade = 0
      BY <2>2, <2>4, StagingFadeBounds DEF Moves
    <3>2. ReadyLevel(sinceRed) \in 12 .. 120 /\ ReadyLevel(sinceBlue) \in 12 .. 120
      BY ReadyLevelBounds DEF TypeOK
    <3> QED BY <2>4, <3>1, <3>2, ColorsByState DEF StagingColor, Lower, Black
  <2>5. CASE state = "PreCountdown"
    BY <2>2, <2>5, PreCountdownBounds, ColorsByState DEF Moves
  <2> QED BY <2>3, <2>4, <2>5
<1> QED BY <1>1, TypeCorrect, PTL DEF Spec, DarkHandOver

\* Three regions and two gaps, centred in a column of 14 LEDs or more.
LEMMA RegionsInside ==
  /\ RegionSize \in Nat \ {0} 
  /\ StartPx(0) \in Nat
  /\ StartPx(1) = StartPx(0) + RegionSize + 3
  /\ StartPx(2) = StartPx(0) + 2 * RegionSize + 6
  /\ StartPx(2) + RegionSize <= NumVertical
  /\ StartPx(0) - (NumVertical - StartPx(2) - RegionSize) \in {-1, 0, 1}
<1> DEFINE size == (NumVertical - 5 - 2 * 3) \div 3
           half == (size * 3 + 3 * 2) \div 2
           mid  == NumVertical \div 2
<1>1. size \in Nat \ {0} /\ 3 * size <= NumVertical - 11
  BY StripAssumption
<1>2. half \in Nat /\ 2 * half <= 3 * size + 6 /\ 3 * size + 6 <= 2 * half + 1
  <2> HIDE DEF size
  <2> QED BY <1>1
<1>3. mid \in Nat /\ 2 * mid <= NumVertical /\ NumVertical <= 2 * mid + 1
  BY StripAssumption
<1>4. RegionSize = size
  BY DEF RegionSize
<1>5. \A region \in 0..2 : StartPx(region) = mid - half + region * (size + 3)
  BY <1>4 DEF StartPx
<1> HIDE DEF size, half, mid
<1>6. /\ StartPx(0) = mid - half
      /\ StartPx(1) = mid - half + size + 3
      /\ StartPx(2) = mid - half + 2 * size + 6
  BY <1>1, <1>2, <1>3, <1>5
<1> HIDE DEF StartPx
<1> QED BY <1>1, <1>2, <1>3, <1>4, <1>6, StripAssumption

\* XmasTree's regions lie in their columns, apart and centred, for strips of 14
\* LEDs or more (XmasTree's constructor).
THEOREM RegionsAlwaysFit == Spec => []RegionsFit
<1>1. RegionsFit
  <2> SUFFICES ASSUME NEW column \in 0 .. NumHorizontal - 1, NEW region \in 0..2
               PROVE  RegionLeds(column, region)
                        \subseteq column * NumVertical .. (column + 1) * NumVertical - 1
    <3>1. \A r \in 0..1 : StartPx(r) + RegionSize < StartPx(r + 1)
      BY RegionsInside
    <3> QED BY <3>1, RegionsInside DEF RegionsFit
  <2>1. StartPx(region) \in Nat /\ StartPx(region) + RegionSize <= NumVertical /\ RegionSize \in Nat
    <3>1. region = 0 \/ region = 1 \/ region = 2
      OBVIOUS
    <3> QED BY <3>1, RegionsInside, StripAssumption
  <2>2. /\ column * NumVertical \in Nat
        /\ (column + 1) * NumVertical = column * NumVertical + NumVertical
    BY StripAssumption
  <2> QED BY <2>1, <2>2, StripAssumption DEF RegionLeds
<1> QED BY <1>1, PTL

\* An LED of a region belongs to its column and to no other region.
LEMMA LedOfRegion ==
  ASSUME NEW column \in 0 .. NumHorizontal - 1, NEW region \in 0..2,
         NEW n \in RegionLeds(column, region)
  PROVE  DootRegion(n) = 3 - region
<1>1. PICK j \in 0 .. RegionSize - 1 : n = column * NumVertical + StartPx(region) + j
  BY DEF RegionLeds
<1> DEFINE o == StartPx(region) + j
<1>0. \A r \in 0..2 : r = 0 \/ r = 1 \/ r = 2
  OBVIOUS
<1>2. o \in 0 .. NumVertical - 1 /\ StartPx(region) \in Nat
  BY <1>0, <1>1, RegionsInside, StripAssumption
<1>3. column * NumVertical \in Nat /\ n = column * NumVertical + o
  BY <1>1, <1>2, RegionsInside, StripAssumption
<1> HIDE DEF o
<1>4. n \div NumVertical = column
  <2> DEFINE q == n \div NumVertical
  <2>1. n \in Nat /\ NumVertical \in Nat \ {0}
    BY <1>2, <1>3, StripAssumption
  <2>2. q \in Int /\ NumVertical * q <= n /\ n < NumVertical * q + NumVertical
    BY <2>1
  <2> HIDE DEF q
  <2>3. q >= column + 1 => NumVertical * q >= column * NumVertical + NumVertical
    BY <2>1, <2>2
  <2>4. q <= column - 1 => NumVertical * q <= column * NumVertical - NumVertical
    BY <2>1, <2>2
  <2>5. q = column
    BY <1>2, <1>3, <2>1, <2>2, <2>3, <2>4
  <2> QED BY <2>5 DEF q
<1>5. \A r \in 0..2 : n \in RegionLeds(column, r) => r = region
  <2> SUFFICES ASSUME NEW r \in 0..2, n \in RegionLeds(column, r) PROVE r = region
    OBVIOUS
  <2>1. PICK l \in 0 .. RegionSize - 1 : n = column * NumVertical + StartPx(r) + l
    BY DEF RegionLeds
  <2>2. StartPx(r) \in Nat
    BY <1>0, RegionsInside, StripAssumption
  <2>3. StartPx(r) + l = StartPx(region) + j
    BY <1>1, <1>2, <1>3, <2>1, <2>2
  <2> QED BY <1>0, <1>1, <1>2, <2>1, <2>2, <2>3, RegionsInside
<1>6. (CHOOSE r \in 0..2 : n \in RegionLeds(column, r)) = region
  BY <1>5, Zenon
<1> QED BY <1>4, <1>6 DEF DootRegion

\* A region is lit until its second has come, as long as anything is.
LEMMA LitUntil ==
  ASSUME TypeOK, state = "Countdown", Dootiness > 0,
         NEW column \in 0 .. NumHorizontal - 1
  PROVE  LitRegions(column) = {region \in 0..2 : (3 - region) * Second > sinceStart}
<1> SUFFICES ASSUME NEW region \in 0..2
             PROVE  (\A n \in RegionLeds(column, region) : GetColors(n) # {Black})
                      <=> (3 - region) * Second > sinceStart
  BY DEF LitRegions
<1>1. \A n \in RegionLeds(column, region) :
        GetColors(n) = {IF (3 - region) * Second > sinceStart
                        THEN RGB(Dootiness, Dootiness, 0) ELSE Black}
  BY LedOfRegion, ColorsByState DEF CountdownColor
<1>2. RGB(Dootiness, Dootiness, 0) # Black
  BY DootinessBounds DEF RGB, Black
<1>3. PICK n : n \in RegionLeds(column, region)
  <2>1. 0 \in 0 .. RegionSize - 1
    BY RegionsInside
  <2> QED BY <2>1 DEF RegionLeds
<1> QED BY <1>1, <1>2, <1>3

\* What the displays say in a countdown.
LEMMA NumberShown ==
  ASSUME state = "Countdown", NEW d \in 1..3,
         GetSegmentLed.segments \in [1..4 -> {32, 48 + d}], 
         \E p \in 1..3 : GetSegmentLed.segments[p] = 48 + d
  PROVE  ShownNumber = d
<1>1. \A e \in 1..3 : (\E p \in 1..3 : GetSegmentLed.segments[p] = 48 + e) => e = d
  <2> SUFFICES ASSUME NEW e \in 1..3, NEW p \in 1..3, GetSegmentLed.segments[p] = 48 + e PROVE e = d
    OBVIOUS
  <2>1. GetSegmentLed.segments[p] \in {32, 48 + d}
    OBVIOUS
  <2> QED BY <2>1
<1> QED BY <1>1, Zenon DEF ShownNumber

\* Whenever the strips of the countdown are lit, every column shows as many regions
\* as the displays say (XmasTree::GetColors against XmasTree::GetSegmentLed).
THEOREM FacesAgree == Spec => []StripsCountWithDisplays
<1>1. TypeOK => StripsCountWithDisplays
  <2> SUFFICES ASSUME TypeOK, state = "Countdown", Dootiness > 0,
                      sinceStart < 3 * Second, sinceStart \notin {Second, 2 * Second},
                      NEW column \in 0 .. NumHorizontal - 1
               PROVE  LitRegions(column) = 0 .. ShownNumber - 1
    BY DEF StripsCountWithDisplays
  <2>0. sinceStart \in Nat /\ Second \in Nat \ {0}
    BY TimingAssumption DEF TypeOK
  <2>1. LitRegions(column) = {region \in 0..2 : (3 - region) * Second > sinceStart}
    BY LitUntil
  <2>2. GetSegmentLed.segments = CountdownText
    BY DEF GetSegmentLed
  <2>3. CASE sinceStart < Second
    <3>1. CountdownText = <<51, 32, 32, 32>>
      BY <2>0, <2>3 DEF CountdownText
    <3>2. ShownNumber = 3
      BY <2>2, <3>1, NumberShown
    <3>3. \A region \in 0..2 : (3 - region) * Second > sinceStart
      BY <2>0, <2>3
    <3> QED BY <2>1, <3>2, <3>3
  <2>4. CASE Second < sinceStart /\ sinceStart < 2 * Second
    <3>1. CountdownText = <<32, 50, 32, 32>>
      BY <2>0, <2>4 DEF CountdownText
    <3>2. ShownNumber = 2
      BY <2>2, <3>1, NumberShown
    <3>3. \A region \in 0..2 : (3 - region) * Second > sinceStart <=> region \in 0..1
      BY <2>0, <2>4
    <3> QED BY <2>1, <3>2, <3>3
  <2>5. CASE 2 * Second < sinceStart
    <3>1. CountdownText = <<32, 32, 49, 32>>
      BY <2>0, <2>5 DEF CountdownText
    <3>2. ShownNumber = 1
      BY <2>2, <3>1, NumberShown
    <3>3. \A region \in 0..2 : (3 - region) * Second > sinceStart <=> region \in 0..0
      BY <2>0, <2>5
    <3> QED BY <2>1, <3>2, <3>3
  <2> QED BY <2>0, <2>3, <2>4, <2>5
<1> QED BY <1>1, TypeCorrect, PTL
=============================================================================
