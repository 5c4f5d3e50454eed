---------------------------- MODULE MatchHistory ----------------------------
(***************************************************************************)
(* ArenaStates with history variables: what a stopwatch beside the arena   *)
(* would have measured.  They only observe; every step is a step of        *)
(* ArenaStates.                                                            *)
(***************************************************************************)
EXTENDS ArenaStates

CONSTANT MaxStarts     \* bound: starts saturates here

ASSUME MaxStartsAssumption == MaxStarts \in Nat \ {0}

VARIABLES
  fought,      \* time spent in Fighting in this match
  starts,      \* how often Fighting was entered in this match
  sinceReady,  \* time since a team's first press was last latched
  seen         \* the seconds on the clock when the fight was paused, or 0

hvars == <<vars, fought, starts, sinceReady, seen>>

\* Every history clock saturates beyond what a property tells apart.
FoughtBound == FightTime + 2 * MaxStarts * FloatError + 1
ReadyBound  == TotalAnimFromLastButton + AnimEnd + CountdownLength + 3

Count(n, bound) == IF n < bound THEN n + 1 ELSE n

HTypeOK ==
  /\ TypeOK
  /\ fought \in 0 .. FoughtBound
  /\ starts \in 0 .. MaxStarts
  /\ sinceReady \in 0 .. ReadyBound
  /\ seen \in Int

HInit == Init /\ fought = 0 /\ starts = 0 /\ sinceReady = 0 /\ seen = 0

NewMatch == state = "PreStaging" /\ state' = "Staging"
FightStarts == state # "Fighting" /\ state' = "Fighting"
FightPauses == state = "Fighting" /\ state' = "Paused"
TeamReady == \/ sinceRed = Never /\ sinceRed' # Never
             \/ sinceBlue = Never /\ sinceBlue' # Never

HTick(w) ==
  /\ Tick(w)
  /\ fought' = IF NewMatch THEN 0 ELSE fought
  /\ starts' = IF NewMatch THEN 0
               ELSE IF FightStarts THEN Count(starts, MaxStarts) ELSE starts
  /\ sinceReady' = IF TeamReady THEN 0 ELSE sinceReady
  /\ seen' = IF NewMatch \/ FightStarts THEN 0
             ELSE IF FightPauses THEN CeilSeconds(untilEnd) ELSE seen

HElapse ==
  /\ Elapse
  /\ fought' = IF state = "Fighting" THEN Count(fought, FoughtBound) ELSE fought
  /\ sinceReady' = Count(sinceReady, ReadyBound)
  /\ UNCHANGED <<starts, seen>>

HNext == HElapse \/ \E w \in WorldState : HTick(w)

HSpec == HInit /\ [][HNext]_hvars

-----------------------------------------------------------------------------
(* Properties.                                                              *)

\* A match is on from the moment it has fight time to the moment it ends.
MatchOn == state \in {"Staging", "PreCountdown", "Countdown", "Fighting", "Paused"}

\* The fight time the code still grants.
Left == IF state = "Fighting" THEN untilEnd ELSE timeRemaining

\* How often the time left was rounded to a float: at every start and every pause.
Roundings == IF state = "Fighting" THEN 2 * starts - 1 ELSE 2 * starts

\* Pausing buys no fight time: however often the referee pauses, the time fought
\* and the time left exceed the match's fight time by no more than the roundings
\* to a float, though the cast to milliseconds might have rounded up
\* (Fighting's _end, recomputed from world.timeRemaining after every pause).
NoTimeGained ==
  MatchOn /\ Left > 0 /\ starts < MaxStarts =>
    fought + Left <= FightTime + Roundings * FloatError

\* Nor does it rob the teams of more than these roundings and the cast to whole
\* milliseconds that every construction of Fighting makes.
NoTimeLost ==
  MatchOn /\ Left > 0 /\ starts < MaxStarts =>
    fought + Left >= FightTime - starts * (Milli - 1) - Roundings * FloatError

\* A fight goes on from the clock it was paused at: after a pause the displays
\* never have more seconds than before it, though a float may round up to the next
\* one, and at most one less (Fighting::Tick saves what its GetSegmentLed showed,
\* the next Fighting is constructed from it).
ClockResumes ==
  [][FightStarts /\ seen > 0 => CeilSeconds(untilEnd') \in {seen - 1, seen}]_hvars

\* A fight begins no sooner than the staging, the show and the countdown after
\* the last team got ready, whatever the order and the length of the presses
\* and however late the ticks.
NoEarlyStart ==
  [][FightStarts /\ starts = 0 =>
       sinceReady > TotalAnimFromLastButton + AnimEnd + CountdownLength]_hvars

\* Every match is staged with a full clock, also after one that was abandoned
\* while paused (world.timeRemaining keeps the old match's value until then).
FreshMatch ==
  state \in {"Staging", "PreCountdown"} =>
    timeRemaining = FightTime /\ fought = 0 /\ starts = 0

\* Why no fight begins early, state by state: the staging, the show and the
\* countdown each start no sooner than the one before allows, and only a match
\* that was already started can come to Countdown by a resume.
ReadyInv ==
  /\ BothReady => \/ sinceReady >= sinceRed
                  \/ sinceReady >= sinceBlue
                  \/ sinceReady = ReadyBound
  /\ state = "PreCountdown" =>
       \/ sinceReady >= TotalAnimFromLastButton + 1 + sinceStart
       \/ sinceReady = ReadyBound
  /\ state = "Countdown" /\ starts = 0 =>
       \/ sinceReady >= TotalAnimFromLastButton + AnimEnd + 2 + sinceStart
       \/ sinceReady = ReadyBound
  /\ state \in {"Fighting", "Paused"} => starts > 0

\* Why a fight goes on from its clock: while it is paused, the saved time is that
\* of the seconds seen, but for the rounding to a float.
SeenInv ==
  /\ state \in {"Staging", "PreCountdown"} => seen = 0
  /\ state \in {"Paused", "Countdown"} /\ seen > 0 =>
       /\ timeRemaining > 0
       /\ timeRemaining > (seen - 1) * Second - FloatError
       /\ timeRemaining <= seen * Second + FloatError
=============================================================================
