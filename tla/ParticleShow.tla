---------------------------- MODULE ParticleShow ----------------------------
(***************************************************************************)
(* The particles of PreCountdownAnimation::GetColors.  main calls it when  *)
(* it gets round to it; the two catch-up loops start the particles that    *)
(* are due and move every particle on to the present, then each leaves its *)
(* trace in _lastColorTime.  Times are counted in small units; x0.7 and    *)
(* x0.3 are rounded down to one.                                           *)
(***************************************************************************)
EXTENDS Integers, Sequences

CONSTANTS
  NumVertical, NumHorizontal,
  FirstSpeed,      \* _speed's first value, 0.7 s
  SlowEnough,      \* 0.1 s: _speed is not shortened any further
  particleSpeed,   \* 0.02 s: no particle is faster than that
  LastCall,        \* bound: the latest call of GetColors
  Delays           \* bound: the times that may pass between two calls

ASSUME ShowAssumption ==
  /\ NumVertical \in Nat \ {0} /\ NumHorizontal \in Nat \ {0}
  /\ FirstSpeed \in Nat \ {0} /\ particleSpeed \in Nat \ {0}
  /\ SlowEnough \in Nat \ {0} /\ FirstSpeed > SlowEnough
  /\ LastCall \in Nat /\ Delays \subseteq Nat \ {0}

VARIABLES
  pc,               \* "idle", or the loop GetColors is in
  curTime,          \* the time of this call
  lastSegmentTime,  \* _lastSegmentTime: when the next particle is due
  speed,            \* _speed
  particles,        \* _particles; born, top and gap remember how one began
  k,                \* the particle the second loop is at
  lastColorTime     \* _lastColorTime

vars == <<pc, curTime, lastSegmentTime, speed, particles, k, lastColorTime>>

N == NumVertical * NumHorizontal
Unlit == -100
Tops == -(NumVertical \div 4) .. (NumVertical \div 2) - 1

Particle == [x : 0 .. NumHorizontal - 1, y : Int, startTime : Nat, age : Nat,
             speed : Nat \ {0}, born : Nat, top : Tops, gap : Nat \ {0}]

TypeOK ==
  /\ pc \in {"idle", "spawn", "move"}
  /\ curTime \in 0 .. LastCall
  /\ lastSegmentTime \in Nat /\ speed \in Nat \ {0}
  /\ particles \in Seq(Particle)
  /\ k \in 1 .. Len(particles) + 1
  /\ lastColorTime \in [0 .. N - 1 -> Int]

Init ==
  /\ pc = "idle" /\ curTime = 0
  /\ lastSegmentTime = 0 /\ speed = FirstSpeed
  /\ particles = <<>> /\ k = 1
  /\ lastColorTime = [n \in 0 .. N - 1 |-> Unlit]

\* GetColors is called.
Call ==
  /\ pc = "idle"
  /\ \E d \in Delays : curTime + d <= LastCall /\ curTime' = curTime + d
  /\ pc' = "spawn"
  /\ UNCHANGED <<lastSegmentTime, speed, particles, k, lastColorTime>>

\* Mutant: the next particle is due from now on.
DueFromNow == curTime + speed

\* The interval until the next particle sets the speed of this one.
ParticleSpeed == IF speed \div 10 > particleSpeed THEN speed \div 10 ELSE particleSpeed

NewParticle(x, y) ==
  [x |-> x, y |-> y, startTime |-> lastSegmentTime, age |-> 0, speed |-> ParticleSpeed,
   born |-> lastSegmentTime, top |-> y, gap |-> speed]
Due == lastSegmentTime + speed

\* while (curTime > _lastSegmentTime)
Spawn ==
  /\ pc = "spawn" /\ curTime > lastSegmentTime
  /\ \E x \in 0 .. NumHorizontal - 1, y \in Tops :
       particles' = Append(particles, NewParticle(x, y))
  /\ lastSegmentTime' = Due
  /\ speed' = IF speed > SlowEnough THEN (7 * speed) \div 10 ELSE speed
  /\ UNCHANGED <<pc, curTime, k, lastColorTime>>

Spawned ==
  /\ pc = "spawn" /\ curTime <= lastSegmentTime
  /\ pc' = "move" /\ k' = 1
  /\ UNCHANGED <<curTime, lastSegmentTime, speed, particles, lastColorTime>>

\* Mutant: the catch-up loop does not advance the particle's startTime.
MoveInPlace ==
  LET p == particles[k] IN
  /\ pc = "move" /\ k <= Len(particles)
  /\ curTime > p.startTime + p.speed
  /\ particles' = [particles EXCEPT ![k] = [p EXCEPT !.y = @ + 1, !.age = @ + p.speed]]
  /\ UNCHANGED <<pc, curTime, lastSegmentTime, speed, k, lastColorTime>>

\* while (curTime > particle.startTime + particle.speed)
Move ==
  LET p == particles[k] IN
  /\ pc = "move" /\ k <= Len(particles)
  /\ curTime > p.startTime + p.speed
  /\ particles' = [particles EXCEPT ![k] =
       [p EXCEPT !.y = @ + 1, !.startTime = @ + p.speed, !.age = @ + p.speed]]
  /\ UNCHANGED <<pc, curTime, lastSegmentTime, speed, k, lastColorTime>>

\* Mutant: a particle above the strip leaves a trace too (">= 0" forgotten).
OnStripOrAbove(p) == p.y < NumVertical

OnStrip(p) == p.y < NumVertical /\ p.y >= 0
LedOf(p) == p.y + p.x * NumVertical

\* The particle has caught up; it leaves its trace where it is.
Trace ==
  LET p == particles[k] IN
  /\ pc = "move" /\ k <= Len(particles)
  /\ curTime <= p.startTime + p.speed
  /\ lastColorTime' =
       IF OnStrip(p)
       THEN [lastColorTime EXCEPT ![LedOf(p)] = curTime - (3 * p.age) \div 10]
       ELSE lastColorTime
  /\ k' = k + 1
  /\ UNCHANGED <<pc, curTime, lastSegmentTime, speed, particles>>

Return ==
  /\ pc = "move" /\ k > Len(particles)
  /\ pc' = "idle"
  /\ UNCHANGED <<curTime, lastSegmentTime, speed, particles, k, lastColorTime>>

Next == Call \/ Spawn \/ Spawned \/ Move \/ Trace \/ Return

Spec == Init /\ [][Next]_vars

-----------------------------------------------------------------------------
(* Properties.                                                              *)

\* How many steps of length d lie strictly between two times.
StepsBetween(from, to, d) == IF to > from THEN (to - from - 1) \div d ELSE 0

\* What is shown depends on the time alone and not on how often or how late main
\* called: between two calls every particle is where it would be had it been
\* moved all along, it began when the one before it allowed, and none is overdue.
FrameRateDoesNotMatter ==
  pc = "idle" =>
    /\ lastSegmentTime >= curTime
    /\ \A n \in 1 .. Len(particles) :
         LET p == particles[n] IN
         /\ p.y = p.top + StepsBetween(p.born, curTime, p.speed)
         /\ p.age = p.speed * (p.y - p.top)
         /\ p.born < curTime
         /\ p.born = IF n = 1 THEN 0 ELSE particles[n - 1].born + particles[n - 1].gap

\* An LED that was ever lit was passed by a particle of its own column, though
\* particles start above the strip and fall past its end into the indices of the
\* next column; and no trace is younger than the present.
TrailBehindParticle ==
  \A led \in 0 .. N - 1 :
    lastColorTime[led] # Unlit =>
      /\ lastColorTime[led] <= curTime
      /\ \E n \in 1 .. Len(particles) :
           particles[n].x = led \div NumVertical /\ particles[n].y >= led % NumVertical

\* The shortest that _speed becomes: it is shortened for the last time when it is
\* just above 0.1 s.
MinGap == (7 * (SlowEnough + 1)) \div 10

\* A call ends, and soon: each turn of the catch-up loops adds a particle or moves
\* one, and at any moment of a call, however late, there are no more particles than
\* shortest intervals have passed, and none has moved more often than it had time to.
WorkBounded ==
  /\ particles # <<>> => MinGap * (Len(particles) - 1) < curTime
  /\ \A n \in 1 .. Len(particles) :
       LET p == particles[n] IN particleSpeed * (p.y - p.top) < curTime - p.born
=============================================================================
