--------------------------- MODULE ParticleProofs ---------------------------
(***************************************************************************)
(* Theorems about ParticleShow, for strips of any number and length, any   *)
(* intervals and speeds, and calls at any times.                           *)
(***************************************************************************)
EXTENDS ParticleShow, TLAPS

\* A particle has moved once for every speed that has passed since it began, and
\* never beyond the present.
InStride(p) ==
  /\ p.y - p.top \in Nat
  /\ p.age = p.speed * (p.y - p.top)
  /\ p.startTime = p.born + p.age
  /\ p.startTime < curTime

\* It is as close to the present as whole steps can bring it.
CaughtUp(p) == curTime <= p.startTime + p.speed

\* Every particle began a gap after the one before it, and so will the next.
Began(n) == IF n = 1 THEN 0 ELSE particles[n - 1].born + particles[n - 1].gap
ChainInv ==
  /\ \A n \in 1 .. Len(particles) : particles[n].born = Began(n)
  /\ lastSegmentTime = Began(Len(particles) + 1)

MotionInv ==
  /\ \A n \in 1 .. Len(particles) : InStride(particles[n])
  /\ pc \in {"idle", "move"} => lastSegmentTime >= curTime
  /\ pc = "move" => \A n \in 1 .. k - 1 : CaughtUp(particles[n])
  /\ pc = "idle" => \A n \in 1 .. Len(particles) : CaughtUp(particles[n])

ShowInv == TypeOK /\ ChainInv /\ MotionInv

\* The quotient is the number of times that the divisor fits.
LEMMA Quotient ==
  ASSUME NEW a \in Int, NEW d \in Nat \ {0}, NEW m \in Int, d * m <= a, a < d * m + d
  PROVE  a \div d = m /\ a % d = a - d * m
<1> DEFINE q == a \div d
<1>1. q \in Int /\ d * q <= a /\ a < d * q + d /\ a % d = a - d * q
  OBVIOUS
<1> HIDE DEF q
<1>2. CASE q < m
  <2>1. m - q - 1 \in Nat /\ m = q + 1 + (m - q - 1)
    BY <1>1, <1>2
  <2>2. d * m = d * q + d + d * (m - q - 1) /\ d * (m - q - 1) >= 0
    BY <1>1, <2>1
  <2> QED BY <1>1, <2>2
<1>3. CASE q > m
  <2>1. q - m - 1 \in Nat /\ q = m + 1 + (q - m - 1)
    BY <1>1, <1>3
  <2>2. d * q = d * m + d + d * (q - m - 1) /\ d * (q - m - 1) >= 0
    BY <1>1, <2>1
  <2> QED BY <1>1, <2>2
<1>4. q = m
  BY <1>1, <1>2, <1>3
<1> QED BY <1>1, <1>4 DEF q

\* Between its last step and its next one, counted from its beginning.
LEMMA Window ==
  ASSUME NEW now \in Nat, NEW born \in Nat, NEW age \in Nat, NEW start \in Nat,
         NEW d \in Nat \ {0}, start = born + age, start < now, now <= start + d
  PROVE  born < now /\ age <= now - born - 1 /\ now - born - 1 < age + d
OBVIOUS

\* What a particle is made of.
LEMMA ParticleFields ==
  ASSUME NEW p \in Particle
  PROVE  /\ p.x \in 0 .. NumHorizontal - 1 /\ p.y \in Int /\ p.top \in Int
         /\ p.startTime \in Nat /\ p.age \in Nat /\ p.born \in Nat /\ p.speed \in Nat \ {0}
BY ShowAssumption DEF Particle, Tops

\* An appended element is the last; those before it stay.
LEMMA Appended ==
  ASSUME NEW S, NEW s \in Seq(S), NEW e \in S
  PROVE  /\ Append(s, e) \in Seq(S) /\ Len(Append(s, e)) = Len(s) + 1
         /\ Append(s, e)[Len(s) + 1] = e
         /\ \A n \in 1 .. Len(s) : Append(s, e)[n] = s[n]
OBVIOUS

\* Changing one element leaves the others and the length.
LEMMA Changed ==
  ASSUME NEW S, NEW s \in Seq(S), NEW i \in 1 .. Len(s), NEW e \in S
  PROVE  /\ [s EXCEPT ![i] = e] \in Seq(S) /\ Len([s EXCEPT ![i] = e]) = Len(s)
         /\ [s EXCEPT ![i] = e][i] = e
         /\ \A n \in 1 .. Len(s) : n # i => [s EXCEPT ![i] = e][n] = s[n]
OBVIOUS

\* The particle of Spawn is one, and it begins in stride.
LEMMA SpawnedParticle ==
  ASSUME TypeOK, NEW x \in 0 .. NumHorizontal - 1, NEW y \in Tops, curTime > lastSegmentTime
  PROVE  /\ NewParticle(x, y) \in Particle /\ InStride(NewParticle(x, y))
         /\ NewParticle(x, y).born = lastSegmentTime /\ NewParticle(x, y).gap = speed
<1> DEFINE p == NewParticle(x, y)
<1>1. ParticleSpeed \in Nat \ {0}
  BY ShowAssumption DEF TypeOK, ParticleSpeed
<1>2. y \in Int /\ lastSegmentTime \in Nat /\ speed \in Nat \ {0} /\ curTime \in Int
  BY ShowAssumption DEF Tops, TypeOK
<1> HIDE DEF ParticleSpeed
<1>3. p \in Particle
  BY <1>1, <1>2 DEF Particle, NewParticle
<1>4. /\ p.y = y /\ p.top = y /\ p.age = 0 /\ p.speed = ParticleSpeed
      /\ p.startTime = lastSegmentTime /\ p.born = lastSegmentTime /\ p.gap = speed
  BY DEF NewParticle
<1> HIDE DEF p
<1>5. p.y - p.top = 0 /\ p.speed * (p.y - p.top) = 0
  BY <1>1, <1>2, <1>4
<1>6. InStride(p)
  BY <1>2, <1>4, <1>5 DEF InStride
<1> QED BY <1>3, <1>4, <1>6 DEF p

\* A particle that Move takes a step further.
Moved(p) == [p EXCEPT !.y = @ + 1, !.startTime = @ + p.speed, !.age = @ + p.speed]

\* It stays in stride, and keeps its beginning.
LEMMA MovedParticle ==
  ASSUME NEW p \in Particle, curTime \in Int
  PROVE  /\ Moved(p) \in Particle
         /\ InStride(p) /\ curTime > p.startTime + p.speed => InStride(Moved(p))
         /\ Moved(p).born = p.born /\ Moved(p).gap = p.gap
         /\ Moved(p).x = p.x /\ Moved(p).y = p.y + 1
<1> DEFINE q == Moved(p)
<1>1. /\ p.y \in Int /\ p.startTime \in Nat /\ p.age \in Nat /\ p.speed \in Nat \ {0}
      /\ p.top \in Int /\ p.born \in Nat
  BY ShowAssumption DEF Particle, Tops
<1>2. /\ q.y = p.y + 1 /\ q.startTime = p.startTime + p.speed /\ q.age = p.age + p.speed
      /\ q.x = p.x /\ q.speed = p.speed /\ q.born = p.born /\ q.top = p.top /\ q.gap = p.gap
  BY DEF Moved, Particle
<1>3. q \in Particle
  <2> DEFINE p1 == [p EXCEPT !.y = @ + 1]
             p2 == [p1 EXCEPT !.startTime = @ + p.speed]
             p3 == [p2 EXCEPT !.age = @ + p.speed]
  <2>1. p1 \in Particle
    BY <1>1 DEF Particle
  <2> HIDE DEF p1
  <2>2. p2 \in Particle
    BY <1>1, <2>1 DEF Particle
  <2> HIDE DEF p2
  <2>3. p3 \in Particle
    BY <1>1, <2>2 DEF Particle
  <2>4. q = p3
    BY DEF Moved, p1, p2, Particle
  <2> QED BY <2>3, <2>4
<1> HIDE DEF q
<1>4. ASSUME InStride(p), curTime > p.startTime + p.speed PROVE InStride(q)
  <2>1. q.y - q.top = (p.y - p.top) + 1
    BY <1>1, <1>2
  <2>2. p.speed * ((p.y - p.top) + 1) = p.speed * (p.y - p.top) + p.speed
    BY <1>1
  <2> QED BY <1>1, <1>2, <1>4, <2>1, <2>2 DEF InStride
<1> QED BY <1>2, <1>3, <1>4 DEF q

\* A particle due is added to the chain.
LEMMA SpawnStep == ShowInv /\ Spawn => ShowInv'
<1> SUFFICES ASSUME ShowInv, Spawn PROVE ShowInv'
  OBVIOUS
<1>1. PICK x \in 0 .. NumHorizontal - 1, y \in Tops :
        particles' = Append(particles, NewParticle(x, y))
  BY DEF Spawn
<1>l. PICK l : l = Len(particles)
  OBVIOUS
<1> DEFINE p == NewParticle(x, y)
<1>2. /\ pc = "spawn" /\ curTime > lastSegmentTime /\ UNCHANGED <<pc, curTime, k, lastColorTime>>
      /\ lastSegmentTime' = lastSegmentTime + speed
      /\ speed' = IF speed > SlowEnough THEN (7 * speed) \div 10 ELSE speed
  BY DEF Spawn, Due
<1>3. /\ particles \in Seq(Particle) /\ l \in Nat /\ curTime \in Int /\ k \in 1 .. l + 1
      /\ lastSegmentTime \in Nat /\ speed \in Nat \ {0}
  BY <1>l, ShowAssumption DEF ShowInv, TypeOK
<1>4. p \in Particle /\ InStride(p) /\ p.born = lastSegmentTime /\ p.gap = speed
  BY <1>2, SpawnedParticle DEF ShowInv
<1> HIDE DEF p
<1>5. /\ particles' \in Seq(Particle) /\ Len(particles') = l + 1 /\ particles'[l + 1] = p
      /\ \A n \in 1 .. l : particles'[n] = particles[n]
  BY <1>1, <1>l, <1>3, <1>4, Appended DEF p
<1>6. TypeOK'
  <2>1. speed' \in Nat \ {0}
    BY <1>2, <1>3, ShowAssumption
  <2> QED BY <1>2, <1>3, <1>5, <2>1 DEF ShowInv, TypeOK
<1>7. ChainInv'
  <2>1. \A n \in 1 .. l + 1 : Began(n)' = Began(n)
    BY <1>3, <1>5 DEF Began
  <2>2. Began(l + 2)' = lastSegmentTime'
    <3>1. l + 2 # 1 /\ (l + 2) - 1 = l + 1
      BY <1>3
    <3> QED BY <1>2, <1>4, <1>5, <3>1 DEF Began
  <2>3. \A n \in 1 .. l + 1 : n = l + 1 \/ n \in 1 .. l
    BY <1>3
  <2>4. (\A n \in 1 .. l : particles[n].born = Began(n)) /\ lastSegmentTime = Began(l + 1)
    BY <1>l DEF ShowInv, ChainInv
  <2>5. \A n \in 1 .. l + 1 : particles'[n].born = Began(n)'
    BY <1>4, <1>5, <2>1, <2>3, <2>4
  <2>6. (l + 1) + 1 = l + 2
    BY <1>3
  <2> HIDE DEF Began
  <2> QED BY <1>5, <2>2, <2>5, <2>6 DEF ChainInv
<1>8. MotionInv'
  <2>1. \A n \in 1 .. l : InStride(particles[n])
    BY <1>l DEF ShowInv, MotionInv
  <2>2. \A n \in 1 .. l + 1 : n = l + 1 \/ n \in 1 .. l
    BY <1>3
  <2>3. \A n \in 1 .. l + 1 : InStride(particles[n])'
    BY <1>2, <1>4, <1>5, <2>1, <2>2 DEF InStride
  <2> QED BY <1>2, <1>5, <2>3 DEF MotionInv
<1> QED BY <1>6, <1>7, <1>8 DEF ShowInv

\* A particle that is moved stays in its place in the chain.
LEMMA MoveStep == ShowInv /\ Move => ShowInv'
<1> SUFFICES ASSUME ShowInv, Move PROVE ShowInv'
  OBVIOUS
<1> DEFINE p == particles[k]
           l == Len(particles)
<1>1. /\ pc = "move" /\ k <= l /\ curTime > p.startTime + p.speed
      /\ particles' = [particles EXCEPT ![k] = Moved(p)]
      /\ UNCHANGED <<pc, curTime, lastSegmentTime, speed, k, lastColorTime>>
  BY DEF Move, Moved
<1>2. /\ particles \in Seq(Particle) /\ l \in Nat /\ curTime \in Int /\ k \in 1 .. l
      /\ p \in Particle
  BY <1>1, ShowAssumption DEF ShowInv, TypeOK
<1>3. InStride(p) /\ \A n \in 1 .. l : InStride(particles[n])
  BY <1>2 DEF ShowInv, MotionInv
<1>4. /\ Moved(p) \in Particle /\ InStride(Moved(p))
      /\ Moved(p).born = p.born /\ Moved(p).gap = p.gap
  BY <1>1, <1>2, <1>3, MovedParticle
<1> HIDE DEF p, l
<1>5. /\ particles' \in Seq(Particle) /\ Len(particles') = l /\ particles'[k] = Moved(p)
      /\ \A n \in 1 .. l : n # k => particles'[n] = particles[n]
  BY <1>1, <1>2, <1>4, Changed DEF l
<1>6. TypeOK'
  BY <1>1, <1>5 DEF ShowInv, TypeOK, l
<1>7. \A n \in 1 .. l : /\ particles'[n].born = particles[n].born
                         /\ particles'[n].gap = particles[n].gap
  BY <1>4, <1>5 DEF p
<1>8. ChainInv'
  <2>1. \A n \in 1 .. l + 1 : n = 1 \/ n - 1 \in 1 .. l
    BY <1>2
  <2>2. \A n \in 1 .. l + 1 : Began(n)' = Began(n)
    BY <1>7, <2>1 DEF Began
  <2>3. (\A n \in 1 .. l : particles[n].born = Began(n)) /\ lastSegmentTime = Began(l + 1)
    BY DEF ShowInv, ChainInv, l
  <2>4. l + 1 \in 1 .. l + 1 /\ \A n \in 1 .. l : n \in 1 .. l + 1
    BY <1>2
  <2> HIDE DEF Began
  <2> QED BY <1>1, <1>5, <1>7, <2>2, <2>3, <2>4 DEF ChainInv
<1>9. MotionInv'
  <2>1. \A n \in 1 .. l : InStride(particles[n])'
    BY <1>1, <1>3, <1>4, <1>5 DEF InStride
  <2>2. \A n \in 1 .. k - 1 : n \in 1 .. l /\ n # k
    BY <1>2
  <2>3. \A n \in 1 .. k - 1 : CaughtUp(particles[n])'
    BY <1>1, <1>5, <2>2 DEF ShowInv, MotionInv, CaughtUp
  <2> QED BY <1>1, <1>5, <2>1, <2>3 DEF ShowInv, MotionInv
<1> QED BY <1>6, <1>8, <1>9 DEF ShowInv

\* The other steps: a later call finds everything where the one before left it.
LEMMA ShowStep == ShowInv /\ [Next]_vars => ShowInv'
<1> SUFFICES ASSUME ShowInv, [Next]_vars PROVE ShowInv'
  OBVIOUS
<1>t. /\ particles \in Seq(Particle) /\ Len(particles) \in Nat /\ curTime \in Nat
      /\ lastSegmentTime \in Nat /\ k \in 1 .. Len(particles) + 1
      /\ \A n \in 1 .. Len(particles) : particles[n] \in Particle
  BY ShowAssumption DEF ShowInv, TypeOK
<1>p. \A p \in Particle : p.startTime \in Nat /\ p.age \in Nat /\ p.speed \in Nat
  BY DEF Particle
<1>c. UNCHANGED <<particles, lastSegmentTime>> => ChainInv'
  BY DEF ShowInv, ChainInv, Began
<1>1. CASE Call
  <2>1. /\ UNCHANGED <<lastSegmentTime, speed, particles, k, lastColorTime>>
        /\ pc' = "spawn" /\ curTime' \in 0 .. LastCall /\ curTime <= curTime'
    BY <1>1, <1>t, ShowAssumption DEF Call
  <2>2. \A n \in 1 .. Len(particles) : InStride(particles[n])'
    BY <1>t, <1>p, <2>1 DEF ShowInv, MotionInv, InStride
  <2>3. MotionInv'
    BY <2>1, <2>2 DEF MotionInv
  <2> QED BY <1>c, <2>1, <2>3 DEF ShowInv, TypeOK
<1>2. CASE Spawned
  <2>1. MotionInv'
    BY <1>2, <1>t DEF Spawned, ShowInv, MotionInv, InStride
  <2> QED BY <1>2, <1>c, <1>t, <2>1 DEF Spawned, ShowInv, TypeOK
<1>3. CASE Trace
  <2>1. /\ UNCHANGED <<pc, curTime, lastSegmentTime, speed, particles>>
        /\ k' = k + 1 /\ k \in 1 .. Len(particles) /\ pc = "move"
        /\ CaughtUp(particles[k]) /\ particles[k] \in Particle
    BY <1>3, <1>t DEF Trace, CaughtUp
  <2>2. \A n \in 1 .. k' - 1 : n = k \/ n \in 1 .. k - 1
    BY <2>1
  <2>3. MotionInv'
    BY <2>1, <2>2 DEF ShowInv, MotionInv, InStride, CaughtUp
  <2>4. lastColorTime' \in [0 .. N - 1 -> Int]
    <3>1. curTime - (3 * particles[k].age) \div 10 \in Int
      BY <1>t, <1>p, <2>1
    <3> QED BY <1>3, <3>1 DEF Trace, ShowInv, TypeOK
  <2>5. TypeOK'
    BY <1>t, <2>1, <2>4 DEF ShowInv, TypeOK
  <2> QED BY <1>c, <2>1, <2>3, <2>5 DEF ShowInv
<1>4. CASE Return
  <2>1. /\ UNCHANGED <<curTime, lastSegmentTime, speed, particles, k, lastColorTime>>
        /\ pc' = "idle" /\ k > Len(particles) /\ pc = "move"
    BY <1>4 DEF Return
  <2>2. \A n \in 1 .. Len(particles) : n \in 1 .. k - 1
    BY <1>t, <2>1
  <2>3. MotionInv'
    BY <2>1, <2>2 DEF ShowInv, MotionInv, InStride, CaughtUp
  <2> QED BY <1>c, <2>1, <2>3 DEF ShowInv, TypeOK
<1>5. CASE UNCHANGED vars
  BY <1>5, <1>c DEF vars, ShowInv, TypeOK, MotionInv, InStride, CaughtUp
<1> QED BY <1>1, <1>2, <1>3, <1>4, <1>5, SpawnStep, MoveStep DEF Next

\* The invariant holds throughout.
LEMMA ShowInvariant == Spec => []ShowInv
<1>1. Init => ShowInv
  <2> SUFFICES ASSUME Init PROVE ShowInv
    OBVIOUS
  <2>1. particles \in Seq(Particle) /\ Len(particles) = 0
    BY DEF Init
  <2>2. lastColorTime \in [0 .. N - 1 -> Int]
    BY DEF Init, Unlit
  <2>3. TypeOK
    BY <2>1, <2>2, ShowAssumption DEF Init, TypeOK
  <2> QED BY <2>1, <2>3 DEF Init, ShowInv, ChainInv, MotionInv, Began
<1> QED BY <1>1, ShowStep, PTL DEF Spec

\* The two catch-up loops of GetColors make up for every call that came late or not
\* at all: at any frame rate the particles are where the time alone puts them.
THEOREM ShowKeepsTime == Spec => []FrameRateDoesNotMatter
<1>1. ShowInv => FrameRateDoesNotMatter
  <2> SUFFICES ASSUME ShowInv, pc = "idle" PROVE FrameRateDoesNotMatter
    BY DEF FrameRateDoesNotMatter
  <2>1. lastSegmentTime >= curTime /\ curTime \in Nat
    BY ShowAssumption DEF ShowInv, MotionInv, TypeOK
  <2>2. ASSUME NEW n \in 1 .. Len(particles)
        PROVE  LET p == particles[n] IN
               /\ p.y = p.top + StepsBetween(p.born, curTime, p.speed)
               /\ p.age = p.speed * (p.y - p.top)
               /\ p.born < curTime
               /\ p.born = IF n = 1 THEN 0 ELSE particles[n - 1].born + particles[n - 1].gap
    <3> DEFINE p == particles[n]
               m == p.y - p.top
    <3>1. p \in Particle
      BY DEF ShowInv, TypeOK
    <3>2. /\ p.speed \in Nat \ {0} /\ p.born \in Nat /\ p.startTime \in Nat /\ p.age \in Nat
          /\ p.y \in Int /\ p.top \in Int
      BY <3>1, ParticleFields
    <3>3. InStride(p) /\ CaughtUp(p) /\ p.born = Began(n)
      BY DEF ShowInv, MotionInv, ChainInv
    <3> HIDE DEF p
    <3>4. /\ m \in Nat /\ p.age = p.speed * m /\ p.born < curTime
          /\ p.age <= curTime - p.born - 1 /\ curTime - p.born - 1 < p.age + p.speed
      <4>1. /\ m \in Nat /\ p.age = p.speed * m /\ p.startTime = p.born + p.age
            /\ p.startTime < curTime /\ curTime <= p.startTime + p.speed
        BY <3>3 DEF InStride, CaughtUp
      <4>2. /\ p.born < curTime /\ p.age <= curTime - p.born - 1
            /\ curTime - p.born - 1 < p.age + p.speed
        BY <2>1, <3>2, <4>1, Window
      <4> QED BY <4>1, <4>2
    <3>5. p.y = p.top + m
      BY <3>2
    <3> HIDE DEF m
    <3>6. (curTime - p.born - 1) \div p.speed = m
      <4> DEFINE a == curTime - p.born - 1
      <4>1. a \in Int
        BY <2>1, <3>2
      <4>2. p.speed * m <= a /\ a < p.speed * m + p.speed
        BY <3>4
      <4> HIDE DEF a
      <4>3. a \div p.speed = m
        <5>1. m \in Int
          BY <3>4
        <5> QED BY <3>2, <4>1, <4>2, <5>1, Quotient
      <4> QED BY <4>3 DEF a
    <3>7. StepsBetween(p.born, curTime, p.speed) = m
      BY <2>1, <3>2, <3>4, <3>6 DEF StepsBetween
    <3> QED BY <3>3, <3>4, <3>5, <3>7 DEF p, m, Began
  <2> QED BY <2>1, <2>2 DEF FrameRateDoesNotMatter
<1> QED BY <1>1, ShowInvariant, PTL

\* As many steps take no less time when each takes longer.
LEMMA LargerProduct ==
  ASSUME NEW a \in Nat, NEW b \in Nat, NEW m \in Nat, a >= b
  PROVE  a * m >= b * m /\ b * m \in Int
<1>1. a - b \in Nat
  OBVIOUS
<1>2. (a - b) * m \in Nat /\ b * m \in Nat /\ a * m \in Nat
  BY <1>1
<1>3. a * m = b * m + (a - b) * m
  OBVIOUS
<1> QED BY <1>2, <1>3

\* The intervals never become shorter than the shortest, nor the particles faster
\* than the fastest, so time bounds the number of both.
PaceInv ==
  /\ speed >= MinGap
  /\ lastSegmentTime >= MinGap * Len(particles)
  /\ particles # <<>> => MinGap * (Len(particles) - 1) < curTime
  /\ \A n \in 1 .. Len(particles) : particles[n].speed >= particleSpeed

\* The pace is kept: a particle is only added when it is due, and moving one leaves
\* its speed.
LEMMA PaceStep == ShowInv /\ PaceInv /\ [Next]_vars => PaceInv'
<1> SUFFICES ASSUME ShowInv, PaceInv, [Next]_vars PROVE PaceInv'
  OBVIOUS
<1> DEFINE l == Len(particles)
<1>1. /\ particles \in Seq(Particle) /\ l \in Nat /\ lastSegmentTime \in Nat
      /\ speed \in Nat \ {0} /\ curTime \in Nat
      /\ particles = <<>> <=> l = 0
  BY ShowAssumption DEF ShowInv, TypeOK
<1>2. MinGap \in Nat
  BY ShowAssumption DEF MinGap
<1>3. CASE Spawn
  <2>1. PICK x \in 0 .. NumHorizontal - 1, y \in Tops :
          particles' = Append(particles, NewParticle(x, y))
    BY <1>3 DEF Spawn
  <2>2. NewParticle(x, y) \in Particle /\ NewParticle(x, y).speed >= particleSpeed
    <3>1. NewParticle(x, y).speed = ParticleSpeed
      BY DEF NewParticle
    <3>2. ParticleSpeed >= particleSpeed
      BY <1>1, ShowAssumption DEF ParticleSpeed
    <3> QED BY <1>3, <3>1, <3>2, SpawnedParticle DEF ShowInv, Spawn
  <2>3. /\ Len(particles') = l + 1 /\ particles'[l + 1] = NewParticle(x, y)
        /\ \A n \in 1 .. l : particles'[n] = particles[n]
    BY <1>1, <2>1, <2>2, Appended
  <2>4. \A n \in 1 .. l + 1 : particles'[n].speed >= particleSpeed
    <3>1. \A n \in 1 .. l + 1 : n = l + 1 \/ n \in 1 .. l
      BY <1>1
    <3> QED BY <2>2, <2>3, <3>1 DEF PaceInv
  <2>5. /\ speed' = IF speed > SlowEnough THEN (7 * speed) \div 10 ELSE speed
        /\ lastSegmentTime' = lastSegmentTime + speed
        /\ curTime' = curTime /\ curTime > lastSegmentTime
    BY <1>3 DEF Spawn, Due
  <2>6. speed' >= MinGap
    <3>1. speed > SlowEnough => (7 * speed) \div 10 >= (7 * (SlowEnough + 1)) \div 10
      BY <1>1, ShowAssumption
    <3> QED BY <2>5, <3>1 DEF PaceInv, MinGap
  <2> DEFINE due == MinGap * l
  <2>7. due \in Nat /\ MinGap * (l + 1) = due + MinGap /\ (l + 1) - 1 = l
    BY <1>1, <1>2
  <2>8. lastSegmentTime >= due /\ speed >= MinGap
    BY DEF PaceInv
  <2> HIDE DEF l
  <2>9. lastSegmentTime' >= MinGap * (l + 1) /\ MinGap * ((l + 1) - 1) < curTime'
    <3>1. due < curTime' /\ lastSegmentTime' >= due + MinGap
      <4> HIDE DEF due
      <4> QED BY <1>1, <1>2, <2>5, <2>7, <2>8
    <3> QED BY <2>7, <3>1
  <2> QED BY <2>3, <2>4, <2>6, <2>9 DEF PaceInv
<1>4. CASE Move
  <2>1. k \in 1 .. l /\ particles' = [particles EXCEPT ![k] = Moved(particles[k])]
        /\ UNCHANGED <<speed, lastSegmentTime, curTime>>
    BY <1>4 DEF Move, Moved, ShowInv, TypeOK
  <2>2. Moved(particles[k]) \in Particle /\ Moved(particles[k]).speed = particles[k].speed
    <3>1. particles[k] \in Particle
      BY <1>1, <2>1
    <3>2. Moved(particles[k]).speed = particles[k].speed
      BY <3>1 DEF Moved, Particle
    <3> QED BY <1>1, <3>1, <3>2, MovedParticle
  <2>3. /\ Len(particles') = l /\ particles'[k] = Moved(particles[k])
        /\ \A n \in 1 .. l : n # k => particles'[n] = particles[n]
    BY <1>1, <2>1, <2>2, Changed
  <2>4. \A n \in 1 .. l : particles'[n].speed = particles[n].speed
    BY <2>2, <2>3
  <2>5. particles # <<>>
    BY <1>1, <2>1
  <2> QED BY <2>1, <2>3, <2>4, <2>5 DEF PaceInv
<1>5. CASE Call
  <2>1. UNCHANGED <<speed, lastSegmentTime, particles>> /\ curTime' \in Nat /\ curTime <= curTime'
    BY <1>1, <1>5, ShowAssumption DEF Call
  <2>2. MinGap * (l - 1) \in Int
    BY <1>1, <1>2
  <2>3. particles # <<>> => MinGap * (l - 1) < curTime'
    <3> DEFINE due == MinGap * (l - 1)
    <3>1. particles # <<>> => due < curTime
      BY DEF PaceInv
    <3> HIDE DEF due
    <3>2. due \in Int
      BY <2>2 DEF due
    <3>3. particles # <<>> => due < curTime'
      BY <1>1, <2>1, <3>1, <3>2
    <3> QED BY <3>3 DEF due
  <2> QED BY <2>1, <2>3 DEF PaceInv
<1>6. CASE UNCHANGED <<speed, lastSegmentTime, particles, curTime>>
  BY <1>6 DEF PaceInv
<1> QED BY <1>3, <1>4, <1>5, <1>6 DEF Next, Spawned, Trace, Return, vars

\* At any moment of a call there are no more particles than the time allows and none
\* has moved more often than it had time to; as each turn of the two loops of
\* GetColors adds to one or the other, both loops end.
THEOREM CatchingUpIsBounded == Spec => []WorkBounded
<1>1. Init => PaceInv
  BY ShowAssumption DEF Init, PaceInv, MinGap
<1>2. ShowInv /\ PaceInv => WorkBounded
  <2> SUFFICES ASSUME ShowInv, PaceInv, NEW n \in 1 .. Len(particles)
               PROVE  particleSpeed * (particles[n].y - particles[n].top)
                        < curTime - particles[n].born
    BY DEF WorkBounded, PaceInv
  <2> DEFINE p == particles[n]
             m == p.y - p.top
  <2>1. p \in Particle
    BY DEF ShowInv, TypeOK
  <2>2. /\ p.speed \in Nat \ {0} /\ p.born \in Nat /\ p.startTime \in Nat /\ p.age \in Nat
        /\ curTime \in Nat /\ particleSpeed \in Nat
    BY <2>1, ParticleFields, ShowAssumption DEF ShowInv, TypeOK
  <2>3. /\ m \in Nat /\ p.age = p.speed * m /\ p.startTime = p.born + p.age
        /\ p.startTime < curTime /\ p.speed >= particleSpeed
    BY DEF ShowInv, PaceInv, MotionInv, InStride
  <2> HIDE DEF p, m
  <2>4. p.speed * m >= particleSpeed * m /\ particleSpeed * m \in Int
    BY <2>2, <2>3, LargerProduct
  <2>5. particleSpeed * m < curTime - p.born
    BY <2>2, <2>3, <2>4
  <2> QED BY <2>5 DEF p, m
<1> QED BY <1>1, <1>2, ShowInvariant, PaceStep, PTL DEF Spec

\* The index that a particle on its strip has belongs to its column.
LEMMA LedOnColumn ==
  ASSUME NEW p \in Particle, OnStrip(p)
  PROVE  /\ LedOf(p) \in 0 .. N - 1
         /\ LedOf(p) \div NumVertical = p.x /\ LedOf(p) % NumVertical = p.y
<1>1. /\ p.x \in 0 .. NumHorizontal - 1 /\ p.y \in 0 .. NumVertical - 1
      /\ NumVertical \in Nat \ {0} /\ NumHorizontal \in Nat \ {0}
  BY ShowAssumption DEF Particle, OnStrip
<1>2. LedOf(p) \in Int /\ LedOf(p) = NumVertical * p.x + p.y
  BY <1>1 DEF LedOf
<1>3. NumVertical * p.x <= LedOf(p) /\ LedOf(p) < NumVertical * p.x + NumVertical
  BY <1>1, <1>2
<1>4. LedOf(p) \div NumVertical = p.x /\ LedOf(p) % NumVertical = p.y
  <2>1. p.x \in Int
    BY <1>1
  <2> HIDE DEF LedOf
  <2>2. LedOf(p) \div NumVertical = p.x /\ LedOf(p) % NumVertical = LedOf(p) - NumVertical * p.x
    BY <1>1, <1>2, <1>3, <2>1, Quotient
  <2>3. LedOf(p) - NumVertical * p.x = p.y
    BY <1>1, <1>2
  <2> QED BY <2>2, <2>3
<1>5. NumVertical * p.x + NumVertical <= N /\ NumVertical * p.x >= 0 /\ N \in Int
  <2>1. N = NumVertical * p.x + NumVertical + NumVertical * (NumHorizontal - 1 - p.x)
    BY <1>1 DEF N
  <2>2. NumVertical * (NumHorizontal - 1 - p.x) >= 0 /\ NumVertical * p.x >= 0
    BY <1>1
  <2>3. NumVertical * (NumHorizontal - 1 - p.x) \in Int /\ NumVertical * p.x \in Int
    BY <1>1
  <2> QED BY <1>1, <2>1, <2>2, <2>3
<1>6. LedOf(p) \in 0 .. N - 1
  BY <1>1, <1>2, <1>3, <1>5
<1> QED BY <1>4, <1>6

\* Some particle of the LED's column has come as far as the LED.
Passed(led) ==
  \E n \in 1 .. Len(particles) :
    particles[n].x = led \div NumVertical /\ particles[n].y >= led % NumVertical

\* Particles only ever move down their own columns.
LEMMA ParticlesOnlyFall ==
  ASSUME ShowInv, [Next]_vars
  PROVE  \A n \in 1 .. Len(particles) :
           /\ n \in 1 .. Len(particles')
           /\ particles'[n].x = particles[n].x /\ particles'[n].y >= particles[n].y
<1>1. /\ particles \in Seq(Particle) /\ Len(particles) \in Nat
      /\ \A n \in 1 .. Len(particles) : particles[n].y \in Int
      /\ \A n \in 1 .. Len(particles) : particles[n] \in Particle
  <2>1. /\ particles \in Seq(Particle) /\ Len(particles) \in Nat
        /\ \A n \in 1 .. Len(particles) : particles[n] \in Particle
    BY DEF ShowInv, TypeOK
  <2> QED BY <2>1, ParticleFields
<1>2. CASE Spawn
  <2>1. PICK x \in 0 .. NumHorizontal - 1, y \in Tops :
          particles' = Append(particles, NewParticle(x, y))
    BY <1>2 DEF Spawn
  <2>2. NewParticle(x, y) \in Particle
    BY <1>2, SpawnedParticle DEF ShowInv, Spawn
  <2>3. /\ Len(particles') = Len(particles) + 1
        /\ \A n \in 1 .. Len(particles) : particles'[n] = particles[n]
    BY <1>1, <2>1, <2>2, Appended
  <2> QED BY <1>1, <2>3
<1>3. CASE Move
  <2>1. k \in 1 .. Len(particles) /\ particles' = [particles EXCEPT ![k] = Moved(particles[k])]
    BY <1>3 DEF Move, Moved, ShowInv, TypeOK
  <2>2. /\ Moved(particles[k]) \in Particle
        /\ Moved(particles[k]).x = particles[k].x /\ Moved(particles[k]).y = particles[k].y + 1
    BY <1>1, <2>1, MovedParticle, ShowAssumption DEF ShowInv, TypeOK
  <2>3. /\ Len(particles') = Len(particles) /\ particles'[k] = Moved(particles[k])
        /\ \A n \in 1 .. Len(particles) : n # k => particles'[n] = particles[n]
    BY <1>1, <2>1, <2>2, Changed
  <2> QED BY <1>1, <2>1, <2>2, <2>3
<1>4. CASE UNCHANGED particles
  BY <1>1, <1>4
<1> QED BY <1>2, <1>3, <1>4 DEF Next, Call, Spawned, Trace, Return, vars

\* The traces in _lastColorTime are those of particles on their own strip, although
\* particles start above it and fall past its end.
THEOREM TracesAreTheParticles == Spec => []TrailBehindParticle
<1>1. Init => TrailBehindParticle
  BY DEF Init, TrailBehindParticle
<1>2. ShowInv /\ TrailBehindParticle /\ [Next]_vars => TrailBehindParticle'
  <2> SUFFICES ASSUME ShowInv, TrailBehindParticle, [Next]_vars,
                      NEW led \in 0 .. N - 1, lastColorTime'[led] # Unlit
               PROVE  lastColorTime'[led] <= curTime' /\ Passed(led)'
    BY DEF TrailBehindParticle, Passed
  <2>1. /\ curTime \in Nat /\ lastColorTime \in [0 .. N - 1 -> Int] /\ curTime' \in Nat
        /\ curTime <= curTime' /\ particles \in Seq(Particle) /\ Len(particles) \in Nat
    <3>1. /\ curTime \in Nat /\ lastColorTime \in [0 .. N - 1 -> Int]
          /\ particles \in Seq(Particle) /\ Len(particles) \in Nat
      BY ShowAssumption DEF ShowInv, TypeOK
    <3>2. CASE Call
      BY <3>1, <3>2, ShowAssumption DEF Call
    <3>3. CASE curTime' = curTime
      BY <3>1, <3>3
    <3> QED BY <3>1, <3>2, <3>3 DEF Next, Spawn, Spawned, Move, Trace, Return, vars
  <2>2. NumVertical \in Nat \ {0} /\ led \in Int /\ led % NumVertical \in Int
    BY ShowAssumption DEF N
  <2>3. Passed(led) => Passed(led)'
    <3> SUFFICES ASSUME Passed(led) PROVE Passed(led)'
      OBVIOUS
    <3>1. PICK n \in 1 .. Len(particles) :
            particles[n].x = led \div NumVertical /\ particles[n].y >= led % NumVertical
      BY DEF Passed
    <3>2. particles[n].y \in Int
      BY <2>1, ParticleFields
    <3>3. /\ n \in 1 .. Len(particles') /\ particles'[n].x = particles[n].x
          /\ particles'[n].y >= particles[n].y
      BY <3>1, ParticlesOnlyFall
    <3>4. particles'[n].y \in Int
      <4>1. particles' \in Seq(Particle)
        BY ShowStep DEF ShowInv, TypeOK
      <4>2. particles'[n] \in Particle
        BY <3>3, <4>1
      <4> QED BY <4>2, ParticleFields
    <3>5. particles'[n].y >= led % NumVertical
      BY <2>2, <3>1, <3>2, <3>3, <3>4
    <3> QED BY <3>1, <3>3, <3>5 DEF Passed
  <2>4. CASE lastColorTime'[led] = lastColorTime[led]
    BY <2>1, <2>3, <2>4 DEF TrailBehindParticle, Passed
  <2>5. CASE lastColorTime'[led] # lastColorTime[led]
    <3>1. Trace
      BY <2>5 DEF Next, Call, Spawn, Spawned, Move, Return, vars
    <3> DEFINE p == particles[k]
    <3>2. /\ k \in 1 .. Len(particles) /\ UNCHANGED <<curTime, particles>>
          /\ p \in Particle /\ p.age \in Nat /\ p.y \in Int
      <4>1. k \in 1 .. Len(particles) /\ UNCHANGED <<curTime, particles>>
        BY <2>1, <3>1 DEF Trace, ShowInv, TypeOK
      <4>2. p \in Particle
        BY <2>1, <4>1
      <4> QED BY <4>1, <4>2, ParticleFields
    <3>3. /\ OnStrip(p) /\ led = LedOf(p)
          /\ lastColorTime'[led] = curTime - (3 * p.age) \div 10
      BY <2>1, <2>5, <3>1 DEF Trace
    <3>4. (3 * p.age) \div 10 \in Nat
      BY <3>2
    <3>5. p.x = led \div NumVertical /\ p.y >= led % NumVertical
      BY <3>2, <3>3, LedOnColumn
    <3>6. lastColorTime'[led] <= curTime'
      BY <2>1, <3>2, <3>3, <3>4
    <3>7. k \in 1 .. Len(particles') /\ particles'[k] = p
      BY <3>2
    <3> HIDE DEF p
    <3> QED BY <3>5, <3>6, <3>7 DEF Passed
  <2> QED BY <2>4, <2>5
<1> QED BY <1>1, <1>2, ShowInvariant, PTL DEF Spec
=============================================================================
