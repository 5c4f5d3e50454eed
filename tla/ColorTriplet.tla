---------------------------- MODULE ColorTriplet ----------------------------
(***************************************************************************)
(* ColorTriplet::FromHsv: a colour from hue, saturation and value, in      *)
(* eight-bit arithmetic.                                                   *)
(***************************************************************************)
EXTENDS Integers, TLAPS

Uint8 == 0 .. 255

Region(h) == h \div 43
Remainder(h) == ((h - Region(h) * 43) * 6) % 256

\* (uint8_t)((v * (255 - part)) >> 8)
Shade(v, part) == ((v * (255 - part)) \div 256) % 256

FromHsv(h, s, v) ==
  LET p == Shade(v, s)
      q == Shade(v, (s * Remainder(h)) \div 256)
      t == Shade(v, (s * (255 - Remainder(h))) \div 256)
  IN  IF s = 0 THEN [r |-> v, g |-> v, b |-> v]
      ELSE CASE Region(h) = 0 -> [r |-> v, g |-> t, b |-> p]
             [] Region(h) = 1 -> [r |-> q, g |-> v, b |-> p]
             [] Region(h) = 2 -> [r |-> p, g |-> v, b |-> t]
             [] Region(h) = 3 -> [r |-> p, g |-> q, b |-> v]
             [] Region(h) = 4 -> [r |-> t, g |-> p, b |-> v]
             [] OTHER         -> [r |-> v, g |-> p, b |-> q]

-----------------------------------------------------------------------------
(* What is proved.                                                          *)

\* What a byte is multiplied up to by a byte, shifted down, is no more than it.
LEMMA ShiftedDown ==
  ASSUME NEW v \in Uint8, NEW m \in Nat, m <= 255 * v
  PROVE  m \div 256 \in 0 .. v /\ (m \div 256) % 256 = m \div 256
<1>1. m \div 256 \in Int /\ 0 <= m \div 256 /\ 256 * (m \div 256) <= m
  OBVIOUS
<1>2. m \div 256 <= v
  BY <1>1 DEF Uint8
<1> QED BY <1>1, <1>2 DEF Uint8

LEMMA ByteTimesByte ==
  ASSUME NEW a \in Uint8, NEW b \in Uint8
  PROVE  a * b \in Nat /\ a * b <= 255 * a
BY SMTT(30) DEF Uint8

\* Shading never brightens, and nothing is lost in the cast to uint8_t.
LEMMA ShadeDarkens ==
  ASSUME NEW v \in Uint8, NEW part \in Uint8
  PROVE  Shade(v, part) \in 0 .. v
<1> DEFINE m == v * (255 - part)
<1>1. 255 - part \in Uint8
  BY DEF Uint8
<1>2. m \in Nat /\ m <= 255 * v
  BY <1>1, ByteTimesByte
<1>3. m \div 256 \in 0 .. v /\ (m \div 256) % 256 = m \div 256
  <2> HIDE DEF m
  <2> QED BY <1>2, ShiftedDown
<1>4. Shade(v, part) = (m \div 256) % 256
  BY DEF Shade
<1> HIDE DEF m
<1> QED BY <1>3, <1>4

\* A part of the saturation is a byte.
LEMMA PartFits ==
  ASSUME NEW s \in Uint8, NEW m \in Uint8
  PROVE  (s * m) \div 256 \in Uint8
<1> DEFINE k == s * m
<1>1. k \in Nat /\ k <= 255 * s
  BY ByteTimesByte
<1>2. k \div 256 \in 0 .. s
  <2> HIDE DEF k
  <2> QED BY <1>1, ShiftedDown
<1> HIDE DEF k
<1>3. k \div 256 \in Uint8
  BY <1>2 DEF Uint8
<1> QED BY <1>3 DEF k

\* The remainder fits its byte: the regions of 43 hues were chosen for that.
LEMMA RemainderFits ==
  ASSUME NEW h \in Uint8
  PROVE  Remainder(h) \in Uint8 /\ Remainder(h) = (h % 43) * 6
BY DEF Remainder, Region, Uint8

\* For every hue, saturation and value (FromHsv, all 2^24 arguments): no channel is
\* brighter than the value, one is exactly as bright, and without saturation the
\* colour is a grey of that value.  The rounding of the three products and the casts
\* to uint8_t never show as a channel that is too bright.
THEOREM BrightestIsValue ==
  ASSUME NEW h \in Uint8, NEW s \in Uint8, NEW v \in Uint8
  PROVE  LET c == FromHsv(h, s, v) IN
         /\ c.r \in 0 .. v /\ c.g \in 0 .. v /\ c.b \in 0 .. v
         /\ v \in {c.r, c.g, c.b}
         /\ s = 0 => c.r = v /\ c.g = v /\ c.b = v
<1> DEFINE p == Shade(v, s)
           q == Shade(v, (s * Remainder(h)) \div 256)
           t == Shade(v, (s * (255 - Remainder(h))) \div 256)
<1>1. Remainder(h) \in Uint8 /\ 255 - Remainder(h) \in Uint8
  <2>1. Remainder(h) \in Uint8
    BY RemainderFits
  <2> QED BY <2>1 DEF Uint8
<1>2. p \in 0 .. v
  BY ShadeDarkens
<1>3. q \in 0 .. v
  BY <1>1, PartFits, ShadeDarkens
<1>4. t \in 0 .. v
  BY <1>1, PartFits, ShadeDarkens
<1>5. v \in 0 .. v
  BY DEF Uint8
<1>6. FromHsv(h, s, v) =
        IF s = 0 THEN [r |-> v, g |-> v, b |-> v]
        ELSE CASE Region(h) = 0 -> [r |-> v, g |-> t, b |-> p]
               [] Region(h) = 1 -> [r |-> q, g |-> v, b |-> p]
               [] Region(h) = 2 -> [r |-> p, g |-> v, b |-> t]
               [] Region(h) = 3 -> [r |-> p, g |-> q, b |-> v]
               [] Region(h) = 4 -> [r |-> t, g |-> p, b |-> v]
               [] OTHER         -> [r |-> v, g |-> p, b |-> q]
  BY DEF FromHsv
<1> HIDE DEF p, q, t
<1> QED BY <1>2, <1>3, <1>4, <1>5, <1>6
=============================================================================
