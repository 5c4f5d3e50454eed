----------------------------- MODULE MCParticles -----------------------------
(* Two strips of four LEDs; frames on time, late, and later than a particle lasts. *)
EXTENDS ParticleShow

MCDelays == {2, 5, 17}
=============================================================================
