---------------------------- MODULE MCWaveStore ----------------------------
(* Two waves, two keys, and an area that the two waves fill.  A behaviour   *)
(* has one set of arguments: maps that put a wave to one key and to the     *)
(* other, and one that does not fit though each of its waves does; or a     *)
(* wave for the AWG itself, and one for a key.                              *)
EXTENDS WaveStore, TLC

CONSTANTS w1, w2, k1, k2, c1, c2,
  ArgumentSets

VARIABLE arguments

MCWaves == {w1, w2}
MCChunks == w1 :> <<2, 1>> @@ w2 :> <<1>>
MCKeys == {k1, k2}

On(k, w) == [key |-> k, wave |-> w]

RegistryMaps ==
  {<<On(k1, w1), On(k2, w2)>>, <<On(k2, w1)>>, <<On(k1, w1), On(k2, w1)>>}
DirectMaps == {<<On(k1, w2)>>, <<On(Direct, w1)>>}
MixedMaps == {<<On(k1, w2)>>, <<On(k1, w2), On(Direct, w1)>>, <<On(k1, w1), On(Direct, w2)>>}

MCArgumentSets == {RegistryMaps, DirectMaps}
MCMixedSets == {MixedMaps}
MCMaps == UNION ArgumentSets

MCInit == StoreInit /\ arguments \in ArgumentSets

MCNext ==
  /\ StoreNext /\ UNCHANGED arguments
  /\ \A c \in Callers : entries'[c] \in arguments \cup {<<>>}

MCSpec == MCInit /\ [][MCNext]_<<storeVars, arguments>>
=============================================================================
