----------------------------- MODULE MCStation ------------------------------
EXTENDS Station

OneNic    == {<<1, 0, 1, 0>>}
OnBoard   == <<1, 0, 0, 1>>
OneHash   == {<<0, 0, 0>>}
\* A machine of another make, and an A2065 that is 00:80:10:00:00:00 on the wire - the
\* address our Amiga takes when it reads the ROM too early.
TwoPeers  == {<<1, 1, 1, 0>>, <<0, 0, 0, 0>>}
OneCustom == {<<0, 1, 0, 1>>}
OnePatch  == {<<1, 0>>}
SomeSetups == {<<{}, TRUE>>, <<{"PROM"}, FALSE>>, <<{"LOOP"}, FALSE>>}
=============================================================================
