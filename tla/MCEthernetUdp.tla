--------------------------- MODULE MCEthernetUdp ----------------------------
(* Room for two datagrams at most, an empty one among them; a header of    *)
(* two bytes stands for eight, the threshold is in the same proportion.  A *)
(* transmit buffer of four bytes, filled by up to four pieces.             *)
EXTENDS EthernetUdp

MCPayloads == {0, 4}
MCReadLens == {3, 8}
MCWriteLens == {1, 3}
=============================================================================
