--------------------------- MODULE MCSoundConversion ---------------------------
(* Devices for SoundConversion: rates below and above 44.1 kHz, one channel to  *)
(* six.                                                                         *)
EXTENDS SoundConversion

SomeMixes == [rate : {2, 4, 7}, channels : {1, 2, 6}]
================================================================================
