-------------------------------- MODULE MCSpi --------------------------------
(* Instances of Spi for TLC: two external interrupts and a timer's.        *)
EXTENDS Spi

TwoExternals == {"int0", "int1"}
Timer == {"timer"}
=============================================================================
