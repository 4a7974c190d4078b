------------------------------ MODULE MCKernel ------------------------------
(* Kernel with a timer, a keyboard and a clock on the slave, and firmware   *)
(* that leaves open: the timer; the clock; all three; none of them.         *)
EXTENDS Kernel

MCFirmwareMasks == { << 250, 255 >>, << 251, 254 >>, << 248, 254 >>, << 255, 255 >> }
=============================================================================
