---------------------------- MODULE MCInterrupts ----------------------------
(* The board of bsp/virt: the PL011 on shared line 1, the PL031 on shared    *)
(* line 2.  Task A prints and waits; task B waits first, twice as long.      *)
EXTENDS Interrupts, TLC

MCKernel == {"A", "B"}
MCFirstDelay == {"B"}
MCDelay == "A" :> 1 @@ "B" :> 2
MCUartCell == [type |-> 0, number |-> 1]
MCRtcCell == [type |-> 0, number |-> 2]
MCScript == <<"a", "cr">>
=============================================================================
