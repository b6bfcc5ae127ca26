----------------------------- MODULE UartClock -----------------------------
(***************************************************************************)
(* The baud rate of the log, which each of the three images derives from   *)
(* the clock it measures (log_uart_clock_init of the port_log.c of Node    *)
(* A's application and bootloader and of Node B): the oversampling and the *)
(* divider are searched, in 32-bit arithmetic, and the sink stays down     *)
(* when no pair of them comes close to the rate.                           *)
(***************************************************************************)
EXTENDS Integers

Baud == 1000000
Oversamples == 8 .. 16
Tolerance == 20             \* per mille
Word == 4294967296          \* uint32_t wraps there
DividerMax == 256           \* CY_SYSCLK_DIV_8_BIT

\* The clock the receiver needs at an oversampling.
Target(ovs) == Baud * ovs

\* Round to nearest, and never zero.
Divider(src, ovs) ==
  LET div == ((src + Target(ovs) \div 2) % Word) \div Target(ovs)
  IN  IF div = 0 THEN 1 ELSE div

Actual(src, ovs) == src \div Divider(src, ovs)

Distance(a, b) == IF a > b THEN a - b ELSE b - a

\* In thousandths of the target, the product cut to 32 bits.
Error(src, ovs) ==
  ((Distance(Actual(src, ovs), Target(ovs)) * 1000) % Word) \div Target(ovs)

\* Where the search ends: the first of the least errors, be it that it stops at zero.
Chosen(src, ovs) ==
  /\ ovs \in Oversamples
  /\ \A other \in Oversamples :
        Error(src, other) > Error(src, ovs) \/ (Error(src, other) = Error(src, ovs) /\ other >= ovs)

\* The sink is up, at this oversampling; otherwise the log is silent.
SinkUp(src, ovs) ==
  /\ src # 0
  /\ Chosen(src, ovs)
  /\ Error(src, ovs) <= Tolerance
=============================================================================
