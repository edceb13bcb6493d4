---------------------------- MODULE MCMeasurement ----------------------------
(***************************************************************************)
(* Three machines, one with the earlier observer, and an operator.  All    *)
(* readings are multiples of 20%, which is 6000000 units: the means of     *)
(* three samples, two buckets and three machines have no remainder.        *)
(***************************************************************************)
EXTENDS Measurement

CONSTANTS d1, d2, d3, op

MCDevices == {d1, d2, d3}
MCKeys    == {d1, d2, d3, op}
MCLegacy  == {d3}
MCHasGpu  == {d1}

Pct(n) == n * (Whole \div 100)

MCReadings ==
  {[cpu |-> Pct(20), gpu |-> Pct(40), ram |-> Pct(60), ac |-> Whole],
   [cpu |-> Pct(80), gpu |-> NoSample, ram |-> Pct(40), ac |-> NoSample],
   [cpu |-> Pct(100), gpu |-> Pct(0), ram |-> Pct(100), ac |-> 0]}

Wire(index, n, cpu, gpu, more) ==
  [index |-> index, n |-> n, cpu |-> Pct(cpu), cpuMax |-> Pct(cpu + more),
   gpu |-> Pct(gpu), gpuMax |-> Pct(gpu + more), ram |-> Pct(20), ac |-> Pct(40)]

\* No hour at all, one without a sample, one with too much CPU, one hour twice, one hour too many.
MCLists ==
  {<< >>, <<Wire(0, 0, 20, 0, 0)>>, <<Wire(0, 2, 120, 0, 0)>>,
   <<Wire(1, 2, 20, 40, 20), Wire(1, 2, 60, 0, 0), Wire(2, 1, 60, 0, 0), Wire(0, 1, 40, 0, 20)>>}

\* One interval, a gap, one longer than MaxGap and Stale, and the clock set back within each.
Pause(gap, back) == [gap |-> gap, back |-> back]
MCPauses == {Pause(2, 0), Pause(8, 0), Pause(16, 0), Pause(2, 4), Pause(16, 4)}

Bound(s, u, q, c, r) == [samples |-> s, uploads |-> u, reads |-> q, clock |-> c, restarts |-> r]

\* Much is measured; many requests are made; a little of both, and a restart.
MCBounds == {Bound(3, 3, 0, 0, 0), Bound(0, 1, 6, 6, 1), Bound(1, 2, 2, 3, 1)}

=============================================================================
