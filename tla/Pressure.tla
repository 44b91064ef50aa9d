------------------------------ MODULE Pressure ------------------------------
(***************************************************************************)
(* processor/memlimit and processor/degrade: the monitor polls the heap,   *)
(* sets the level and, through its callback, the degradation mode, which a *)
(* supervisor may also set.  Both publish gauges.                          *)
(*                                                                         *)
(* A step is one atomic access of level or mode, or one write of a gauge.  *)
(* The callback is degrade.SetMode, as both packages' comments have it:    *)
(* the program that wires them is not in the repository.                   *)
(***************************************************************************)
EXTENDS Integers

CONSTANTS
    HeapSizes,
    HighWatermark, CriticalWatermark,
    Ratios,       \* the values of DegradedSamplingRate, in percent
    DefaultRatio, \* the one of DefaultConfig
    Monitor,
    Supervisors,  \* other callers of SetMode
    MaxHeapMoves, MaxCalls, MaxReloads  \* bounds

Normal == 0
Elevated == 1   \* LevelHigh, ModeDegraded
Critical == 2
Modes == {Normal, Elevated, Critical}
Callers == {Monitor} \cup Supervisors

ASSUME PressureAssumption ==
    /\ HeapSizes \subseteq Nat
    /\ 0 \in HeapSizes
    /\ HighWatermark \in Nat
    /\ CriticalWatermark \in Nat
    /\ Ratios \subseteq 0 .. 100
    /\ DefaultRatio \in Ratios
    /\ Monitor \notin Supervisors
    /\ MaxHeapMoves \in Nat
    /\ MaxCalls \in Nat
    /\ MaxReloads \in Nat

VARIABLES
    heap,        \* HeapAlloc
    level,       \* memlimit's level
    stopped,     \* stopCh is closed
    mode,        \* degrade's mode
    ratio,       \* cfg.DegradedSamplingRate
    modeGauge, ratioGauge,
    step,        \* [Callers -> step]
    arg,         \* [Callers -> the level or mode it is setting]
    moves, calls, reloads,  \* for the bounds
    \* history
    blurred,     \* two callers have overlapped since the last change
    published    \* the mode has changed at least once

gauges == <<modeGauge, ratioGauge>>
bounds == <<moves, calls, reloads>>
marks == <<blurred, published>>
pressureVars == <<heap, level, stopped, mode, ratio, gauges, step, arg, bounds,
                  marks>>

PressureInit ==
    /\ heap = 0
    /\ level = Normal
    /\ stopped = FALSE
    /\ mode = Normal
    /\ ratio = DefaultRatio
    /\ modeGauge = 0
    /\ ratioGauge = 0
    /\ step = [c \in Callers |-> "idle"]
    /\ arg = [c \in Callers |-> Normal]
    /\ moves = 0 /\ calls = 0 /\ reloads = 0
    /\ blurred = FALSE
    /\ published = FALSE

Alone(c) == \A d \in Callers \ {c} : step[d] \in {"idle", "exited"}

\* Every step of a caller while another is under way blurs the gauges.
Blur(c) == blurred' = (blurred \/ ~Alone(c))
-----------------------------------------------------------------------------
(* memlimit.                                                               *)

\* The heap grows or shrinks.
HeapMoves(h) ==
    /\ moves < MaxHeapMoves
    /\ h # heap
    /\ heap' = h
    /\ moves' = moves + 1
    /\ UNCHANGED <<level, stopped, mode, ratio, gauges, step, arg, calls,
                   reloads, marks>>

LevelOf_HighFirst(h) ==
    IF h >= HighWatermark THEN Elevated
    ELSE IF h >= CriticalWatermark THEN Critical
    ELSE Normal
LevelOf(h) ==
    IF h >= CriticalWatermark THEN Critical
    ELSE IF h >= HighWatermark THEN Elevated
    ELSE Normal

\* A tick of the monitor; only it writes the level.  After Shutdown the
\* select may still prefer a tick.
Poll ==
    LET new == LevelOf(heap) IN
    /\ step[Monitor] = "idle"
    /\ level' = new
    /\ \/ new = level /\ UNCHANGED <<step, arg>>
       \/ /\ new # level
          /\ step' = [step EXCEPT ![Monitor] = "level"]
          /\ arg' = [arg EXCEPT ![Monitor] = new]
    /\ UNCHANGED <<heap, stopped, mode, ratio, gauges, bounds, marks>>

\* metrics.DegradeMode.Set(newLevel), before the callback.
LevelGauge ==
    /\ step[Monitor] = "level"
    /\ modeGauge' = arg[Monitor]
    /\ step' = [step EXCEPT ![Monitor] = "swap"]
    /\ Blur(Monitor)
    /\ UNCHANGED <<heap, level, stopped, mode, ratio, ratioGauge, arg, bounds,
                   published>>

StopMonitor ==
    /\ ~stopped
    /\ stopped' = TRUE
    /\ UNCHANGED <<heap, level, mode, ratio, gauges, step, arg, bounds, marks>>

MonitorExits ==
    /\ stopped
    /\ step[Monitor] = "idle"
    /\ step' = [step EXCEPT ![Monitor] = "exited"]
    /\ UNCHANGED <<heap, level, stopped, mode, ratio, gauges, arg, bounds,
                   marks>>
-----------------------------------------------------------------------------
(* degrade.                                                                *)

CallSetMode(s, m) ==
    /\ calls < MaxCalls
    /\ step[s] = "idle"
    /\ calls' = calls + 1
    /\ step' = [step EXCEPT ![s] = "swap"]
    /\ arg' = [arg EXCEPT ![s] = m]
    /\ UNCHANGED <<heap, level, stopped, mode, ratio, gauges, moves, reloads,
                   marks>>

Publishes_Escalation(c) == arg[c] > mode
Publishes(c) == arg[c] # mode

\* The swap; the gauges follow if it has changed the mode.
Swap(c) ==
    /\ step[c] = "swap"
    /\ mode' = arg[c]
    /\ \/ /\ Publishes(c)
          /\ step' = [step EXCEPT ![c] = "mode"]
          /\ blurred' = ~Alone(c)
          /\ published' = TRUE
       \/ /\ ~Publishes(c)
          /\ step' = [step EXCEPT ![c] = "idle"]
          /\ Blur(c)
          /\ UNCHANGED published
    /\ UNCHANGED <<heap, level, stopped, ratio, gauges, arg, bounds>>

SetModeGauge(c) ==
    /\ step[c] = "mode"
    /\ modeGauge' = arg[c]
    /\ step' = [step EXCEPT ![c] = "ratio"]
    /\ Blur(c)
    /\ UNCHANGED <<heap, level, stopped, mode, ratio, ratioGauge, arg, bounds,
                   published>>

RatioOf(m) == CASE m = Normal   -> 100
                [] m = Elevated -> ratio
                [] m = Critical -> 0

SetRatioGauge(c) ==
    /\ step[c] = "ratio"
    /\ ratioGauge' = RatioOf(arg[c])
    /\ step' = [step EXCEPT ![c] = "idle"]
    /\ Blur(c)
    /\ UNCHANGED <<heap, level, stopped, mode, ratio, modeGauge, arg, bounds,
                   published>>

\* UpdateConfig of degrade, which leaves the gauge alone.
UpdateDegrade(r) ==
    /\ reloads < MaxReloads
    /\ ratio' = r
    /\ reloads' = reloads + 1
    /\ UNCHANGED <<heap, level, stopped, mode, gauges, step, arg, moves, calls,
                   marks>>
-----------------------------------------------------------------------------
SetMode(c) == Swap(c) \/ SetModeGauge(c) \/ SetRatioGauge(c)

MonitorStep == Poll \/ LevelGauge \/ MonitorExits \/ SetMode(Monitor)

\* All that is not the monitor.
PressureEvent ==
    \/ \E h \in HeapSizes : HeapMoves(h)
    \/ StopMonitor
    \/ \E s \in Supervisors :
          \/ \E m \in Modes : CallSetMode(s, m)
          \/ SetMode(s)
    \/ \E r \in Ratios : UpdateDegrade(r)
-----------------------------------------------------------------------------
(* Properties.                                                             *)

\* At rest the gauges show the mode, although memlimit and degrade both write
\* one of them, unless the last change of the mode overlapped another call
\* (the writes are not atomic with the swap).  A ratio reloaded in degraded
\* mode is not published before the next change.
GaugesSettle ==
    (~blurred /\ \A c \in Callers : step[c] \in {"idle", "exited"}) =>
        /\ modeGauge = mode
        /\ published => \/ ratioGauge = RatioOf(mode)
                        \/ mode = Elevated /\ reloads > 0

Undisturbed == calls = 0 /\ ~stopped

\* The mode follows the heap: when the heap stays on one side of the
\* watermarks, the mode comes to say so for good, unless a supervisor has
\* interfered or the monitor has been stopped.
ModeFollows ==
    /\ <>[](Undisturbed /\ heap >= CriticalWatermark) => <>[](mode = Critical)
    /\ <>[](Undisturbed /\ heap < HighWatermark) => <>[](mode = Normal)
    /\ <>[](Undisturbed /\ heap \in HighWatermark .. CriticalWatermark - 1)
          => <>[](mode = Elevated)
=============================================================================
