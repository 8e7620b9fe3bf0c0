\* Safety and liveness while devices may ask twice before the CPU idles.
SPECIFICATION Spec
CONSTANT Burst = 2
INVARIANTS NoNesting EdgeKept
PROPERTIES ClockTicks KeysRead ProgramRuns
