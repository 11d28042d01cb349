------------------------------- MODULE Status -------------------------------
(***************************************************************************)
(* System status: a worker samples counters and values from the system in  *)
(* turn, keeps the last of each with the time it was observed, and puts a  *)
(* snapshot into a slot of one place; the command takes the newest, ages   *)
(* it by the time it lay there, and prints it, draws it or exits.          *)
(*                                                                         *)
(* A counter is one number.  Memory stands for the values read at every    *)
(* sample, disk for those read at the slow pace, a network interface and a *)
(* process each for the counters kept by identity.  The system may answer, *)
(* repeat itself, go back, fail or not support a question.                 *)
(***************************************************************************)
EXTENDS Integers, FiniteSets

CONSTANTS
  Cases,         \* [varies, watch, count, until]: the metrics whose answers vary, the options, a bound on time
  Names,         \* interfaces and processes
  Interval,      \* of the samples
  SlowInterval,  \* Config::slow_interval
  OnceLimit,     \* observations a single output waits for, 5
  MaxCount, MaxFaults

\* What the instances of the module assume of its parameters.
StatusAssumption ==
  /\ {Interval, SlowInterval, OnceLimit} \subseteq Nat \ {0} /\ {MaxCount, MaxFaults} \subseteq Nat
  /\ Interval <= SlowInterval

VARIABLES
  case,     \* the input
  clock,    \* monotonic time
  cache,    \* Sampler: the last value of each metric
  base,     \* Sampler: the baselines of the counters
  slow,     \* Sampler::next_slow
  sampling, \* the worker: [pc, started, seq]
  slot,     \* the snapshot that waits to be taken
  command,  \* the command: what it holds and how it ends
  shown,    \* what the command last looked at, with its alerts
  seen      \* history: the two last answers of the counters, of the same unbroken run

vars == <<case, clock, cache, base, slow, sampling, slot, command, shown, seen>>

Nothing == [n \in {} |-> 0]
Never == -1
Metrics == {"cpu", "memory", "network", "disk", "top"}
Primary == {"cpu", "memory", "network", "disk"}
Budget == [m \in Metrics |-> IF m \in {"disk", "top"} THEN 2 * SlowInterval ELSE 3 * Interval]

----------------------------------------------------------------------------
(* Cache and Metric.                                                       *)

NewCache == [has |-> FALSE, value |-> Nothing, at |-> Never, state |-> "Unavailable"]
Updated(v) == [has |-> TRUE, value |-> v, at |-> clock, state |-> "Fresh"]
Failed(c, answer) ==
  IF answer = "unsupported" THEN [NewCache EXCEPT !.state = "Unsupported"]
  ELSE [c EXCEPT !.state = IF c.has THEN "Stale" ELSE "Unavailable"]
Warming == [NewCache EXCEPT !.at = clock, !.state = "WarmingUp"]

\* Metric::age_by; a value that was never observed has no age.
AgeBy(m, elapsed, budget) ==
  IF m.age = Never THEN m
  ELSE [m EXCEPT !.age = @ + elapsed,
                 !.state = IF m.age + elapsed > budget /\ @ \in {"Fresh", "WarmingUp"} THEN "Stale" ELSE @]
Metric(c, budget) ==
  AgeBy([has |-> c.has, value |-> c.value, state |-> c.state, at |-> c.at,
         age |-> IF c.at = Never THEN Never ELSE clock - c.at], 0, budget)

\* Interfaces of stale metrics lose their fresh rates; the rows of processes
\* keep theirs.
AgeRates(n) ==
  IF n.state # "Stale" \/ ~n.has THEN n
  ELSE [n EXCEPT !.value = [i \in DOMAIN @ |-> [@[i] EXCEPT !.state = IF @ = "Fresh" THEN "Stale" ELSE @]]]

Alert(m) == IF m.state = "Fresh" /\ m.has THEN "known" ELSE "unknown"
View(s) ==
  LET aged == [m \in Metrics |-> AgeBy(s.metrics[m], clock - s.published, Budget[m])] IN
  [aged EXCEPT !["network"] = AgeRates(@)]

ExitCode(v) ==
  LET states == {v[m].state : m \in Primary} IN
  CASE states \subseteq {"Unsupported", "Unavailable"} -> 1
    [] states \cap {"Stale", "Unavailable", "Unsupported"} # {} -> 3
    [] OTHER -> 0

----------------------------------------------------------------------------
(* The sampler, one question after the other.                              *)

\* Nothing is on the screen: what was shown is kept only until the next step
\* of the worker or the clock.
Blank == [view |-> Nothing, at |-> 0, seen |-> Nothing, alerts |-> Nothing]

ValidWindow(at, interval) == clock - at > 0 /\ clock - at <= 3 * interval
Step(from, to) == sampling.pc = from /\ sampling' = [sampling EXCEPT !.pc = to]
FailingStep(from, to) ==
  sampling.faults < MaxFaults /\ sampling.pc = from /\ sampling' = [sampling EXCEPT !.pc = to, !.faults = @ + 1]
Sampled == UNCHANGED <<case, clock, slot, command>> /\ shown' = Blank

Fails(m, to) ==
  /\ m \in case.varies /\ FailingStep(m, to)
  /\ \E answer \in {"failed", "unsupported"} : cache' = [cache EXCEPT ![m] = Failed(@, answer)]

\* History of the answers: the last one and the one before it, for the CPU of
\* those that differ.
NoAnswer == [value |-> Nothing, at |-> Never]
NoRun == [last |-> NoAnswer, before |-> NoAnswer]
Heard(m, answer) == seen' = [seen EXCEPT ![m] = [last |-> [value |-> answer, at |-> clock], before |-> @.last]]

Start ==
  /\ sampling.pc = "start" /\ sampling' = [sampling EXCEPT !.pc = "cpu", !.started = clock]
  /\ Sampled /\ UNCHANGED <<cache, base, slow, seen>>

\* A repeated answer is no new measurement: it keeps the last rate, its time
\* and the baseline.
Repeated(c) == base.cpu.at # Never /\ c = base.cpu.count
CpuCache(c) ==
  CASE Repeated(c) -> cache.cpu
    [] base.cpu.at # Never /\ ValidWindow(base.cpu.at, Interval) /\ c > base.cpu.count ->
         Updated([delta |-> c - base.cpu.count, window |-> clock - base.cpu.at])
    [] OTHER -> Warming
CpuCounts == IF "cpu" \in case.varies THEN 0..MaxCount ELSE {base.cpu.count + 1}
SampleCpu ==
  /\ \/ Fails("cpu", "memory") /\ UNCHANGED <<base, seen>>
     \/ Step("cpu", "memory") /\ \E c \in CpuCounts :
          /\ cache' = [cache EXCEPT !.cpu = CpuCache(c)]
          /\ IF Repeated(c) THEN UNCHANGED <<base, seen>>
             ELSE base' = [base EXCEPT !.cpu = [count |-> c, at |-> clock]] /\ Heard("cpu", c)
  /\ Sampled /\ UNCHANGED slow

SampleValue(m, to) ==
  /\ \/ Fails(m, to) /\ UNCHANGED seen
     \/ Step(m, to) /\ cache' = [cache EXCEPT ![m] = Updated(Nothing)] /\ Heard(m, Nothing)
  /\ Sampled /\ UNCHANGED base
SampleMemory == SampleValue("memory", "network") /\ UNCHANGED slow

\* What a list of counters gives: the rate of each that was there before.
Rate(old, n, e, interval) ==
  IF n \in DOMAIN old /\ e.up /\ old[n].up /\ ValidWindow(old[n].at, interval) /\ e.count >= old[n].count
  THEN [state |-> "Fresh", delta |-> e.count - old[n].count, window |-> clock - old[n].at]
  ELSE [state |-> "WarmingUp", delta |-> 0, window |-> 0]
Rates(old, entries, interval) == [n \in DOMAIN entries |-> Rate(old, n, entries[n], interval)]
Baselines(old, entries) == [n \in DOMAIN entries |-> [count |-> entries[n].count, up |-> entries[n].up, at |-> clock]]
Entry(up) == [count : 0..MaxCount, up : up]
Lists(m, up) == IF m \in case.varies THEN UNION {[S -> Entry(up)] : S \in SUBSET Names} ELSE {Nothing}

SampleNetwork ==
  /\ \/ Fails("network", "slow") /\ UNCHANGED <<base, seen>>
     \/ Step("network", "slow") /\ \E entries \in Lists("network", BOOLEAN) :
          /\ cache' = [cache EXCEPT !.network = Updated(Rates(base.network, entries, Interval))]
          /\ base' = [base EXCEPT !.network = Baselines(base.network, entries)]
          /\ Heard("network", entries)
  /\ Sampled /\ UNCHANGED slow

\* The slow questions are asked when they are due; the table of processes
\* only when it was asked for, and a failure drops its baselines.
Due ==
  /\ sampling.pc = "slow" /\ sampling' = [sampling EXCEPT !.pc = IF clock >= slow THEN "disk" ELSE "finish"]
  /\ Sampled /\ UNCHANGED <<cache, base, slow, seen>>
SampleDisk == SampleValue("disk", "top") /\ UNCHANGED slow
SampleTop ==
  /\ slow' = clock + SlowInterval
  /\ \/ "top" \notin case.varies /\ Step("top", "finish") /\ UNCHANGED <<cache, base, seen>>
     \/ Fails("top", "finish") /\ base' = [base EXCEPT !.top = Nothing] /\ seen' = [seen EXCEPT !.top = NoRun]
     \/ "top" \in case.varies /\ Step("top", "finish") /\ \E entries \in Lists("top", {TRUE}) \ {Nothing} :
          /\ cache' = [cache EXCEPT !.top = Updated(Rates(base.top, entries, SlowInterval))]
          /\ base' = [base EXCEPT !.top = Baselines(base.top, entries)]
          /\ Heard("top", entries)
  /\ Sampled

NoSnapshot == [seq |-> 0]
Finish ==
  /\ sampling.pc = "finish"
  /\ sampling' = [sampling EXCEPT !.pc = "sleep", !.seq = @ + 1,
                    !.started = IF clock - @ >= Interval THEN clock ELSE @]
  /\ LET metrics == [m \in Metrics |-> Metric(cache[m], Budget[m])] IN
     slot' = [seq |-> sampling.seq + 1, published |-> clock, seen |-> seen,
              metrics |-> [metrics EXCEPT !["network"] = AgeRates(@)]]
  /\ shown' = Blank /\ UNCHANGED <<case, clock, cache, base, slow, command, seen>>
Wake ==
  /\ clock >= sampling.started + Interval /\ Step("sleep", "start")
  /\ Sampled /\ UNCHANGED <<cache, base, slow, seen>>

Running == command.stage = "run"
Worker ==
  Running /\ (Start \/ SampleCpu \/ SampleMemory \/ SampleNetwork \/ Due \/ SampleDisk \/ SampleTop \/ Finish \/ Wake)

----------------------------------------------------------------------------
(* The command.                                                            *)

\* One turn of consume: the newest snapshot, aged by the time it waited.
Ready(v, seq) == seq >= 2 /\ (v["cpu"].state # "WarmingUp" \/ seq >= OnceLimit)
Look ==
  LET changed == slot.seq > 0
      latest == IF changed THEN slot ELSE command.latest
      view == View(latest)
      exit == ExitCode(view)
      emits == changed /\ (case.watch \/ Ready(view, latest.seq) \/ exit = 1)
      emitted == command.emitted + (IF emits THEN 1 ELSE 0)
      ends == exit = 1 \/ (~case.watch /\ emitted > 0) \/ (case.count > 0 /\ emitted >= case.count)
  IN
  /\ Running /\ latest.seq > 0
  /\ slot' = NoSnapshot
  /\ shown' = [view |-> view, at |-> clock, seen |-> latest.seen, alerts |-> [m \in {"cpu", "memory", "disk"} |-> Alert(view[m])]]
  /\ command' =
       [stage |-> IF ends THEN "ending" ELSE "run", latest |-> latest, emitted |-> emitted,
        first |-> IF emits /\ command.emitted = 0 THEN latest.seq ELSE command.first,
        last |-> IF emits THEN latest.seq ELSE command.last,
        skipped |-> command.skipped + (IF emits /\ command.emitted > 0 THEN latest.seq - (command.last + 1) ELSE 0),
        code |-> IF ends /\ ~case.watch /\ view["cpu"].state = "WarmingUp" THEN 3 ELSE exit]
  /\ UNCHANGED <<case, clock, cache, base, slow, sampling, seen>>

NewCaches ==
  [m \in Metrics |-> IF m = "top" /\ "top" \notin case.varies
                     THEN [NewCache EXCEPT !.state = "Unsupported"] ELSE NewCache]
NewBase == [cpu |-> [count |-> 0, at |-> Never], network |-> Nothing, top |-> Nothing]
NewSampling == [pc |-> "start", started |-> 0, seq |-> 0, faults |-> 0]
NoRuns == [m \in Metrics |-> NoRun]
Forgotten == cache' = NewCaches /\ base' = NewBase /\ sampling' = NewSampling /\ seen' = NoRuns /\ slow' = 0

\* The keys q and Esc of the panel end with the last code, a signal with its own.
Quit ==
  /\ Running
  /\ \E c \in {130} \cup (IF case.watch THEN {command.code} ELSE {}) :
       command' = [command EXCEPT !.stage = "ending", !.code = c, !.latest = NoSnapshot]
  /\ slot' = NoSnapshot /\ shown' = Blank /\ Forgotten
  /\ UNCHANGED <<case, clock>>

\* The worker notices the cancellation between two questions or while it
\* sleeps; what its sampler holds is of no use any more.
Join ==
  /\ command.stage = "ending" /\ command' = [command EXCEPT !.stage = "gone", !.latest = NoSnapshot] /\ Forgotten
  /\ UNCHANGED <<case, clock, slot, shown>>

\* Time passes where it can matter: during a question whose answer varies,
\* before the snapshot and during the sleep.
Tick ==
  /\ Running /\ clock < case.until /\ sampling.pc \in case.varies \cup {"finish", "sleep"}
  /\ clock' = clock + 1 /\ shown' = Blank
  /\ UNCHANGED <<case, cache, base, slow, sampling, slot, command, seen>>

Init ==
  /\ case \in Cases /\ clock = 0 /\ slow = 0
  /\ cache = NewCaches /\ base = NewBase /\ sampling = NewSampling /\ seen = NoRuns
  /\ slot = NoSnapshot /\ shown = Blank
  /\ command = [stage |-> "run", latest |-> NoSnapshot, emitted |-> 0, first |-> 0, last |-> 0, skipped |-> 0, code |-> 0]

Next == Worker \/ Look \/ Quit \/ Join \/ Tick

Spec == Init /\ [][Next]_vars

----------------------------------------------------------------------------
(* Properties.                                                             *)

Has(m) == shown.view # Nothing /\ shown.view[m].state = "Fresh"
RecentlyHeard(m) == shown.seen[m].last.at # Never /\ shown.at - shown.seen[m].last.at <= Budget[m]

\* What is shown as fresh was observed within its budget of the moment it is
\* shown, and for the CPU the counters moved then: no repeated answer, failed
\* question, blocked worker or snapshot left in the slot makes old evidence
\* look new, and only such evidence raises or clears an alert; the rates of
\* interfaces age with their list.
FreshIsRecent ==
  /\ \A m \in Metrics : Has(m) => RecentlyHeard(m)
  /\ shown.view # Nothing /\ ~Has("network") =>
       \A n \in DOMAIN shown.view["network"].value : shown.view["network"].value[n].state # "Fresh"
  /\ \A m \in DOMAIN shown.alerts : shown.alerts[m] = "known" => RecentlyHeard(m)

Spans(run, rate, n, interval) ==
  LET old == run.before.value[n] new == run.last.value[n] IN
  /\ old.up /\ new.up /\ rate.delta = new.count - old.count /\ rate.delta >= 0
  /\ rate.window = run.last.at - run.before.at /\ rate.window \in 1..(3 * interval)

\* A fresh rate is the growth of one counter between two observations that
\* followed each other: the counter was there in both, no answer in between
\* was without it, it did not go back, and the time between them is valid.
\* For a process no question in between failed.
RatesAreOfOneCounter ==
  /\ Has("cpu") =>
       LET run == shown.seen["cpu"] rate == shown.view["cpu"].value IN
       /\ run.before.at # Never /\ rate.delta = run.last.value - run.before.value /\ rate.delta > 0
       /\ rate.window = run.last.at - run.before.at /\ rate.window \in 1..(3 * Interval)
  /\ \A m \in {"network", "top"} : Has(m) =>
       \A n \in DOMAIN shown.view[m].value :
         shown.view[m].value[n].state = "Fresh" =>
           /\ n \in DOMAIN shown.seen[m].before.value /\ n \in DOMAIN shown.seen[m].last.value
           /\ Spans(shown.seen[m], shown.view[m].value[n], n, IF m = "top" THEN SlowInterval ELSE Interval)

\* A single output that ends with 0 showed a measured value for every primary
\* metric, and a watch that skipped snapshots says how many.
ZeroMeansMeasured ==
  /\ ~Running /\ command.code = 0 /\ ~case.watch => \A m \in Primary : Has(m)
  /\ command.emitted > 0 => command.emitted + command.skipped = command.last - command.first + 1
=============================================================================
