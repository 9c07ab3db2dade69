-------------------------------- MODULE Watch --------------------------------
(***************************************************************************)
(* The bandwidth part of src/lxperun/network.py and the loop of            *)
(* `lxperun network --watch` in cli.py: counters of /proc/net/dev read     *)
(* round after round become rates, while bytes arrive, interfaces are      *)
(* removed and made anew, the wall clock is set and the user interrupts.   *)
(*                                                                         *)
(* One direction of traffic is modelled: rx and tx are computed alike.     *)
(* The sockets of each round are the subject of module Sockets.            *)
(***************************************************************************)
EXTENDS Integers, FiniteSets

CONSTANTS Iface,       \* names of network interfaces
          MaxBytes,    \* bound: bytes that ever arrive at one interface
          MaxBirths,   \* bound: interfaces made anew
          MaxTime,     \* bound: seconds, on the wall clock and in fact
          MaxSets      \* bound: times the wall clock is set

ASSUME WatchAssumption == /\ MaxBytes \in Nat /\ MaxBirths \in Nat
                          /\ MaxTime \in Nat /\ MaxSets \in Nat

VARIABLES
  counter,               \* the machine: /proc/net/dev
  clock,                 \* the machine: time.time()
  ever, births,          \* history: bytes that ever arrived; times made anew
  elapsedTime, sets,     \* history: seconds passed in fact; times the clock was set
  watchFlag, watchJson,  \* --watch, --json
  watchPc,
  sampleTime, sample,          \* network_bandwidth(): its timestamp, its result
  previous,              \* the loop's previous_bandwidth
  truth, truthBefore     \* history: what a perfect observer noted at this sample
                         \* and at the one before

watchMachine == <<counter, clock, ever, births, elapsedTime, sets>>
watchFlags == <<watchFlag, watchJson>>
watchVars == <<watchMachine, watchFlags, watchPc, sampleTime, sample, previous, truth, truthBefore>>

Gone == -1
Least == 0                \* stands for the 1e-9 seconds below which elapsed never falls
Time == 0..MaxTime
Total == [Iface -> 0..MaxBytes]
\* BandwidthSnapshot: the counters listed and, where there is one, the rate.
Rate == [bytes : -MaxBytes..MaxBytes, elapsed : Time]
Bytes == UNION {[I -> 0..MaxBytes] : I \in SUBSET Iface}
RateTable == UNION {[I -> Rate] : I \in SUBSET Iface}
Snapshot == [time : Time, bytes : Bytes, rates : RateTable]
Truth == [elapsed : Time, sets : 0..MaxSets, ever : Total,
          births : [Iface -> 0..MaxBirths], listed : SUBSET Iface]

Nobody == [i \in {} |-> 0]
Blank == [time |-> 0, bytes |-> Nobody, rates |-> Nobody]
Now == [elapsed |-> elapsedTime, sets |-> sets, ever |-> ever, births |-> births,
        listed |-> {}]
Watching == watchFlag /\ ~watchJson

WatchInit ==
  /\ counter \in [Iface -> {Gone, 0}] /\ clock \in Time
  /\ ever = [i \in Iface |-> 0] /\ births = [i \in Iface |-> 0]
  /\ elapsedTime = 0 /\ sets = 0
  /\ watchFlag \in BOOLEAN /\ watchJson \in BOOLEAN
  /\ watchPc = "stamp" /\ sampleTime = 0 /\ sample = Blank /\ previous = {}
  /\ truth = Now /\ truthBefore = Now
------------------------------------------------------------------------------
(* The machine and the user, until the command has ended. *)

Outside == /\ watchPc \notin {"done", "raised"}
           /\ UNCHANGED <<watchFlags, watchPc, sampleTime, sample, previous, truth, truthBefore>>

Receive(i) ==
  /\ counter[i] # Gone /\ ever[i] < MaxBytes
  /\ counter' = [counter EXCEPT ![i] = @ + 1] /\ ever' = [ever EXCEPT ![i] = @ + 1]
  /\ UNCHANGED <<clock, births, elapsedTime, sets>> /\ Outside

RemoveIface(i) == /\ counter[i] # Gone /\ counter' = [counter EXCEPT ![i] = Gone]
                  /\ UNCHANGED <<clock, ever, births, elapsedTime, sets>> /\ Outside

MakeIface(i) == /\ counter[i] = Gone /\ births[i] < MaxBirths
                /\ counter' = [counter EXCEPT ![i] = 0]
                /\ births' = [births EXCEPT ![i] = @ + 1]
                /\ UNCHANGED <<clock, ever, elapsedTime, sets>> /\ Outside

TickTime == /\ clock < MaxTime /\ elapsedTime < MaxTime
            /\ clock' = clock + 1 /\ elapsedTime' = elapsedTime + 1
            /\ UNCHANGED <<counter, ever, births, sets>> /\ Outside

SetClock(t) == /\ sets < MaxSets /\ sets' = sets + 1 /\ clock' = t
               /\ UNCHANGED <<counter, ever, births, elapsedTime>> /\ Outside

\* os.system() ignores SIGINT while `clear` runs, so there it has no effect.
Interrupt == /\ watchPc \notin {"clear", "done", "raised"}
             /\ watchPc' = IF Watching THEN "done" ELSE "raised"
             /\ UNCHANGED <<watchMachine, watchFlags, sampleTime, sample, previous, truth,
                            truthBefore>>
------------------------------------------------------------------------------
(* network_report(previous_bandwidth) *)

\* The time is taken before the file is read.
StampRound ==
  /\ watchPc = "stamp" /\ watchPc' = "read"
  /\ sampleTime' = clock
  /\ truthBefore' = truth /\ truth' = Now
  /\ UNCHANGED <<watchMachine, watchFlags, sample, previous>>

ElapsedRaw(t, p) == t - p.time                    \* a faulty variant
Elapsed(t, p) == IF t > p.time THEN t - p.time ELSE Least
Rates(bytes, t, p) ==
  [i \in DOMAIN bytes \cap DOMAIN p.bytes |->
     [bytes |-> bytes[i] - p.bytes[i], elapsed |-> Elapsed(t, p)]]

\* An unreadable file gives a snapshot without interfaces.
ReadCounters ==
  /\ watchPc = "read" /\ watchPc' = "sockets"
  /\ \E readable \in BOOLEAN :
       LET listed == {i \in Iface : readable /\ counter[i] # Gone}
           bytes == [i \in listed |-> counter[i]] IN
       /\ sample' = [time |-> sampleTime, bytes |-> bytes,
                      rates |-> IF previous = {} THEN Nobody
                                ELSE Rates(bytes, sampleTime, CHOOSE p \in previous : TRUE)]
       /\ truth' = [truth EXCEPT !.ever = ever, !.births = births, !.listed = listed]
  /\ UNCHANGED <<watchMachine, watchFlags, sampleTime, previous, truthBefore>>

ReadSockets ==
  /\ watchPc = "sockets" /\ watchPc' = IF Watching THEN "clear" ELSE "print"
  /\ UNCHANGED <<watchMachine, watchFlags, sampleTime, sample, previous, truth, truthBefore>>
------------------------------------------------------------------------------
(* _print_network() *)

KeepFirst(p, c) == IF p = {} THEN {c} ELSE p      \* a faulty variant
Keep(p, c) == {c}
Clear ==
  /\ watchPc = "clear" /\ watchPc' = "print"
  /\ previous' = Keep(previous, sample)
  /\ UNCHANGED <<watchMachine, watchFlags, sampleTime, sample, truth, truthBefore>>

PrintNetwork ==
  /\ watchPc = "print" /\ watchPc' = IF Watching THEN "sleep" ELSE "done"
  /\ UNCHANGED <<watchMachine, watchFlags, sampleTime, sample, previous, truth, truthBefore>>

\* time.sleep(max(interval, 0.25)): time passes by itself.
WakeUp ==
  /\ watchPc = "sleep" /\ watchPc' = "stamp"
  /\ UNCHANGED <<watchMachine, watchFlags, sampleTime, sample, previous, truth, truthBefore>>

WatchStep == StampRound \/ ReadCounters \/ ReadSockets \/ Clear \/ PrintNetwork \/ WakeUp
Surroundings == \/ TickTime \/ Interrupt \/ \E t \in Time : SetClock(t)
                \/ \E i \in Iface : Receive(i) \/ RemoveIface(i) \/ MakeIface(i)
WatchNext == WatchStep \/ Surroundings
WatchSpec == WatchInit /\ [][WatchNext]_watchVars
------------------------------------------------------------------------------
WatchMachineOK ==
  /\ counter \in [Iface -> {Gone} \cup 0..MaxBytes] /\ clock \in Time
  /\ ever \in Total /\ births \in [Iface -> 0..MaxBirths]
  /\ elapsedTime \in Time /\ sets \in 0..MaxSets
WatchReportOK ==
  /\ watchFlag \in BOOLEAN /\ watchJson \in BOOLEAN /\ sampleTime \in Time
  /\ watchPc \in {"stamp", "read", "sockets", "clear", "print", "sleep", "done", "raised"}
  /\ sample \in Snapshot /\ previous \in SUBSET Snapshot
  /\ truth \in Truth /\ truthBefore \in Truth
WatchTypeOK == WatchMachineOK /\ WatchReportOK

\* The rates of network.py:186 speak of the interval since the sample shown
\* before: an interface listed in both has one, no other has, and its bytes
\* are those that arrived between the two reads unless it was made anew in
\* between; so each byte is in the rate of one round only and none is lost.
\* The seconds are those that passed unless somebody set the clock.
RatesExact ==
  watchPc \in {"sockets", "clear", "print", "sleep"} =>
    /\ DOMAIN sample.rates = truth.listed \cap truthBefore.listed
    /\ \A i \in DOMAIN sample.rates :
         /\ truth.births[i] = truthBefore.births[i] =>
              sample.rates[i].bytes = truth.ever[i] - truthBefore.ever[i]
         /\ truth.sets = truthBefore.sets =>
              sample.rates[i].elapsed = truth.elapsed - truthBefore.elapsed
==============================================================================
