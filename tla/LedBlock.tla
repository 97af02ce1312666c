------------------------------ MODULE LedBlock ------------------------------
(***************************************************************************)
(* The block framework libbb/bb_block.c with the LED block                 *)
(* blocks/bb-led/main.c on top of it: the main thread polls the bus and    *)
(* runs the commands, detached threads blink, and SIGTERM may come at any  *)
(* time.                                                                   *)
(*                                                                         *)
(* An action is what lies between two accesses to what the threads share:  *)
(* the flag, the count, the LED.  Sleeping is standing still, for any      *)
(* time: the 50 and 100 ms the code waits for a blink thread are no        *)
(* guarantee, since on_ms and off_ms come from the command.                *)
(***************************************************************************)
EXTENDS BusClient

CONSTANTS
  MaxCount,        \* bound on the counts in blink commands
  CreateMayFail    \* whether pthread_create may fail

ASSUME LedAssumption == /\ MaxCount \in Nat
                        /\ \A line \in Lines : Last(line).cmd = "blink" =>
                                                 Last(line).count \in 0 .. MaxCount
ASSUME CreateAssumption == CreateMayFail \in BOOLEAN

VARIABLES
  hasLed,     \* whether sysfs has the LED
  main,       \* where the main thread is
  running,    \* block->running
  state,      \* the state last published
  active,     \* g_blink_active
  count,      \* g_blink_count, 0 is for ever
  blinker,    \* where each blink thread is
  cycles,     \* its local count, up to MaxCount + 1
  led,        \* brightness and trigger in sysfs
  late        \* history: writes of each thread since active was cleared

blink    == <<active, count>>
threads  == <<blinker, cycles, late>>
block    == <<main, running, state>>
vars     == <<client, hasLed, block, blink, threads, led>>

Threads == 1 .. MaxLines
Blinking == {"test_active", "test_count", "on", "lit", "off", "dark", "done"}
Alive == {t \in Threads : blinker[t] \in Blinking}

Off == [lit |-> FALSE, trigger |-> "none"]

Init ==
  /\ ClientInit
  /\ hasLed \in BOOLEAN
  /\ main = "init" /\ running = TRUE /\ state = "init"
  /\ active = FALSE /\ count = 0
  /\ blinker = [t \in Threads |-> "none"] /\ cycles = [t \in Threads |-> 0]
  /\ late = [t \in Threads |-> 0]
  /\ led \in [lit : BOOLEAN, trigger : {"none", "heartbeat"}]

-----------------------------------------------------------------------------
(* The LED in sysfs: writing 0 to the brightness removes the trigger. *)

Written(shown) ==
  CASE ~hasLed             -> led
    [] shown = "on"        -> [led EXCEPT !.lit = TRUE]
    [] shown = "off"       -> Off
    [] shown = "heartbeat" -> [led EXCEPT !.trigger = "heartbeat"]
    [] shown = "none"      -> [led EXCEPT !.trigger = "none"]

-----------------------------------------------------------------------------
(* bb_block_start, bb_block_main_loop *)

\* Without a bus the program ends.  Init fails if there is no such LED; nobody
\* asks, and every later write fails.
StartBlock ==
  /\ main = "init"
  /\ \/ led' = Written("none") /\ state' = "ready" /\ main' = "ready"
     \/ main' = "exited" /\ UNCHANGED <<led, state>>
  /\ UNCHANGED <<client, hasLed, running, blink, threads>>

\* Mutant: the flag is set where the loop starts.
EnterLoop_SetRunning ==
  /\ main = "ready"
  /\ running' = TRUE
  /\ state' = "running"
  /\ main' = "loop"
  /\ UNCHANGED <<client, hasLed, blink, threads, led>>

EnterLoop ==
  /\ main = "ready"
  /\ state' = "running"
  /\ main' = "loop"
  /\ UNCHANGED <<client, hasLed, running, blink, threads, led>>

\* A poll that reads something; others time out or fail, and nobody asks.
Poll ==
  /\ main = "loop" /\ running
  /\ Recv
  /\ main' = "lines"
  /\ UNCHANGED <<hasLed, running, state, blink, threads, led>>

LinesDone ==
  /\ main = "lines" /\ Newlines = {}
  /\ main' = "loop"
  /\ UNCHANGED <<client, hasLed, running, state, blink, threads, led>>

-----------------------------------------------------------------------------
(* on_cmd *)

\* The flag of the running blink threads is cleared.
StopBlinking ==
  /\ active' = FALSE
  /\ late' = [t \in Threads |-> 0]
  /\ UNCHANGED <<count, blinker, cycles>>

Command == Last(Last(handled))

\* "solid" is "on" or "off", "stop" is "off"; any other command has no effect.
Commands == {"status", "blink", "on", "off", "heartbeat"}

\* A command is taken out of the buffer; all but "status" first stop blinking.
OnCommand ==
  /\ main = "lines"
  /\ TakeLine
  /\ LET cmd == Last(SubSeq(buf, 1, Min(Newlines))).cmd
     IN \/ /\ cmd \notin Commands
           /\ UNCHANGED <<main, state, blink, threads>>
        \/ /\ cmd = "status"
           /\ state' = "running"
           /\ UNCHANGED <<main, blink, threads>>
        \/ /\ cmd \in Commands \ {"status"}
           /\ StopBlinking
           /\ main' = IF cmd = "blink" THEN "blink" ELSE "show"
           /\ UNCHANGED state
  /\ UNCHANGED <<hasLed, running, led>>

\* Solid, heartbeat and stop write to the LED.
Show ==
  /\ main = "show"
  /\ led' = Written(Command.cmd)
  /\ main' = "lines"
  /\ UNCHANGED <<client, hasLed, running, state, blink, threads>>

\* Blink, after its 50 ms.
SetCount ==
  /\ main = "blink"
  /\ count' = Command.count
  /\ main' = "create"
  /\ UNCHANGED <<client, hasLed, running, state, active, threads, led>>

\* The outcome of pthread_create is not tested: without a new thread,
\* pthread_detach gets the old one, or none.
CreateThread ==
  /\ main = "create"
  /\ active' = TRUE
  /\ late' = [t \in Threads |-> 0]
  /\ \/ \E t \in Threads :
          /\ blinker[t] = "none" /\ \A u \in Threads : u < t => blinker[u] # "none"
          /\ blinker' = [blinker EXCEPT ![t] = "test_active"]
          /\ main' = "lines"
     \/ CreateMayFail /\ main' \in {"lines", "crashed"} /\ UNCHANGED blinker
  /\ UNCHANGED <<client, hasLed, running, state, count, cycles, led>>

-----------------------------------------------------------------------------
(* The end of bb_block_main_loop, and stop of the LED block *)

BeginStop ==
  /\ main = "loop" /\ ~running
  /\ StopBlinking
  /\ main' = "stop"
  /\ UNCHANGED <<client, hasLed, running, state, led>>

\* After 100 ms.
StopOff ==
  /\ main = "stop"
  /\ led' = Written("off")
  /\ main' = "stopped"
  /\ UNCHANGED <<client, hasLed, running, state, blink, threads>>

\* The last state is published, the bus closed, and the process and its threads
\* end.
Exit ==
  /\ main = "stopped"
  /\ state' = "stopped"
  /\ main' = "exited"
  /\ blinker' = [t \in Threads |-> "none"]
  /\ UNCHANGED <<client, hasLed, running, blink, cycles, late, led>>

Main == \/ StartBlock \/ EnterLoop \/ Poll \/ LinesDone \/ OnCommand \/ Show \/ SetCount
        \/ CreateThread \/ BeginStop \/ StopOff \/ Exit

\* SIGTERM or SIGINT.
Signal ==
  /\ main \notin {"init", "exited", "crashed"} /\ running
  /\ running' = FALSE
  /\ UNCHANGED <<client, hasLed, main, state, blink, threads, led>>

-----------------------------------------------------------------------------
(* blink_thread *)

Goes(t, from, to) == /\ main # "crashed"
                     /\ blinker[t] = from /\ blinker' = [blinker EXCEPT ![t] = to]
                     /\ UNCHANGED <<client, hasLed, block, blink>>

\* The condition of the loop reads two globals.
TestActive(t) ==
  /\ Goes(t, "test_active", IF active THEN "test_count" ELSE "done")
  /\ UNCHANGED <<cycles, late, led>>

TestCount(t) ==
  /\ Goes(t, "test_count", IF count = 0 \/ cycles[t] < count THEN "on" ELSE "done")
  /\ UNCHANGED <<cycles, late, led>>

Writes(t, shown) == /\ led' = Written(shown)
                    /\ late' = [late EXCEPT ![t] = IF active THEN 0 ELSE @ + 1]
                    /\ UNCHANGED cycles

TurnOn(t) == Goes(t, "on", "lit") /\ Writes(t, "on")

\* Mutant: no test after the first sleep.
AfterOn_NoTest(t) ==
  /\ Goes(t, "lit", "off")
  /\ UNCHANGED <<cycles, late, led>>

AfterOn(t) ==
  /\ Goes(t, "lit", IF active THEN "off" ELSE "done")
  /\ UNCHANGED <<cycles, late, led>>

TurnOff(t) == Goes(t, "off", "dark") /\ Writes(t, "off")

\* Mutant: the loop has no condition, and no test after the second sleep.
AfterOff_Forever(t) ==
  /\ Goes(t, "dark", "on")
  /\ cycles' = [cycles EXCEPT ![t] = Min({@ + 1, MaxCount + 1})]
  /\ UNCHANGED <<late, led>>

\* A cycle is complete unless blinking was stopped in it.
AfterOff(t) ==
  /\ Goes(t, "dark", IF active THEN "test_active" ELSE "done")
  /\ cycles' = IF active THEN [cycles EXCEPT ![t] = Min({@ + 1, MaxCount + 1})] ELSE cycles
  /\ UNCHANGED <<late, led>>

\* blink_done is published.
Done(t) ==
  /\ Goes(t, "done", "ended")
  /\ UNCHANGED <<cycles, late, led>>

Blinker(t) == \/ TestActive(t) \/ TestCount(t) \/ TurnOn(t) \/ AfterOn(t)
              \/ TurnOff(t) \/ AfterOff(t) \/ Done(t)

-----------------------------------------------------------------------------
BusLost == LoseBus /\ UNCHANGED <<hasLed, block, blink, threads, led>>

Next == Main \/ Signal \/ BusLost \/ \E t \in Threads : Blinker(t)

\* Every thread is scheduled and every sleep ends.
Spec == Init /\ [][Next]_vars /\ WF_vars(Main) /\ \A t \in Threads : WF_vars(Blinker(t))

-----------------------------------------------------------------------------
(* Correctness *)

TypeOK ==
  /\ ClientTypeOK
  /\ main \in {"init", "ready", "loop", "lines", "show", "blink", "create", "stop",
               "stopped", "exited", "crashed"}
  /\ hasLed \in BOOLEAN /\ running \in BOOLEAN /\ active \in BOOLEAN
  /\ state \in {"init", "ready", "running", "stopped"}
  /\ count \in 0 .. MaxCount
  /\ blinker \in [Threads -> Blinking \cup {"none", "ended"}]
  /\ cycles \in [Threads -> 0 .. MaxCount + 1]
  /\ led \in [lit : BOOLEAN, trigger : {"none", "heartbeat"}]
  /\ late \in [Threads -> Nat]

\* Nobody waits for a blink thread, so it may still write to the LED after the
\* command that stopped it, but once at most, however many threads are left.
OneLateWrite == \A t \in Threads : late[t] <= 1

\* When blinking is stopped and stays so, every blink thread ends, an endless
\* one and several overlapping ones too; and with a count they all end by
\* themselves, although a later command changes the count of an earlier thread.
BlinkersEnd ==
  ~active \/ count > 0 ~> (active /\ count = 0) \/ Alive = {} \/ main = "crashed"

\* A signal ends the block, also one that comes before the loop starts.
SignalHonoured == ~running ~> (main \in {"exited", "crashed"})
=============================================================================
