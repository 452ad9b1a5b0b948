# Svan voice control: verification project

Formal models of the voice control of the Svan quadruped
(`src/Svan_project1/robonex_ai`): a Python brain that turns spoken or posted
text into a robot state with the help of a language model, a heartbeat thread
that publishes that state over DDS fifty times a second, and a C++ bridge that
drives the robot through the Xterra SDK.

## 1. Inventory

```
 microphone thread --+                          heartbeat thread            C++ process
                     +-> process_text_command -> current_robot_state ->     subscriber.cpp
 uvicorn thread -----+     |        |  (state_lock)    publish_movement --> main() loop --> SDK
   POST /command           v        v                       DDS topic       watchdog
                       LLM (await)  command_memory          KEEP_LAST(1)    signal handler
```

| Component | State it keeps | Operations | Interacts with |
|---|---|---|---|
| C++ bridge, `subscriber.cpp` | `g_running`, `last_msg_time`, `last_mode`, `watchdog_fired`, the reader's cache; the SDK's mode and velocity | boot, connect, one pass of the loop (take, handle, velocity, watchdog, sleep), clean shutdown, exception exits, signal handler | DDS topic, Xterra SDK |
| Message, `JoyData.idl/.hpp/.cpp` | none | fields, generated CDR code | both ends of the topic |
| Publisher, `dds_publisher.py` | `last_mode`, `button_hold_ticks` | `publish_movement` | heartbeat thread, DDS writer |
| Heartbeat, `brain.py:23-33` | a snapshot of the state | copy under the lock, publish, sleep 20 ms | state, publisher |
| Brain, `brain.py:35-114` | `current_robot_state`, `command_memory`, `state_lock` | `process_text_command`, from two threads at once | LLM service, heartbeat |
| Rules, `grokrules.py` (and `llamarules.py`, not imported) | none | the prompt that fixes what the LLM answers | LLM service |
| Microphone, `microphone.py` | recogniser settings, its event loop | listen, recognise, run the brain, retry | audio, Google STT, brain |
| Web API, `api.py`, `main.py` | none | `POST /command`, start the threads | brain |
| Configuration, `config.py` | API key | request and command validation | brain, API |
| `src/backup` | older versions of the same files | | none |

What is hard, and what makes each component correct:

* **Bridge.** A silence can begin and end in any phase of a pass; the mode the
  loop remembers must stay the mode the SDK has; the SDK must see no velocity
  outside the limits and no stale one; the robot must not walk on after the
  brain went silent, nor after the program ends.
* **Publisher, heartbeat and link.** A mode is announced by ten frames with a
  button pressed and never again. Frames are lost when the reader is late,
  restarts, or the link is down. The brain's mode and the robot's mode must
  agree once the link is up; a stop must stop the robot.
* **Brain.** Two threads run `process_text_command`; each reads the state, waits
  for the language model for seconds and then writes the state and the memory.
  A sleeping robot must stay asleep until it is told to stand up; an answer must
  not be applied to a state it was not made for; the memory must list what was
  done, at most five entries, and no step of one thread may break the other's.
* **Microphone and API.** The microphone thread waits for the recogniser and for the
  brain, without a timeout of its own, and cannot hear "stop" meanwhile; the loop must
  go on after any error. One request that hangs must not hold up the others.
* **Rules and validation.** The answer of the language model must follow the prompt
  into the limits of `config.py`; a field that is missing takes a default, so that
  a wrapped answer passes as "stand".

## 2. Modules

Paths below are relative to `src/Svan_project1/robonex_ai`.

| Module | Models | Uses |
|---|---|---|
| `JoyData` | the message, the modes, `clamp` and the choice of the requested mode (`subscriber.cpp:31-57, 133-151`) | |
| `Bridge` | `main()` and the signal handler (`subscriber.cpp:45-213`) | `JoyData`, `DeadManSwitch` |
| `DeadManSwitch` | what the bridge promises, without its loop | |
| `Publisher` | heartbeat thread and `publish_movement` (`brain.py:10-33`, `dds_publisher.py`) | `JoyData` |
| `Teleop` | publisher, topic and bridge together, with faults | `Publisher`, `Bridge` |
| `SleepLock` | `Teleop` with two history variables, for the sleep lock on the robot | `Teleop` |
| `Rules` | the answer of a language model that obeys `grokrules.py`, and the defaults and range check of `config.py` | `JoyData` |
| `Brain` | `process_text_command` on two threads (`brain.py:35-114`) | `Rules`, `CommandRegister` |
| `CommandRegister` | what the brain promises to one speaker | `Rules` |
| `Voice` | the microphone thread and the web API (`microphone.py:20-57`, `api.py`, `main.py`) | `Brain` |
| `BridgeProofs`, `RulesProofs`, `BrainProofs`, `VoiceProofs` | theorems about the modules they are named after | TLAPS |
| `RegisterProofs` | theorems about `Brain` on one loop, and as a register | `BrainProofs` |
| `TeleopProofs` | theorems about `Teleop`: types, refinement of `Bridge`, motion, watchdog | `BridgeProofs` (instance) |
| `SleepLockProofs` | theorem about `SleepLock` | `TeleopProofs`, `SleepLock` |
| `MCBridge`, `MCTeleop`, `MCSleepLock`, `MCBrain`, `MCVoice` | finite instances for TLC | |

`Teleop` instantiates `Bridge` and `Publisher` with its own variables and
conjoins their actions, so that a step of the composition is a step of the
module that models the code, plus the effect on the link.

### Bridge

`pc` is the place in `main()`: `boot` and `connect` (lines 78-116), then one
pass of the loop as `loop` (take), `handle` (the sample), `velocity`,
`watchdog`, `freeze` and `sleep`, then `park` after the loop, and `done` or
`failed` when `main()` has returned. One action stands for the statements
between two calls that another actor could come between: each `setMode`
and each `setVelocity` that directly follow one another are two actions, since
the robot is seen between them. `robot` holds the last arguments of the two SDK
calls. A thrown exception is an action of its own (`ConnectThrows`,
`TakeThrows`), and so is a failed initialisation. When `main()` returns (`Return`)
its variables are gone; only the robot keeps what it was told, and `Restart`
finds it so. A sample lives for one pass.

Time is discrete. `silence` is `now() - last_msg_time`; `elapsed` is the time in
the current phase. A work phase takes at most `MaxWork` ticks, a sleep phase
from `SleepTicks` to `MaxSleep`: `sleep_for` promises the lower bound, and the
upper bounds are the assumption that the operating system schedules the
process. `silence` saturates at `Horizon`, which is above every threshold that
is compared with it.

The reader's cache holds one sample (the default QoS is `KEEP_LAST(1)`): a
frame that arrives replaces the one that waits.

### Publisher and Teleop

The heartbeat copies the robot state under the lock (`Copy`) and publishes the
copy outside of it (`Publish`); another thread may swap the state in between.
`publish_movement` is one action: the button of a new mode reads 1 in the frame
of the change and the next `HoldFrames - 1`. Velocities are integers in
hundredths, which is what `round(v, 2)` leaves; the inversion of the axes and
`np.clip` are kept. Left out: `priority`, the noise put on `axes[5]` to keep the
samples different (the bridge does not read that axis) and the log.

Faults are a constant set. `late`: the bridge may start after the brain; `exit`:
it may throw or be signalled, and be started again; `brain`: the brain's process
may end and be started again, with nothing persisted; `outage`: the link goes down
and up; `write`: `writer.write()` raises. The heartbeat has no `except`, so a write that
raises ends the thread and leaves the rest of the brain running.

The brain appears as `SetState` (`brain.py:87-89` and `111-112`), and it is free: any robot
state of `Commands`, at any time. Two threads and any number of requests on the event
loop can set states back to back, and a request that fails sets one at once, so no
order and no distance between them is assumed. The history variable `age` is how long
ago each movement was the robot state.

### SleepLock

With a free brain the robot can go from `SLEEP` to `MOVE`: a `STAND` that is in force too
briefly is overwritten in the copy, or its click in the reader's cache. `SleepLock` adds
two history variables to `Teleop`, which constrain nothing: `stay`, the time since the
mode of the robot state changed, and `rash`, whether the latest change to `MOVE` came from
anything but a `STAND` that was in force for longer than `Settle`, two passes. It says how
soon is too soon.

### Rules and Brain

A text is reduced to its intent. `Answer` is the prompt, rule by rule: mode
words, movement with its speed table and sign conventions, "again",
"faster"/"slower" from the most recent movement, the safety gate, and a remark
that repeats the last state. A real language model may answer otherwise; the
point of the module is that everything shown with it goes wrong, or right,
*although the model obeys*. The one disobedience modelled is an answer that lacks
fields (`Lacking`): `LLMCommand` completes it with its defaults (`Completed`), and an
answer wrapped in an object of its own, which `llamarules.py:4-6` warns of, lacks
them all and passes as "stand". An answer that is refused by `LLMCommand`, a failed
request and an empty answer are one case, `Refused`.

An activation of `process_text_command` holds its thread between two awaits
(`running`). The microphone is a thread of its own with one activation at a
time; requests to the API share the event loop of uvicorn. So two callers on one
thread take turns at awaits only, and callers on different threads interleave
between any two statements. `Begin` reads the memory, `Prompt` the state,
`Swap` sets the state under the lock, `Remember` appends, `Trim`/`Fits` check the
length and `Pop` removes: six accesses to shared state, six steps. Reading the
memory for the prompt is one step: the comprehension at `brain.py:42` could also
see the other thread's `pop(0)` half way through and skip an entry.

### Voice

`Voice` adds the two callers. `mic` is the place in `mic_listen_loop`: `calibrate`
(outside the `try`: without a device the thread is `dead`), `listen`, `recognise`, `brain`
while `run_until_complete` runs the command, and `pause` for the second after a
glitch. `Speak` and `Post` are `Begin` of `Brain`; every other step of an activation is
`Brain`'s. An exception of the brain before its own `try` (a client without an API
key, `brain.py:38`) is caught by the loop like a glitch of the device. A
`WaitTimeoutError` changes nothing and is a stutter.

## 3. Runs

| Run | Callers, frames, faults | Properties |
|---|---|---|
| `bridge` | nine frames: every button, none, two at once, zero, in and over the limit, NaN; fair thread and clock | `TypeOK`, `VelocityBounded`, `FrozenWhenSilent`, `ModeMirrored`, `VelocityFresh`, `IInv`, `ShutdownCompletes`, `ImplementsSwitch` |
| `bridge_exit` (violation) | six frames | `ExitStopsRobot` |
| `bridge_sleep` (violation) | six frames | `FreezeKeepsSleep` |
| `teleop` | four robot states, two of them movements, set at any time, no faults | `TypeOK`, `NoFalseAlarm`, `MotionIsCurrent`, `StandsBeforeWalking` |
| `teleop_activated` | four robot states, one without a button, no faults, fair | `StateActivated` |
| `teleop_faults` | two robot states, all faults | `MotionIsCurrent` |
| `teleop_outage` (violation) | two robot states, outages, the bridge may exit and restart, fair | `StateActivated` |
| `brain_serial` | microphone alone, seven texts, four commands, complete and wrapped answers | `ImplementsRegister`, `NeverWalksFromSleep` |
| `brain_loop` | two requests on one loop, four commands, fair | `TypeOK`, `MemoryIsLatest`, `Served` |
| `brain_threads` | microphone and a request, three commands, fair | `VoiceTypeOK`, `NeverPopsEmpty`, `MemoryFits`, `MemoryKeeps`, `LatestIsRecent`, `KeepsListening` |
| `brain_sleep_lock` (violation) | microphone and a request | `NeverWalksFromSleep` |
| `brain_error_wakes` (violation) | microphone alone, failing requests | `AsleepUntilTold` |

What they show:

* The SDK never receives a velocity outside the limits, for any float: `clamp`
  turns NaN into the upper limit (its argument order decides this), so a NaN
  axis does not reach the SDK, but it asks for full speed instead.
* A robot whose last message is older than `WatchdogTicks + MaxSleep + MaxWork`
  does not walk while the bridge lives. The bound is exact: one tick less is
  violated.
* `last_mode` agrees with the SDK wherever it is compared, so "only on
  transition" never swallows a transition that is due. This is the reason why
  the watchdog must record the mode it sets (line 188).
* The robot only makes movements that were the robot state within `StopDeadline`,
  through outages, lost clicks, restarts of either process and a dead heartbeat: a
  stop or a turn takes effect by a frame, by the click, or by the watchdog. Again
  the bound is exact. The one exception is a single statement: between the
  transition to `MOVE` and the velocity of the same frame (`subscriber.cpp:155-165`)
  the SDK moves with the setpoint of an earlier `MOVE`.
* Without faults every robot state that stays becomes the robot's mode, and a
  movement its velocity. This depends on the length of a click: it must outlast a
  pass of the bridge. With `MaxSleep = MaxWork = 1` three frames are not enough, for
  the heartbeat can write all three within a pass that is slower than average; four
  are. The code writes ten frames in 200 ms against a pass of 20 ms.
* The robot walks out of its sleep only after a rash walk: a `STAND` that was the robot
  state for longer than two passes (`Settle`, a pass being the longest time between two
  `take()`s, in the code about 20 ms) reaches the robot before any `MOVE` set after it,
  whatever was set before and however quickly, although the reader keeps one sample.
  The time is exact: with one tick less the property is violated. Nothing in
  the code keeps states apart for that long. An answer of the language model takes
  longer, but two callers can be answered one right after the other.
* A mode without a button (`mode` is an `int` without a range, `config.py:13`) passes
  the validation and is not announced: the robot keeps the mode it had.
* One speaker at a time gets a command register with a memory of the latest
  commands. Requests on one event loop still keep the memory exact, because no
  await parts the swap from the append. With two threads the memory can be off,
  but only so far: it is too long by the activations that still owe a check,
  too short by less than the number of threads, and `pop(0)` never meets an
  empty list. Nor is its last entry always the command in force: swap and append
  are two steps. The command activated last is among the last two entries then (one
  per thread), unless two removals left fewer. These bounds are exact too.
* A wrapped answer does not break the register or the sleep lock: it is a "stand"
  that is remembered and reported as a success.
* The microphone thread, once it listens, is kept from listening only by a service
  that does not answer (recognition, or the request of its own command; the code
  sets no timeout for either, and what the libraries set is not modelled). No glitch,
  failure, or hung request of the other thread does it.
* On the event loop a hung request delays nobody else: the request is awaited, so the
  loop is free.

### Bounds

Timing is in ticks, chosen so that every order of the thresholds occurs: a pass
is shorter or longer than a heartbeat period, and several passes fit in the
watchdog time. In the code it is 500 ms of watchdog against passes and periods
of 20 ms; the theorems about `Bridge` and `Teleop` hold for every choice of these
constants that meets the inequalities they name. `HoldFrames` is 2 to 3 instead of 10, `MaxMemory` 2 instead of 5: what
matters is that a click spans more than one frame, and that the memory is
overrun, which three commands do. `MaxCommands` bounds the commands of a run;
when it is reached and everybody is idle, `Silence` stutters, so that deadlock is
checked in all runs. `Horizon` bounds the clocks of silence.

### Fairness

`Bridge!FairSpec` assumes that the main thread is scheduled and that the clock
runs. `MainStep` is weakly fair as a whole, so nothing is assumed about which way
a statement goes, and an exception is always possible. Signals, restarts and
frames are not promised. `Teleop!FairSpec` adds the heartbeat thread and the start
of the brain. Nothing in the code blocks without bound on this path: `take()` does
not wait, and the lock is held for one assignment.

`Brain!FairSpec` and `FairVoiceSpec` assume that threads are scheduled, that the device is
opened or fails, that `sleep(1)` ends, and that a command that has returned lets the
microphone loop go on. Nothing is assumed of the language model and of the
recogniser. `Served` therefore assumes, of each activation alone, that its own answer
is not withheld for ever (strong fairness of `Resume`: the event loop resumes what is
ready in turn), and `KeepsListening` names the two waits that can last for ever.

## 4. Disagreements between the code and what it says

1. `subscriber.cpp:5` says "watchdog, velocity clamp, graceful shutdown". An
   exception out of `reader.take()` returns from `main()` through the handlers of
   lines 205-211 with no stop command, and the watchdog ends with the loop
   (`bridge_exit`).
2. `brain.py:91` reports "New State Activated", and the publisher clicks "if the
   actual mode changes". It tracks the mode it clicked last, not the robot's: if the
   click is lost in an outage or while the bridge is started again, or the outage
   lets the watchdog set `STAND`, the mode is not clicked again and the robot stays where it is with everything
   working (`teleop_outage`).
3. `grokrules.py:4`, "The robot CANNOT move if it is currently sleeping". The state
   shown to the model is read before the await, and the answer is applied after
   it without another look (`brain_sleep_lock`). With one caller the rule
   holds (`brain_serial`).
4. `grokrules.py:7`, "must remain asleep until the user explicitly tells it to
   stand up". A failed request sets `STAND` (`brain_error_wakes`).
5. `subscriber.cpp:180`, "freeze if Python brain goes silent". The watchdog sets
   `STAND` whatever the mode was: a sleeping robot is stood up, unattended
   (`bridge_sleep`).

## 5. Proofs

All theorems hold for every value of the constants that satisfies the named
assumptions (`NaNAssumption`, `BridgeAssumption`, `TeleopAssumption`, `BrainAssumption`,
`VoiceAssumption`), which say no more than what the parameters are. A theorem that needs more names it as a hypothesis of its own
(`OneLoop`, `OneSpeaker`, `HeartbeatHolds`, `ClicksArrive`), and the run that
checks the property on an instance satisfies it.

Every safety property of a passing run is proved. The inductive invariants of the
proofs that are not in a run (`PathCurrent`, `BeatHeard`, `SleepLockCarried`, `LatestKept`, `InOrder`, `Current`)
were model-checked on instances before they were proved.

**Bridge** (`BridgeProofs`). The inductive invariant `IInv` strengthens `TypeOK`
and `VelocityBounded` by three parts. `SilenceBound` says how old the last
message can be at each point of a pass while the watchdog has not fired (and that
there is no clock outside the loop): in the
sleep phase at most `WatchdogTicks + elapsed`, because the watchdog looked just
before; in the work phase `MaxSleep` more. `FrozenOnceFired` says that the robot
stands while the watchdog flag is set. `Handled` says what the robot was told at
each point, and that the mode recorded is the mode set. `FrozenWhenSilent` is not
inductive alone: a silent walking robot just before the watchdog check must be
excluded by how old the silence can be there. From `IInv` follow
`TypeCorrect`, `VelocityIsBounded`,
`ModeIsMirrored`, `VelocityIsFresh`, `FrozenIfSilent`. `Implementation` shows that
each step of the bridge is a step of the dead man's switch or a stutter, under
the refinement mapping of `Bridge!Switch`. `ClampInRange` is the lemma about NaN.

**Rules** (`RulesProofs`). `AnswerLegal`: an answer that follows the prompt passes
the range check of `config.py` and stays in the limits of the bridge, for every
intent, state and history with legal entries. `DefaultsLegal`: whatever fields it
lacks, the defaults keep it legal and make no movement of it.

**Brain** (`BrainProofs`). For any number of callers on any number of threads
`TypeCorrect`, `PopIsSafe`, `MemoryIsBounded` and `MemoryIsKept`. The argument
counts: an activation that appended owes one check, and is in `Owing` until it
has made it. The invariant relates the length of the memory to the number of
activations in `Owing`, in `pop` and in `append`; `OneAtATime` bounds the number
in `pop` by the number of threads. `GotoCount` says how a statement changes such a
count. `LatestIsFound` (`LatestIsRecent`) rests on `LatestKept`: the command activated last is
on its way into the memory, or in it with fewer entries behind it, and on their way,
than there are threads; a removal takes it only when little is left.

**Voice** (`VoiceProofs`). `VoiceImplementsBrain`: every step of the two callers is a step
of `Brain` or none, so that its theorems hold of the program as it is called.
`VoiceTypeCorrect`: the microphone has no command in the brain except while it waits
for it.

`MicrophoneImplementsRegister`: without a web request, the
microphone speaks to a command register that keeps the sleep lock.

**One loop, one speaker** (`RegisterProofs`). `MemoryIsTheLatest`: when all activations share
an event loop (`OneLoop`) the memory is the latest of what was activated, in order.
The invariant `InOrder` says where an activation can be when the others run: between
swap and append there is at most one, whose entry is the last activated and still
missing from the memory. `SleepLockHolds` and `Implementation`: with one speaker
(`OneSpeaker`) no step goes from `SLEEP` to `MOVE`, and the brain implements `CommandRegister`.
The invariant `Current` says that the state and the history in a prompt are still
those of the brain when the answer comes, so that the gate of the rules (`SleepLock`
of `RulesProofs`) was asked about the state that the answer is applied to. With two
threads this is what fails (finding 3).

**Publisher, link and bridge** (`TeleopProofs`). `BridgeRefined` shows that every behaviour
of the composition is one of `Bridge` alone, which brings in all that is proved there;
it rests on `FrameTyped` and `WireBounded`: what the publisher writes is a frame of the
wire, inside the bridge's limits. Then, for every set of commands and every timing:

* `MotionStaysCurrent` (`MotionIsCurrent`), under every set of faults. The invariant follows a
  movement from place to place: in the copy it is at most `beat` old (`CopyCurrent`); waiting
  in the reader's cache, taken, in force, and in force while another frame is handled,
  it is no older than the bounds of `PathCurrent`, whose last one, with `FrozenWhenSilent`,
  is `StopDeadline`.
* `NoAlarmWhileBeating` (`NoFalseAlarm`), when neither the brain's process, nor its thread, nor
  the link fails and `MaxSleep + 2 MaxWork <= WatchdogTicks` (`HeartbeatHolds`). The bridge may
  start late, fail and be restarted. `BeatHeard` compares the silence with the time since
  the last frame was written, unless a newer one waits in the cache or is about to be
  handled. The inequality is exact: one tick less is violated. In the code it is 500 ms
  against a sleep of 20 ms.

**Sleep lock on the robot** (`SleepLockProofs`). `SleepLockReachesRobot` (`StandsBeforeWalking`), for
every set of commands, set at any time and in any order, whichever process fails
or is restarted. It assumes (`ClicksArrive`) a link without outages, and that a click
outlasts the longest time between two `take()`s (`2 MaxWork + MaxSleep < HoldFrames *
SleepTicks`, in the code 200 ms against about 20). The invariant `SleepLockCarried` has three parts.
`TopicOrderly`: while `STAND` or `MOVE` is clicked, the robot is out of sleep, or the click waits
in the cache and will be renewed before it can be overwritten (`Clicking`). `StandSettles`: how
long `STAND` can be the robot state before the robot is out of sleep (`StandDelay`), and
before nothing is left on the way of a `MOVE` that was set earlier. `WalkInOrder`: without a rash
walk, at no place on the way (frame taken, cache, copy, robot state) does a `MOVE`
follow a `SLEEP`.

Only model-checked: the properties that need fairness (`ShutdownCompletes`,
`StateActivated`, `Served`, `KeepsListening`), which are beyond the prover, and the five
disagreements of section 4, which are counterexamples.

## 6. Not modelled

* `llamarules.py`: nothing imports it (`brain.py:8` is a comment). It is a prompt of
  numbered steps several of which match the same text: "faster" has no direction
  word, which step 2 answers with the current state and `STOP`, and is a command of step
  4. What a model that obeys would answer is open.
* `src/backup`: older versions of the same files, which no build or import uses.
* The generated code of `JoyData` (`JoyData.hpp`, `JoyData.cpp`), the installed CycloneDDS
  headers (`cyclonedds_install`), and build files. They are nearly all of the
  repository's lines: the program's own code is about 1300 of 88000, and the models
  cover the part of it that has behaviour. The topic and the reader's cache are
  modelled as the program uses them, and marked external.
* Rounding to two decimals in `publish_movement` (velocities are in hundredths from the
  start), the log lines and their signature, `priority` and the noise on `axes[5]`.
* The history read for the prompt (`brain.py:42`) is one step: see above.
* HTTP, audio and its settings, the API key, and what a language model answers when
  it does not follow its prompt, missing fields excepted.

## 7. Plan

Done: inventory; `JoyData`, `Bridge`, `DeadManSwitch`, `Publisher`, `Teleop`, `Rules`, `Brain`,
`CommandRegister`, `Voice` and `SleepLock`, each with its runs; every safety property of
the runs proved, and the refinements of `DeadManSwitch`, `CommandRegister`, `Brain` by
`Voice` and `Bridge` by `Teleop`.

Next, in this order:

1. The safety halves of the liveness arguments: that a robot state which stays
   reaches the robot's mode within a bounded time on a link that holds (the
   invariant `SleepLockCarried` for every mode and not only `STAND`), and what a pass after a
   signal leaves of the robot (`ShutdownCompletes` up to the promise that it ends).
2. `Brain` and `Teleop` composed: how far apart the states that `Voice` sets are when one
   speaker waits for the language model, which decides whether its walks are rash.
