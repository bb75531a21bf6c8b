# Verification of the ZedBoard secure channel

A PC talks to a ZedBoard over a UART. The board's processor (PS, C firmware)
drives programmable logic (PL, SystemVerilog) over AXI4-Lite. The logic runs
ML-KEM-512 decapsulation with a fault-protected control path, derives traffic
material, keeps up to 64 sessions in one block RAM, and seals and opens packets
with ChaCha20-Poly1305. A second demonstration drives two such boards from one
PC and hands moving vehicles over between them. This directory models the
control of that system in TLA+, checks it with TLC on small instances, and
proves parts of it with TLAPS.

The models follow `src/outputs/rtl_aead/` (RTL, firmware, PC client) and
`src/outputs/two_board_demo/pc/` (handover demonstration).
`src/zed_pqc/` holds copies of the same RTL and firmware for the Vivado project.

## 1. Inventory

| Component | Source (under `src/outputs/`) | State | Operations |
|---|---|---|---|
| Session manager | `rtl_aead/rtl/aead_session_manager_bram.sv` with `aead_fixed64_engine.sv` | session RAM (24 words a slot), valid bits, working copy, latched request and response | install, invalidate, serve a request, reset |
| Fault-protected top | `mlkem_secure_channel_fault_protected_indexed_axi_top.sv` | protection state, two-rail secret, transcript and material, registered comparisons, hash counter, watchdog, sticky fault, outstanding bit | handshake, response tracking |
| Material core | `secure_channel_material_bram_core.sv` | pending, accepted, latched material | hand one installation to the manager |
| Handshake and traffic front-ends | `mlkem_decaps_axi_lite_frontend.sv`, `aead_traffic_indexed_axi_lite_frontend.sv` | registers, launch, in-flight and done bits | START, CLEAR, result capture |
| Decapsulation and hash engines | `mlkem512_decaps_shared_engine.sv`, `mlkem512_kpke_reencrypt_shared_engine.sv`, `mlkem_shared_hash_engine.sv` | step of the schedule, failure flag | a fixed order of hash commands |
| Firmware demonstration | `ps_driver/uart_secure_demo.c`, `aead_hw.c`, `secure_channel_hw.c`, `mlkem_decaps_hw.c` | active bits, generations, session ids | STATUS, OPEN, LEAVE, DATA, QUIT |
| PC client | `pc_tools/uart_secure_client.py` | sessions and counters, current user | join, leave, echo, churn, status, quit |
| Bring-up, validation | `zed_pqc_bringup.c`, `pqc_64session_validation.c` | none of their own | fill all slots, then start the demonstration |
| Packet scheduler | `pqc_session_scheduler.c` | ready bitmap of two words, cursor, one request a slot | submit, take next |
| Four-session design | `aead_arbiter_4session.sv`, `aead_axi_lite_wrapper.sv`, ... | sessions, last grant | the earlier arbiter: grant, serve, configure |
| Earlier tops | `mlkem_secure_channel_*_axi_top.sv` without `indexed` | subsets of the indexed top | superseded |
| Handover controller | `two_board_demo/pc/simulator.py`, `demo_pr5.py` | vehicles, pending commands, reservations, next id | frame update, collect a result, handover, retry, exit, respawn, attack, pause, shutdown |
| Board workers | `BoardWorker` in `board_link.py` | command and result queues, slots table, whether the board has SWKEM | open, leave, data, timing, stop |
| Serial board links | `serial_board_v2.py`, `board_link_v2.py`, `board_link.py`, `pqc_crypto.py` | port, local session map with counters and keys | start, reset, open, leave, data, timing, close |
| Datapaths, ML-KEM controllers | ChaCha20, Poly1305, Keccak, polynomial units | working memories | fixed schedules over wide data |

How they interact. The client sends one text command and waits; the firmware
reads one command, calls a driver, which writes front-end registers and polls
for a result; the front-end hands the request to the manager, or the launch to
the top; after an agreed handshake the top offers material to the material core,
which installs it in the manager between two requests. All logic shares one
clock. There is no interrupt and no second thread on the board.

In the handover demonstration the window's frame loop runs the controller; each
board has a worker thread that takes commands from a queue, calls its serial
link, and puts results into another queue. The controller chooses a slot from a
table the worker's thread writes and from its own reservations, and matches
results to vehicles by id.

What is hard, and what makes each part correct:

* Manager. A session is 24 words written and read one at a time; a reset keeps
  the RAM and clears the registers, and the packet counters are two words each.
  Correct when every request sees one whole installation, counters count exactly
  the packets, no nonce repeats, and packets open in order and once.
* Top. Comparisons are registered, several assignments compete in one clock (the
  watchdog against the state machine), faults may come in any clock, and traffic
  runs during a handshake. Correct when a failed handshake installs nothing, a
  successful one installs its own material, faults do not outlive their
  handshake, everything ends, and an answer belongs to its request.
* Firmware and client. Lines are lost, replaced by noise, or late; operations fail halfway;
  the board restarts and forgets its generations; the user stops the client.
  Correct when both sides agree on every session the client still uses and no
  key and counter is used for two payloads.
* Scheduler. A masked two-word scan must equal a cyclic scan and starve nobody.
* Handover controller and workers. A free slot is found from two views that
  change on two threads; results are matched by ids that are used again; calls
  fail, are retried, and vehicles leave and come back meanwhile. Correct when the
  two threads together hand slots out as one allocator would, no vehicle loses its
  session by a failed handover, commands find their sessions, nobody waits for ever
  and closing the window ends every thread.
* Serial links. A call takes the next line as its answer, and a call that gives up
  leaves its answer on the line. Correct when what the PC holds and counts is what
  happened on the board, and a link comes up again after anything.

`PROJECT.json` lists the components with their status, and under `hazards` each
of these dangers at the line where it bites.

## 2. Modules

| Module | Models | Composes or refines |
|---|---|---|
| `SessionTable` | abstract: slot -> (material, tx, rx), one request served atomically | |
| `AeadSessionManager` | the manager, one action per state transition | implements `SessionTable` |
| `AeadSessionManagerProofs` | invariant and theorems of the manager | extends it |
| `AeadSessionManagerRefinement` | its refinement of `SessionTable`, proved | extends the proofs |
| `FaultProtectedTop` | top, front-ends, engine schedule, material core, manager phases; one step per clock | composes five components |
| `FaultProtectedTopProofs` | invariants and theorems of the top | extends it |
| `SecureEcho` | client, firmware, session table and UART | stands on what the two above establish |
| `SecureEchoProofs` | invariants and theorems of the demonstration | extends it |
| `RoundRobin` | abstract cyclic queue | |
| `SessionScheduler` | the packet scheduler, one action per call | implements `RoundRobin` |
| `SessionSchedulerProofs` | invariant, theorems and refinement of the scheduler | extends it |
| `SlotLease` | abstract allocator of session slots | |
| `HandoverController` | controller and both workers with their queues | implements `SlotLease` |
| `HandoverControllerProofs` | invariant and theorems of the controller and workers | extends it |
| `HandoverLeaseProofs` | their refinement of `SlotLease` | extends the proofs |
| `BoardSerialLink` | the three link classes, the line, and the board behind it | the calls a worker makes |
| `BoardSerialLinkProofs` | invariant and theorems of a link | extends it |
| `MC...` | small instances | |

On the board, three levels of detail meet. `AeadSessionManager` shows that the word-level
manager behaves as an atomic table. `FaultProtectedTop` uses the manager by its
phases (idle, configuring, busy, response) and shows what a handshake does to
the table. `SecureEcho` then takes a handshake and a request as single steps of
the table, with the failures the top can report. In the handover demonstration
two levels meet: `BoardSerialLink` shows what a call of a link does to the board,
and `HandoverController` takes a call as one step that works or fails.

Definitions keep the names of the source. A definition whose name ends in a
capitalised word (`slot_base_Shared`, `NextState_NoGuard`) is a *slip*: the code
with one plausible mistake. No specification uses a slip. `PROJECT.json` names,
for each property, the slip that makes the property fail when it replaces the
real definition, which shows that the property constrains the code.

### AeadSessionManager

`mem` is the RAM, addressed by `slot_base(s) + w` as in the source;
`session_valid`, `state`, `cfg_word_q`, `read_word_q`, `active`,
`updated_counter_q` and the response registers are the registers. `CfgImmediate`,
`CfgAccept`, `CfgWrite`, `ReqAccept`, `ReadIssue`, `ReadCapture`, `Check`,
`EngineDone`, `CountWriteLo`, `CountWriteHi` and `RspTake` are the branches of
the clocked case statement; `DoneFalls` is the end of the one-clock `cfg_done_o`
pulse and `Reset` the reset branch. Abstractions:

* Traffic material is a symbolic value `m`; word `w` of it is `<<m, w>>`, so
  a torn or misplaced word is visible. The engine opens a packet exactly when
  session id, key and prefix it is given are those the packet was sealed under.
* A counter word has `WORD_BASE` values instead of 2^32. The 64-bit wrap is out
  of reach by the named bound `Headroom`.
* A register whose content nobody reads any more is `None`.
* A configuration offered together with a request goes first in the code; here
  either may be taken, a superset. Starvation is therefore studied in
  `FaultProtectedTop`, where the priority is exact.

History variables `installed`, `tx_used` and `rx_used` record what was installed,
sealed and opened; no guard but the bound `Headroom` reads them.

### FaultProtectedTop

One step is one clock of the whole design: each variable's next value is computed
from the values before the edge, and where the RTL assigns twice, the last
assignment wins (`NextState`, `FaultRaised`). The inputs of a clock are a command
to each front-end and at most one fault: one of the RTL's `fault_inject_i` bits
(wrong hash command, secret, transcript or material rail, lost hash completion,
spurious response) or a sampling failure of the hash engine. A two-rail register
is represented by whether its rails agree. The manager's transfers are
shortened to `CFG_CLOCKS` and `OP_CLOCKS` clocks.

### SecureEcho

Firmware actions (`Fw...`) are one command each; DATA takes two steps, because
opening and sealing are two requests and the session may be disturbed between
them. Client actions (`User...`, `Churn...`) send a command; `Receive`,
`Timeout` and `Interrupt` end the wait; any unexpected answer ends the client
(`Exit`), as `main` does. `LoseCommand`, `LoseAnswer` and `FwNoise` are the
line: a line is lost, or noise comes in its place; one whose content is altered
but keeps its form is not modelled (section 5). A failed OPEN leaves the fault flag
up or down, since the decapsulation can fail without a fault. `Glitch` is the sticky fault flag raised between handshakes, in the boots
listed in `GLITCHES`. With the known-answer secret the keys of a session are a
function of its id, so an id stands for its keys. `boot`, `board_nonces` and
`client_packets` are history (a READY answer carries `boot` as history too).

### SessionScheduler

A bitmap word is the set of its bits; `candidate` is the masked scan of the start
word, the other word, and the rest of the start word. `pending` keeps a taken
request as the C array does. `waited` is history. Nothing in the firmware calls
the scheduler yet.

### HandoverController

`vehicles`, `next_vehicle_id`, `reserved` and `running` are the fields of
`DemoController`; `commands` and `results` are the two queues of each worker;
`slots` and `sw_supported` are the worker's statistics the controller reads.
`_pending` is what is in the two queues (`Pending`), because a key enters it with
the command and leaves it with the result. `ui` and `port` are the shutdown.

| Action | Code |
|---|---|
| `StepVehicle` | `_step_vehicle`: retry that is due, or motion with handover, exit and telemetry |
| `ScheduleSwkem` | `_schedule_swkem` |
| `Collect` | `_collect_results` for one result, with `_handle_open`, `_handle_leave`, `_handle_error`, `_respawn` |
| `Attack`, `ToggleRunning` | `attack_selected`, `toggle_running` |
| `Work` | one turn of `BoardWorker._run`, with `_run_swkem` |
| `Quit`, `Shutdown` | end of the main loop, `shutdown` and `BoardWorker.stop` |

`update()` is split into a step a result and a step a vehicle: a worker may run
between any two of them. Abstractions: a position is before the boundary, on it,
or after it, and a vehicle may be held up at any step by the one ahead; waiting
for a moment (a retry, a packet, a timing) is a step that may come at any time;
the mock and the serial link differ in which calls they refuse. `faults` counts
failed calls and `full` records that a board had no free slot; both are history.

### BoardSerialLink

`link`, `call`, `sessions` are the link object on the worker's thread; a call
sends a line (`Start`, `open_session`, `leave_session`, `send_data`, `sw_kem`) and
`Receive` or `Timeout` ends it. `LINK` selects the class: `serial_board_v2` says
HELLO and RESET when it starts, `board_link_v2` HELLO only, `board_link` STATUS.
A new encapsulation is a new number, a packet names the keys, session, counter and
contents it was sealed with, and opens for whoever holds the same keys. `Board` is
the command loop of `uart_secure_demo.c`, to which `board_link.py` talks. The
firmware of the other two classes, `uart_two_board_demo.c`, is not in the repository;
it is taken to answer OPEN, DATA and LEAVE in the same way, HELLO and RESET as the
links use them, and SWKEM as in `swkem_patch.c` or with ERR. An OPEN may be refused,
which leaves the session of its slot alone. `LoseLine` loses a line or cuts an answer in
two; an echo that fails after its packet was opened (ERR TX) is to the PC what a cut
answer is. `opened`, `opens`, `faults`, `starts` and `late` are history and
bounds.

## 3. Runs

| Run | Bounds | Shows |
|---|---|---|
| `manager_slots` | 2 slots, 2 materials, 1 key word, words of 2 values, fair | `CountersMatchHistory`, `OpenedOnceInOrder`, `AcceptedCompletes`; the manager implements `SessionTable` |
| `manager_reset` | 1 slot, 2 materials, reset at any clock | `NoTornOperands`, `NonceNeverRepeats` |
| `top_faults` | 1 slot, 2 ciphertexts, 5 fault kinds in any clock | six invariants on handshakes and traffic |
| `top_stall` | 1 slot, lost completions, fair | the watchdog ends each handshake; requests are answered |
| `top_spurious_install` | spurious responses | violation, see findings |
| `echo_agree` | 2 slots, 2 generations, 3 joins of one slot and 1 of the other, 1 restart, glitches before it | `SessionsAgree` under loss, noise, failed handshakes, restarts |
| `echo_keys` | 1 slot, 2 payloads, late answers, glitches | nonces never repeat, stale packets are never echoed |
| `scheduler` | 4 slots in words of 2 bits, 2 requests and one too long | `NotStarved`, and the scheduler implements `RoundRobin` |
| `handover_faults` | 2 vehicles in opposite directions, 2 slots a board, 1 failing call | `SlotsExclusive`, `SessionsBacked`, `IdsDiffer`, `SessionKept`; a failed call costs one slot at most (`FailureCostsOneSlot`); nothing left behind without a failure (`NoOrphanSession`); controller and workers implement `SlotLease` |
| `handover_live` | 1 vehicle from any place, serial and mock, packets, attacks, timings, pauses, 1 failing call, quitting, fair | `CommandsFindTheirSession`, `WaitEnds`, `ThreadsEnd` |
| `handover_retry` | 1 vehicle, 1 failing call | violation, see findings |
| `link` | 3 classes, 2 slots, 2 OPENs, 2 faults, 2 starts, fair | `HeldSessionAgrees`, `StartsEmpty`, `EchoMeansOpened`, `LeftMeansLeft`, `ComesUp` |

Why the bounds are enough. Two slots show every way in which one slot can
disturb another, since the manager serves one at a time; two materials show an
old and a new installation; words of two values make the counters carry from
the low word to the high word at the second packet. `SLOT_SPAN` exceeds
`NUM_SESSIONS` in the one-slot run, so the range check of the slot is met. A
watchdog of 26 clocks is the smallest under which an undisturbed stage ends in
time (with 25, `CleanHandshakeSucceeds` fails), so it is checked at its limit.
Three joins with two generations make ids wrap; two packets a session move a
counter past its first value; two or three lines let answers pile up. Two bits a
word put the cursor at the first and the last bit of both words.

Two vehicles cross on both boards and compete for the slots of each; with two
slots a board holds one session for each of them and fills up when one is left
behind, so that refused handovers happen. One failing call is enough for a retry,
a vehicle with two sessions, and a slot that is lost. Ids are used again as soon
as a vehicle is replaced. One vehicle is enough where the question is the order of
commands in one queue; the packets, attacks and timings it is asked about would
multiply the states of two. Two OPENs give a link a session and another one, in
the same slot or the other; two faults lose a line and cut or delay another; two
starts meet what the first run of the program left behind.

Fairness. `manager_slots`: the state machine advances every clock (weak fairness
of its steps), the engine's run is a fixed number of clocks, and `rsp_ready_i`
is the front-end's in-flight bit, which is set whenever a request was accepted.
`top_stall`: weak fairness of the clock, nothing else. `handover_live`: the frame
loop runs sixty times a second and collects in every frame, the operating system
runs both worker threads, and `shutdown` goes on when its wait of two seconds is
over; nothing is assumed of vehicles, of the user, or of calls succeeding. `link`:
the board answers what it reads, a call reads or gives up at its deadline, and
the user starts a program that has ended again. `SecureEcho` has safety properties
only.

Deadlock is checked except in two runs: in `handover_live` the program ends when
the window is closed, and in `link` the number of starts is bounded.

## 4. Proofs

Every safety property the passing runs check but `FailureCostsOneSlot` is also a theorem,
for every value of the constants that the named assumptions allow; `ServedByItsSide` is
proved only. A theorem with a condition says which instances it is about; the condition
is needed, as section 5 shows.

`AeadSessionManagerProofs` proves, for every number of slots, key length, word
size and set of material, from `ManagerAssumption` alone:

| Theorem | Property |
|---|---|
| `TypeCorrect` | `TypeOK` |
| `OperandsWhole` | `NoTornOperands` |
| `CountersExact` | `CountersMatchHistory` |
| `NoncesFresh` | `NonceNeverRepeats` |
| `OpenedInOrder` | `OpenedOnceInOrder` |

The properties are not inductive: that the engine starts on whole words depends
on what the read loop copied, which depends on what the RAM holds, which depends
on how far an installation got. The inductive invariant `IInv` says this for
every state of the machine: `StoredSession` (a valid block that is not being
replaced is one installation and two counts), `WrittenSoFar` (a block being
replaced is complete below `cfg_word_q`), `CopiedSoFar` (the working copy
equals the block below `read_word_q`), `HistoryMatches` (packets of a direction
are 0 .. Due - 1, where `Due` is the stored counter adjusted while a packet is
in the engine or its counter is being written), `Room`, `InOrder` and
`LowWritten` (the low word is already new when the high word is written).

The arithmetic stands in lemmas of its own: `Layout` orders the words of a
block, `BlockOrder`, `AddressOf` and `AddressInjective` keep blocks apart (the
one nonlinear fact), `SplitCounter` joins and splits a counter. One lemma per
kind of step then shows that `IInv` is preserved (`AcceptInstall`,
`WriteBlock`, `AcceptRequest`, `CopyWord`, `StartEngine`, `EngineSucceeds`,
`WriteLow`, `WriteHigh`); `Settled` covers the steps that leave the RAM and all
counts alone, `InvariantStep` puts them together. A reset needs nothing
special: it empties `session_valid`, so a half-written block is never claimed to
be a session until it has been written again from its first word.

`AeadSessionManagerRefinement` proves, from the same assumptions and that `None` is no
value of the RAM or of a register (`NoneAssumption`):

| Theorem | Property |
|---|---|
| `ImplementsTable` | `ImplementsSessionTable` |

The view of the table reads words out of the RAM. Under `IInv` the entry it gives a slot
is `Entry`, which speaks of what was installed and of two counters, not of cells
(`ViewOfTable`). Two facts join `IInv` in `RInv`: a valid slot holds material that was
installed (`InstalledMaterial`), and the request and response registers hold what the
state of the machine needs (`Answering`). An entry changes at four points only: the
acceptance of an installation, a removal, the success of the engine, and a reset. There
is one lemma per kind of step: the engine's success is the table's `Grant`
(`GrantStep`), a failed check or the engine's failure its `Refuse` (`CheckStep`,
`EngineRefuses`), and writing a block or the two words of a counter, reading and copying
are stutters (`BlockStep`, `HalfStep`, `QuietStep`).

`SessionSchedulerProofs` proves, for every length of a bitmap word and every set
of requests, from `SchedulerAssumption` alone:

| Theorem | Property |
|---|---|
| `TypeCorrect` | `TypeOK` |
| `NobodyStarves` | `NotStarved` |
| `CyclicQueue` | `ImplementsRoundRobin` |

`Position` and `SlotOf` take slots apart into word and bit, `FirstSetBit` shows
that a word that is not zero has a lowest bit (natural numbers are well
founded), and `Chosen` that each of the three branches of the scan finds the
pending slot nearest to the cursor, going round. `NotStarved` alone is not
inductive; `PassedOver` is: the takes a slot has been passed over, plus its
distance from the cursor, stay below the number of slots, because every take
brings the cursor nearer (`Nearer`).

`FaultProtectedTopProofs` proves, for every set of slots and ciphertexts, every
length of a stage and of the manager's transfers, and any number of faults in any
clocks, from `TopAssumption` and `NoneAssumption` and the conditions named:

| Theorem | Property | Condition |
|---|---|---|
| `TypeCorrect` | `TypeOK` | |
| `RailsAgree` | `InstallNeedsAgreement` | |
| `FailureInstallsNothing` | `FailedHandshakeInstallsNothing` | `NoSpurious`, `InstallFits` |
| `SuccessInstallsItsOwn` | `SuccessInstallsItsMaterial` | `NoSpurious`, `InstallFits` |
| `AnswersMatch` | `AnswerIsForRequest` | `NoSpurious`, `InstallFits` |
| `CleanSucceeds` | `CleanHandshakeSucceeds` | `Reliable` |

`NoSpurious` excludes made-up response pulses; the first finding shows that it is
needed. `InstallFits` says that a stage outlasts a request and an installation
(`MAX_STAGE_CYCLES > OP_CLOCKS + CFG_CLOCKS + 3`); in a build in which it does not,
the watchdog could fail a handshake whose installation goes on. `Reliable` adds
that no hash completion is lost, and that a stage outlasts twelve hashes and the
clock after them (26 clocks in the model). The source's limit is 300000 clocks.
There are three invariants, each on top of the other. `FaultInv` holds in any build:
a comparison that is read is of the value that is stored (`Compared`), hashes are
counted (`Counted`), and a tampered ciphertext is known to be one unless its
decapsulation began under an earlier handshake, and then the hash count is wrong
(`Rejected`). `InstallInv` adds that request, outstanding bit and manager agree
(`Served`), that the material core is used in C_WAIT only and goes through four
phases (`Installs`), and that the clocks left of an installation and the clocks
the watchdog has counted add up to less than its limit (`InTime`). `CleanInv` adds the
exact schedule of a handshake (`OnSchedule`) and that nothing is wrong in one without
faults (`Untroubled`). All three are proved for a whole clock at a time.

`SecureEchoProofs` proves, for every set of slots and payloads, any length of the queues
on the line, and any number of lost lines, noise, faults, and clients stopped and
started, from `EchoAssumption` and `NoneAssumption` and the conditions named:

| Theorem | Property | Condition |
|---|---|---|
| `TypeCorrect` | `TypeOK` | |
| `PayloadsApart` | `OnePayloadPerNonce` | while `NoIdReused` |
| `StaleRefused` | `StaleNeverEchoed` | while `NoIdReused` |
| `EchoNoncesNew` | `BoardNonceNeverRepeats` | while `NoIdReused` |
| `AgreementKept` | `SessionsAgree` | `LATE = FALSE`, `GENERATIONS > 1`, no glitch after a restart |

The keys of a session are a function of its id, so what is said of keys holds as long as
no id is given twice. `NoIdReused` says just that: the board has not been restarted and
no generation has gone round its field, which has 2^22 values in the firmware. Answers
may be of any age in these three. `AgreementKept` has no such limit: ids repeat, the
board restarts, and the two sides still agree. Its conditions are on the instance:
answers come within the client's patience, the generation field can tell two
successive sessions apart, and no fault flag is raised between handshakes once the
board has been restarted.

There are three invariants. `Asking` ties the client's command to the step of `/churn` it
is in and to a session it holds (`Awaiting`), and the ids announced to those of the
firmware and the logic (`Announced`); with the types it is inductive by itself. `Keys` is
about history: an id on a READY line has sealed nothing yet (`ReadyIsNew`), what has
been sealed under a session is below its counter except the packet under way
(`SealedBelow`), a packet sent for a session that was left is of an id that is gone
(`StaleGone`), and the board's echoes are below its counter (`NoncesBelow`).
`Dialogue` is where the lock step of command and answer is said: a command the client
waits for is on its way (`Unsent`), between its two requests of the logic (`Served`), or
answered, with one answer on the line that is not noise and that fits (`Answered`); in each
the counters of the two sides differ in a known way. `Stopped` and `QuitLast` are what an
exit leaves on the line, `LastId` and `ChurnApart` keep the two sessions of a `/churn`
apart when ids go round.

`HandoverControllerProofs` and `HandoverLeaseProofs` prove, for every number of
vehicles, slots and failing calls, from `HandoverAssumption` and the conditions named:

| Theorem | Property | Condition |
|---|---|---|
| `TypeCorrect` | `TypeOK` | |
| `IdsNeverClash` | `IdsDiffer` | |
| `SlotsNeverShared` | `SlotsExclusive` | |
| `SessionsStayBacked` | `SessionsBacked` | |
| `SessionsAreKept` | `SessionKept` | |
| `CommandsFindSessions` | `CommandsFindTheirSession` | |
| `NothingForgotten` | `NoOrphanSession` | |
| `ServedBySide` | `ServedByItsSide` | no vehicle starts on the boundary |
| `SlotsAreLeased` | `ImplementsSlotLease` | |

`SlotsExclusive` is about what vehicles know and what is in queues, and says nothing
of what a board has open; so it is not inductive. A slot goes from hand to hand:
free, reserved for an OPEN in a command queue, opened by the board and reported in a
result, used by a vehicle, given up in a LEAVE, free. `IInv` says that it is in one
hand only and whose: `Asked` (an OPEN's slot is reserved, and nobody uses it),
`Opened` (free until the worker has opened it, then under the id of the command),
`Used` (open under the vehicle's id, and used by one), `GivenUp` (open until its
LEAVE is carried out, used by nobody), `Kept` (a session that is kept for a switch
is the one in use). `OneOrder` and `Owned` tie commands and results to the one
vehicle that stands still for them, which is why matching results by id is safe
although ids are given out again. The refinement needs two facts more: `Held` (a slot
stays reserved only while its OPEN is on its way, so that the controller's choice is
the lowest slot that is really free) and `IdsWrap` (an id is a tenant of the
allocator). `Effect` lists what a step can do to slots and OPENs; each is a step of
`SlotLease` or changes nothing it sees.

The other three invariants stand on `IInv`. `Packets` follows the order of a queue: a packet
is for a session that is open, and no LEAVE of its slot is ahead of it, because packets
are sent only by a vehicle that uses the session, and it stops using it when it sends
the LEAVE (`Used`, `GivenUp`). `Tidy` holds until a call fails or a board is full: no
retry is due, an OPEN was asked for to enter the road or to cross the boundary, and every
open slot is in somebody's hand (`InHand`). It also needs that, as long as the window is
open, a call the link could make does not fail by itself, which is where `IInv` says
what a worker finds when it takes an OPEN or a LEAVE. `Sides` adds the board a vehicle
has, or has asked for, at each place on the road. To keep these proofs short, `TurnOf`
and `CollectionOf` first say once what a vehicle's turn and a collected result do
(`Turn`, `Collection`); all four theorems use them.

`BoardSerialLinkProofs` proves, for all three link classes, every number of slots and
vehicles, and any number of lost, cut and late lines, refusals and restarts, from
`LinkAssumption` alone:

| Theorem | Property |
|---|---|
| `TypeCorrect` | `TypeOK` |
| `EchoesWereOpened` | `EchoMeansOpened` |
| `LeftsWereLeft` | `LeftMeansLeft` |
| `HeldAgrees` | `HeldSessionAgrees` |
| `StartsOnEmpty` | `StartsEmpty` |

Because an answer may be read by a later call than the one it was meant for, what a call
concludes cannot rest on what it asked. `IInv` says what each line is worth
whenever it is read (`Lines`): an echo on the line is of a packet the board has opened,
and the session of a LEFT on the line is gone, with a number no later session will
have (`Numbered`).

`InStep` is what a call may rest on while none has given up early, for the links that
start with an empty board or are started once. Then one exchange is under way at a
time: when the link is up and no call is made the line is empty, and during a call the
one line on it is the command or an answer that fits (`Up`, `Fits`), so that the session
kept for a slot is the board's, with the board at most one packet ahead (`Paired`,
`Agree`). A start meets what the program before it left behind, which is one line at
most (`Closed`); it is used up by the HELLO (`Greeting`), so the answer that ends
`Resetting` is to the RESET of this start, after which the board is empty.

Only model-checked: liveness (`AcceptedCompletes`, `HandshakeEnds`, `RequestAnswered`,
`WaitEnds`, `ThreadsEnd`, `ComesUp`), which is out of the prover's reach together with
ENABLED; and `FailureCostsOneSlot`. The properties of the two runs that find a violation
do not hold of the code.

## 5. Findings

1. `top_spurious_install`. `FAULT_PROTECTION.md` says that no failed or faulted
   handshake installs a session. A spurious response pulse while the material
   is being installed raises the fault after the installation was committed.
   (That document is about the top without `indexed` in its name, whose state machine
   is the same.)
2. `handover_retry`. `simulator.py` calls itself a make-before-break handover. When
   the OPEN at the boundary fails and is tried again, the retry has another reason,
   and the session it leaves is never sent its LEAVE: the old board keeps the slot.

Seen while modelling, without a run of its own:

* `ps_driver/README.md:69` says that session ids differ, so that each join derives
  separated keys. Generations are volatile and the ciphertext is fixed, so the first
  join of a slot after a restart of the board has the id, and the keys, of its first
  join before it. `BoardNonceNeverRepeats` is about one boot.
* `FAULT_PROTECTION.md:20` says that outstanding tracking suppresses an unexpected
  response pulse. While a request is outstanding a spurious pulse is taken for
  its answer, and no fault is raised. `AnswerIsForRequest` is checked without them.
* `join_session` compares the slot of READY and takes its session id as it comes
  (`uart_secure_client.py:106`). A READY whose id is altered on the line, and still
  reads as one, would give the client keys the board does not have; its next packet
  fails and it exits. The line of the model loses or replaces lines and never alters one.
* After a failed handover that a later crossing makes good, the retry is still due
  (`simulator.py:316`): the vehicle opens a second session on its own board and the slot
  of the first stays taken. A LEAVE that fails on exit (`simulator.py:529`) leaves its slot
  taken too. `FailureCostsOneSlot` says that such losses do not add up: one failed call
  costs one slot.
* A lost hash completion leaves the decapsulation engine waiting after the
  watchdog has ended the handshake, so later clean handshakes fail until reset.
  `CleanHandshakeSucceeds` is checked without lost completions.
* READY is matched on the slot only. If answers may be later than the client's
  sixty seconds, a stale STATUS and a stale READY together give the client a
  session the board no longer has. The firmware answers within about a second,
  so `SessionsAgree` is checked with `LATE = FALSE`; `echo_keys`, whose
  properties survive late answers, has `LATE = TRUE`.
* After a restart ids repeat, so with a fault flag raised as well an old packet
  may be opened under a new session while its answer says it failed, and the
  counters go out of step. `echo_agree` therefore has glitches before its restart
  only.
* With 64 vehicles `_next_vehicle_id` starts at 64 (`simulator.py:114`), and the
  first vehicle that is replaced asks under an id `board_link_v2.py:105` refuses.
* A vehicle from B that stands exactly on the boundary when the program starts
  never crosses it and is served by B to its end.
* A lost SWKEM answer marks a board as one without the command for good
  (`serial_board_v2.py:96`, `board_link.py`), where the comment at line 92 says
  None is for firmware that does not implement it.
* READY does not name the encapsulation it answers. After an OPEN that gave up,
  the next OPEN of the slot may take the late READY and derive keys the board does
  not have; such a session never counts a packet (`EchoMeansOpened`), and
  `HeldSessionAgrees` is about calls that wait long enough. `StartsEmpty` likewise:
  after two calls that gave up early a start may come up with a command of the
  earlier run still to be answered.
* `board_link.py` may open a slot it already holds, under keys that depend on the
  session id alone; `HeldSessionAgrees` leaves that class out.

## 6. Not modelled

* Datapaths (ChaCha20, Poly1305, Keccak, NTT, codecs) and the controllers that
  move polynomials: wide arithmetic with fixed schedules and no decisions.
* AXI channel handshakes, register decoding and payload buffers.
* The four-session arbiter with its wrappers and the earlier tops: the indexed
  manager and top replace them.
* Drawing, key generation, benchmark and build scripts, testbenches, vendored
  mlkem-native and Monocypher. The window's event handler only calls the
  operations of `HandoverController`.
* The known-answer comparison of validation and bring-up; only the sessions it
  leaves in the table appear, in `SecureEcho`.
* In the handover demonstration: speeds, lanes, gaps and the values of the
  timings; that an error message names the call that failed.

## 7. Order of work

Done, in this order: `SessionTable`, `AeadSessionManager` with its proofs,
`FaultProtectedTop`, `SecureEcho`, `RoundRobin`, `SessionScheduler` with its
proofs, `SlotLease`, `HandoverController`, `BoardSerialLink`, the proofs of the
links, of the handover demonstration and of the top, the manager's refinement of
`SessionTable`, the proofs of `SecureEcho`, and the rest of the safety properties.

Left, in order of worth: the two front-ends register by register with the driver's
polling limits, to replace the assumption that a driver call is answered; a
specification of the board's promise to `HandoverController`, which `BoardSerialLink`
would be shown to implement; the four-session arbiter as another implementation of
`SessionTable`.
