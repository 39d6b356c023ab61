# TLA+ verification of tvw-sdr

tvw-sdr is a Linux userspace driver for a USB TV/FM receiver.  It uploads two
firmware images, talks to the device's registers, to the 8051 inside it and,
over I2C, to a TDA18271 tuner, and then reads an isochronous byte stream from
which it cuts out "boundary sections" that carry the FM audio.

This directory holds TLA+ modules of its control logic, TLC configurations that
check them on small instances, and proofs checked by TLAPS.  Line numbers refer
to the files under `src/src/`.

## 1. Inventory

| component | state | operations | module |
|---|---|---|---|
| Deframer: `tvwsdr_deframe_isoch_data` (libtvwsdr.c 2330-2375) | `work_buf`, `work_buflen` | one call per packet: append or drop, scan, report, move | `SectionStream`, `Deframer` |
| Transfer engine: `tvwsdr_read_async`, `tvwsdr_xfer_cb` (2377-2454) | `xfer[15]`, `cb`, what libusb and the kernel hold | submit loop, event loop, callback, resubmission | `IsochEngine` |
| Receive path: both together | the two above | the engine's callback calls the deframer | `ReceivePath` |
| 8051 service calls: `tvw_uc_service_call` (util.c 280-313), `tvw_init_8051`, `tvw_finish_init_8051` (libtvwsdr.c 729-941) | mailbox registers f09c, f09f, f0a0..., reset bit f089 | clear, boot call, chains of calls with arguments, polling, acknowledge | `ServiceCall` |
| Firmware loading: `tvw_load_fw` (util.c 334-395) | file buffer, position, device memory | chunked upload with error paths | `FwLoad` |
| Device lifecycle: `tvwsdr_open`, `tvwsdr_close` (libtvwsdr.c 1981-2328), `main` of tvw_fm.c | context, handle, interface claim, structure, tuner state; reset and window registers of the device | a long acquisition sequence, an error path, early returns, chains whose result nobody looks at | `OpenClose` |
| Initialisation chains (libtvwsdr.c 39-728, 942-1980) | none of their own | fixed register accesses in `&&` chains | `InitChains` |
| Register transport (util.c 24-278) | none of its own; the device's window register and answers | two-phase bulk reads and writes, read-modify-write, 8051 window at 0x4400, E000 command | `Registers`, `RegisterTransport` |
| I2C master: `tvw_read_i2c`, `tvw_write_i2c`, `tvw_wait_bits` (util.c 315-332, 397-654) | I2C control registers of the device | chunked transactions, status polling | `I2CMaster` |
| TDA18271 tuner (tda18271-fe.c, -common.c, -maps.c) | shadow of 39 chip registers, calibration results | attach, initialisation, calibration, tuning | `Tuner` (transfers), `TunerTables` (tables), `RfCalibration` (arithmetic) |
| Player tvw_fm.c | none | argument parsing, a callback that writes audio | its calls of open and close: `OpenClose` |
| Dump tool isoch.c | an 8 KiB buffer | an offline deframer | not modelled |
| tvw-reg.h | none | generated constants | not modelled |

How they interact: `tvwsdr_open` runs everything else in one long sequence
(registers, first firmware, 8051 reset and mailbox, second firmware, boot call
and service calls, tuner over I2C, more registers).  Every operation on the
device ends in two bulk transfers.  Then `tvwsdr_read_async` gives transfers to
libusb; the kernel fills them while the program runs, and libusb calls
`tvwsdr_xfer_cb`, which calls the deframer, which calls the user.  The only
concurrency is with the outside: kernel and device fill buffers, and the 8051
reads and writes its mailbox, while the driver runs.

What is hard in this code:

* ownership of a transfer's buffer passes between the program, libusb and the
  kernel, and transfers drop out of circulation on failures nobody reports;
* lost bytes are never announced to the deframer, which has to fall back into
  step with a stream whose marks also occur inside sections;
* one fixed buffer, any packet sizes, unsigned offsets;
* the 8051 may answer after the driver has given up, and the mailbox survives
  from one program run to the next;
* a read that is given up between its header and its data leaves its answer on
  endpoint 0x82.  Nothing drains it and answers do not say what they answer, so from
  then on each read gets the answer to an earlier one; some callers go on after such a
  failure (the polling loops, the tuner), and the device keeps the answer for the next
  process;
* a transfer has no timeout (`BULK_TIMEOUT` is 0): a device that does not answer hangs
  the driver;
* `tvw_write_i2c` and `tvw_read_i2c` return 0 for bytes that the chip refused;
* many results are ignored (argument writes, submissions, the tuner's
  calibration, `tda18271_attach`), so an operation may go on after a part of it
  failed.

What makes each component correct: the deframer reports exactly the sections of the
stream; the engine gives every captured packet to the deframer once and in order, from a
buffer nobody else owns; a service call reports success only for its own execution with
its own arguments (as long as reads bring their own answers); a successful load leaves
the file in the device; open and close release what was acquired; an I2C transfer moves
each byte once between one start and one stop; the tuner's shadow agrees with the chip
wherever the driver relies on it, unless a transfer was lost unnoticed.  `PROJECT.json`
lists the hazards at their lines with the properties that cover each of them.

## 2. Modules

**SectionStream** is the abstract specification of the deframer: a stream, a cut
up to which it has been dealt with, and three actions: bytes arrive, the next
complete section is reported, and the stream is begun again when the pending
frame is longer than `MaxFrame`.  It has no buffer and no offsets.

**Deframer** is the code.  `work_buf` is the C array, stale bytes included, and
`tmpoffset` and `work_buflen` are the C variables.  One call is `Append_` (the
safety check and memcpy), `Deliver` (a turn of the do-while that reaches the
callback) and `Finish` (the turn that breaks, and the memmove).  A byte is a mark
or another byte, because the code compares with 0xff only.  `stream` and `calls`
are history variables: positions of what was received and reported.

**IsochEngine** has the program (`ReadAsync`, `Submit`, `Reap`, `Packet`,
`Resubmit`, `EventsFail`), where every submission may be refused and its result
is ignored as in the code, and outside of it `Microframe` and `XferFails`.  A
packet is named by its microframe; a microframe that finds no transfer queued
is an overrun.  `EventsFail` is the end of `while (libusb_handle_events() >= 0)`,
after which the program may call `tvwsdr_read_async` again while transfers are
still in flight: its `if (!dev->xfer[i])` keeps them, and libusb refuses the
second submission.

**ReceivePath** composes the two through `INSTANCE`.  Its device sends lines of a
frame and a section, with extra marks inside the section (the 0xff bytes of the
ancillary header), and each byte carries its device position, so that "what the
deframer reports" can be compared with "what the device sent".  The callback's
`Packet` is joined with the deframer's `Append_`, and the program waits in it
while `Scan` runs; device and kernel do not wait.

**ServiceCall** models a session (`tvwsdr_open`) access by access: hold reset,
clear the mailbox, check that no call runs, arguments, id, poll, acknowledge.
Each access may fail, and a failed write may have had its effect.  `Checked`,
`Modified`, `Ignored` and `RequiresClear` are the ways in which the code treats results.
The firmware (`Accept`, `SetFlag`, `ClearId`) is external and may answer at any
time or never; it finishes with two writes in either order.  The boot call is
call 0: its writes are checked, it is made with the 8051 in reset, and it looks
once at the flag.  `late` is the queue of answers that given-up reads have left on the
endpoint: a read takes the oldest and leaves its own (`Reads`), a failing one may leave
one more (`GivenUp`).  Only bit 7 of an answer is kept, which is what the driver tests.
The other registers that a session reads before `tvw_init_8051`, between two calls and
behind the last one move the queue on (`OtherReads` in `Open`, `Between`, `Close`).
`FallSilent` is the device that stops taking and answering transfers.

**FwLoad** sends a file whose bytes are their positions to a device memory with
a 16-bit offset.  `Minus` is subtraction of `size_t`, `Offset` the cast to
`uint16_t`; the sizes 2^64 and 2^16 are the constants `SizeWrap` and `OffsetWrap`.
Its names begin with `Load` where `ServiceCall` has the same, since one module holds the
proofs about both.

**Registers** and **RegisterTransport** are the abstract and the detailed view of
util.c's register functions.  To its caller such a function is one effect on one
register at some moment while it runs (`Registers`).  In the code it is one to
four accesses of two bulk transfers each, every transfer an action of its own
(`SendHeader`, `SendData`, `FetchData`, `TransferFails`): a plain register is read
or written directly, an 8051 register through the window at 0x4400, a command to
the firmware through E000.  The device queues answers, and an answer does not say
which register it is of; `stale` in `Registers` is what the caller has to know of
that.  `OpenClose` and `I2CMaster` take register accesses in the abstract form, as one
step with its `stale`: once an answer was left, a read may bring another register's
value.  `ServiceCall` keeps the queue itself, because which answer comes when is what its
polling depends on.

**InitChains** gives each initialisation function as the sequence of its
accesses.  Only the accesses of registers that hold something in reset, open the
8051 for an upload or start a stream are kept apart, with the bits the chains
switch; all others are `Other`, which may fail.  **OpenClose** runs these chains
as stages of `tvwsdr_open`, access by access.  A stage has, besides its accesses,
what the function does on a failure: `goto err`, return, leave out the rest of
the chain, or go on.  What a modification starts from and a comparison sees is `Seen`:
the register, or any value of its bits once an answer may be left (`stale`: by a read
that failed, by a service call, the tuner's transfers and the end of a process, or by
whoever used the device before).  Any process may be killed at any access, the device
keeps its registers, and the next session finds them.  `CloseAfterFailure` is what
`main` of tvw_fm.c does when `tvwsdr_open` failed: it calls `tvwsdr_close` on a pointer
nobody assigned.

**I2CMaster** translates `tvw_read_i2c` and `tvw_write_i2c` into programs of
register accesses (`tvw_read_i2c(len)`, `tvw_write_i2c(len)`), executed one access
at a time beside a model of the controller, which works while the driver polls.
CNTL_0 is the set of its flags, CNTL_1 its two counts.  With `stale`, reads of the two
may bring a value of `Foreign0` or `Foreign1` instead, polls of a wait included, and the
data register a byte that is none; the code uses them all the same.

**Tuner** has the transfers of `tda18271_attach` and `tda18271_tune` in order:
each step changes the shadow and writes a range of it, or reads the chip into it;
`Checked` steps end their function when they fail, the others do not.  Of the 39
registers those bits are kept that calibration and power-up switch.  A value "?"
comes from memory nobody initialised, "junk" from a transfer that went wrong.  A transfer
fails (`WriteFails`, `ReadFails`) or is lost although the I2C functions report it as done
(`WriteLost`, `ReadLost`): refused by the chip in whole or from some byte on, or made of
answers that are another's.  `lost` remembers whether that has happened in the running
call or before it.  **TunerTables** holds the tables of
tda18271-maps.c and their search; **RfCalibration** the arithmetic over them: the
power scan, the points of a band's curve, the PLL dividers with their widths and
the correction of the tracking filter by the curve and the temperature.  Failing
transfers and register ranges are in `Tuner`, numbers in `RfCalibration`; a tune
in the latter meets whatever a calibration that ended early left, and may be followed by
another calibration over it (`CalibrateAgain`): `map` and `tm_rfcal` persist, the
variables of the scan do not.  `corrected` says whether the tune got as far as the
correction, which ends before its register when the chip cannot be taken out of standby;
on a C1 the calibration may end behind the PLLs (`c1_plls`).  Both are ignored by
`tda18271_tune`.  `measured` is a history: the offsets found at each point.

The modules `MC*` hold what only TLC needs: in `MCDeframer`, the definition of
the sections of a whole stream with no scan in it, which the incremental scan is
compared with (in the run, and in a theorem of `DeframerProofs`); in
`MCRfCalibration`, the frequencies tuned to.  Definitions preceded by "Mutant of" are
deliberately wrong variants of the definition that follows; no module uses them, and each
of them makes TLC report the property it is listed with in `PROJECT.json`.

## 3. Runs

| run | instance | shows |
|---|---|---|
| `deframer` | all streams of up to 10 bytes, all packetisations | the deframer is correct for any packets |
| `isoch_engine` | 2 transfers x 2 packets, 6 microframes, 2 failures, 2 calls | packets are handed on once, in order |
| `receive_path` | 2 transfers, 5 microframes, 1 failure, 1 call, 690,000 states | a loss does bounded damage |
| `service_call` | 2 sessions x (boot + 2 calls), 2 polls, 2 failed accesses, 340,000 states | a success is the call's own |
| `fw_load` | every length 0..22, chunk 4, offset range 16 | the image is the file |
| `open_close` | 2 sessions, every access failing or not, kills anywhere, 610,000 states | a success is ready to stream |
| `register_transport` | 1 plain register, 1 of the 8051, 3 calls, 2 failures, 760,000 states | a register function is one access |
| `i2c_master` | parts of 2 bytes, 3 calls, failures anywhere, 760,000 states | the bus carries one transaction |
| `tuner` | a C2 chip, 2 tunes, any number of attaches, 1 failed or lost transfer, 60,000 states | the chip is left ready |
| `rf_calibration` | all 7 bands, both revisions, 2 calibrations, 145,000 states | lookups, dividers, correction |
| `fw_load_zlp` | as `fw_load` | a violation, section 5 |
| `service_call_overrun` | as `service_call`, 1 session, 1 failed access | a violation, section 5 |

*deframer*: lengths and offsets stay inside the array however full it was
(`TypeOK`); what is buffered is the tail of the stream (`BufferIsTail`); no
complete section waits for the next packet (`NoResidualSection`); the reports are
those of the whole stream, however it was cut (`PacketisationFree`); data is
dropped only for a frame longer than `MaxFrame` (`DropsOnlyOversized`), which is
8192 - 3072 - 32 + 1 = 5089 bytes in the code; the deframer implements
`SectionStream` (`ImplementsSectionStream`); the do-while ends (`ScanEnds`).

*isoch_engine*: a transfer has one owner (`OneOwner`); packets reach the deframer
in order and at most once (`FedInOrder`); none of a completed transfer is skipped
(`NothingSkipped`) and each gets there in the end unless the event loop ends with
an error (`CapturedIsFed`); a transfer leaves circulation only by a failure
(`RetiredByFailure`), which also says what the code does not do: it never brings
one back, so 15 failures silence the stream.

*receive_path*: a gap in the stream costs at most one real section and at most
two bogus reports, and beginning inside a section one more (`DamageIsLocal`);
bytes are glued only where no captured packet lies between them
(`GluedOnlyOverLoss`); with no gap every section of the device is reported and
nothing bogus follows a real one (`EndToEnd`).  The bound of two is reached: with
one in its place TLC finds a counterexample.

*service_call*: as long as no read was given up that left its answer (`NothingLate`), the
flag the driver acts on was set for the call it waits for (`AnswerIsOwn`); true means
executed (`ReportedRan`), with its own arguments unless one of their unchecked writes
failed (`OwnArguments`); a request is never written over another (`NeverOverrun`).  It
is the reset and clearing of the mailbox at the beginning of a session, the && chain
that ends it at the first time-out, and the look at f09f in front of each call that make
the polling protocol safe: `tvw_uc_service_call` alone would take a late flag for its
own.  With an answer left over none of the four holds, and the polling loop, which goes
on after a failed poll, is where one is left in the middle of a chain; section 5 shows
what follows.  Two things hold whatever the reads bring: no call is executed before all
in front of it returned true (`NoGap`), and `tvwsdr_open` ends even when the firmware is
silent, unless the device leaves a transfer open (`SessionEnds`).

*fw_load*: a chunk stays inside the file buffer (`ChunkInFile`), although
`flen - 512` wraps for short files; 0 is returned only when the device holds the
file and nothing else (`ImageIsFile`); a failure leaves a prefix
(`FailureLeavesPrefix`); the buffer is allocated exactly while the loop runs (in
`LoadTypeOK`).

*open_close*: a `tvwsdr_open` that returned 0 has both firmwares of its own session in
the device, the 8051 running with its upload window closed, the streams enabled and a
tuner, wherever an earlier session was cut off; nothing is held in reset and the stream
manager's bit is on if no answer was left by an abandoned read, for the registers of
these bits are modified from what a read brings, one bit at a time; the two chains whose
results are dropped (libtvwsdr.c 2222 and the last of the function) are the only way
around it, and cost no more than the video window or the audio command (`OpenIsReady`).
An interface stays claimed over the end of a session only when `tvwsdr_open` itself
failed (`BusyOnlyAfterFailure`): its path `err` frees the context and the structure but
not the handle.  Firmware goes to a processor that is ready for it (`UploadsPrepared`):
the second always, the first if no answer was left.

*register_transport*: `ImplementsRegisters`; the parts worth stating are that a
read that failed is never the ground of a write, that a function returns true only
after its effect, and that only a read given up between header and data lets a
later call take another register's value for its own.  Nothing in the code drains
the endpoint afterwards.

*i2c_master*: after a call that returned 0 the bus has seen one START, the address
with its direction, each byte once, and one STOP at the end, and a read stored
those bytes (`WireIsTransaction`), also when an earlier call was broken off in the
middle or its wait gave up.  The exceptions are conditions of the property: a
refused byte, at whose flag the driver never looks; a read of one part, which is never
told to stop; and an answer left by an abandoned read, with which a call may take a
wait for over or write back the flags of another register and still return 0.

*tuner*: a tune that returned 0 and of whose transfers none was lost unnoticed leaves
the chip out of standby, calibration and measurement; if the driver believes in its
calibration, then gain, filter and detector are reset too, provided none was lost since
the tuner was attached; if no transfer of the call failed, the PLL is programmed and the
charge pumps are released (`TuneLeavesNormal`).  The conditions are as weak as the code
allows: a calibration that fails after `tda18271_powerscan_init` leaves the chip in its
settings, and `tda18271_init` ignores that; a refused write of EP3 or EP4 leaves the
chip in standby or in calibration behind a tune that returned 0.  What was lost in an
earlier call is made good by the next tune, but for the settings of the calibration,
which are not written again while the driver holds the chip for calibrated.
Uninitialised memory reaches the chip only over a failed extended read, whose local dump
is copied into the shadow all the same (`UnknownNeedsBadRead`).

*rf_calibration*: after a tune every register has the value of the table entry its
frequency belongs to, by a definition of "belongs" with no search in it, the
divider fits its 23 bits and is exact, and the correction, in a tune that made it, lies
between the offsets measured around the frequency, by the last calibration or, at a point
it has not come to, by one before (`TunedRight`); the scan stays in its window and no
slope is divided by zero (`CalTypeOK`).  Checking it showed that the slopes are always 0:
the dividend is a difference of bytes, the divisor the distance of the points in
kHz, more than 59,000.  So the curve of a band is one step per point.  A tune whose
correction ended early returns 0, too, with EB14 as the tune or the calibration before
it left it.

### Bounds

* *Deframer.*  Section 2, packets up to 3, buffer 8, so `MaxFrame` = 4: the
  buffer holds more than one section, a section can be cut at its only inner
  boundary and a frame at any, the buffer can be full to the last byte, and a
  stream of 10 bytes overflows it.
* *IsochEngine.*  With 2 transfers of 2 packets and 6 microframes each buffer is
  filled, read and filled again; with 2 failures all transfers can be retired.
* *ReceivePath.*  A line of 5 bytes in packets of 3 or 4 meets every alignment
  of packet, section and gap; packets of 0 bytes, a phase inside a section, and
  overruns occur.  A frame is at least as long as the rest of a section behind
  its mark (`LineAssumption`); video lines are far longer than 32 bytes.
* *ServiceCall.*  Two calls behind the boot call and two sessions let a late
  answer meet a later call of its own session, the boot call of the next, and a
  later call there; with two failed accesses up to two answers are left on the endpoint.
* *FwLoad.*  Lengths below, at and above multiples of the chunk, and past the
  offset range.

* *OpenClose.*  The first session starts from every value of the registers kept, so
  further ones would meet nothing new; the second follows one that ended anywhere.
* *RegisterTransport.*  Two bits let a mask keep one and drop the other.  One call
  is given up, the next meets its answer, and the third computes with what that one
  left.
* *I2CMaster.*  Parts of 2 bytes; lengths of exactly one part, of one and a byte, and for
  a write of two full ones, as 16 and 39 bytes to read and 2 to 40 to write are in parts
  of 30 and 29.  Three calls: one broken off, one broken off on what that left, one after
  both.  `Foreign0` and `Foreign1` are an answer each of the two control registers: the
  first ends a wait for GO at once, the second keeps the wait for CNTL_1 going, and both
  carry flags or a count into what is written back.
* *Tuner.*  The first tune may leave a calibration undone, the second starts from it;
  one transfer that fails or is lost, any of them, as each is on its own in the code.
* *RfCalibration.*  Tables and limits are those of the code, `Frequencies` those at
  which some table goes over to its next entry, from both sides (after a calibration, the
  points and ends of the band).  `HitCounts` are the counts of the scan at which power may
  be found or a read may fail: at the point, and at the limit of 4000 Hz that most points
  have, before and after the scan has turned; `Bytes` are the ends of their range,
  `Temperatures` one reading, which the two tables of the thermometer make two
  temperatures.  A band is calibrated a second time (`MaxCalibrations`, `Retried`) over a
  complete entry of three points of which the first two have offsets of opposite sign,
  so that an old offset and a new one can be told apart; then power is at a point or never.

The bounds of the model alone (`MaxStream`, `MaxClock`, `MaxFailures`, `MaxCalls`,
`MaxSessions`, `MaxErrors`, `MaxLen`, `MaxTunes`, `MaxCalibrations`, `Retried`,
`HitCounts`, `Bytes`, `Temperatures`, `Frequencies`, `Foreign0`, `Foreign1`) are
constants named in the modules.  Runs that reach such a bound, or a state where the
program has ended, have nothing left to do; their configurations turn deadlock checking
off.

### Fairness

* `Deframer!FairSpec`: weak fairness of `Deliver` and `Finish`, sequential code
  that waits for nothing.  None is assumed of packets.
* `IsochEngine!FairSpec`: weak fairness of the program's own steps.  It blocks
  only in `libusb_handle_events`, which returns when a transfer has finished;
  `Reap` is enabled exactly then.  None of device, kernel or `ReadAsync`.
* `ServiceCall!FairSpec`: weak fairness of the driver's steps, which are enabled only
  while the device is not `silent`.  The driver waits in bounded sleeps and in transfers;
  a transfer has no timeout and ends only when the device takes, answers or refuses it.
  A device that does none of these is the action `FallSilent`, which may happen at any
  moment and after which nothing is promised.  None of the firmware.

The other modules state no liveness and assume no fairness.

## 4. Proofs

The proofs hold for every value of the constants that satisfies the assumption named in
the module (`SizesAssumption`, `EngineAssumption`, `LineAssumption`, `PartsAssumption`,
`CallAssumption`, `LoadAssumption`, `MaxSessionsAssumption`, `ChunkAssumption`,
`ForeignAssumption`, `RegAssumption`, `BoundAssumption`, `TunerAssumption` and
`RfAssumption`), the values of the code among them. TLC evaluates the same assumptions
in the runs.

**DeframerProofs.**  The inductive invariant is the type invariant, the buffer
being the tail of the stream, and no complete section being left between calls.
From it follow the three invariants (`TypeCorrect`, `BufferCorrect`,
`ReportsPromptly`), that drops are justified (`DropsJustified`; the pending bytes
hold no complete section, so a mark among them is in the last SectionLen - 1, and
a full buffer leaves MaxFrame + 1 bytes in front of it), and that each step is a
step of `SectionStream` or a stutter under `cut <- Base + tmpoffset`
(`Implements`).  The least mark of the buffer exists because Nat is well founded
(`LeastNat`).  `ReportsAreSections` says what is reported without speaking of a scan:
each report is a mark whose section has arrived, no two reports overlap, and every mark
that the deframer is done with lies in a reported section.

`CutsDoNotMatter` is the comparison with the sections of the whole stream, which
`MCDeframer` defines by recursion over the bytes.  No induction is needed to use such a
definition: `StartsExist` shows by a least counterexample that some set of places
satisfies its equation, `StartsUnique` in the same way that only one does, so that it
has every property the equation gives.  The invariant added is `FramesChained`: the
first report begins where the first section of the stream does, and each further one
where the first section behind the previous report does.  Between two calls no section
is left, so the reports are then all the sections there are.

**IsochEngineProofs.**  Neither the order of what is fed nor that nothing is
skipped is inductive: both depend on every packet between the device and the
deframer.  The inductive invariant puts these packets in four groups: fed, the
rest of the callback's transfer, the finished transfers as they are queued (those
that completed), the part filled so far of the transfer at the head of the
kernel's queue.  `Apart` says that no transfer is in two places, `SortedInside`
that each group is in the order of the device, `SortedAcross` that each group is
before the next, `Bounded` that none is of the future (so a new packet goes last),
and `Owed` that a captured packet is in one of the groups.  Completing a transfer
moves a group, reaping shifts one, the packet loop moves one packet; a failed
transfer leaves the groups because its slots are no longer among them.  Theorems:
`TypeCorrect`, `BufferHasOneOwner`, `FeedsInOrder`, `SkipsNothing`, all for any
number of transfers, packets, failures and calls.  `RetiresByFailure` needs another
invariant: a transfer is lost as soon as it is sure not to be submitted again
(`IsLost`: it failed and only waits to be reaped, or nobody has it), and the lost ones
are no more than the failures (`LostByFailure`).  Each action adds no lost transfer
(`NoneLost`) or one with a failure (`OneLost`).

**ReceivePathProofs.**  What the two components promise is carried over to their
composition by two theorems: seen through its own variables, every step of the path is
a step of the engine or leaves it alone (`EngineBehaves`), and the same of the deframer
(`DeframerBehaves`).  For the second, the callback must never pass a packet longer
than `MaxPacket`, nor one while the deframer scans.  Three invariants relate the two:
`Carried` (the bytes of the device are numbered in the order of the microframes, and
every packet in a buffer has bytes), `Origins` (the stream is made of bytes of the
device in its order, its end is the end of the last packet fed, and no packet that was
fed lies in a gap) and `Parsed` (between calls, every mark of a complete section lies in
a reported section, and reports do not overlap).  `GluesOnlyOverLoss` follows from
`Origins` and from the engine's order and completeness.  `LossIsLocal` counts without
induction over the stream: every missed section has a gap just before it, every report
that begins with a section and runs into a gap has that gap, every report that begins
inside a section has the gap before it or the beginning of the stream; none shares its
gap with another of its kind (`OneForEach`), so that each kind is no larger than the
gaps.  `DeliversSections` is the case without a gap.

**BootProofs**, of `ServiceCall`.  The inductive invariant (`IInv`) has two parts.
`Chained` is what no value that a read returns can spoil: control and chain, from which
`NoGap` follows.  `Protocol` holds as long as no answer was left behind; since an answer
that was left stays, a step that finds none finds the protocol as it was.  It has
`FirmwareState` (the firmware works on what the id register holds
until it clears it), `DriverState` (what the driver can rely on at each step;
while it polls, `Waiting` lists the five situations of mailbox and firmware) and
`History` (a request in the mailbox was preceded by all calls it depends on and
has its arguments; a flag was preceded by an execution).  It is needed because
`AnswerIsOwn` alone says nothing of the steps before the flag is seen: that no
flag can be left over is the fact that a timed-out call ends its session
and the next one clears the mailbox in reset.  Each action has a lemma with one
step per conjunct.  The theorems are `TypeCorrect`, `AnswersAreOwn`,
`TrueMeansExecuted`, `ArgumentsAreOwn`, `ChainInOrder` and, as an action property,
`RequestsNeverOverrun`.

**BootProofs**, of `FwLoad`.  The inductive invariant says that the image holds the file up
to `fpos`, that nothing else was written while the file fits the offset range,
and that a failed load has at most its last chunk in it besides.  `ChunkBounds`
is where the unsigned wrap of `flen - 512` is shown harmless: the test
`flen < 512` in front of it guards exactly the lengths for which it wraps.
Theorems: `LoadTypeCorrect`, `ChunksInFile`, `LoadsTheFile`, `FailsCleanly`.

**OpenCloseProofs.**  For any number of sessions.  `BusyFollowsFailure`: a session
that is over holds a claim only if it ended by `err` or `return`; the inductive
invariant (`IInv`) adds that a session that has not begun holds nothing and that only
the last can be running or open.

`OpensReady` and `PreparesUploads` are about what some ninety accesses leave of each
other's work.  Of a register, an access *makes* some bits a value (`Makes`) or *keeps*
them at it (`Keeps`), and a sequence *settles* bits (`Settles`) when one of its accesses
makes them their value and all behind it keep them there.  There is a lemma for each
function of `InitChains` with what it settles and what it keeps (`..._Does`), from which
what a stage settles to the end of `tvwsdr_open` is composed by two lemmas about
concatenation (`Lasting`).  The inductive invariant `DInv` does not say where control
is.  It says that bits which the accesses passed so far have settled, do have their
value (`RegsAsMade`), and the same of firmware, alternate setting and what the session
holds.  A step adds one access to those passed; a failing one ends the call and with it
all that was passed; so each kind of step is one case, and the stages do not come in.  A
chain that is cut short counts as passed, since the call goes on behind it, but settles
nothing, and because what is left out was never made, `OpenIsReady` has its two
exceptions.  At the end all accesses have been passed (`SettledAtOpen`); at an upload
those of the stage before it have (`SettledWithin`).  RESET_CONTROL and USC_CTL are
written bit by bit from what a read brought, so what `RegsAsMade` says of them holds
until an answer is left on the endpoint; every other modification gives all its bits
their value or does not depend on a read.

**I2CMasterProofs.**  `OneTransaction`: a call that returned 0 and whose bytes were not
refused put one transaction on the bus, for any sizes of the parts up to 255 (`len` is a
`uint8_t`, and the counts are the low byte of CNTL_1), any lengths up to two parts, any
number of polls and of calls.  The inductive invariant `IInv` describes the state at
every access of a call that nothing has interrupted (`At(cl, p)`): registers, local
variables, memory of the controller and bus, with the controller anywhere inside a part
while the driver waits for GO (`Part`).  It says nothing once an answer was left on the
endpoint (`IInv == ~stale => Orderly`).  Nor does it of a call that was broken off
or refused, and needs nothing of it, because the first write of every call resets the
controller (`ResetForgotten`): that no byte of an earlier call gets on the bus is
this.  Each access has a lemma with its effect, each group of accesses one that leads
from `At(cl, p)` to `At(cl, p + 1)`.  `Invariant` is the invariant itself.

`TypeCorrect` also speaks of calls whose bytes were refused, where `IInv` is silent, and
of what a read stores whatever its reads bring; it takes a second inductive invariant,
`TInv`, that holds of them, too.  Its core is that the controller works only while the
driver waits for it: once a call is behind its first access, GO is set only where the
driver waits for GO (`WaitsForGo`, while no answer was left), so that no write to CNTL_0
takes GO from a part that is running.  What each access of `Program` has to do for that,
and how many bytes are fetched before it, is stated once for reads and once for writes
(`ReadSettled`, `WriteSettled`).  That the controller is asked for one part and holds no
more until the chip refuses is from `IInv`.

**RegisterTransportProofs.**  `TypeCorrect`, and `Implements`: each transfer is a step
of `Registers` or a stutter.  The transfer that carries the data of a write is the
effect, or both effect and return when it is the last; what a read-modify-write
computes from is its register's value or was a stale answer, which is what the
inductive invariant adds about `tmp`, `window` and the last answer at each access.

**TunerProofs.**  For both revisions, any number of calls and of failed and lost
transfers, and any number of turns of the loops (the run has one revision, two tunes and
one transfer that fails or is lost). `TypeCorrect`, `LeavesNormal` and `NothingUnknown`
rest on one inductive invariant, `IInv`.  A tune ignores most results, so what it
promises cannot rest on each transfer having been done.  `TuneState` says of each stage
what holds although transfers failed, in a call that has lost none so far; what earlier
calls lost does not come in, because each stage makes what it needs itself, except for
`Held`:

* `Held`: a chip that the driver holds for calibrated, and from which nothing was lost
  since it was attached, is out of the settings of the calibration.  It is the hard
  part.  The image rejection initialisation writes all registers and breaks it, but with
  them the cleared RF_CAL_OK into the shadow, which sends the next stage into a new
  calibration; the calibration breaks it with the flag cleared; and `Restored` follows
  `tda18271_por` step by step to the place where the flag is set, which a failed step of
  it never reaches.
* `Off`: standby is switched off before everything else, checked, and the steps behind
  it that write its register leave it off or, on a C2, are followed by the correction,
  which switches it off again in the shadow, if not in the chip.
* `Configured`: the last stage writes the shadow, checked, to all registers the promise
  speaks of; only the PLL and its charge pump are written without a look at the result,
  hence `quiet`.

`CallState` adds what types need (an attach has no calibrated chip, so that `Identify`
cannot find a calibrated C1), and `KnownState` where the shadow is free of uninitialised
memory (`Filled`: from the first write of an attach on, which writes all registers).
Before that, the stages are shown to be sequences of steps whose jumps stay inside
(`Code`), and which step is where in them is established once for each function of the
driver (`RfCalInit`, `IrCalInit`, `Channel`...).  `InTune` puts one lemma per stage
together.

The last part of the module is the arithmetic of **RfCalibration**: `CalTypeCorrect` and
`TuneIsRight`, for any bytes, temperatures, number of calibrations and frequencies from
1250 kHz to 2^30 Hz (the run tunes to the edges of the tables).  What is needed of
tda18271-maps.c is established entry by entry: values are bytes, limits rise, and limit
times divider of a PLL entry stays so small that 23 bits hold every division ratio.  On
a table whose limits rise, the entry that the driver's loop stops at is the one a
frequency belongs to (`LookupIsReference`).  The invariant `CalInv` adds to the two
properties:

* `ScanWindow`: a scan is within the limit of tda18271_cid_target on either side;
* `Points`: the points done are within 4000 Hz of those of the band, which are 60 MHz
  apart, and their offsets are differences of two bytes;
* `FlatCurve`: hence every slope is 0.  The driver divides an offset of at most 510 by
  at least 59992 kHz in integers; its curve is a constant, one of the offsets measured
  at its point by this calibration or an earlier one, which is why the correction never
  overshoots, also where a calibration was tried again and ended early.

Model-checked only: the liveness properties (`ScanEnds`, `CapturedIsFed`,
`SessionEnds`), because liveness under fairness is out of the prover's reach.

## 5. Findings

`fw_load_zlp`: the comment at util.c 385-387 says that according to the USB
specification a 0 byte packet must end a transmission whose last packet is a full
one, and is followed by a FIXME; the code sends none.  The run shows a file of
one full chunk for which `tvw_load_fw` returns 0 after a full last packet.

`service_call_overrun`: the comment at util.c 286 says of the check in front of a
service call "ensure there isn't a service call already running".  The run shows a
request written over a call that the firmware has not finished.  A poll of an earlier
call is given up at util.c 57 when its header is out; the loop of util.c 302-310 goes on,
the next poll takes the answer that was left for its own, and from then on every read
gets the answer to the one before it.  The reads between the calls (libtvwsdr.c 859-903)
move the answers on, and the check of the next call is answered by one of those, so that
the id is written although bit 7 of f09f is still set.  Draining the endpoint after a
failed read, or ending the call there, would restore the condition of `NeverOverrun`.

## 6. Not modelled, and why

* The values of most register writes of the initialisation chains: data with no
  control but "stop at the first failure", `Other` in `InitChains`.  tvw-reg.h is
  generated: names of registers and bits.
* isoch.c: an offline tool over a recorded stream, with the scan of the deframer; it
  shares no state with the driver.
* Of the tuner: the slave role, which needs a configuration that libtvwsdr.c does not
  pass; digital mode, `tda18271_sleep` and the accessors under `#if 0`, which nothing
  calls.
* Of tvw_fm.c: argument parsing and the callback that writes audio to stdout.
* `tvwsdr_close` while transfers of a read loop that ended with an error are in flight:
  neither code nor documentation says what is promised then, so no property does
  (listed as a hazard at libtvwsdr.c 2318).
* Failing `malloc` and `libusb_alloc_transfer` (unchecked in the code), but for the one
  in `tvwsdr_open`.
* The delays themselves; a bounded wait is a bounded number of polls.
* The contents of argument bytes, audio and firmware, beyond whose they are.
* Build files and the Perl and XSL scripts in docs/.

## 7. Plan

1. `OpenClose` joined with `IsochEngine`, once it is settled what a close with transfers in
   flight is to do.
2. A C1 chip in `Tuner`'s run: the proofs speak of both revisions, the run of a C2.
