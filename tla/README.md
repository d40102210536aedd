# A TLA+ model of the IMU-300-VG serial driver and its libraries

The repository is a C/C++ program that reads an IMU-300-VG inertial unit over a
serial port: a driver (`imu_300_vg.c`), a serial layer (`core/3rd/uart/uart.c`),
a main loop (`main.cpp`), and a set of support libraries. The modules here model
the driver with the port and the device, the program that uses it, the frame
format with the decoding of a measurement, and of the libraries those with the
most behaviour: the thread pool, the single instance lock, and cJSON with its
patches. TLC checks them on small instances; TLAPS proves, for every instance, the
safety properties of the driver, of the frame codec and the decoding, of the
pool, of the lock, of cJSON's trees and of its print buffer. Section 4 says what
is proved and what is not.

## 1. The system

| Part | State it keeps | Operations | Interacts with |
|---|---|---|---|
| Driver, `imu_300_vg.c` | `g_dev_addr`; `uart_fd` in the caller's hand; the stack buffer `recv_buff` of each request | probe, change speed, ten requests | serial port by calls, device by frames |
| Frame codec, `_gen_imx300_vg_cmd`, `_check_imx300_vg_cmd`, `imx300_vg_cmd_send_and_recv` | buffers only | fill, check, unpack | driver |
| Measurement decoding, `imx300_vg_cal_recv_data` | none | 48 bytes to 13 numbers | frame codec, main program |
| Serial port, `uart.c` | open descriptors; speed of the tty and its input queue (in the kernel) | `serial_init` / `serial_set`, `serial_send`, `serial_recv`, close | driver, line |
| Device (outside the repository) | address, speed, output mode | serves one request at a time, may send data by itself | line |
| Main program, `main.cpp` | progress of `exec_imx300_vg` | probe, set mode, set type, read for ever | driver |
| Thread pool, `threadpool.c` | ring `head`, `tail`, `count`; `shutdown`, `started`; one mutex, one condition variable | worker loop, add, destroy, free | its clients' threads |
| Pool wrapper, `core/thread_pool.cpp` | the pool and a counter of threads | run, append, remove | pool |
| Single instance lock, `core/3rd/os/pid.c` | PID file; `__pid_file` | `runOnce`, `quitFromRunOnce` | other processes through the file and signals |
| cJSON trees, `cJSON.c` | items linked by `next`, `prev`, `child`; names and texts | create, add, insert, detach, replace, delete, refer | callers that hold items; an allocator that may fail |
| cJSON text, `cJSON.c` | a growing `printbuffer`; the parser's position | print, parse, minify, duplicate, compare | trees |
| cJSON patches, `cJSON_Utils.c` | none of its own, but it sorts the documents it is given | pointers, generate and apply patches and merge patches | trees |
| Bit helpers, log file, strings, network, daemon start, inih, rxi_log | little or none | see PROJECT.json | |

cJSON is vendored and the program as it stands does not call it; it is modelled
because it is by far the largest body of logic in the repository.

What is hard here, and so what the properties are about:

* **A stream without message boundaries and without sequence numbers.** Requests
  and answers are paired by order alone; `serial_recv` makes one `read`, which
  may stop inside a frame; nothing is flushed before a request. A late answer
  or a rest would be read as the next answer.
* **A timeout the driver does not notice.** `serial_recv` returns -1, the
  caller stores it in an `unsigned char` (`imu_300_vg.c:226`) and goes on with
  an uncleared stack buffer.
* **Two sides that must agree** on speed and address, changed by commands whose
  answer can be lost, while the driver closes and reopens the port in between.
* **Descriptor numbers used after close** (lines 328 and 740).
* **Failures that nobody looks at** in `main.cpp`, before an endless loop.
* **The pool's mutex, signals and shutdown**: one signal per task, a broadcast
  once, a second unlock by a thread that does not hold the mutex
  (`threadpool.c:403`), tasks that add tasks, memory freed at the end.
* **Processes that share a file and no lock**: between looking for the PID file
  and writing it any other process may do the same, a process may die at every
  step, and a process id may be reused by a program that knows nothing of it.
* **Lists with a hidden last pointer**: `prev` of the first item leads to the
  last, and every way of changing a list has to keep it.
* **Memory that runs out halfway**: below any number of half-built items.
* **A buffer whose room is asked for in twelve places** and added up in one.
* **Numbers**: sums and lengths in bytes, indices that run over the place of the
  checksum, thirteen hand-counted places in a frame, indices that wrap, indices
  in patches that must allow for what was removed before.

PROJECT.json lists each of these with its line and the properties aimed at it.

## 2. Modules

```
SerialLine <- ImuDevice <- ImuDriver <- ImuMain <- MCImuMain
                               ^           ^
                   MCImuDriver-+           +- ImuDriver_proof -> Sums_proof
ImuFrame <- ImuSample <- MCImuSample
                ^- ImuSample_proof -> Sums_proof
TaskQueue <~ ThreadPool <- MCThreadPool
                ^- ThreadPool_proof
RunOnce <- RunOnce_proof
JsonLists <~ JsonRows <- MCJsonTree
                v   ^- JsonRows_proof -> JsonTree_proof, Sums_proof
            JsonTree <- JsonTree_proof
PrintBuffer <- Printer <- Printer_proof
     ^- JsonText <-+
JsonItem <-+       +- JsonDocs <- MCJsonDocs
           +- JsonPatch -+               (<- EXTENDS, <~ implements)
```

### SerialLine: `uart.c` and the kernel's tty

`fds` is the set of descriptors this process has open on the port, `ttyBaud` the
speed of the tty (which survives the descriptors), `rx` its input queue, `toDev`
and `toHost` the two directions of the wire. `SerialInit` is `serial_init` with
`serial_set`: lowest free number, speed from a table (a speed that is not in it
leaves the tty as it was, `uart.c:78-89`), then a flush. `SerialInitFails` is its
failure, which may leave the descriptor open (`imu_300_vg.c:33`). `SerialSend` is
`serial_send`, including `write` on a number that is not open.

A frame is one value `[cmd, val, new]`: its command, the data byte the driver
branches on, and a history bit that says whether it answers the request issued
last. In the input queue a frame also counts the bytes of it not yet read.
`ReadSizes` gives the sizes one `read` may return under `VMIN`/`VTIME`
(`uart.c:211-225`): at least what was complete when the newest frame began, at
least `Vmin` if there is so much, and otherwise up to any `Chunk` of the frame
that is still coming in. `HeadFrame` is what the reader then sees: a frame if the
front of the queue is a whole one, otherwise `Junk`, which fails the test of the frame.
`FrameLen` and `BytesTo` carry the real frame lengths (6, 14 and 48 bytes),
because which reads can cut a frame depends on them.

Not modelled: short writes (`uart.c:261`), parity, stop bits and flow control
other than 8N1, signals. A tail of a cut frame is never taken for a new head.

### ImuDevice: the device

External: the device as the driver's requests and the comments of
`imu_300_vg.c` describe it. `Hears` is its filter by speed and address (a query
of the address reaches any device), `Obey` what a command changes; the answer
goes out before the change takes effect. `Deliver` drops a byte when nobody has
the port open and makes noise when the speeds differ. The constant `Faults`
switches on loss, delay, refusal, automatic output at power up and failing
opens. Without `"delay"` a wait does not end while a request or its answer is
on its way (`MayTimeOut`).

### ImuDriver: `imu_300_vg.c`

One thread, so `pc` is where it may wait or be overtaken by the line:

| action | code |
|---|---|
| `ProbeOpen`, `ProbeClose` | the loop of `imx300_vg_uart_probe`, 703-740 |
| `Call` | a client enters one of the ten request functions |
| `Send` | `_gen_imx300_vg_cmd` and `serial_send`, 219-224 |
| `Receive` | `serial_recv`, the test of the frame, `set_dev_addr`, the caller's own tests, and what the probe does next (`AfterProbe`) |
| `Drain`, `CloseOld`, `Reopen`, `FlushOld` | `imx300_vg_change_brate` after its request, 305-333 |

`InBuffer` is the set of things the request's buffer may hold when the wait ends.
After a timeout it is whatever an earlier request left at that place of the
stack, or anything else. Calls whose functions have equal frame sizes put
`recv_buff` at the same place, and `PlaceOf` groups them: the calls with a
payload array of 6 bytes or none, those with 32 bytes, `imx300_vg_change_brate`,
and everything the probe calls, which lies deeper. The measurement request has
a zeroed buffer of its own, so nothing old is found there. `buf` remembers one
frame for each place. `Valid` is `_check_imx300_vg_cmd`, which rejects for head
and checksum and only reports a foreign command word or address.

`done` is a history of the last request for the properties.

### ImuMain: `main.cpp`

`exec_imx300_vg` on top of `ImuDriver`: `stage` is how far it has come,
`MainCall` makes the next call whatever the last returned, `MainExit` is
"Dev Not Found". The arguments of the command line are left out.

### ImuFrame and ImuSample: the bytes of a frame, and what a measurement means

`Gen`, `Check`, `Payload` and `PayloadLen` are the codec byte by byte, with its
8-bit sums and lengths (a buffer has fewer than 256 bytes, so that the length
that `_gen_imx300_vg_cmd` returns fits its `unsigned char`); `ProtocolFrame` is the frame as `imu_300_vg.h:4-50`
defines it, written without looking at the code. One frame is sent, or is one of
the six complete ones that comments of the driver quote (`Quoted`; the one at
line 570 has a wrong length and is left to section 3), and arrives whole or with
one byte changed. `Check` treats a claimed length beyond the
buffer as a rejection; the code would read beyond the array there.

`ImuSample` composes the codec with the decoding: one of the frames on the line
is a measurement, and what `Check` lets through is decoded. `ToHexStr`,
`CharValue`, `Start` and `Decode` are `imx300_vg_cal_recv_data`; the device's
side, `DataField`, lays the quantities out one after the other and does not
know `Start`. Values are integers in units of the last digit; the rounding of
`double` arithmetic is left out.

### TaskQueue and ThreadPool: `threadpool.c`

`TaskQueue` is the promise: a bounded first-in first-out queue that hands each
task out once until it is closed; a closed queue loses what it holds.
`ThreadPool` is the code. A thread that holds the mutex runs alone among those
that use the pool, so its critical section is one or two steps; everything
outside it interleaves.

| action | code |
|---|---|
| `WorkerLock` ... `WorkerExit` | `threadpool_run`, 437-475 |
| `AddCall`, `AddLock`, `AddPut` / `AddRefused`, `AddUnlock` | `threadpool_add`, 278-348 |
| `Signal` | `pthread_cond_signal`: one sleeping worker, if any |
| `DestroyCall` ... `DestroyFree` | `threadpool_destroy`, 367-409, and `threadpool_free`, 411-426 |
| `SpuriousWakeup` | what POSIX allows `pthread_cond_wait` |

A running task may call `threadpool_add` itself. `threadpool_destroy` is called
once, when no client is inside a call (a client that used the pool afterwards
would use freed memory, whatever the pool did). `threadpool_create` is the
initial state. A thread blocked in `pthread_mutex_lock` is simply one whose
lock step is not enabled. `accepted` and `handed` are histories.

### RunOnce: `core/3rd/os/pid.c` between processes

A process is named by its id, so a start under the id of a dead process is the
id being reused; `Stranger` gives it to a program that knows nothing of the
file. `file` is the id the PID file holds: `NoFile`, or `Nobody` while it is
empty. `linked` says who is still writing to the file that the path names,
because a file removed meanwhile takes the id with it.

| action | code |
|---|---|
| `Start`, `CallAgain` | the call of `runOnce`, 116-133, under either policy |
| `NoPidFile`, `ReadElder` | `fopen(.., "r")` and `fscanf`; an empty file leaves the local unset, so any id |
| `Check` | `RUNONCE_KILL_ME`: `/proc` is asked for the id |
| `Kill` | `RUNONCE_KILL_ELDERSHIP`: `SIGTERM` to the id, whoever has it |
| `OpenWrite`, `Register` | `fopen(.., "w")` empties the file, `fclose` writes the id |
| `Exit`, `QuitNoFile`, `QuitRead`, `QuitRemove` | the exit handler `quitFromRunOnce` |
| `ExitUnmarked` | the end of a process without the handler |
| `Terminate`, `Crash` | a signal that nothing handles; no exit handler runs |

`past` is a history of what has gone wrong: two processes in the lock code at
once, a crash, a file removed that names another process, a second call. The
properties say which of these each promise survives. That both processes run
after an overlap, and that the exit handler removes a successor's file, follows
from the code: `QuitRemove` is taken whatever id was read, since the loop of
`quitFromRunOnce` falls through to the label when the file ends, although the
comment at line 96 says "if the PID file holds the current process" (in Chinese).

### JsonLists, JsonTree and JsonRows: the pointers of `cJSON.c`

`JsonLists` is the promise: rows of items that a caller puts items into, takes
them out of, exchanges and deletes with everything below; no pointers, no
allocation. `JsonTree` is the code: `next`, `prev`, `child` and the flags, one
action for each public call that builds or changes a tree, with the ways each
may fail: arguments it refuses, no memory for the item, none for its text, none
for a name once the item exists (`AddNewToObjectFails`, `AddReferenceFails`). `Appended`, `Inserted`, `Detached` and `Replaced` are the four pointer
manipulations; `Freed` is what `cJSON_Delete` reaches and `From` what `next` leads
to, each as the least set closed under the pointers it follows, so that proofs
need no recursion; `Renamed` and `strings` account for names and texts. `JsonRows` adds `rows`, the lists
as walked from their first items (`Walk`, the loop of `get_array_item`), to every
step, and states that every call is one step of `JsonLists` or none.

`lost` is a history: the items that a failing call leaves allocated and returns to
nobody. Callers cannot use them, so the items they hold are `Held`, those in no
list and not lost. The code loses one kind, the copy made by
`cJSON_AddItemReferenceToObject` when its name cannot be copied (`cJSON.c:2076`).

Callers are legal: they add items they hold, not below themselves, and change no
list through a reference to it. A reference shares its target's children and
knows nothing of the target's end, so that following a reference to a deleted
item is left to the caller (`cJSON.c:1949`). Left out: `cJSON_SetValuestring`
and the number setters, which change no link.

### PrintBuffer and Printer: `printbuffer` and `ensure`

`Ensure` is `ensure` with its refusals, its doubling up to `INT_MAX` and its two
ways to grow; `Write` is what any printing function does with the room it got.
`wrote`, `copied` and `limit` record what memory was touched. `Printer` is any
printer that asks for as much as it writes, piece after piece of any size, into a
buffer of any length; `JsonText`'s printer is one. A buffer of length 0 that
grows without `realloc` has one byte copied out of it that it has not got
(`cJSON.c:515`); `CopiedFromNothing` is that case and no other.

### JsonItem, JsonText, JsonPatch, JsonDocs: documents as values

`JsonItem` has an item as a record: type, value, name, children, and `last`, the
place that `prev` of the first child leads to. Copying (with memory that may run
out at any allocation), comparing and looking up are here. A string is a sequence
of characters; `Lower` knows the case of letters.

`JsonText` is the printer, the parser and `cJSON_Minify`. A text is a sequence of
symbols: a bracket, a quote, a character, an escape, a blank, or a whole number,
each with its width in bytes, so that room is counted in bytes while no digits
are put together. `Blank` is every byte up to the space, which is what
`buffer_skip_whitespace` passes over, and `ZeroCode` the escapes that end a string:
`\u0000`, and a `\u` without four hexadecimal digits, for which `parse_hex4`
returns 0. The printer makes a list of pieces, each with the room asked
for and the bytes written, and runs them through `PrintBuffer`. The parser
carries the allocations left and returns what is left, so that a leak is a
difference.

`JsonPatch` is `cJSON_Utils.c`: pointers with their escapes, `SortList` and
`CompareJson` (which sort what they are given), generating and applying patches
and merge patches, with the status codes. `last` lets the model see what sorting
does to the next append.

`JsonDocs` is a caller with a document, a text, a second document and patches;
its actions are the public calls. To see that the value-level operators say what
the C code does, the library was compiled and compared with them: 639 cases of
generating, applying, merging and patching by hand, and about 74 000 of parsing,
minifying, printing and copying, agree.

## 3. What the runs check

| Run | States | Question and answer |
|---|---|---|
| `driver_quiet` | 21 320 | On a good line, in any order of ten kinds of calls: each call is answered by its own answer (`AnswerIsToTheCall`), driver and device agree on the address (`AddressAgrees`) and on the speed of an open port (`PortUsable`). This includes the probe's passes at wrong speeds, which the device does not hear and whose requests must leave nothing for the next pass. |
| `driver_lossy` | 11 384 | With losses and failing opens but punctual answers, a measurement is never an older one (`SampleIsFresh`), and no request finds a remnant on the line (`NothingLeftBehind`): no read cuts a frame and leaves the tail. |
| `driver_faults` | 410 989 | With every fault at once: at most one descriptor (`OneOpenFd`), the flush through a closed number reaches the port just opened (`StaleFdIsNewFd`), every call comes back (`CallsReturn`). |
| `main` | 1 464 | The read loop is never stuck although the program ignores every failure (`LoopKeepsAsking`); once port and address are right, only endless loss can keep fresh measurements away (`SamplesFlow`). |
| `measure` | 61 596 | What is sent is the protocol's frame; what arrives, each complete frame quoted in a comment included, is accepted and unpacked; a damaged byte is noticed unless it is the length; of a received measurement every quantity is read from where the device put it, a damaged one is dropped or says the same, and the worked example of the comments comes out. |
| `pool` | 6 008 | Mutex, ring, signals, shutdown and freeing; the pool implements `TaskQueue`; an accepted task is run unless the pool is shut down; `threadpool_destroy` returns. |
| `runonce` | 4 022 520 (up to symmetry) | Unless two processes were in the lock code at once or a file was removed that names another, one instance runs (`OneInstance`) and the file names it (`FileNamesInstance`), whatever crashes, whichever ids are reused. Only an instance is killed or is the reason of a refusal (`KillsOnlyElder`, `RefusedForInstance`), as long as nothing at all has gone wrong. |
| `json_tree` | 133 533 | The lists are linked and complete (`Intact`), every string allocated belongs to one live item and, whichever allocation fails, no item is lost but the one described below (`NothingLeaks`), and every call is one change of one row (`Implements`). |
| `json_docs` | 253 025 | Printed documents are read back (`RoundTrip`), a damaged text that is accepted is read as what it says, which need not be JSON (`ReadsWhatItSays`), running out of memory leaks nothing (`NothingLost`), buffers hold (`BuffersHold`), minified texts mean the same (`MinifyKeeps`), pointers lead back (`PointersLead`), patches turn one document into the other (`PatchesTurn`), report what they did (`ReportIsTrue`), and generating them changes only the order of members (`OnlyOrderChanges`). |

Three runs show that the program does not do what a comment or a test says.
Each has its own cfg and one property:

* `stale_buffer` (`imu_300_vg.c:226`): `SET_OUTPUT_MODE` is answered; the answer
  to the next configuration call is lost; the call succeeds with the old answer
  that still lies on the stack.
* `probe_all_fail` (728): when no speed is answered the probe returns the
  descriptor it has just closed instead of -1, and `main.cpp` polls it for ever.
* `json_sorted` (`cJSON_Utils.c:601`): `sort_object` sets the new first item but
  not its `prev`. A document that has been through the generation of patches
  loses the member that is appended next, and `cJSONUtils_ApplyPatches` reports
  success. `tests/json_patch_tests.c:156` states the opposite, that a document and
  the patches generated from it give the other one; it applies them to a copy.

Others were found in the same way and are described here only:

* `imx300_vg_cmd_send_and_recv` returns the length of the data field received even
  when the caller's array is shorter (251-260), where its comment at line 200 says
  the number of bytes written; callers loop up to it. `RoundTrip` states the
  length only for arrays that hold the field.
* The recommended speed 460800 is missing from the table of `uart.c:78`: the device
  moves there, the port stays, and the change reports success. With 460800 as
  `Target`, the speed that the probe sets, TLC refutes `PortUsable` of `driver_quiet`.
* Two programs that start together both run (`pid.c:134`); the exit handler removes
  the PID file of another instance (97); after a crash and the reuse of its id a
  program that never called `runOnce` is sent `SIGTERM` (181). Without their
  conditions on `past`, `OneInstance` and `KillsOnlyElder` are refuted by TLC.
* With a device in automatic output at power up, a byte of a measurement becomes
  the device's address (`imu_300_vg.c:381`).
* A late answer is taken for the measurement just asked for, and every later
  answer is one request behind (663).
* A refusal (`0xff`) of `imx300_vg_set_output_mode` and its siblings counts as
  success (486-499, 523), although `imx300_vg_set_dev_addr` looks at it.
* The quoted answer to the save command (570) is one that
  `_check_imx300_vg_cmd` (116) rejects.
* After a lost answer to `imx300_vg_set_dev_addr` the driver's `g_dev_addr` stays at
  the address the device has left, and the device takes no more requests.
* The comments of `IsPathExist` (`dir.c:13`, `dir.h:15`) and `IsProgressRuning`
  (`pid.c:47`, `pid.h:35`) say that 0 is returned if the thing exists; the code
  returns 1 then, which is what its callers (86, 166) expect.
* `cJSON_AddItemReferenceToObject` loses the copy it made if there is no memory for
  the name: `add_item_to_object` returns false (`cJSON.c:2028`), and line 2076 passes
  that on and forgets the copy. `cJSON_AddStringToObject` deletes its item (2147).
* cJSON accepts texts that are not JSON: control characters inside strings (824), any
  byte up to the space as a blank (1050), and a `\u` with characters that are no
  hexadecimal digits as a NUL that ends the string (635).
* `replace` and `move` that fail halfway leave the document without the item they
  have taken out (`cJSON_Utils.c:891`).
* An empty buffer has one byte copied out of it (`cJSON.c:515`).

What the properties about documents leave out, because the library behaves
differently there:

| Left out | Because |
|---|---|
| strings that end in a backslash, in `MinifyKeeps` and after minifying | `minify_string` takes the quote of `\\"` for an escaped one, and blanks after it stay (`cJSON.c:2830`) |
| names with `/`, in the patch properties | `decode_pointer_inplace` writes the slash one place too far (`cJSON_Utils.c:377`): `a/b` is added as `a~/`, with status 0 |
| names that differ in case only, and documents that share such names | `detach_path` ignores case in both variants (466); `generate_merge_patch` merges by `strcmp` what was sorted without case (1423) |
| one byte, in `BuffersHold` and `Inside` | copied from an empty buffer without `realloc` (`CopiedFromNothing`, `cJSON.c:515`) |
| infinite numbers | printed as `null`, as the model's `Read` says |

### Bounds

* `Speeds`: 9600 and 19200 stand for the speeds in the table of `serial_set`,
  460800 for the one that is not there. The probe treats all alike; two distinct
  table speeds are enough for "wrong speed first", three for "the last fails".
  `driver_faults` uses two speeds, one address and two calls, the ones whose
  handling of the port or the buffer differs from the others.
* `Addrs`: 0, the address of queries, and 1.
* `RxMax = 2` frames in each queue of the line: one belonging to the request and
  one older. It blocks `Send`, `DevServe` and `Deliver` when full, it loses
  nothing. One older frame is what it takes to be out of step; more make the
  distance longer, not the kind of state different.
* `Vmin = 48` is the code's value; `Chunk = 16` makes a 48-byte frame come in
  three pieces.
* Frame data: fields of 0, 1, 2, 3, 9 and 43 bytes, sums that carry, damage of
  the lowest bit, the highest bit and -1 at every byte.
* Pool: two workers (one sleeps while one runs), two clients (one adds while the
  other destroys), three tasks on two slots (the ring fills, refuses and wraps).
* Lock: three processes, an instance, a newcomer and one that takes over an id
  or overlaps with the newcomer. They are interchangeable (symmetry). Every
  process may end and start again without bound.
* Trees: six profiles of use instead of everything at once (`MCJsonTree`). Five
  items make a row of four with a first, a last and two places between, and one
  item that comes in; names in two cases; references to lists, texts and plain
  items. Which of the free items is allocated next makes no difference, so it is
  always the lowest.
* Documents: eight that are printed, of every type, nested up to one level past
  `NestingLimit = 3`, with every kind of escape and infinite numbers; ten that
  patches lead between, in all pairs, so that members and elements are added,
  removed, renamed, reordered and replaced at two depths; 22 patches by hand, of
  every operation, with missing and misfitting parts.
* Buffers: `DefaultBufferSize = 8` makes the printer grow several times for one
  document, `IntMax = 200` keeps the doubling at the code's shape; the supplied
  lengths include 0, 1, and each up to 12. No `realloc`, since that way copies by
  hand; the proof covers both.
* Memory: 0 to 7 allocations succeed, so that each one of a parse or copy of the
  small documents is once the one that fails, or 20, enough for all.
* Damage: each of 16 symbols (structure, numbers, one out of range, escapes, one of
  them malformed, a line feed, a control character) put in or over each place of each text, or one symbol lost.

Deadlock is left unchecked where the system may really stop: a driver whose
port cannot be opened, a program that has left, a frame that has arrived, a
destroyed pool, a caller that is done with its document. In `runonce` and
`json_tree` there is always another call to make. `driver_quiet` checks it.

### Fairness

* Driver: weak fairness of the one thread's own steps (the process keeps
  running; every wait in `serial_recv` has a time limit, so a step is always
  enabled in the end), of the device's serving and of delivery. No fairness for
  calls, losses or automatic output.
* Main: the same; the program's next call belongs to its thread.
* Pool: weak fairness of each thread's steps. Strong fairness of taking the
  mutex, because it is released again and again and the threads' scheduler and
  futex queue do not pass one thread over for ever, and of the end of a running
  task (a task that never ends would keep `threadpool_destroy` from returning by
  itself). No fairness for adding, destroying or spurious wakeups.
* The lock and cJSON: none. Nothing in the lock waits for anything, and cJSON
  is sequential; their properties are about safety.

## 4. What is proved

The driver, for every list of speeds, set of calls and set of faults
(`ImuDriver_proof`):

* `NeverOpenTwice`: `Spec => []OneOpenFd`
* `FlushReachesNewPort`: `Spec => []StaleFdIsNewFd`
* `TypesCorrect`: `Spec => []TypeOK`

The first two are not inductive: that two descriptors are never open depends on
the port being closed wherever it is about to be opened, which depends on the
number held being the open one. `FdInv` says so: every descriptor is number 3
(`LowestFreeOfNone`: the lowest number after the standard streams), the caller
holds 3, the port is closed at `open` and `reopen`, and `{3}` is open where it is
about to be closed. `TypeInv` adds the types of what is on the line. The bytes
left of each frame in the input queue stay natural numbers whatever piece a read
takes (`Unread`), because a read never returns more than there is; this rests on
lemmas about sums over the places of a sequence, and those on `Sums_proof`.

The requests and answers (`ImuDriver_proof`), under hypotheses that are named:

* `Punctual`: answers come before the wait ends or never, nothing is sent
  unasked, and a read waits for the longest frame. The last is what
  `uart.c:225` does (`VMIN` is 48, the length of a measurement); the first two
  say which device and line the theorem is about, and no call switches automatic
  output on. Lost requests, lost answers, refusals, wrong speeds and failing opens
  are all included. `MeasurementsFresh` gives `SampleIsFresh`, `NothingStaysBehind`
  gives `NothingLeftBehind`. The inductive invariant `LineInv` says where the one
  request in progress is: on its way, answered and on the way back, arrived, or
  nowhere; and that it is nowhere whenever nobody waits. A wait cannot end with
  bytes left over because what has arrived is one frame and is taken whole
  (`ReadWhole`).
* `Reliable`: punctual, no faults, the device starts at one of the probed speeds
  and only speeds of `serial_set`'s table are used, no address 0xff is set.
  `AnswersBelongToCalls` gives `AnswerIsToTheCall`, `AddressesAgree` gives
  `AddressAgrees`, `PortsUsable` gives `PortUsable`. `QuietInv` adds to `LineInv`
  what the probe knows (`Probing`: passes at wrong speeds are never
  answered), and afterwards (`Agreeing`) that driver and device hold the same
  address and speed, a command under way being the exception until it is answered.
* `MainReadsFresh` and `MainIsAnswered` carry this over to the program of
  `main.cpp`, whose steps are steps of such a client.

Without the hypotheses the properties are false: `stale_buffer` is what one lost
answer does.

The bytes (`ImuSample_proof`), for every size of the buffers, every command word,
address and data field that fits, every measurement that a quantity has digits
for, and every change of one byte (assumptions `FrameAssumption`,
`SampleAssumption`):

* `FramesAsDescribed`: `Spec => []SentAsDescribed`, `FramesReadBack`:
  `Spec => []RoundTrip`, `DamageSeenAlways`: `Spec => []DamageNoticed`. The
  argument is about sums: the sum over the place of the checksum is the same,
  since it is zero (`ChecksumZero`), and two sums that differ in one byte
  differ by less than 256 and so have different low bytes (`SumDiffers`,
  `NotMultiple`). `FrameInv` keeps the received frame as the one sent but for one
  byte. That the six complete frames quoted in comments are frames of the protocol
  is shown one by one, by their partial sums (`QuotedAdd`). `FramesReadBack` says
  the length returned is the field's when the array holds it.
* `MeasuredIsReported`: `Spec => []Faithful`. The quantities laid one after the
  other begin where `Off` says (`Laid`), which is eight digits before the places
  that `imx300_vg_cal_recv_data` has by hand (`Places`); two digits to a byte and
  back are the same digits (`Paired`, `DataDigits`); and the digits of a number,
  weighted, add up to it (`FiveDigits`, `SevenDigits`, `ReadsBack`). A frame
  damaged anywhere but in its length never gets so far (`DataArrives`).

`Sums_proof` has what both need: induction over the naturals and over finite sets,
stated for a set of numbers instead of a predicate, and that a sum
(`MapThenSumSet`) over a set with one more element is the sum and one more.

cJSON's trees (`JsonTree_proof`), for any finite set of items, any names, and
every sequence of calls with allocations failing anywhere:

* `TreesStayIntact`: `Spec => []Intact`, `NothingIsLeaked`: `Spec => []NothingLeaks`,
  that is, `StringsAccounted` and `OnlyReferencesLost`. `Intact` is not inductive.
  `Shape` states it for any links: `Linked` and `Headed` (neighbours agree, the first knows the
  last), `Reached` (a set that has the first item and, with an item, the next, has
  the whole list; that is, no part of a list is out of reach), `Grounded` (no item
  is below itself; without it `cJSON_Delete` of a caller's item could free the
  list that the call goes on to change), and `Clear` (what is not allocated is
  linked to nothing). One lemma for each pointer manipulation takes a `Shape` to a
  `Shape`; `Followed` and the lemmas on `Freed` show that deletion takes a whole
  subtree and nothing else. `Accounted` is the count of strings, with lemmas for
  the ways a name can change. `Leaks` says of a lost item that it is an unnamed
  copy in no list; it stays one because calls change only items that are held or
  below a held one, or fresh. Every call that returns "failed" has its case, the
  ones that fail after the item was made included.
* `TreesImplementLists` (`JsonRows_proof`): `RowsSpec => Implements`, the refinement
  of `JsonLists` with `nodes <- live`, `names <- name` and the rows as walked. The
  invariant adds `Rowed` to the one above: a row starts with the first item, `next`
  leads from each place of it to the following one and ends with the last. Over a
  `Shape` this makes the row the only one: it has just the items of the list
  (`RowOwned`, `RowOnce`), each once, and walking finds it in at most as many steps
  as there are items (`WalkRow`, `RowsAre`). `RowPut`, `RowTake` and `RowExchange`
  say what a change of `next` at one place does to a row; from them `RowedAppend`,
  `RowedInsert`, `RowedDetach`, `RowedReplace` and `RowedClear` take what each
  pointer manipulation writes to `InsertAt`, `RemoveAt`, `ReplaceAt` and `Without`.
  That what `cJSON_Delete` frees by following pointers is what is below the item by
  rows (`BelowFreed`) needs `Grounded`: an item freed but not below would have an
  owner that is also freed and not below, and so on without end.

`ThreadPool_proof`, for any finite set of workers, any clients, tasks and size of
the ring (assumption `PoolAssumption`: at least one slot and one worker, threads
distinct), in layers that each rest on those before:

1. `TypeInv`: types, `tail = Wrap(head + count)`, tasks in the slots between
   (`TypesCorrect`). The equation for the tail is what keeps a full ring and an
   empty one apart.
2. `LockInv`: who is in a critical section holds the mutex, only the owner
   destroys, workers have all ended when it unlocks the second time
   (`MutualExclusion`, `SecondUnlockHarmless`).
3. `CountInv`: `started` is the number of workers that have not ended, so
   `threadpool_free` never returns early (`PoolFreedLast`).
4. `FifoOnce` is inductive over the first layer, with lemmas on the ring: taking
   is the tail of the sequence, putting appends to it (`TasksInOrderOnce`).
   `PoolIsTaskQueue` maps `queue` to the slots from the head and shows that every
   step is a `Put`, a `Take`, a `Shut` or a stutter.
5. `NoLostWakeup` by counting the workers that are awake: a signal adds one for
   each task added while somebody sleeps, a worker that takes a task leaves with
   it, and a worker goes to sleep only on an empty ring (`SignalsSuffice`).

`RunOnce_proof`, for any set of processes (assumption `RunOnceAssumption`: the two
values that are no ids are none):

1. `IInv`: types (`TypesCorrect`) and, while nothing overlapped or was stolen,
   `Serial`: at most one process is in the lock code; a running instance is named
   by the file; whoever checks or kills has read that instance's id; and when a
   process is about to write, no instance is left. From it `OnlyOneRuns` and
   `FileIsTrue`. `OneInstance` by itself is not inductive: what keeps a second one
   out is what the newcomer has read.
2. `HInv` adds `Honest`, while nothing has gone wrong at all: the file names a
   live instance or nobody, never a stranger. From it `OnlyElderIsKilled` and
   `RefusalsAreRight`.

`Printer_proof`, for every `INT_MAX`, with and without `realloc`, for any length
of buffer, any sequence of pieces and any failing allocations:

* `EnsureGrantsRoom`: if `ensure` grants room, offset, the room asked for and the
  NUL fit into the buffer, and what it copied was inside the old one, unless that
  one had length 0.
* `PrintsInside`: `Spec => []Inside` for every printer that asks for what it
  writes. The inductive part is `offset < length`, which makes the copy of
  `offset + 1` bytes at `cJSON.c:515` legal. A buffer of length 0 is the exception:
  offset and length are both 0, and without `realloc` one byte is copied that is
  not there (`CopiedFromNothing`). Nothing more is read or written outside.

The argument of each layer was checked by TLC as an invariant before it was
proved.

Model-checked only:

* liveness (`CallsReturn`, `LoopKeepsAsking`, `SamplesFlow`, `AcceptedIsRun`,
  `DestroyReturns`), which this prover cannot reach;
* everything about documents, texts and patches (`json_docs`): printing, parsing
  and patching are recursive over the data.

## 5. Not modelled, and what is left

* `threadpool_create` failing halfway and the `threadpool_destroy` it then calls
  (`threadpool.c:242-258`); the C++ wrapper with its unprotected counter
  (`thread_pool.cpp:41`).
* `integerDivision` and the bit operations (`value_op.c:9` ends its search one
  step short when the operands are equal).
* The log that starts over after `m_MaxLine` lines and leaves the tails of longer
  old lines behind (`minilog.hxx:165`).
* Short writes in `serial_send` (`uart.c:261`) and claimed lengths beyond the
  buffer (`imu_300_vg.c:116`).
* Of cJSON: surrogate pairs of UTF-16, the byte order mark, raw items, the
  digits of numbers and the locale's decimal point, `cJSON_SetValuestring` and
  the number setters, failing allocations inside patches, malformed pointers.
* Start as a daemon, network and directory helpers (one system call each),
  string formatting, `inih` and `rxi_log`, the pool author's support headers, the
  build files: little state, or not used by the modelled code.
