# A specification of the Citadel host software for Android

The repository is the Android side of the Citadel security chip: the HALs
(Keymaster, AuthSecret, Weaver, OEM lock), the daemon `citadeld` through which
they reach the chip, the datagram device below it, and tools. This directory
holds TLA+ modules of that software, TLC configurations that check them on
small instances, and proofs, checked by TLAPS, of theorems about them for every
instance.

Contents: inventory; modules; runs; proofs; findings; what is not modelled; plan.

## 1. Inventory

    client -> HAL process -> CitadeldProxyClient -> binder -> citadeld -> datagram device -> driver -> chip
              (1 thread)                                      (binder pool + event thread + waiter thread)

| Component | State it keeps | Operations | Hard behaviour | What makes it correct |
|---|---|---|---|---|
| Operation buffers, `hals/keymaster/buffer.cpp` | `buffer_map`: per operation handle, an algorithm and up to 384 queued bytes | append, peek, advance, begin, final | capacity, block boundaries, a chip that reports odd counts | bounded; the last block is kept for finish; bytes in order |
| Keymaster operations, `KeymasterDevice.cpp` begin, update, finish, abort | the map above; the chip's operation table | four calls, each one or more chip calls | a call fails half way; lost requests and replies; the chip resets or the HAL dies between calls; handles are reused | an operation's bytes reach the chip once, in order, and no other operation's do; calls return |
| Attestation, same file | none; the chip keeps half-made certificates | attestKey | three chip calls; ASN.1 lengths | all or nothing |
| Other Keymaster calls, same file, `export_key.cpp` | none; the chip keeps the system's versions | the constructor; generate, import, export, upgrade, delete, share an HMAC key, add entropy | the constructor waits for properties and ignores failures; calls of many messages; version formats; three numberings of curves | OK is said only of what was done; the chip has the right versions; entropy arrives whole |
| Key parameters, `proto_utils.cpp` | none | translate tags and error codes both ways | a tag lost or changed in a round trip | what the chip returns is what the client gave |
| Key import, wrapped key | none | parse PKCS8 and ASN.1, check the parameters against the key | sizes, inconsistent parameters | an inconsistent key is refused |
| `citadeld`, `citadel/citadeld/main.cpp` | a mutex per app, cached stats, an armed flag, a condition variable | callApp, reset, getCachedStats, onGetStats; event dispatch; stats refresh | a pool of binder threads and two threads of its own, one of which calls the chip with a mutex held; threads that start in a constructor | one call per app at a time; no deadlock; no lost refresh; all events fetched; stats read whole |
| powerstats delegate, same file | the registration | register, wait for the service, death notice | the service dies at any time | registered again in the end, and never in the way of callApp |
| citadeld client, `CitadeldProxyClient.cpp` | the service's binder | Open, CallApp | citadeld dies | an error, not a hang |
| Datagram device, `libnos_datagram/citadel.c` | one static buffer and mutex per direction | read, write, wait for interrupt, reset | threads of one process share the buffers | no thread sees another's bytes |
| AuthSecret | none; the chip keeps a password, the image headers | primaryUserCredential: enroll, enable, reboot | any of the three is lost, the chip or device restarts | the new image runs in the end |
| Weaver | none; the chip keeps slots and throttles | getConfig, write, read | throttling, wrong keys | no value without the key |
| OEM lock | none; the chip keeps two locks | set and get, carrier signature | short signatures | never unlocked on a failure |
| Validation tool, `citadel_validation_tool.cpp` | none; the chip keeps registers | stress-spi, health-check, reset, enable-alerts, disable-alerts, get-temp | a command is up to dozens of transactions, any of which can fail, on top of what earlier commands left, while others reboot the chip | a verdict is right |

How components interact: a HAL has one binder thread (`configureRpcThreadpool(1)`),
so its calls are served one at a time, but HALs are separate processes and
citadeld serves them in parallel. A CallApp is synchronous. The chip raises an
interrupt for event records, which only citadeld's event thread awaits. The
hazards that follow are listed, each at its line, in PROJECT.json.

## 2. Modules

A *component module* has the state as VARIABLES, one action per step, and its
properties; a module `MC...` gives TLC its instance; a module `..._proofs` holds
the theorems. History variables and fields are named as such where declared.
Definitions marked Mutant are alternatives to the definition that follows them,
with a bug somebody might introduce; the specification does not use them.

### OperationBuffer
The functions of `class Operation` as operators on a sequence of bytes. The
capacity and the block sizes are constants, with the only fact about them that
the code needs: two blocks of any cipher fit the buffer.

### KeymasterOps
The HAL thread between its clients and the chip. `bufferMap` is `buffer_map`,
`call` the call being served with its local variables, `device` the chip's live
operations, `session` what clients know of the operations they began.

- A step is what the HAL does from one chip call to the next; nothing else can
  touch HAL state in between. A chip call has an outcome for each way the macros
  `KM_CALL`, `KM_CALLV` and `KM_CALLV_ABORT` treat it: done, refused by the chip,
  lost before or after the chip acted (the last two also abort).
- `ChipResets` empties `device`; `HalCrashes` empties `bufferMap` and ends the
  call. Both can happen at any point.
- A byte is its operation and position, so that any mixing shows.
- A client calls with a handle it was given and has not finished or aborted. A
  session is `clean` while no call on it failed and nobody else used its handle;
  what the chip absorbed is recorded while it is. Keymaster clients must give an
  operation up when a call on it fails, which is where the properties about
  streams stop.
- The chip is outside the repository. It picks any handle that is not live,
  consumes whole blocks or, for ECDSA without a digest (`lazy`), nothing until
  finish; with `Misreports`, it reports any count at all.

### Citadeld
The threads of `CitadelProxy`. `pc` says where each thread is, `appLocks`,
`cvMutex` and `statsMutex` who owns the mutexes, `armed` and `listed` the state
of the DeferredCallback, `stats` and `copy` the cached stats and what readers
have copied of them, `events` the chip's event records.

- A mutex is taken and given back by separate steps where anything that others
  can see happens in between; `schedule()` and each head of the waiter's loop
  take and leave `_cv_mutex` in one step. `_stats` is read and written in two
  parts, to show whether the mutex keeps them together. A successful reply brings
  both parts, the first or none (`buffer`), and only those are stored.
- `WakeSpuriously` is what C++ allows `wait` and `wait_until` to do at any time.
  The code tests neither why it woke, so that a wakeup from the first starts a
  delay, and a call, that nobody asked for; `wakes` counts these.
- `ConstructAppLocks` .. `AddService` are the constructor and `main()`. With
  `RacyStart`, the event thread runs from before `_appLocks` is constructed and
  the waiter from before `_cv_mutex` and `_cv` are: the order of the members in
  the class (main.cpp:103-108 and 272-277). Constructing a mutex that is in use
  is undefined; the outcome modelled is that it becomes free, and that a
  condition variable forgets who waits on it, which is what storing the initial
  value does.
- A call of the chip takes its time and may fail; its payload is abstracted.
  Failure to register the service, which ends the process, is left out.

### DeferredTimer
What the DeferredCallback promises: one call for the schedule()s since the last
one, none without, but that a spurious wakeup may cost a call (`Wake`, then `Fire`)
or nothing (`WaitAgain`). `Citadeld` implements it under the mapping
`pending <- armed /\ ~ InFunc` and `woken <- Woken`: while the function runs `_armed`
is still set, but the mutex keeps every schedule() out until it is cleared, and a
delay that runs unarmed is one that only a wakeup started.

### Chip, AuthSecret, ValidationTool, ChipUsers
`Chip` is the part of the chip that the other modules here share, all of it external: the
update password and the bank that updates are written to, the registers that the
tool writes, the temperature sensor and the battery monitors. A reboot (`Boot`)
runs an enabled image and sets the registers back.

`AuthSecret`: one `primaryUserCredential` is three chip calls, each a step: `Enroll`,
`Enable`, `Reboot`. A step may fail before or after the chip acted (`Fault`); the HAL
goes on, returns, or dies, as the code does. `WriteImage` is an updater. The
derivation of the password is one-to-one, so a password is the secret itself.
`oldFirmware`, chosen once, is the chip that replies to ENABLE_UPDATE without data.

`ValidationTool`: a process that runs one command. `Script` gives each command as the
list of transactions that the C++ code makes in that order, with its registers and
values; `ToolWrites`, `ToolChecks`, ... are one transaction each, with the chip's
part, the failures, and what the code does with them: most commands end, but
health-check goes on and keeps its verdict in `ret`. `Word` stands for 2^32: the
uptime that `reset` reads wraps, and so does the subtraction in get-temp.
`disturbed` records that something happened which the verdict is about.

`ChipUsers` composes the two: both keep their own state, share `Chip` and the bound
of faults, and the HAL's `Reboot` falls between any two transactions of the tool.

### KeymasterCalls, SystemVersion
The life of the keymaster process: it waits for the three system properties, sends
the versions they state (`SendSystemVersionInfo`) and asks for the boot information,
in both cases without looking at the result, registers, and serves. `Call` brings a
request; `OneMessage` is every call that is one exchange with the chip, with
`Replies` for what the chip can send and `Result` for what the code makes of it;
`AddRngEntropyChunk` is one turn of the loop in addRngEntropy. `Outcomes` has each way
an exchange can end: answered, refused with an error code, or failed with a status,
and then the chip may have acted or not. `executed` and `pool` record what the chip
really did. `ChipResets` may make the chip forget the versions; `HalDies` starts the
process again.

`SystemVersion` is the arithmetic of `ExtractVersion`, `VersionToUint32` and
`DateCodeToUint32` on sequences of characters: a search for the next dot, a cut, a
filter, and what `std::stoi` reads. The reference (`ReleaseOf`, `MonthOf`, `DayOf`) says of
each number at which positions of the property its digits are, and searches for,
cuts and filters nothing. Both are recursive functions, so that they can be proved
equal.

### StatsDelegate
The thread of `std::async` and the binder pool, which share the work of
registering with the powerstats service. Each life of the service has a number,
so that registering with a dead one shows. `WaitForPowerStatsService`,
`linkToDeath` and `registerCallback` are separate steps between which the service
can die and return. `staleLookup`, chosen once, lets the service manager list a
service for a while after its death. `TakeCall` and `CallReturns` stand for all of `Citadeld`:
what matters here is that a pool thread is busy.

### KeyParams, WrappedKey, KeyImport
`KeyParams` translates key parameters to the chip's messages, back, and into a map
by tag, and the chip's error codes. Tags that the code treats alike are one set; an enumerator is its name.
`WrappedKey` is the parser of import_wrapped_key.cpp: a wrapper is what its DER
encodes, an integer its two 32-bit halves. `ParserTable` is the code's table and
`Grammar` the comment above it; they differ in one row. The loop over the table is
a recursive function over its rows. What the code does to numbers at the edge is
kept: the enumerator that is cut to 32 bits, 2^64 - 1 that stands for "absent", and the upper half of
RSA_PUBLIC_EXPONENT, which is not initialized (`upper`, any value).
`KeyImport` has the calls that make keys or describe them, with the checks of
import_key.cpp as operators from a map of parameters and a key to an error or
the material. The chip keeps what it was sent, some of it for software to
enforce, adds the origin, and reports it. Whether bytes parse as PKCS8 or DER is
part of what a key or wrapper is; exhausted memory and OpenSSL's failures are left
out.

### AttestKey, DerLength
`AttestKey` extends `KeyImport`: a key is made, then attested. `pc` is the chip
call that attestKey makes next. The chip's half-made certificates are `live`;
`handle` is the one attestKey works on, which its finalizer aborts on any error
from the answer to StartAttestKey on (`Finalized`, then `AbortOperation`). The
parts of the certificate carry the number of the call they belong to. `DerLength`
is asn1_encode_length, with a decoder written from X.690 as the reference; lemma
`LengthDecodes` proves that they agree.
Of a certificate of the chain there is its role, the algorithm it is for and its set
(`Cert`); `SignerOf` is the key the chip signs with, chosen on the chip by the key's own
algorithm, while `ChainsOf` goes by what attestKey reads back of it.
`CharTagMap` is empty because the code fills the other map (see findings).

### Hals, HalContract
`HalContract` is the abstract specification of the Weaver and OEM lock HALs: a
call takes effect on the chip at most once, at one moment (`Execute`), not after
its answer, and its answer is the outcome of that moment or "failed". `Hals` is the
code below: each HAL a process with one thread (`current`), CitadeldProxyClient's
connection with one start of citadeld (`proxy`, `starts`), a thread of citadeld per
transaction (`calls[i].pc`), the app's mutex, and the two static buffers of
libnos_datagram with their mutexes. The mapping takes the abstract locks from the
chip's and an outcome from the chip's reply, at the step in which the chip acts.
Citadeld and HALs die and restart; a call whose HAL died goes on in citadeld.
Simplifications: one datagram each way stands for the exchange that libnos makes
of a call; the chip has one slot. A HAL that dies after it lost citadeld is not counted against the bound
of faults, which lets it come back.

## 3. Runs

Constants are small but let the interesting things meet: see "bounds".

| Run | Properties | Shows | Bounds |
|---|---|---|---|
| keymaster_faults | BufferOfItsOwn, StreamIntact | with handles reused after aborts, losses, resets and crashes, buffers and streams of operations never mix | 3 operations on 2 handles, so that a handle is reused while another is live; 3 faults, one more than it takes to lose a reply and reset; streams as long as half a buffer |
| keymaster_stream | TypeOK, StreamIntact, LastBlockForFinish, BufferBounded, CallsReturn | an operation with a stream longer than its buffer, and a second one that may get its handle: in order, last block kept, every call returns with the exception CallsReturn states | buffer of 5, blocks of 2, so that buffers fill at, before and after a block's end; stream of 7; a second operation without bytes (`OneStream`) and 2 faults, what it takes to lose an operation in a reset and the reply to the next begin(): without its exception CallsReturn is violated in this run |
| keymaster_duplicate | DuplicateMeansInUse | violated, see findings | 2 operations, 1 handle |
| keymaster_calls | OkMeansDone, ExportsTheKey, EntropyInOrder, VersionsTold, Serves | the HAL's start and its calls without an operation, with failures in any exchange | 10 releases, which between them have 0 to 3 dots, none or several digits, other characters and empty parts, and 4 dates, of the three lengths that matter; keys on and off their curve, on three curves of which the HAL does not know one, and RSA; entropy of 0 to 5 bytes in chunks of 2, which ends at and within a chunk; 2 calls; 1 fault, which can hit the start or a call |
| citadeld_threads | TypeOK, AppCallsExclusive, SnapshotWhole, LockOrder, RunsAreScheduled, ImplementsTimer, CallsReturn, EventsFetched | mutual exclusion and the order of locks; the DeferredCallback implements DeferredTimer, liveness included; calls return; events are fetched | 2 binder threads and the two others, so 3 threads contend for the Nugget app; 2 apps; 2 calls: one to arm, one to restart the delay or arrive while the function runs; 1 event; 2 failures or spurious wakeups |
| citadeld_racylock | AppCallsExclusive | violated, see findings | the smallest that shows it |
| delegate | OneWaits, RegisteredOnce, CallsServed, ServiceGetsCallback | one pool thread waits at most, callApp is served, a service that stays gets the callback | 2 pool threads and the async one; 3 lives, so that the service dies during a re-registration; 1 call |
| chip_users | RebootsAreForUpdates, UpdatesAreEnabled, UpdatesTakeEffect, AlertsAsAsked, StressVerdict, HealthVerdict, ResetVerified, TempMeasured | a written image is enabled in the end, and booted unless something was lost; no reboot without cause; the tool's verdicts are right though the chip reboots under it | 2 secrets (before and after a factory reset), 2 images, 1 reset by others; 1 command, its stress-spi up to one round, its samples 2 in place of 16, above and below the calibration point of the fuse; registers as after a reset or as an earlier command left them; 1 fault, anywhere: with two, one corruption can undo the other |
| hals | ImplementsContract, CallsReturn | Hals implements HalContract; calls return | 2 calls, of 10 kinds, in one HAL after another or in both at once; 1 fault, and what follows from it; words of 2 bytes and signatures with a right nonce, a wrong one, and one that is a byte short |
| keys | ImportsWhatAgrees, ReportsWhatWasAsked, WrappedAsGiven, NothingLeftBehind, CertificateWhole, ChainComplete | what is imported agrees with its parameters, which come back unchanged; certificates are whole, come with the chain of the key that signed them, and leave nothing on the chip | lists of up to 3 parameters: algorithm, size and one more, or a tag twice; right and wrong values of each; keys of every kind that the code tells apart; authorization lists of up to 2 elements, enough for wrong order, repetition and a missing row; certificates of 127, 128, 255, 256, 65535 and 65536 bytes; 2 attestations, 1 fault |
| attest_validity | ValidFromActivation | violated, see findings | keys with a date |
| wrapped_grammar | WrappersAccepted | violated, see findings | as keys |

In delegate, ServiceGetsCallback is about a service manager that forgets a dead
service at once; with one that lags behind it does not hold: a delegate that looks
up a service which has died, after it was told of the death, cannot link to it, and
the code says so in its log ("we will NOT be notified on powerstats death").

Most runs set `CHECK_DEADLOCK FALSE` because the bounds let the system come to rest:
clients have used up their calls (in chip_users there is always a user to unlock). That nothing is stuck before is what
`CallsReturn` and `CallsServed` say.

Fairness. KeymasterOps: weak fairness of the HAL's steps taken together; there is
one thread and every chip call returns (the driver's transfers are bounded by its
timeouts). Clients, resets and crashes have none. Citadeld: weak fairness of each
thread; a chip call returns, a timed wait ends, and a mutex that stays free is
taken. A mutex is not assumed to be fair: clients make finitely many calls in a
behaviour, so nobody is overtaken forever. Clients, events and failures have none.

ChipUsers: weak fairness of the HAL's steps, and strong fairness of each user's
giving the credential, which happens at every unlock. Nothing else reboots the
chip, and nobody has to run the tool. KeymasterCalls: weak fairness of the HAL's
steps, as every exchange ends, and of each property's creation by init; none for
clients, resets and deaths. StatsDelegate: weak fairness of each thread and of the kernel's handing out
work to the pool; none for the service. Hals: weak fairness of the HALs' and
citadeld's steps taken together, which is less than fair threads: it is enough
because the calls are finitely many and no thread waits for one that needs a
client. Deaths and restarts have none, and a call that lost citadeld returns all
the same.

Every property of a passing run has a mutant (PROJECT.json) that TLC finds
violating it.

## 4. Proofs

TLAPS checks these for every value of the constants that satisfies the named
ASSUMEs: any number of handles, threads, calls, lives and faults, any sizes. TLC
evaluates every ASSUME on the runs. What the assumptions exclude, and why the code
justifies it, is said with each.

**KeymasterOps_proofs** (assumptions `BufferAssumption`: two blocks of any cipher fit
the buffer; `KeymasterAssumption`: the types of the bounds).
`TypeCorrect`, `BuffersStayBounded` and `BuffersStayWithTheirOperation` prove
TypeOK, BufferBounded and BufferOfItsOwn, also for a chip that reports any count
(`Misreports`), which no run has. The inductive invariant is
`Inv == TypeOK /\ CallInv /\ BufferBounded`, where `CallInv` is what each point
of a call relies on: its operation exists, what it has consumed is within its
input, its buffer is still there while the chip is asked, the chip's operations
are known sessions. TypeOK alone is not inductive because `accepted` stays within
the stream only if no round of finish() reports more than its input. Lemmas about
the buffer (`AppendCountBound`, `PeekCountBound`, `AppendedSeq`, ...) come first,
then one lemma per action. BufferOfItsOwn needs in addition only that a buffer is
opened in the step that makes its operation live.

**KeymasterStream_proofs** (the same, and but for the last theorem `Misreports = FALSE`:
with a chip that lies about what it consumed bytes can be lost). `StreamsArriveIntact` proves
StreamIntact and `LastBlocksReachFinish` LastBlockForFinish. To the invariant above,
`StreamInv` adds for each clean operation that what the chip absorbed and what the
buffer holds make up what was handed over, in order (`Makes`), with whole blocks
absorbed and a last one held; during FinishOperation the call's `data` takes the
buffer's place (`Sends`). None of it is inductive without knowing who owns a handle:
`HandlesInOrder` (what is live on the chip under a handle is the last operation that
was given it, and a clean operation's handle was not given out again) and `OneCaller`
(a call under a clean operation's handle is a call on it). The lemmas below it are
about pieces of a stream (`ChunkConcat`, `ChunkFront`) and about what a round of
`peek` and `advance` leaves.
`CallsMakeProgress` is the part of CallsReturn that is about steps. `StepsLeft` bounds the
steps until a call returns; every step of the call lowers it, and a reset of the chip
leaves it alone. The step that matters is the reply to a round of finish()'s loop
(`ReplyWorks`): append() took something, or the buffer was full, and then peek() had a
block to offer (`FullIsPeeked`: this is where two blocks must fit) or the operation is an
ECDSA one that waits, and the special case consumes the rest. The hypothesis `~ Starved`
is that of CallsReturn: the chip does not hold, under the handle, an operation that waits
while the buffer is of another kind. Then a call can go on forever (see the
observations below). A clean operation is never starved, which the theorem says too. That
needs `KindInv`: a buffer has the algorithm of the operation it was opened for, and only
ECDSA operations wait. That there always is a step to take, and that fairness
makes the HAL take it, is what the run of CallsReturn adds.
`BytesStayInOrder` says what remains of StreamIntact when the chip may report any count.
Bytes can be lost: those reported as consumed leave the buffer though the chip was not
sent them. But of a clean operation what the chip absorbed, followed by what the HAL
holds or sends for it, is always a strictly increasing selection of what its client
handed over (`BytesInOrder`): nothing is repeated, overtaken, or given to another
operation. `OrderInv` is StreamInv with this in the place of the exact streams. The
step that matters is again the reply to an update (`UpdateOperationOkInOrder`): the
chip absorbed a front of the buffer no longer than what it reports (`BytesConsumed`),
so what is left in the buffer comes later (`OrderedPieces`).

**Citadeld_proofs** (assumption `CitadeldAssumption`: the threads are distinct and
finitely many; and `RacyStart = FALSE`, as with it finding 2 applies).
`Inv == TypeOK /\ LockInv /\ CopyInv`. `LockInv` reads the owner of each mutex off
the threads' positions; `AppCallsExclusive` and `LockOrder` follow from it in a
few lines (`AppCallsNeverOverlap`, `LocksInOrder`), and `SnapshotWhole` from it
with `CopyInv`, which says what the copies hold while they are made
(`SnapshotsAreWhole`). `DeferredCallbackIsTimer` shows that every step is a step or a
stutter of `DeferredTimer` under the mapping above, spurious wakeups included; it
needs that the waiter, where it waits without a delay, is listed with the condition
variable and not armed (`WaitInv`): otherwise a schedule() would be forgotten.
`NoUnscheduledRuns`, that the function runs at most once for each schedule() and each
wakeup, follows.

**StatsDelegate_proofs** (assumption `StatsDelegateAssumption`: a finite pool).
`OneThreadWaits` proves OneWaits and `CallbackRegisteredOnce` RegisteredOnce, with a
service manager that forgets a dead service at once or late. `OneToken` is the heart of
the invariant: what the delegate owes the service is in one place, with one thread
that waits or in one link to the death of one life. RegisteredOnce is about what
happens after that, so it needs `OneRegisters`: the life that is on was linked before
it is registered with, and nobody comes for it again until it ends.

**ChipUsers_proofs** (assumptions `ChipAssumption`, `AuthSecretAssumption`,
`ToolAssumption`: samples are so small that 8 of them fit 32 bits, and none of the
32-bit random values is the one a reset leaves in the register, which could hide the
reboot of the chip). `RebootsBounded` proves RebootsAreForUpdates:
the tool's steps touch neither the bank nor the HAL, except for `reset`, which is one
more reboot that empties the bank; the reboots requested plus the one that a written
image can still cause never exceed the images written. `StressTrusted`,
`HealthTrusted`, `ResetTrusted`, `TempTrusted` and `AlertsTrusted` prove the verdicts
of the tool, StressVerdict, HealthVerdict, ResetVerified, TempMeasured and the action
property AlertsAsAsked, for a stress-spi of any length, any number of temperature
samples, and reboots by the HAL at any point. Their invariant `ToolInv` says for each
command what its first `step` transactions have achieved: which registers are set
(`Configured`, `AlertsInv`), where in its four transactions an acquisition is
(`Acquiring`), whether a corrupted value can still be seen (`StressInv`). Lemmas
about the scripts (`StressScript`, ...) say which transaction is at each position,
which TLC can only do for the lengths it is given. Everything the others do to the
tool is one case (`Aside`): nothing, or a reboot.

**AttestKey_proofs** (assumptions `AttestKeyAssumption`; `CertificateAssumption`: a
certificate is less than 2^24 bytes long, the range of asn1_encode_length;
`KeyImportAssumption`: the shapes of the inputs, which are those that the interface's
types and DER give them). All are theorems of `AttestSpec`, in which a key is made and
then attested.
- `AttestationsEnd` proves NothingLeftBehind, from `Inv == AttestTypeOK /\
  NothingLeftBehind`. A step either leaves no new handle behind (lemma `Quiet`) or
  leaves one and is a fault (`OneMore`); each action is shown to be of one kind or the
  other. That an error which the code handles is no fault is what the theorem is about.
- `CertificatesAreWhole` and `ChainsAreComplete` prove CertificateWhole and
  ChainComplete. `CertInv` says which parts have arrived, of which call, at each `pc`
  (`Parted`), and which key signed it and which chains go with that. A list that
  translates keeps its algorithm (`AlgorithmKept`), so the one chain there is names the
  algorithm of the key that signed; one that does not is empty, and so are the three
  certificates. Lemma `LengthDecodes` proves asn1_encode_length right for every length:
  what X.690 decodes from it is what was encoded.
- `ImportsAgree` proves ImportsWhatAgrees: importKey accepts exactly what agrees.
  `KeysReportedAsAsked` proves ReportsWhatWasAsked, and `WrappedKeysAsGiven`
  WrappedAsGiven, for lists of any length and in whatever order the tags come out of
  importKey's map. These need no invariant beyond what the last answer says, and
  `ImportSteps`, that attestKey's steps leave it alone; they rest on lemmas about lists.
  `ByTagKeeps`: taking a list apart by tag and putting it together again keeps each
  tag's values in order and loses none. `KeyReports`: what is sent to the chip
  comes back as it was, if it comes back at all. `ParsedListRight`: the loop over the
  parser's table, which consumes a list, has visited it in the grammar's order and
  translated each element as it is meant; it is an induction over the rows of the
  table (`EntryTaken`).

**KeymasterCalls_proofs** (assumptions `ChunkAssumption`, `RefusalAssumption`: a
refusal is not "OK"; `BoundsAssumption`). `CallsAreHonest` proves OkMeansDone for whatever
replies, error codes and parameters there are: while a call is at work nothing has been
executed for it, so its one exchange decides both what the chip did and what the client
hears. `EntropyIsTiled` proves EntropyInOrder for every chunk size and length: the
invariant `EntropyInv` says that, while the loop runs, what the chip has mixed in ends where
the next chunk starts, or the loop is past the last byte. `TypeCorrect` proves TypeOK.
`KeysExportedAsSent` proves ExportsTheKey: an exported key is the chip's, on the same
curve, through all three numberings of curves.
`VersionsAreTold` proves VersionsTold (`excuse` records why the chip of a serving HAL may
be without the versions), under `PropertiesAssumption`: properties are
sequences of characters, and no release makes a number beyond an int, so that neither
`std::stoi` throws, and the HAL does not start, nor the 32 bits of the result overflow
(KeymasterDevice.cpp:75-97). It rests on two
theorems about the arithmetic, which need no assumption. `ReleaseRight`: VersionToUint32
is the reference for every sequence of characters, whatever its dots, empty parts and
other characters. The argument follows the scan: `At` says that the k-th
ExtractVersion starts right after the (k-1)-st dot, or past the last one; what it cuts
out is what lies between two dots (`FirstDot`, counts of dots up to a position:
`Counted1`, `CountedMore`); and filtering digits out and reading them gives the same
number as reading the whole at those positions (`KeptDigits`, `PieceValue`).
`DateRight`: the same of DateCodeToUint32, where the division by 100 takes off the last
two digits (`MonthAndDay`). `ToldInv` then carries this through the steps: what the HAL
sends is made of the properties it read, and before the first call is served it was sent
and, if nothing failed, arrived.

**Hals_proofs** (assumptions `HalsAssumption`, `MethodsAssumption`, `NoneAssumption`:
the interface's methods and their arguments, and that "no reply" is not a reply).
`HalsImplementContract` proves that Hals implements HalContract. The invariant says of each
call that it has an outcome exactly from the step in which the chip acts (`Outcome`),
and that the mutexes keep the app, its reply and the two static buffers to the call that
uses them (`Alone`), so that what a call copies out of the buffer is the reply to its own
request, whatever died in between. Under the mapping each step of a HAL, of citadeld
and of the chip is `Invoke`, `Execute`, `Return`, `Die` or a stutter.

Induction. tlapm cannot instantiate the library's induction theorems, whose parameter
is an operator, but induction over a *set* is within its reach: the least number that is
not in the set (lemmas `LeastNumber`, `SetInduction`, from NatLessThanWellFounded) or
the shortest list (`AppendInduction`). With it, recursive functions, and the
community modules' FlattenSeq, can be reasoned about (`FlattenAppend`,
`ListStates`, `PositionInduction`). This is why `WithTags` is written with FlattenSeq, and
`ParsedList`, `DigitsOnly` and `ValueAt` as recursive functions: SelectSeq is built into the
prover and cannot be expanded, and the community modules' folds choose among
bijections.

Only model-checked:
- liveness, and everything that needs fairness: CallsReturn, CallsServed, Serves,
  ServiceGetsCallback, EventsFetched, UpdatesAreEnabled, UpdatesTakeEffect and the
  liveness of DeferredTimer in ImplementsTimer. It is out of the prover's reach; of
  CallsReturn the steps are proved (`CallsMakeProgress`).
- the properties of the runs that expect a violation.

## 5. Findings

1. `abort()` never drops the buffer of its handle (KeymasterDevice.cpp:1221). When
   the chip gives the handle out again, begin() takes it for a duplicate, aborts
   the new operation and fails (run keymaster_duplicate). The next begin() works.
   The theorem BuffersStayWithTheirOperation shows that this is the worst of it:
   old bytes never reach a new operation.
2. The event thread starts before the mutexes it locks are constructed
   (main.cpp:273; citadeld_racylock).
3. attestKey fills one map with the key's characteristics and looks the dates up in
   another, which is empty: every certificate is valid from 1970
   (KeymasterDevice.cpp:689; attest_validity).
4. A wrapped key with a creation date is refused: the table has the wrong parser
   for it (import_wrapped_key.cpp:446; wrapped_grammar).

Observations without a run, either because no text of the repository says
otherwise or because the question is close to that of another run:

- The waiter starts before its condition variable is constructed (main.cpp:106).
  With `RacyStart`, ImplementsTimer does not hold.
- Neither wait has a predicate (main.cpp:86, 92): a spurious wakeup of the unarmed one
  starts a delay and costs a chip call nobody asked for. ImplementsTimer shows that
  it costs nothing else.
- `wait_for_interrupt` that keeps failing makes the event thread spin (main.cpp:311).
- The keymaster HAL serves although the chip may not have got the system's versions
  (KeymasterDevice.cpp:318), and does not send them again when the chip was reset.
  VersionsTold names the only three ways to that: the chip refused the call, the call
  was lost, or the chip was reset after it.
- The validation tool cannot tell that the chip rebooted while it worked: enable-alerts
  then reports success with some alerts off. `reset` takes a chip that has been up for
  a little more than 2^32 microseconds for one that was just reset
  (citadel_validation_tool.cpp:287), get-temp wraps when the sensor is below its
  calibration point (:472), and stress-spi misses a value that was corrupted both when
  written and when read.
- Stats asked for before they were collected are uninitialized memory
  (main.cpp:235, 275).
- An update whose ENABLE_UPDATE or REBOOT message is lost is enabled and not booted
  by the HAL: every later call is told that nothing changed (AuthSecret.cpp:144).
  UpdatesTakeEffect is therefore about updates with no fault.
- BLOB_USAGE_REQUIREMENTS never translates back (proto_utils.cpp:365), and
  generateKey and getKeyCharacteristics answer OK with nothing in the list where it
  was; importKey fails; attestKey answers OK with three empty certificates
  (ChainComplete). HARDWARE_TYPE and enumerators that do not exist in the
  chip's messages do the same. The properties of KeyImport that speak of what is
  reported are about keys whose lists translate (`Translates`, `SoftwareTranslates`);
  the tag ORIGIN, which the chip sets whatever the client asks for, is left out.
- Other rows of the authorization list, such as ROLLBACK_RESISTANCE and
  TRUSTED_CONFIRMATION_REQUIRED, are in the table but refused by their parser; that
  may be meant. Of integers at the edge, see WrappedKey above.
- finish() can loop forever (KeymasterDevice.cpp:1150): the chip loses an AES operation
  whose buffer is full, gives its handle to an ECDSA operation without digest, and the
  reply to that begin() is lost, so that the client goes on with the old handle. The
  chip consumes nothing before finish, and the special case (:1115) looks at the
  buffer's algorithm, which is AES. CallsReturn says that this (`Starved`) is the only way
  for a call not to return, and CallsMakeProgress that it takes an operation that is not
  clean.
- A reply to cacheStats() that is too short replaces the front of `_stats` only
  (main.cpp:296): what clients then get is of two collections. SnapshotWhole is about
  what the threads do to each other: all of them get `_stats` as it was left.
- A HAL does not look for a new citadeld when it has lost the one it knows
  (CitadeldProxyClient.cpp:40): its calls fail until it is restarted itself.

## 6. Not modelled

The chip's firmware and the kernel driver are external. Cryptography, OpenSSL's
encodings and the certificates are data. Time is not modelled beyond the order of
timeouts. The manual tests are programs a person drives and judges, without state
between two commands; the unit tests were read as a reference for what is meant. The
command line of the validation tool and its printing are left out, as is the tool
without a citadeld, which its `reset` would dereference. `std::stoi`
(KeymasterDevice.cpp:75-112) throws for a property with a number beyond an int; such
properties are excluded by `PropertiesAssumption`. Components without a module are listed in
PROJECT.json with the reason.

## 7. Plan

Done, in this order: KeymasterOps, Citadeld, AuthSecret, StatsDelegate, KeyParams
and KeyImport, AttestKey, Hals, WrappedKey, KeymasterCalls, ValidationTool and
ChipUsers, with the theorems above. Every component with a state of its own is
modelled, and every safety property that a run checks is a theorem. What could be
added: the steps of the other liveness properties, as in CallsMakeProgress.
