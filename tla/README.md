# Verification of esp-cryptoauthlib

TLA+ models, TLC runs and TLAPS proofs for the ESP32 port of CryptoAuthLib (`cryptoauthlib/`), its
component glue (`port/`, `Kconfig`) and the provisioning tool (`esp_cryptoauth_utility/`): a driver
for the ATECC608 secure element on I2C, the layers of the library above it, and the scripts and
console firmware that provision a chip.

`PROJECT.json` lists the runs, mutants, findings, hazards and theorems, and maps every definition to
the lines it models.

## The system

| Component | State | Operations | Talks to |
|---|---|---|---|
| Command execution (`lib/calib/calib_execution.c`, `calib_basic.c`) | `device_state`, the retry and poll counters and the packet of a running call | wake, send, poll and receive, check, idle | the HAL below, every `calib_*` command above |
| Device contexts (`lib/atca_basic.c`, `atca_device.c`, `atca_iface.c`) | device and interface objects, the global handle | init, release | the HAL; the application |
| ESP32 HAL (`third_party/hal/esp32/hal_esp32_i2c.c`) | `i2c_hal_data[bus]`: reference count, driver, device handle, address, speed | init, send, receive, change_baud, wake, idle, sleep, release; two implementations, chosen by the ESP-IDF driver | the ESP-IDF driver; shared by all contexts of a bus |
| Zones (`calib_read.c`, `calib_write.c`, `calib_basic.c`, `calib_lock.c`) | none of their own; the chip's zones | read and write ranges, the configuration, public keys; compare | command execution |
| Commands of several packets (`lib/calib/*`), host calculations (`lib/host`) | the chip's TempKey and message buffer, and the host's copy of them | nonce, GenDig, encrypted write and read, ECDH, sign, verify, secure boot | command execution |
| Multi-part crypto (`lib/crypto`, `calib_sha.c`, `calib_aes_gcm.c`) | SHA, HMAC, CBC, CMAC, CCM, GCM contexts; the chip's SHA engine | init, update, finish | command execution |
| Certificates (`lib/atcacert`) | the certificate under construction | write, read, build, compress, dates, serial numbers, DER | commands and zones |
| PKCS#11 (`lib/pkcs11`, `lib/hal/hal_linux.c`) | library context, slots, sessions, objects; in shared memory the device mutex and the reserved resources | the C_* API, from threads and processes | Basic API |
| Console firmware (`firmware/main`) | `atca_cli_status_object`, `is_atcab_init`, `g_cert_def_common` | one console command per operation | Basic API, atcacert; the serial line |
| Host scripts (`secure_cert_mfg.py`, `helper_scripts/`) | their place in the script | load the firmware, run the commands in order, sign the request | the serial line |
| The chip (external) | power state, command and answer buffer; TempKey, engines; zones, keys, slots and their locks | one command at a time; a watchdog | I2C |
| Kit protocol, JWT, mbedTLS glue, `app/*` | little or none | format and forward | Basic API |

The hard behaviours: a chip that falls asleep on its own and answers late; a bus on which any
transaction fails; retries of commands that have an effect; a reference count shared by contexts
that fail to open; calls of several packets with no lock around them, whose intermediate result is
in the chip; data cut into words, blocks and bit fields; processes that die holding a mutex;
operations that cannot be undone (locks) behind a line that damages and loses data; a host that may
stop anywhere and start again.

## Modules

| Module | Models |
|---|---|
| `CommandCall` | what `calib_execute_command` promises to its callers: the abstract specification |
| `CalibExec`, `CalibExecProofs` | the exchange of one command with the chip, step by step; implements `CommandCall` |
| `AtcaLifecycle`, `AtcaLifecycleProofs` | device contexts, the HAL's bus record, and the type detection |
| `ZoneAccess`, `ZoneAccessProofs` | ranges of the chip's zones, read and written in packets |
| `SealedAccess`, `SealedAccessProofs` | calls of several packets through TempKey and the message buffer, by several users |
| `Multipart`, `MultipartProofs` | contexts that gather a message into blocks |
| `CertDates`, `CertDatesProofs` | dates and serial numbers through the compressed certificate |
| `Pkcs11`, `Pkcs11Proofs` | sessions, locks and reserved resources of threads and processes |
| `Provisioning`, `ProvisioningProofs` | host, serial line, console firmware and chip |
| `MC...` | the TLC instance of each |

The layers meet at their interfaces: `CommandCall` states what one exchange gives to the layers
above (at most one effect, and a success is the command's own answer; a failure may or may not have
had its effect), and those modules take exactly that as what a packet may do: be refused, fail, be carried out, or be
carried out with its answer lost.

### CalibExec

One step is one HAL transaction, or a decision between two. `pc` is the place in the task's code;
`device_state`, `status`, `retries`, `wretries`, `polls`, `packet` are the variables of the code (the
loop counters hold the tries that are left, so `0 < retries--` is `retries > 0` and the decrement).
`Execute`, `SendPacket`, `PollRewind`, `PollLength`, `PollBody`, `CheckResponse` and `Park` are
`calib_execute_command` in order, and `Execute` wakes only a device that is not active; `LowerBaud`,
`WakePulse`, `ReadToken`, `VerifyToken` are one round of `calib_wakeup_i2c`. `Wakeup` and
`IdleOrSleep` are the calls of the Basic API that bypass a command. The chip is the environment: `ChipAnswers` and `ChipWatchdog` happen at any moment, and
every transaction also has the outcomes in which it fails, or is damaged on the way.

Abstracted: packets (whose answer it is, whether it is damaged), times (a delay may or may not be
long enough), the CRC (it detects damage). Assumed: the classic I2C driver, whose functions
`calib_wakeup_i2c` calls directly; a HAL reports `RX_NO_RESPONSE` only when the chip received
nothing. The SWI, kit and CA2 branches are for other interfaces and devices.

### AtcaLifecycle

One step is one call with at most one fault (`f`: no memory, `install` or `add` of the driver
fails, the chip does not answer). `device` has a value per `ATCADevice` variable and `hal` is the
record of the one bus. `HalInit`, `HalRelease` and `WireAddress` are the HAL's functions on that
record, in both implementations (`Driver`). `Open` is `atcab_init_ext` whole: release of what the
handle held, allocation, HAL init, first read. `StartDetection` and `Probe` are
`init_atecc608_device`, with other handles opened and released between two probes. Handles share one
configuration. The calls are sequential, as the code requires; it has no lock.
Over-approximated: the new driver's wake before the first read, as a fault that may happen.

### ZoneAccess

One step is one packet. A call is a record with its range, where it is in it and what it has read;
`IsExtra` and the operators after it decide between words, blocks and `UpdateExtra` as
`calib_write_bytes_zone` and `calib_read_bytes_zone` do. Data is known by where it belongs: a byte
that was read holds the address it was read from, a word of a zone holds its own index once the
caller's word for it has arrived. So a property compares what arrived where with what the range
says, and no contents are needed. `call.old` is a ghost, the words the chip held when the call
began, so that what a write may change is said of every call and not of the first one only. What
`CallsOn` may hold is what the functions take (`CallsAssumption`): the configuration functions have
no range of their own, locking all slots is CA2's, a public key has the slots from 8 on
(`calib_read_pubkey` and `calib_write_pubkey` pad it for those), and a CA2 write starts where a
block, or a slot of the configuration, does. UserExtra and Selector are write-once, the counters of the chip
move by themselves, and each CA2 slot of the configuration has a lock of its own. The zones
of the ATECC608 are not locked here; `Provisioning` has those locks.

### SealedAccess

One step is one packet of one user's call, or the chip going to sleep; other users' packets may come
in between, because the library has no lock around a call. Hashes are terms: a TempKey is the
sequence of what was hashed into it, a cipher text the plain text with its pad, a MAC the record of
what it covers. The host's side (`HostNonce`, `HostGenDig`, `SealedUnder`, ...) is computed from
`atca_host.c`, the chip's (`Reaction`) from the use that the code makes of the commands; both give terms that
must be equal for the chip to accept. `mixed` is a ghost: something else touched what the call
relies on.

### Multipart

One step is one call of init, aad, update or finish with all the commands it sends, any of which may
fail. A byte is known by its place in the message and by the key stream it was XORed with; a running
digest or chain is the sequence of the blocks that went into it. The reference is the standard's
definition over the whole message (`Sha256Padded`, `RefChain`, `RefOut`, ...), and what a context
has after any cut of the message into pieces is compared with it. Blocks are four bytes, and SHA's
length field two, so that every position in a block occurs with messages of two blocks and a byte.
SHA and HMAC keep their digest in the chip's only engine, which two contexts may share; AES keeps
nothing there. `Known` names the exceptions: CBC "padded with zeros" (finding 1),
additional data with no text in CCM, a counter block whose encryption failed, and `TooLong`.

The library writes lengths in fewer bytes than the standards: the bit count of SHA-256 in 32 bits
(`BitCount`: above 536,870,911 bytes the host's hash takes 0 and the ATSHA204A's the low bits), the
text's length of CCM in `15 - iv_size` bytes (`Header` keeps the rest of `TextLimit`), that of its
additional data in two (`AuthSize`, where RFC 3610 takes six from `AadLimit` = 0xFF00 on). No call
refuses such a message and the end succeeds; the model computes what the code does, the reference
what the standard says, and `TooLong` names the lengths at which they part. The counters of the
contexts are `uint32_t`: `LengthsAssumption` bounds the message of a context so that they do not
wrap. The counter of CCM's key stream has as many bytes as the length field and counts blocks, so
it does not come round before the text is too long.
A decryption is given a cipher text whose last `pad` bytes decrypt to padding (`pad` is 0 for a wrong
one, and for every job but `dec_pad`); an empty cipher text has no padding, and the code's end, which
only looks at a block it holds, accepts it. The code's loops over passes and bytes are recursive
functions (`CbcUpdate`, `StreamUpdate`).

### CertDates

`def` is the certificate definition, `cert` the dates as they are formatted in the certificate and
its serial number, `comp` the compressed certificate. `Encodes`/`Encoded`/`Decoded` are
`atcacert_date_enc` and `_dec` in the formats; `EncComp`, `CompIssue`, `CompExpire` are the
compressed dates; `Compress` is `atcacert_get_comp_cert`, `Build` is `atcacert_set_comp_cert` and
`atcacert_cert_build_finish`, with what a failing one leaves behind. A history begins with a
certifier who signs a certificate, or with a compressed certificate found on a device. A digest is
its input. The signature, keys and ids are copied by the code and left out.

### Pkcs11

A call looks its session up without the lock (`Enter`), takes the mutex (`Acquire`), works under it,
and finishes after it (`Tail`), each a step, so that other threads come between, and a process may
die, exit or be started at every one of them. A step under the mutex is one action. `lock` is the
robust mutex in shared memory, with "dead" for the owner that died; `res` the reserved resources
with session and owner; `mech` each session's `active_mech`. One operation stands for each pair that
takes the same steps (the comment at the head says which). `Races` says what applications do
concurrently: two threads in calls on one session ("contexts"), or two processes creating the shared
memory ("creation"); PKCS#11 leaves the first, and the code the second, to the application. `Ta100`
says that the token is a TA100, whose RSA keys `C_Verify` refuses without unlocking, as
`C_CreateObject` does with a key it has no entry for; with an ATECC608 neither return can be reached
(its keys always have a curve). Of `C_CreateObject` only the lock is modelled.

### Provisioning

A step is the host sending a command, the firmware running one handler, the host taking the Status
line, or the host being started again. `Plans` holds what a host does: the commands in order, over a
delivered or a blank chip, and whether the line may lose the end of a payload. `DefinedFirst`,
`WrittenFirst`, `RequestedFirst` and `KeyedFirst` say in which order a plan gives the commands that
depend on one another; TLC checks that the script's plan and the plan over a blank chip are so ordered
(`PlansAreOrdered`), and the guide's, which sends no definition, is finding 3. The actions of the
firmware carry the guard of the console command and the whole handler. `Outcomes` gives what an
operation of the chip may do: be refused, succeed, or fail with or without its effect, or with part
of it. Being interrupted in a handler is a failure there followed by `StartAgain`.
Abstracted: the certificates (whose it is, for which key, whole or not), the key of slot 0 (the
number of the run that generated it), the definition (for which certificate, damaged or not).

## Runs

| Run | Asks | Bounds |
|---|---|---|
| `command_exchange` | Is a success the call's own answer; is a command executed at most once; does a call without a fault succeed whatever came before; do the bus speed and the chip's power state fit; does every call return; does the exchange implement `CommandCall`? | 2 retries, 2 polls |
| `contexts` | Who owns the bus and every reference; is the detection right? | 2 handles, 4 references, the new driver |
| `zones` | Do reads return the range they name; do writes change their range only, from the front; does success mean all of it; do legal calls succeed; does the comparison tell; does a public key come back? | 2 calls, 1 faulty packet; 8 zones and slots, ranges with ends on, before and behind every word, block and zone end that the code treats specially |
| `sealed_access` | Is no packet of an undisturbed call by someone entitled refused; does it read and sign what it should; does a disturbed one never seal the wrong content into a slot, confirm a signature that is not good, or report a write that did not happen? | 2 users, 3 calls, 2 slots, 2 contents, both chip generations |
| `multipart` | Is the result the standard's for the whole message, for every cut; is no byte lost on the way; is only a wrong cipher text refused? | blocks of 4, messages of up to 9 bytes, additional data up to 7, and lengths just too long, 1 failing command, 2 contexts on the engine |
| `cert_dates` | Does a certificate come back from its compressed form, and a compressed one from its certificate? | 12 dates at edges, 11 terms, all formats; stored certificates of 4 versions |
| `pkcs11_aes` | Is the engine of an active operation reserved; is it lost only in the three ways the property names; one thread at a time with the chip; does the mutex come back? | 2 processes, 3 threads, 2 sessions each |
| `pkcs11_logins` | Does a logged-in token hold an authorisation slot; does every call return although the process may die? | 1 process, 2 threads |
| `provisioning` | Does the script never report success wrongly; is no slot or zone locked half written; is what a stopped run left, locked slots apart, no obstacle to the next one; does every run end? | 3 starts, `--lock_slots`; the script over a delivered chip, the guide over a blank one |
| `zero_padding`, `cert_serial`, `documented_workflow` | the findings below | those of the run of the same module; 1 start |

Why these bounds are enough.

- The loops of the exchange behave alike for every count above one: two retries and two polls have a
  first round, a last one and one that is neither; the theorems hold for every count.
- Two handles are the one that owns the bus and any other; with four references a leaked one, a live
  one and one on top occur, and the theorems hold for any bound and for both drivers.
- `ZoneAccess`: the walks depend on an end's place in its word and block, on the zone's size and on
  the extra word; the ends contain each of those cases. A second call is one that repeats, completes
  or verifies the first, and it starts from any state the first can leave; a third starts from no new one.
- `SealedAccess`: a call can be disturbed by any packet of another user; a third call lets what an
  earlier finished call left in the chip meet the two.
- `Multipart`: no code looks further than the block at hand, so a message of a block's rest, a full
  block and a byte more has every kind of boundary, and the length field ends before, at and behind
  a block's end. The limits of the lengths are made small (`Word` 75, `TextLimit` 10, `AadLimit` 8)
  and messages that reach each by a byte are among the jobs: without its line in `TooLong` each
  breaks `OkIsReference`.
- `Pkcs11`: the third thread, of another process, is needed because the resources name process and
  session; the theorems hold for any number of them.
- Three starts are a first run, one over what it left, and one over what both left.

`CHECK_DEADLOCK FALSE` is said where behaviours end: a bounded number of calls (`ZoneAccess`,
`SealedAccess`), a finished message (`Multipart`), a rebuilt certificate (`CertDates`), a finished
provisioning, or a host that waits for a line that lost data.

Fairness. `CalibExec`: the task's own steps (one task, never suspended for good); nothing is assumed
of the chip. `Pkcs11`: a thread in a call goes on, and one that waits for the mutex gets it if it
becomes free again and again, which is what the operating system's mutex gives; dying is never
required and never excluded. `Provisioning`: sending, receiving and the firmware's loop each go on;
liveness is asked of the plan whose line is lossless. The other modules need none.

## Findings

1. `zero_padding`: `atcab_aes_cbc_encrypt_finish` says that it pads with zeros and clears the wrong
   part of the block: the front, which holds the end of the message, and not the bytes behind it
   (`atca_crypto_hw_aes_cbc.c:262`).
2. `cert_serial`: the serial number of a certificate without an end is generated with the years up
   to the format's maximum date and rebuilt with zero years, so the rebuilt certificate differs from
   the signed one (`atcacert_def.c:1566` against `atcacert_def.h:89`).
3. `documented_workflow`: the guides send no `provide-cert-def`; writing a certificate then writes
   nothing, succeeds, and the empty slot is locked.

Seen while modelling, and not given a run of their own:

- `hal_esp32_i2c.c:152`: opening a second context while the bus is in use fails and keeps a
  reference, in both drivers, so that the driver is never released (`RefsAreAccounted` counts them).
- `hal_esp32_i2c.c:424`: a failed re-registration leaves `dev_handle` at the removed device.
- `hal_esp32_i2c.c:203`: the classic driver shifts an 8 bit address as if it were 7 bit;
  `DetectionIsRight` therefore speaks of the new one.
- `manifest.py:127` sends `get-tngtls-root-cert`, which the firmware no longer has, and waits.
- `secure_cert_mfg.py:167`: nothing configures a blank chip, against README and help text.
- `pkcs11_session.c:314`: the mutex stays locked when a session gets no context, the table being full
  or the allocation having failed; `pkcs11_signature.c:550` and `pkcs11_object.c:628`, `:644`, `:672`
  and `:688`: it stays locked when a TA100's key is refused (the exceptions in `LockComesBack` and
  `CallsReturn`); `pkcs11_session.c:337`: a session is used after it may have been freed;
  `hal_linux.c:112`: two processes may create the shared memory at once; `pkcs11_signature.c:529`:
  a verify with a wrong length does not end the operation, against its comment at `:476`.
- `calib_write.c:711`: a CA2 configuration write goes on after a failed slot and returns the last
  slot's status; `calib_read.c:781`: the CA2 comparison is satisfied by one of two slots. So
  `WholeWhenOk` and `CompareTells` are not claimed of those.
- `atca_crypto_hw_aes_ccm.c:426`, `:436`: CCM without text leaves the rest of the additional data
  out of the tag; a failed encryption of the counter is overwritten by the next status.
- `sha2_routines.c:412`, `calib_sha.c:323`: above 536,870,911 bytes, the limit their comments name,
  the digest is not SHA-256's and the call succeeds; `atca_crypto_hw_aes_ccm.c:117`, `:141`: too
  long a text has its length cut to the field, and 0xFF00 or more bytes of additional data are
  announced in two bytes (`TooLong`).
- `atcacert_date.c:887` and the time of day's counterpart: a POSIX date on the last day of a month,
  or at the format's last second, is refused, where `atcacert_date.h:64` has days "1 to 31".
- `atcacert_def.c:2242` dereferences `def_issue_date`, which may be NULL when the definition has an
  issue date.

Other behaviours that are hard to test and are in no property: `pkcs11_find.c:343` (one static
search buffer for all sessions), `pkcs11_encrypt.c:221` (an uninitialised handle is checked),
`atca_basic.c:163` (the deprecated `atcab_init_device` aliases a device that another handle owns),
`ecu_console_interface.c:148` (the start handshake), `handlers.c:500` (a refused write-config leaves
its 128 bytes to the console).

## Theorems

For every value of the constants that satisfies the named assumptions:

`CalibExecProofs`: `TypeCorrect`, `SuccessIsHonest`, `NeverTwice`, `Recovers`, `SpeedIsRight`,
`AlwaysWakes`, `Parks`, and `Implements`, the step simulation of `CommandCall`'s safety part. The
inductive invariant ties each `pc` to what holds there: which answers can be in the chip or in
`packet`, that `accepted` is 0 until a send succeeded and then that the loop is left (`retries = 0`),
what state of the chip a call without a fault finds after its wake sequence, and the bus speed. The
properties alone are not inductive: `AtMostOnce`, for instance, needs that a send is only repeated
while `accepted = 0`, and that needs that a HAL reports `RX_NO_RESPONSE` only when nothing was
delivered.

`AtcaLifecycleProofs`: `TypeCorrect`, `BusIsOwned`, `ReferencesBalance`, `DetectsTheChip`. The
invariant says that the count is the number of live devices plus the failed inits, that a live device
is alone and its bus open, and, for the detection, that with the new driver a live device was opened
at the address of the configuration. No sequence of releases takes the count below zero because of
the first two.

`Pkcs11Proofs`, for any number of processes, threads and sessions: `TypeCorrect`; `Excludes`, one
thread at a time inside the lock, under the hypothesis `"creation" \notin Races`; and
`EngineIsReserved`, under `Races = {}`. `LockInv` adds to mutual exclusion that a process uses the
shared memory only when it is complete, so that it cannot be initialised anew under a holder, and
that who holds the mutex is named by it. `AesInv` adds the shape of a call at each stage, that no two
threads of a process are in calls on one session, and that a starting operation has the engine from
its reservation to its body; the tail of a call, which is outside the lock, is the reason for all three.
`OnlyErrorsKeepTheLock` (`"creation" \notin Races`): no call ends with its thread holding the mutex but
an opening that gets no context and, on a TA100, a verification or an object creation. It needs that
no thread the mutex names is past its last unlock (`Kept`), since what follows that unlock would end
the call with the mutex. `OnlyLeaks` (`Races = {}`) is the converse of `EngineIsReserved`: who holds the engine has
an active operation, or a call under way that will start it or give it back, or lost it in a way
`TheOnlyLeaks` names; the invariant has in addition that a call finds at its body the mechanism it was let in
with (`LeakInv`). `LoginIsAuthorised` (`Races = {}`): a logged-in token has a slot that no login which
may still fail has reserved (`Authorised` with `Pending`), for a failing login gives its slot back and
the two slots have the same owner. The hypotheses on `Races` are obligations of the application, and without them
the properties fail.

`SealedAccessProofs`, for any number of users, slots, contents and calls: `WritesLand` and
`MacsTell`, whatever packets of others come between those of a call, and `OnlySealed` under
`KeySlotIsNoTarget`: no `calib_ecdh` puts its premaster secret into the slot of the keys. Without
that, a secret that arrives between `GenDig` and the sealed write leaves a TempKey of the old key
valid; and what a call achieves that nothing came between: `CleanCalls`, none of its packets is
refused if the caller has the key, `ReadsTell` and `MessagesAreOwn`. For these the invariant
(`RInv`) says that host and chip of an undisturbed call have gone through the same TempKeys and the
same message. For the others the invariant has what a call under way has brought together before each packet (the nonce,
then the nonce with the caller's key; a MAC over a good digest for a secure boot that goes on), and,
under the hypothesis, that a TempKey which authorises ends with the key now in the slot: the MAC of
an accepted write covers the host's TempKey, so its last term, the caller's key, is that key. The
assumption on `NoData` says that an answer without a MAC is not taken for one.

`CertDatesProofs`, for every set of definitions, signed dates and stored certificates, in all formats:
`DatesReadBack`, that the compressed encoding loses nothing of the issue date to the hour or of the
years it accepts; `PosixReadsBack`, that `gmtime` is the inverse of the POSIX encoder for every date
from 1970 to 2106; and on them `ReadsBackAlways` and `ComesBackAlways`, the two properties of
`cert_dates`. The code's sums over years and months are recursive functions. They are shown to be
closed forms (`YearStarts`, `MonthStarts`) by induction over their argument, in the form of a lemma
about sets of numbers (`Induction`, from the library's well-foundedness of `<`), and a closed form
that grows has one year and one month for each day. `IInv` has for a stored certificate that the
certificate under construction holds the dates the compressed one stands for, in the definition's
formats; `SignedInv` has for a signed one that its fields decode to dates the certifier could write
(`Began`), that its serial number is over the compressed form of these (`SerialMade`), and that the
device keeps what `CompressedYears` settled for (`Compressed`). The assumption on `Signed` is that the
host's `struct tm` is filled with numbers in the ranges of its fields.

`ZoneAccessProofs`, for any zones, ranges, numbers of calls and of failing packets: `ReadsItsRange`,
`WritesAPrefix`, `SuccessIsWhole`, `LegalCallSucceeds`, `ComparesRightly` and `KeySurvives`, each
from `Invariant`. The invariant is the walk's own bookkeeping: up to `idx` the buffer holds the
range (`Filling`), up to `block` and `word` the zone holds the caller's words and behind them what the
call found (`Writing`), no word is in a place that is not its own (`Own`), the extra bytes and the
locks have got as far as the call has (`Extras`, `Locking`), and a call with no failed packet has not
been refused one (`Clean`). The properties speak of calls that have returned; a walk that may take
blocks or single words, and that reads or writes before its range to begin at a block, needs
arithmetic on `block`, `word` and `idx` at each packet, which the lemmas before the steps supply.

`ProvisioningProofs`, for any plans and any number of starts: `LocksWholeConfig`, if each plan is over
a delivered chip or `WrittenFirst`; `LocksWholeCerts`, if each is `DefinedFirst` and the line damages
no definition; `DoneIsRight`, if moreover each is `RequestedFirst` and programs both certificates; and
`CleanRunsFinish`, if each plan over a delivered chip is `KeyedFirst` and writes no configuration. The
hypotheses are what the script does, and the code checks none of them: without a definition the slot
is locked empty (finding 3), and a damaged one is accepted because it has no CRC. The type invariant has that what is in the line, or answered, is for the command the host
waits for; on it rests the step from the host's place in its script to what the firmware and the
chip have done: which definition the firmware holds (`DefInv`), which key the request was for
(`CsrInv`), which certificates are programmed (`Programmed`), and which reasons to give up there have
been (`Excused`, `CleanInv`).

`MultipartProofs`, for any size of a block, any jobs, any cut of the messages into updates, any number
of contexts and of failing commands, for all of the kinds: `DoneAsTheStandard`, `NothingIsLost` and
`RefusesRightly`, the three properties of `multipart`, from `Invariant`. The messages are those of
`LengthsAssumption`, whose lengths a `uint32_t` counts, and `DoneAsTheStandard` excepts those that
the library cannot describe (`TooLong`); for the others `ShaEnds` and `RefAuthIs` show that the
lengths written are the standard's. The invariant (`Gathering`)
has two halves.
- Hashes, MACs, CBC and the additional data of CCM and GCM: a context that has been given `given` bytes
  has sent the first n blocks of its message and its buffer begins with the `size` bytes behind them
  (`Holding`: `given = n * Block + size`). The hashes keep less than a block and know the sent bytes
  (`total`); the CMAC and the decryption that will unpad keep at least a byte once they have sent one,
  for their last block is never empty. An update of the first kinds appends to the buffer (`Gathers`), or
  completes the block, sends the whole blocks of the rest and begins the buffer with what is left
  (`Fills`, `BlocksOfText`, `Keeps`). CBC's update is a loop of passes of which each may top up,
  flush, send one block directly and keep a rest; its invariant (`CutAt`) is that buffer, blocks and
  remaining data are consecutive cuts of the message, and each pass but the last takes a block, so the
  passes that its length allows are enough (`LoopEnds`).
- The text of CCM and GCM (`Ready`): additional data and text are one message for the MAC, the first
  filled up to whole blocks (`MacMessage`, `Behind`). Byte by byte (`CryptHolds`) the chain holds the whole
  blocks of it, `cblock` begins with the rest, the output is the text XORed with its own bytes of the
  key stream, and the counter is the number of blocks begun (`Streaming`), in CCM unless an
  encryption of the counter failed (`missed`).

The ends turn the buffer into the standard's last blocks: the padding of SHA-256 is the shortest
(`PadIsFewest`, `ShaEnds`), then `CmacEnds`, `PadEnds`, `WholeEnds`, `DecryptEnds` and `AuthEnds`. The
chip's engine holds the blocks of a context only while no other uses it, which is what `torn`
tells. Recursion in the model is by recursive functions, whose values come from an induction over sets of
numbers (`Induction`, `LoopExists`, `BytesExist`). Products with `Block` are not linear, so the
arithmetic is in lemmas of its own (`Divides`, `Grows`, `Quotient`).

Checked by TLC only: the liveness properties (`CallReturns`, `CallsReturn`, `ScriptEnds`, the
fairness part of `ImplementsCommandCall`), which are beyond this prover, and the runs that expect a
violation. Every other property of a run that passes is also a theorem.

## Not modelled, and the plan

The models stand for the code that holds state, order or arithmetic on which something can go wrong;
that is a small part of the lines. Most of the library's lines are wrappers per command in
`atca_basic.c`, tables and attribute conversions of PKCS#11, glue for mbedTLS, wolfSSL and OpenSSL,
headers of constants, HALs of other platforms, and code for chips that this component does not
configure. Their functions forward parameters or convert layouts once; a model of them would repeat
them line by line and no property of it would say more than the code. So the mapped share stays far below
a third of the lines, and the list below is what would still be worth a model.

1. PKCS#11 objects: the object table and its handles, the search state, key generation over several
   commands; what a failed creation leaves behind.
2. The kit host's parser and the console handshake; `secure_boot`.
3. Certificates: merging of device locations, DER lengths.
4. `atcab_init_device` and its alias of the global handle, as an action of `AtcaLifecycle`.

Outside: the other platforms' HALs, mbedTLS, wolfSSL and OpenSSL glue, JWT, the TA100 branches,
examples, packaging; reasons are with the components in `PROJECT.json`. The firmware takes the
library from the component registry; the models are of the library in this repository.
