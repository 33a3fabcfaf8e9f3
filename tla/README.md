# A TLA+ verification of bythos

bythos is a read-only auditor of firmware trust posture: one C program that
runs some twenty checks in sequence, each of which reads files and asks helper
programs, and prints rows in the states `ok`, `warn`, `fail` and `skip`. Its
promise is less that it finds everything than that it *never overstates*: `ok`
means the posture was observed, `skip` "is not a hidden pass" (README.md), and a
helper program can neither hang nor mislead the report. These modules state
that promise precisely and check it.

## Inventory

| Part | State | Operations | What is hard |
|---|---|---|---|
| helper capture, `runtime.c` 432-561 | pipe, child, `alarm_fired`, SIGALRM disposition, buffer | `bythos_capture_argv_status_ex` | signal against read, timeout against exit, descendants that keep the pipe, full buffer |
| tool lookup, `runtime.c` 111-163 | none | `bythos_command_exists`, `_untrusted` | looked up once, executed by another lookup |
| file readers, `runtime.c` 165-432 | none | text, binary, directory, mount table, key=value | input cut short at the buffer |
| service probe, `runtime.c` 563-597 | none | `bythos_probe_systemd_service` | two answers about a unit that may change in between |
| audit run, `main.c`, `check_groups.c`, `types.h` | subgroup arrays, summaries, exit code | `run_subgroups`, `EMIT*`, `bythos_summary_*` | a shared array at its limit, losses, exit status |
| rendering, `output.c` | none | plain, JSON | escaping, UTF-8 |
| `check_luks.c`, `storage_parsers.c` | tallies over volumes | two listings, one dump per volume, five rows | one of several dumps fails; masks that cannot be ordered |
| `check_bios_boot.c`, `efi_boot_parsers.c` | lists of fixed size | walk of BootOrder, BootNext, three more sections | caps, unreadable entries, text that must fit |
| `check_boot_chain.c`, SBAT part of `firmware_parsers.c` | entry table, scan flags | five sections | two binaries, one table; recursive scan that can fail anywhere |
| `check_secureboot.c`, `check_sbctl.c`, `firmware_ownership.c` | list of key names of fixed size | state, setup mode, databases, keys | two sources of one fact; variables read twice; names that must fit |
| `check_fwupd.c`, HSI parser | marks of what was reported | unit probes, updates, HSI attributes | accounting for what no row shows, from two readers of one report |
| `check_esp_posture.c`, `esp_parsers.c`, `bythos_esp_efi_base` | cached place of the partition | ownership, filesystem, vendors, fallback loader, capsules | three searches for one partition; files replaced while they are compared |
| `check_tpm.c` | none | lockout, PCRs, event log | partial answers |
| silicon checks (`check_bios_cntl`, `_dci`, `_me_version`, `_iommu`, `_microcode`, `_memory_encryption`, `_bolt`), `check_efi.c` | none | one or two reads each | register decoding; Thunderbolt domains that come and go |

Components interact by plain calls: `main` calls `run_subgroups`, which lends
each check the tail of an array; a check calls the runtime for files and
helpers. The program has one thread. Its concurrency is with the outside: the
kernel's timer and signals, helpers and their descendants, and whoever changes
files, efivars and block devices while they are read.

What makes a part correct, in one line each: capture returns only truths, leaks
nothing and ends; the audit run loses no row unnoticed and exits with the right
status; every check says `ok` only of what it observed, for *every* subject the
row speaks of, and never cuts a claim short.

## Modules

| Module | Models | Runs | Proofs |
|---|---|---|---|
| `CaptureContract` | what callers of a capture rely on (abstract) | as a property of `Capture` | |
| `Capture` | one or more captures against kernel, helper and descendant | `Capture*.cfg` | `CaptureProofs`, `CaptureRefinement` |
| `Report`, `MCReport` | one run from `getopt` to exit status | `Report.cfg` | `ReportProofs` |
| `Rows` | row constructors, outcomes of lookup and capture | used by all that follow | |
| `Luks`, `MCLuks` | `bythos_check_luks` | `Luks*.cfg` | `LuksProofs` |
| `BootEntries`, `MCBootEntries` | `bythos_check_bios_boot` | `BootEntries.cfg` | `BootEntriesProofs` |
| `BootChain`, `MCBootChain` | `bythos_check_boot_chain` | `BootChain*.cfg` | `BootChainProofs` |
| `ServiceProbe` | `bythos_probe_systemd_service`, its two calls made through `CaptureContract` | with `Fwupd` | `FwupdProofs` |
| `Fwupd`, `MCFwupd` | `bythos_check_fwupd` and the HSI readers; extends `ServiceProbe` | `Fwupd*.cfg` | `FwupdProofs` |
| `Section` | a section of a check: rows emitted, where it goes on | used by the next three | |
| `SecureBoot` | `bythos_check_secureboot`, `bythos_check_sbctl` | with `Posture` | `PostureProofs` |
| `Esp` | `bythos_check_esp_posture`, `bythos_esp_efi_base` | with `Posture` | `PostureProofs` |
| `Platform` | `check_efi`, `check_tpm` and the silicon checks | with `Posture` | `PostureProofs` |
| `Posture`, `MCPosture` | the three above in the order of `firmware_subgroups` | `Posture.cfg` | `PostureProofs` |

Variables have the names of the C variables, or a comment that names them. A
comment beginning "Mutant of" marks a variant of an action with a plausible bug
in it; no specification uses it, and it serves to show that a property can fail.
Variables called *history* record what happened for a property's sake; no action
of the program reads them, and one of the machine only to bound how often it
happens.

**Capture.** `pc` is the point the caller has reached; each system call, and each
access to `alarm_fired`, is a step, because the signal may arrive between any
two. The helper is a process that may fail to exec, write, close its output,
spawn a descendant that inherits the pipe, exit or be killed, at any time.
`alarm()`'s ten seconds are abstracted to "some time while the timer is armed".
Output bytes are numbered, so that the buffer can be compared with what was
written. The caller's `truncated` pointer is taken as given; callers that pass
NULL just do not look.

**CaptureContract.** A call is refused, or runs one helper, and returns FALSE, or
TRUE with the helper's own exit status and a prefix of its output. Pipes,
signals, timers and reaping are gone. `Capture` maps to it by hiding them
(`Contract` in `Capture`): the result is visible when the call returns, the
helper's end when it happens.

**Report.** A check emits any number of rows in any states through `EMIT`; a row
carries its rank so that the rows kept can be identified. `failSeen`, `emitted`
and `unrun` are history.

**Luks.** A header is a record of what the scanners find in a dump: version,
integrity, kind of token, PCRs of the hash policy and of the signed policy. The
listing is consumed volume by volume; a path is too long for its buffer, a dump
fails, or the scanners read what there is of it: all, or the beginning that the
buffer or the timeout left (`Readings`), cut in a list of PCRs or in a number
too. `dumped` (history) keeps the headers as they are on disk.

**BootEntries.** Lists are modelled by their lengths, item by item, because
`DetailFits` is about lengths. Load options are device paths as sequences of
node classes and the set of telling words in the description. What an entry is
found to be is chosen when it is read.

**BootChain.** The table of SBAT entries is a sequence; the scan is a counter of
open directories, since `scan_boot_dir` is a depth-first walk whose only state
besides its flags is its depth. `missed` (history) records what the code passes
over in silence; `sections` and `below` (history) keep the texts of the files,
which the tables are compared with. The states "verdict" and "scanned" stand at the emission of a
row, before the section's locals die; the properties look there.

**ServiceProbe.** Two runs of systemctl, each a call of `CaptureContract` that may
fail, be cut short or take any time, against a unit that is loaded, unloaded,
started and stopped meanwhile. systemctl and the unit are external.

**Fwupd.** A record of the HSI report is what the two readers tell apart: id,
whether its flags hold "success", result, and whether the id can be printed.
`find_attribute` takes the first record of an id and its result;
`collect_not_passing` takes every record and its flag. A record without a result
of its own makes the first reader take the next quoted text ("borrowed") and the
second nothing.

**SecureBoot.** EFI variables and mokutil's text are two views of one firmware
state, each of which can be missing; mokutil's text can be cut short. Enrolled
keys have a name, its width and a hash, because the list of names is cut three
times: each name at `max_name_chars`, the list at the end of its buffer, and what
is joined at the 200 characters the row prints of it (`CutNames`). A signature database is a sequence of lists with their three size fields,
walked as the code does. db and dbx can be written between their two readings.

**Esp.** Places where the partition may be mounted, in the order of the code's
candidates. The ownership row, the filesystem row and everything else use
searches of their own; the last is cached in `base`. The partition is moved, and
shim and fallback loader are replaced, between any two steps.

**Platform.** One decision per row over what a file, a register or a helper can
give. Only `check_bolt` has steps of its own: it goes through the directory of
Thunderbolt domains twice, and the kernel may show a domain that is plugged in
meanwhile, or not.

## What the runs show

Passing:

* **capture** (100 562 states, fair): types; SIGALRM never kills the caller
  (`NeverKilledByAlarm`) nor ends a later call (`NoSpuriousTimeout`); every
  return is clean (`CleanReturn`) and truthful (`ResultMatchesFate`); the buffer
  is a terminated prefix (`OutputIsPrefix`), complete unless flagged or timed
  out (`CompleteUnlessFlagged`); a call ends once every writer has gone and the
  helper is over (`ReturnsOnceWritersGone`), and when the loop sees the alarm
  (`SeenAlarmEndsCall`); and all of it implements `CaptureContract`
  (`ImplementsContract`). Two calls are needed for what one leaves to the next;
  buffer sizes 0, 1, 2 and 4 with chunks of 2 and five bytes put every boundary
  (no room, exactly full, chunk cut, chunk past the end) in reach; a pipe of
  three bytes blocks a writer.
* **report** (94 677 states): no write past the spare slot, rows kept are the
  first emitted, every loss flagged; exit status 1 means that a check reported
  fail, and status 0 with nothing truncated that none did; the summaries the
  status comes from count the rows kept. Capacity 2, two subgroups of two and
  one checks, four emissions per check: under, at, one over and well over
  capacity, in the first and in a later check.
* **luks** (207 626 states): any two volumes from a set with every version, token
  kind and policy, each dump complete, cut short at any point that matters, or
  failed. Two volumes are enough for a readable one to hide another; what a
  third does to the tallies, the second has done.
* **boot_entries** (56 000 states): list sizes of 41 and 64 characters as in the
  code and medium lists that two entries fill exactly, orders past the cap of
  the parser. The detail has 242 characters, the fewest the assumptions allow
  (the code has 256), so that one character too many shows.
* **boot_chain** (427 381 states): texts of up to three lines, a table of four
  entries that the second binary overflows, five visits with depth two. The SBAT
  verdict is right both ways for what was collected (`SbatVerdictRight`), and so
  is that of the scan for what it looked at (`ScanVerdictRight`). From the tables
  to the files it is `SbatSpeaksOfFiles`: a warning means that a line of a binary
  is below one that mokutil listed, and ok that none of any binary is, unless a
  binary could not be read or a table was full.
* **fwupd** (84 704 states): what a probe reports was so at some moment
  (`ProbeTrueAtSomeMoment`); the last row's count of attributes nobody reports
  is exact although two readers count differently (`HiddenIsExact`), and it
  names only what it counts (`NamesAreHonest`); an HSI row is ok only for an
  observed success (`HsiOkMeansObserved`). Reports of up to three records: three
  are needed for a duplicate and another. The numbers of mapped ids are the
  program's, the list of names holds two and so overflows.
* **posture** (127 377 states): what the Secure Boot rows say is so, whichever
  source was there (`SecureBootVerdictsTrue`); the key row counts every key of the
  list, by names and tail accounts for none twice, and for all of them if what
  was joined fits the row, as it does unless names look alike
  (`MokNamesHonest`); two readings of one variable agree unless it was written in
  between (`SameVariableSameVerdict`); three searches find one partition
  (`EspRowsAgree`); "matches installed shim" and "no pending capsules" were true
  at some moment (`EspOkWasTrue`); pre-boot DMA protection is reported only if
  every domain that was there throughout shows it (`DmaOkMeansProtected`). Up to
  four keys, three names of ten characters, a buffer of 77 and a row of 49: hash
  suffixes then fill the row only, or the buffer too, and the row cuts a name, a
  part of the tail, or nothing; two places for
  the partition, which moves once; each loader replaced once, db and dbx written
  once each; three domains, each plugged or unplugged once. Once is what it
  takes to fall between two readings, since nothing is read more than twice.

Violated, each a disagreement between the code and what its documents say:

* **capture_read_bounded**: an alarm handled between the test of `alarm_fired`
  and `read()` is lost; README promises a 10-second timeout. **capture_wait_bounded**:
  after end of file the timer is off and `waitpid()` unbounded. These are the two
  places where a call may stay: `WaitsAreExplained` (proved) excludes any other.
* **luks_pcr7**: only the smallest mask is judged, so "Secure Boot state
  measured" may be false of another volume. With policies that are nested, equal
  ones for instance, it is true of all of them (`NestedPoliciesAreJudged`, proved).
* **boot_chain_observed**: one of two binaries cannot be read and the SBAT row is
  still `ok`; the property says the same of a directory of /boot that cannot be
  opened. Of revocations none is dropped unless they outnumber the table
  (`NoRevocationDropped`, proved).
* **fwupd_reported**: "every fwupd attribute not passing is reported above" does
  not hold when the report has the second of Boot Guard's two attributes only:
  it is marked as reported by a row that skips. It holds whenever Verified comes
  with an Enabled that applies (`LastRowExact`, proved).

Known and without a run: a volume whose device path has 128 characters or more
is passed over (`PathDoesNotFit` in `Luks`); a failing `readdir` ends the count of
capsules as the end of the directory would (excluded in `EspOkWasTrue`); the row
on enrolled keys may lose its last name with its suffix, and "(and N more)", when
several names look alike after 32 characters: five of them with suffixes take 212
characters, the buffer admits them and the row prints 200 (`CutNames`). The number
of keys in front of the names is right even then.

## Fairness

`FairSpec` assumes weak fairness of three things and no more: the caller, which
is an ordinary process that is scheduled when it can run; the timer, since an
armed `alarm()` is delivered; and SIGKILL, which the kernel does not withhold.
Helpers and their descendants are owed nothing: they may write, hold the pipe
and live for ever. The liveness properties and the two liveness findings use
these assumptions. The other modules are sequences of bounded work, so that
liveness would add nothing there to what `Capture` says: their deadlock check is
on, and only a finished check may stutter. For the audit run, LUKS and the boot
entries "bounded" is a theorem: a measure that every step makes smaller
(`AuditEnds`, and `CheckEnds` in `LuksProofs` and `BootEntriesProofs`).

## Proofs

Every invariant that a passing run checks is also a theorem,
for every value of the constants that satisfies the named `ASSUME`s; only the two
liveness properties are left to TLC. `PROJECT.json` lists theorem and property.

`CaptureProofs` proves for every set of buffer sizes, chunk, pipe capacity,
number of bytes and number of calls what the capture run checks on an instance,
liveness excepted. `CleanReturn` and the others are not inductive: that the
timer is off at a return follows from where it is armed and disarmed. `IInv`
adds, by program point, where the handler is installed and the timer may be
running (`SignalInv`), who holds the ends of the pipe (`PipeInv`), what the child
can be and what is known of its fate (`ChildInv`), that the buffer holds the
first `used` bytes and a terminator (`BufferInv`), and that bytes consumed but
not stored are flagged (`CompleteInv`). Assumptions: the named `ASSUME`s of
`Capture` (sizes are natural numbers, chunk and pipe are not empty, and so on).
Two theorems say in safety terms what the liveness findings leave. A call that
sleeps has a reason (`WaitsAreExplained`, by `WaitInv`): in `read()` the timer is
before it or the alarm was lost between test and call; in the plain `waitpid()`
the helper has closed its output and runs on; in the one after the timeout
SIGKILL is pending. And once the loop is over every step of the caller's own
decreases `StepsToReturn`, which no one else's step changes (`EndingShrinks`).

`CaptureRefinement` proves that `Capture` implements `CaptureContract`
(`CaptureRefines`), for the same constants: initial states map to initial states
and each action to a step of the contract or a stutter. The steps need `IInv`
and `FateInv`, which says that a helper has no fate before it ends and that its
descendants cannot read the pipe.

`ReportProofs` proves, for every capacity, table of subgroups and number of rows,
that arrays are not overrun, that the rows kept are the first ones and that
losses are flagged. `IInv` is needed for the clamp of `run_subgroups`: a subgroup
that lost a row is full (`GroupInv`), so that no later check of it is called and
rows and slots never drift apart (`SlotInv`); `DoneInv` keeps it for subgroups
that are finished. For the exit status (`ExitStatusTrue`) `ExitInv` adds that
a summary counts the rows kept (`CountInv`), that the overall summary is, state
by state, the number of printed rows of the subgroups merged so far
(`MergeInv`), and that a `fail` is in a slot in use or its subgroup is full or
marked until it is told (`FailInv`). `LoopInv` follows the loops of
`run_subgroups`: every definition has its subgroup at the end and only a full one
is marked (`NothingGivenUpEarly`); the phase, the definitions, the start of one,
the calls and the emissions left decrease lexicographically, and no step touches
a finalised subgroup (`AuditEnds`). The number of emissions of a check is
`MaxEmits`, any natural number.

`BootEntriesProofs` proves, for every size of the lists, every cap and every set
of load options that satisfy the named `ASSUME`s of `BootEntries`, that absence
is claimed only after full inspection, that lists are honest, that what blocks a
verdict is named and that the detail fits. `IInv` relates the entries seen to
those left (`WalkInv`) and a list's length to the number of its entries while it
is unmarked (`ListInv`), and holds what the emitted rows were derived from until
the locals die (`RowsInv`, `RestInv`). The assumptions are where the C code's
comment "sized so both lists ... fit one detail" becomes an inequality
(`DetailAssumption`): with lists of 41 and 64 the longest detail has 241
characters, and the code has room for 255. That a first item always fits its
list (`FirstItemAssumption`: more than 8 characters for an id; the code's lists
have 41 to 200) carries `CauseNamed` and `VerdictsExact`: warning, ok and skip
each hold exactly when their condition does, a warning has an entry to name and a
skip a cause. `ListsHoldWhatFits` is the other half of honesty: a list of ids has
n entries of nine characters less a separator, so it holds the first
`size div 9` and is marked exactly if there were more. About the parser itself,
for device paths of any length: the first node that is not a plain one decides
(`FirstNodeDecides`), and nothing behind it matters (`TailIsIgnored`).

`LuksProofs` proves, for every set of headers and number of volumes, that
counters add up, that the weakest mask is one that was read and none is smaller,
and that `ok` rows speak of every volume. `TallyInv` ties each counter to the
headers: a counter at 0 tells what no header is. From a dump that may be cut
anywhere to the header on disk it is two lemmas: a reading only loses what was
there (`ReadingsLose`), except that the last number of a list cut short may be a
new one, and then it is at most 3 (`CutListsLose`), since PCRs
are at most 31, and none of 4, 7 and 9 that the rows ask for. `HeadersAssumption`
only gives headers their type. `CountersAreExact` sharpens `TallyInv` to
equalities: each counter is the cardinality of the headers of its kind. With it
`NoFalseAlarm` gives every warning about headers a volume to name, and
`NestedPoliciesAreJudged` the condition under which one mask may speak for all:
of nested policies the one with the fewest PCRs is contained in the others.

`BootChainProofs` proves for every table size, depth and set of texts that both
verdicts are right, and for the files too (`SbatOfFiles`). What
`bythos_parse_sbat_csv` returns is a recursive function of the lines; that it
fits the table and holds entries only is `CsvFits`. The code compares an entry
with revocations of its component; that the worst of them decides as all of them
would is `WorstSuffices`. `SbatOfFiles` rests on `TableInv`: the table holds readable lines of the
binaries' texts only, and all of them unless one was passed over and noted
(`CsvReadsSome`, `CsvReadsAll`). `IInv` also says that a row is not there before its
section, since a row once emitted stays. `CsvTakesFirst` says exactly what the
parser returns for a table of any size: the readable lines cut to the room there
is (`CutTo`), by induction over the lines with two tables side by side;
`NoRevocationDropped` rests on it. `ScanExact` is `ScanRight` in both directions;
it also shows that an unsafe target of a link goes unreported if no regular file
was counted.

`FwupdProofs` has two invariants. `ProbeInv` says, while a probe is under way,
which states the unit has been in, given what systemctl has answered so far:
after "not active", the unit was seen inactive or is inactive still
(`ActiveInv`, `ShowInv`). It uses of a capture only what `CaptureContract`
promises, which `CaptureRefinement` proves of `Capture`. `CheckInv` holds what
the rows were derived from until the locals die. `HiddenIsExact` is about
cardinalities: `find_attribute` is a bijection from the marked applicable ids to
the records the rows show (`MarkedAreShown`), hence the difference of two counts
is the count of a difference (`HiddenCounted`). `NamesAreHonest` follows from what
the bounded loops return: elements at increasing positions of those to be kept
(`PickDraws`). `FwupdAssumption` states what the tables of `check_fwupd.c` satisfy:
mapped ids are distinct and there are no more of them than `hsi_reported` holds;
`RowNamesAssumption` that no id is the name of a row of its own. `LastRowExact`
follows each weak record to its row: the last row is a warning exactly if some
record is shown by none, Boot Guard's pair being the one exception to "shown".

`PostureProofs` has one invariant per subject, since the checks follow one another
and share nothing but the rows; `SecureBootFlow`, `EspFlow` and `PlatformFlow` say
which check is running where. `DmaInv`: at the second pass over the directory, a
domain that stayed is still to be read, or not "0", or counted as unprotected.
`SeenInv`: what is counted was seen at a domain that was there, so neither
verdict speaks of an empty set (`DmaVerdictsEarned`).
`PlaceInv`: as long as nothing moves, each search has found the first place there
is. `FileInv`: a file is only replaced by the newer version, so if the hash taken
first equals the other file's, the two were equal then or are now. `SigdbInv`: what
was said of the first reading would be said now. `StateInv` rests on what the lines
of mokutil say when all, or some beginning, of them is there (`LinesSay`,
`PrefixSays`). The list of key names is `PlacedInv`, by induction over the keys:
names placed plus names left out are the named keys, names that look alike get a
suffix, and without look-alikes each name takes at most its share of the row
(`Room`). `NamesJoined` and `NamesCut` carry that through the tail and the cut of
the row. `SecureBootAssumption` holds the sizes of the code: the tail is shorter
than its reserve, that is less than the buffer, and the names without a suffix
together with the tail fit the row (5 * 34 + 13 = 183 characters of 200).

Induction over data. The library's induction rules take an operator, which no
installed prover can instantiate. Where a theorem needs what a loop over a
sequence computes, the loop is a recursive function over positions, and the
induction is an argument by least counterexample (`LeastMember`, from the
library's `WFMin` and `NatLessThanWellFounded`): a position where the claim fails
has a least one, which is not 0 and whose predecessor satisfies it. No module
uses a RECURSIVE operator.

A remark on the prover. The SMT translation of tlapm 1.4.5 axiomatises `Len` by
`DOMAIN s = 1..n <=> Len(s) = n` for *every* s, sequence or not, which is false of
functions with another domain. The proofs do not rest on it: they have
also been checked with that axiom reduced to its sound half (`=>`). And they see
the bugs the mutants stand for: with a mutated definition in place of the
original, the proof of the property no longer goes through.

Only model-checked: `ReturnsOnceWritersGone` and `SeenAlarmEndsCall`, because the
prover does not do fairness and ENABLED; and the counterexamples of the
violated runs, which are TLC's.

## Not modelled

* Rendering (`output.c`) and wording, except where lengths decide whether a claim
  is cut: it formats a finished report, changes no state and decides nothing.
* Text utilities (trimming, quotes, comments, key=value files) and the decoding
  of UTF-16: pure string functions that enter as what the checks make of a text.
* The walk over the compile-time PATH and the read loops of the file readers:
  their outcomes (not found, untrusted, trusted; failed, cut short, complete) are
  chosen anew at every call.
* The walk over the sections of a PE binary: whether `.sbat` is found.
* pid reuse after a child has been reaped; malformed command lines beyond their
  exit status.

`PROJECT.json` lists each with its reason.

## Plan

Done: 1 capture, 2 the audit run, 3 LUKS, 4 boot entries, 5 boot chain, in the
order of how much of the report depends on them and how hard they are to test;
6 `CaptureContract`, its refinement and `ServiceProbe` on top of it; 7 fwupd, Secure
Boot, ESP, TPM and silicon checks; 8 proofs of `Report` and of the refinement;
9 proofs of `Luks`, `BootChain`, `ServiceProbe` and `Posture`; 10 `HiddenIsExact`,
`NamesAreHonest` and `ExitStatusSound`; 11 what the violated runs leave true
(`WaitsAreExplained`, `NestedPoliciesAreJudged`, `NoRevocationDropped`,
`LastRowExact`), verdicts in both directions (`NoFalseAlarm`, `VerdictsExact`,
`ScanExact`, `DmaVerdictsEarned`), measures, and the parsers of device paths and
SBAT texts for inputs of any length.

Left for later: the walk over PE sections and the read loops of the file readers
at their boundaries, as functions checked against reference definitions; a
verdict in both directions for the Secure Boot rows.
