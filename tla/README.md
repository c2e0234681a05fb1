# A verification project for monoimage

monoimage boots a small appliance from a single file that holds a kernel, an
initial ramdisk and a root filesystem. A first Linux system runs *monoboot*,
which reads a configuration partition and picks an image; *kexec* places the
image's kernel in memory and jumps to it; *linuxrc*, on the image's ramdisk,
finds the image file again and puts its root filesystem on `/dev/loop0`;
*monoinit*, inside the image, reports that the boot went well. This directory
holds TLA+ models of these programs, TLC runs that check them on small
instances, and TLAPS proofs of their main properties for every instance.

All paths below are relative to `src/`.

## 1. Inventory

| Component | State | Operations | Hard behaviours | What makes it correct |
|---|---|---|---|---|
| boot selector: `monoboot/monoboot.c`, `monoboot_cmds.c`, `monoboot_cli.c` | `mb.conf`, `.new` and `.old` on the configuration partition; the parsed running-config; the working directory; the kernel staged by kexec | `main`, `load_config`, `check_last`, `cmd_boot`, `cmd_write`, `cmd_show_*`, `cmd_shell`, `cmd_conf*`, `cmd_copy` | power failure between system calls; renames, mounts, stats and kexec failing one by one; state read after it was cleared | the administrator's configuration is never lost, a save is atomic, the image asked for is the one booted, the program always gets somewhere |
| keypress wait: `get_keypress` in `monoboot_cli.c` | terminal modes, the pending alarm, the signal disposition, the jump buffer | one second of waiting, a key, the alarm's `longjmp` | the alarm may strike between any two instructions | it ends, restores the terminal, is not killed by its own alarm |
| success report: `monoboot/monoinit.c` | the `lastboot` option | find the own title, save | mounts and saves that miss the partition | `lastboot` names the image that came up |
| kexec segment placement: `kexec-tools/kexec/kexec.c` | the segment list, the memory map, the staged kernel | `add_segment`, `add_buffer`, `locate_hole`, `sort_segments`, the tail of `my_load`, `k_unload` | off-by-one ends, rounding, word width, any order of requests | what is staged lies in RAM and does not overlap; memory is found when there is some |
| image handoff: `kexec-tools/kexec/arch/i386/kexec-monoimage.c`, `util_lib/ext2_uuid.c`, `linuxrc/linuxrc.c` | `/dev`, uuids, the command line, mounts, `loop0` | probe, walk `/dev`, read uuids, write the command line; parse it, search `/dev` by uuid, stat, failsafe, set the loop device | the order of `readdir`, stale buffers, substring searches, each call failing | the root filesystem comes from the file kexec was given, or from the failsafe image |
| monoimage format: `utils/makeimage.pl`, `kexec-tools/include/monoimage.h`, `linuxrc/monoimage.h` | the header | write it, read it | three declarations of one layout | a reader finds what the writer wrote |
| kexec command: `kexec.c` (`main`, `my_load`, `update_purgatory`, `my_shutdown`, `my_exec`), `ifdown.c`, `purgatory/`, `util_lib/sha256.c` | option flags, the staged images, digest regions, network interfaces | parse the options, load, unload, shut down, sync, `ifdown`, exec; purgatory's check before the jump | flags that imply and cancel others, a step of several failing, block boundaries of the digest | what runs is what was loaded, and the old system was put away first |
| i386 loaders: `kexec/arch/i386/` | setup header, command line, multiboot information, memory map | probe and load a bzImage, beoboot, multiboot, ELF, net boot or mono image | sizes read from the file, added up in one place and used in another | everything the new kernel is told of is where it was told |
| ELF reader: `kexec/kexec-elf*.c` | sections and their addresses | read, check, place, relocate, look up symbols | offsets near the end of the file, two passes that must agree | no byte from outside the file, no section outside its memory |
| command shell: `libcli/libcli.c` | sessions, modes, history, the tree of commands, the line being edited, filters | register, find, complete, edit a line, parse it, run, filter output | history and buffers at their limit, three copies of one line, measurements that go stale | privilege is earned, the line run is the line shown, an abbreviation has one meaning, the output is the pipe's |
| GNAP overlay: `gnap/specs/std/root_overlay/` (`rw-sync.sh`, `init.d/overlay`) | a tarball, its checksum and a backup on a partition | save, back up, unpack at boot | power failure in the middle of a copy, a full partition, writeback in any order | the boot unpacks the last save, whole, or nothing |
| helpers: `monoboot/monoboot_exec.c`, `monoboot_util.c`; `gpio/`; build scripts; kexec for other machines; kdump | – | – | – | – |

How they interact: monoboot calls kexec as a program, twice (`-l`, then `-e`),
and passes it the tag directory; kexec hands linuxrc three words of the kernel
command line (`F=`, `I=`, `C=`); linuxrc and monoinit read the partitions that
kexec named by uuid; monoboot and monoinit share `mb.conf`. monoboot's shell is a
libcli session. Inside kexec every loader asks the segment placement for memory,
and `update_purgatory` runs over what they have placed. rw-sync works inside the
booted image, beside all of this.

## 2. Modules

| Module | Models |
|---|---|
| `ConfigStore` | abstract: a configuration replaced in one step, with a backup |
| `Monoboot` | the boot selector, the configuration partition, monoinit; implements `ConfigStore` |
| `MonobootProofs` | its type invariant, the three facts about `mb.conf`, the refinement; and the six proofs about `get_keypress`, which monoboot calls |
| `Keypress` | `get_keypress` with its signal, alarm and terminal |
| `KexecSegments`, `KexecSegmentsProofs` | the placement of segments; six proofs, and three about the loaders that use it |
| `MonoImageFormat` | the three declarations of the header |
| `ImageHandoff`, `ImageHandoffProofs` | `monoimage_load` and linuxrc, composed through the command line; two proofs |
| `KexecCommand`, `Sha256`, `KexecCommandProofs` | `main` of kexec from the options to the jump, and purgatory; the hashing in pieces; five proofs |
| `ElfImage` | what the ELF reader accepts and where it puts sections (operators only) |
| `KexecLoaders` | `my_load` with the six i386 loaders; extends `KexecSegments` through `ElfImage`, so every request runs through the real placement |
| `CliSession` | a session of the command shell |
| `LineEditor` | abstract: an editor of a sequence of characters with a point |
| `CliLineEdit`, `CliLineEditProofs` | the inner loop of `cli_loop`; implements `LineEditor`; three proofs and the refinement |
| `CliTree` | registration, shortest unique lengths, lookup, completions |
| `CliProofs` | four proofs about sessions, two about the tree |
| `CliPipe`, `CliPipeProofs` | `cli_parse_line`, the filters, `_print`; two proofs |
| `RwSync`, `RwSyncProofs` | `rw-sync.sh -w` and the restore of `init.d/overlay`; one proof |
| `MC*` | the instances TLC checks, one per run |

Definitions named "Seeded fault" are variants of the definition that follows
them, with one plausible mistake each. No specification uses them; putting one
in the place of its original must make the property it is paired with in
`PROJECT.json` fail.

### Monoboot

`disk` holds the three files of the configuration partition and is the only
variable `PowerLoss` keeps. `pc` is the point the running program has reached;
every action ends at the next system call that could be the last one before a
power failure. `cfg` is running-config, `arg` is `cmdline[1]` and `tag` is
`image_tag` of `cmd_boot`. `Start`, `LoadConfig`, `Keypress` and `CheckLast` are
`main` up to the boot or the prompt; the `Shell*` actions, `EditConfig` and
`HandKexec` are what an operator can do at the prompt (the last two through
`cmd_shell`'s ash); `BootNoSuchTag`, `BootTag`, `BootLoad`, `KexecExec` and their
`Fails` are `cmd_boot`; `WriteOpen`, `RenameOld` and `RenameNew` are `cmd_write`.
`cmd_write` writes an empty configuration (`DiskImage`), because that is what the
code prints. A rename may fail although its source exists; `failed` remembers
it until the administrator writes again, and `saves` counts the replacements
begun since then, up to `SavesCap = 2` (the properties tell 0, 1 and more apart).

Tags and file names are model values. The comparison of `strlen(title)`
characters is the relation `PrefixOf`. Network, line and password options are
left out: no boot decision reads them.

### Keypress

`at` has one value for every point of the loop at which SIGALRM makes a
difference: the loop's test, `signal`, `alarm` with the `setjmp` before it, `getchar`,
the store to `c`, the test of `c`, and behind the loop before and after the terminal
is restored. What comes after `alarm(0)` is one step, since nothing interrupts it.
`Fire` is the alarm; as long as `get_keypress` has not returned, the handler's
`longjmp` goes back to the test of `c`, from behind the loop too, where `delay--` has
left -1. `delay` is an int that wraps (`Dec`). The build is `-std=c99`, so `signal` installs
the handler for one delivery, and unoptimised, so `c` keeps its value over the
jump; no other build is explored.

### KexecSegments

The loaders are any sequence of requests from `Fixed` (`add_segment`) and
`Floating` (`add_buffer`). `locate_hole`'s merge of sorted segments with memory
ranges is written as sets: `Consumed` says which segments the merge meets at a
range, `Gaps` and `Remainder` what it leaves. `% Word` is the narrowing of the
64-bit bounds to an `unsigned long`, and `HoleStart` has the alignment mask of that
width, by which a start in the last bytes of it becomes 0. `RamFits` and `RamApart` say
which memory maps kexec reads as they are, `RoundsUp` which lower bounds of a request
the mask rounds up (section 4). The kernel behind `kexec_load` is external
and may refuse.

### ImageHandoff

`m` is the machine: disks, uuids, entries of `/dev`, `/proc/mounts`, the file and
options kexec is given, the image's version. It is chosen once and does not
change. `WalkDev` is one `readdir` of kexec in any order, `SearchMatch` and
`SearchSkip` one of linuxrc. `devbuf` starts with any contents, since the code
does not initialise it. Paths, mount points, uuids and the words of the command line
are texts. `ImagePath` cuts the path as the code does: the first line of `/proc/mounts`
that begins with the device's name gives the mount point, or the rest of a longer
name (`MountPoint`); what path and mount point have in common is skipped, wherever
that ends (`CommonPart`), and then one slash (`Below`). With no such line the mount
point is uninitialised and the path is cut anywhere. `get_cmdline_var`'s `strstr` for a
bare letter is `Hits`: the first word with that letter anywhere in it, and the value
is what follows the letter and one character more (`ValueIn`). `faults` remembers that
a system call failed that could have succeeded.

`RootIsAskedOrFailsafe` asks that uuids tell the partitions apart (`UuidsTell`), that the
letters F and I stand in no word before their own (`Legible`), and that no other file of
the partition has for its name what some cut of the path leaves (`PathTells`).
`CleanHandoff` asks for a `Clean` machine: the path is the file's name below the mount
point, and the partition's device, which no longer name begins with, is mounted
there alone. Names with blanks are left out, and so is a path that equals the mount
point, where the loop runs on behind both texts.

### CliSession

One `cli_def`, from `cli_init` to the end of `cli_loop`, as `clitest.c` and
`mb_interact` use it: perhaps a file of commands (`FileStart`, `FileLine`,
`FileQuits`, `FileEnd`), then one session. The fields of `cli_def` that decide
anything are the variables of the same names. `EnterLogin`, `EnterPassword`,
`EnterEnable` and `EnterCommand` are what `cli_loop` does with an entered line in
each state; how the line was typed is `CliLineEdit`, except Ctrl-Z, which changes
the mode. `Takes` is the test at one command of `cli_find_command`, `Resolved` the
command a line comes to and the mode the scan leaves behind, `FilterReturns`,
`FilterFails` and `Runs` the three ways the loop over the filters ends. The two
comparisons of a word with a name are the relation `Accepts` (`CliTree` has what
they are), `pass_matches` is equality, and callbacks are what they do to the
session. The filters are named by kind only (`CliPipe` has what they let through).
`granted` and `entered` are history variables.

### CliLineEdit and LineEditor

`cmd` is the array of bytes, `Size` instead of 4096, with `l` and `cursor`; `screen`
is the row of a terminal that never wraps. `Read` takes a byte through the telnet
and escape filters and hands it to the key it is: insert, erase, kill, word erase,
left, right, home, end, recall, complete, Ctrl-Z, Enter. `EndLine` passes the line to
the session, of which only state, mode and history are kept. The code itself puts
some lines out of step (section 5); `spoilt` records that it has, and the
properties are asked of the others. `pc = "undefined"` is an overrun of `cmd`.
`LineEditor` has the same keys on a sequence of characters; `EditorPromise` is the
refinement, with the spoilt lines mapped to `lost`. Which names complete a line is any
relation (`Completes`): the last word may begin behind a quote mark, in the middle of
what the completion overwrites, so that the new line may be shorter than the old.
The assumptions ask that the buffer has room for the `quit` that Ctrl-D copies into it
(`QuitText`) and that lines and names hold no NUL. A byte that is echoed fills one cell;
control bytes that reach the line and move a terminal's cursor are left out.

### CliTree and CliPipe

`commands` is the tree, two levels deep. `BuildShortest` is `cli_build_shortest` on the
part of the list a registration hands it, which is not always all of it;
`complete` records whether it was. `MayRun` is what lookup asks of privilege and mode, with
the drop out of a submode; a command someone may not run is passed over by `Found`,
though it was measured against. Names are in lower case, as those registered
are (`NamesAssumption`). In `CliPipe` one line is parsed a turn of the
loop at a time (`EndWord`, `OpenQuote`, `Advance`), made into filters, and a
callback's output runs through them line by line, then once more with NULL. The
properties say what a reader would expect without following the code. `Starts` are
the places of a line where a word begins, `IsWord` is the word that begins there and
`Place` its number, all read off the whole line. A line of output is named by
where it stands in what was printed (`OutputLines`); `Through(n)` are the lines the
first n filters keep, each applied to all that the one before it kept, and a kept
line, or a count after them, is found in `out` by its rank. The assumptions are
that a line is not empty and does not begin with a blank, as `cli_run_command` sees
to, that `words[]` has an entry, and that NULL is none of the characters.

### KexecCommand and Sha256

A shell invokes kexec any number of times with any of `CommandLines`. What ifdown has
still to visit is the set `queue`. `ParseOption`
and `ArchOptions` are the two passes over the options; `Wanted` and `Onward` are the
chain of ifs at the end of `main`. The running kernel holds one image for `-e` and
one for a panic. `Purgatory` hashes memory as it finds it; a device nobody shut
down may have written to the image (`damaged`). `Sha256` has `sha256_update` and
`sha256_finish` byte for byte in their bookkeeping (buffer, fill, total, padding,
length), with `sha256_process` left uninterpreted (a digest is the list of blocks it saw),
so two digests are equal exactly when the padded blocks are; `Reference`
pads the whole message at once. `KernelAssumption` is what the loaders leave: no
segment has more data than memory, and sizes are unsigned longs.

### ElfImage and KexecLoaders

A file is a record of its decoded headers. `ElfInfo`, `ExecInfo` and `RelInfo` are
the checks in their order; `RelRequest` is the first pass of `elf_rel_load` (sizes
and alignments), `SectionAddr` the second. A loader is straight-line code, so
`Program` gives it as a list of steps, and each kind of step is an action that
calls `AddSegment`, `AddBuffer` or `LocateHole` of `KexecSegments`, with the PC's
real addresses. The bzImage, beoboot and monoimage loaders come to
`do_bzImage_load` (`BzLoaders`) with a kernel, a command line and a ramdisk they
cut out in three ways (`KernelOf`, `LineOf`, `RamdiskOf`); what a monoimage's
command line says is in `ImageHandoff`. `told` collects the addresses the loader
writes into registers, headers and tables, with the e820 map inside the setup code
(`MapTold`) and the hooks of a `--debug` start (`DebugTold`), `memory` the memory
map it hands over. What the code adds up in a loop over sections or net boot
records is a recursive function over their numbers. The assumptions: numbers in a
file are unsigned, and what a loader adds up to ask for memory stays one, and the
parts of a monoimage are in order (`FileNumbers`; the code checks neither);
purgatory is as the assembler and `ld -r` leave it, since it is part of kexec and
no input: symbols and the targets of relocations, with the addend in the place
relocated, lie in their sections (`WellLinked`); conventional memory ends with a
page, and an unsigned long reaches the addresses the loaders name
(`WordAssumption`).

### RwSync

A tarball is a sequence of blocks, a torn one a prefix, a digest the content it
was taken of. Nobody looks at tar's status, so `MakeTarball` leaves any prefix of
the tarball, and `NoTarball` none. `fs` is the partition as the mounted file
system shows it, `disk` what survives a power failure: `Writeback` moves one file
at any time, as long as what is then on the partition fits it, and the umount
moves all of them. `cp` truncates and then copies block by block until its source
or the space ends. `Kill` leaves the partition mounted. A mount that fails is not
noticed. `settled` is the version of the last save that ran to its end, and None
from the moment a later one touches the tarball; `cramped` records that a save
found no room for its tarball, in `TMPDIR` (or tar died) or on the partition.

## 3. Runs

| Run | Shows | Bounds |
|---|---|---|
| `monoboot_store` | `AuthoredRecoverable`, `InterruptedSaveCompletable`, `RunningImageSeesConfig`, the refinement `SaveIsAtomic`, and `MonobootTerminates`, with power failures and failing renames everywhere | three tags, one a prefix of another, three files, one of each kind that matters to the probes; three contents an administrator may write: one that boots the default, one that asks for `tryonce` after a failed boot, one that does not parse |
| `monoboot_bootonce` | a disagreement: the bootonce image is never tried | same |
| `keypress` | `TerminalRestored`, `StrayAlarmOnlyAfterNul`, `VerdictIsEarned`, `NeverKilled`, `WaitIsBounded`, `KeypressReturns` | an int of eight values; delays 0, 1, 3 and -2 (no wait, a last second that is also the first, one with a second in between, one that counts down through the int); two typed characters, NULs among them |
| `kexec_segments` | `StagedInRam`, `StagedDisjoint`, `HoleUsable`, `NoHoleMeansFull`, `FreeListFits`, `BufferAvoidsSegments` | page of 4, word of 64, a PC-like map whose low RAM ends inside a page; 6 fixed and 7 floating requests, one of an empty buffer, any sequence of up to 3 segments: enough for a gap before, between and after segments in one range, and for every pair to overlap |
| `handoff` | `RootIsAskedOrFailsafe`, `CleanHandoff`, `HandoffEnds` | four disks, seven entries of `/dev`, 22 machines with one oddity each (dangling entry, equal uuids, null uuid, zero first byte, a device name that begins another and gives an empty mount point, a relative path, a second mount point, the image on the root, capitals in the name or in `--append`, no mount line, no failsafe, another version), those that cut the path elsewhere also with a file of that name there |
| `cli_session` | `PrivilegeEarned`, `LoginEarned`, `ConfigIsPrivileged`, `HistoryKeepsLast` | fifteen lines: every command that changes the session, one abbreviated, help, an incomplete one, one without a callback, and each way a filter can end; three setups (no passwords, a user list and a password, callbacks); a file run unprivileged or configuring, or none; a history of two, so that it fills and shifts |
| `cli_line` | `BufferIsLine`, `ScreenShowsLine`, `PasswordNotShown`, the refinement `EditorPromise` | a buffer of six bytes, so that lines reach its end; four characters (a blank, the question mark and a quote mark, behind which a word is completed), every key; a full and an empty history; one line entered and a second one begun |
| `cli_tree` | `FullNameFinds`, `AbbreviationUnambiguous` | four names of which one begins two others, three rights (everyone, privileged, configuration mode) and four users, one in a submode; up to four commands and children in any order of registrations and removals |
| `cli_pipe` | `WordsAreTokens`, `OutputIsPipe` | every line of up to four characters from a letter, blank, bar and both quotes, and nineteen lines with every filter, two in a row, too few arguments, more bars than words; eight words; outputs of up to three calls with newlines inside |
| `kexec_command` | `JumpPrepared`, `StatusTells`, `DigestIsReference`, `IntactStarts` | up to three flag options in every order, the others before and after one; three kernels, with segments that end before, at and after a block, null_buf and the room for the length; four interfaces, one of each kind; every call failing or not |
| `loaders` | `HandedOver`, `PurgatoryPlaced`, `LoadedFromFile` | some 2800 combinations of file, purgatory, command line, ramdisk, style, modules and real-mode or debug start on a PC with 48 MB, good ones of each kind and ones a probe or a loader must refuse |
| `rw_sync` | `RestoredIsSaved` | a partition of four blocks; tarballs cut short anywhere; versions of the files that fit beside a backup, only without one, and not at all; three edits, two faults, any number of saves and reboots |

Deadlock is only checked in `monoboot_store`, `monoboot_bootonce`,
`kexec_segments` and `kexec_command`. In the others the system may stop: the
function returns, linuxrc exits or halts the machine, the session or the load
ends, or a bound on edits, faults or registrations is used up.

Fairness. `Monoboot!FairSpec` and `ImageHandoff!FairSpec` ask that a program that
can make its next system call makes it: one process runs, nothing it calls
blocks for ever. `Keypress!WaitFairSpec` also asks that an armed alarm goes off,
which the kernel promises. Nothing is assumed of the operator, the power, the
keyboard or the order of `/dev`.

## 4. Proofs

Every proof holds for every value of the constants that satisfies the named
assumptions of the module; TLC evaluates these on each run.

* `MonobootProofs`. `TypeCorrect`; then `AuthoredSurvives`,
  `InterruptedSaveSurvives` and `ImageSeesConfig` from the inductive invariant
  `StoreInv`. The properties speak of the files alone and are not inductive:
  `StoreInv` adds what the files hold at each point of `cmd_write` (the new file
  is written before the first rename, the old one is gone only between the two,
  `mb.conf` exists from `load_config` on), and that nothing was replaced when
  `saves = 0`. `SaveRefinesStore` uses it to show that the first rename is the
  step at which the abstract configuration changes, and the second one stutters,
  or, when the first has failed, replaces without a backup.

  The same module has `get_keypress`: `WaitTypeCorrect`; `WaitSurvives`,
  `TerminalAlwaysRestored` and `StrayAlarmNeedsNul` from `AlarmHasHandler` (a pending
  alarm has a handler), `TerminalInv` (raw exactly between the two `tcsetattr`) and
  `AlarmInv` (an alarm pending outside the wait was left by a NUL).
  `VerdictAlwaysEarned` from `CountInv`: alarms that went off, NULs read and seconds
  left add up to at least the delay at the head of the loop, and to one less while
  a second runs. The property speaks of the return alone, where the seconds left
  are no longer known. `WaitAlwaysBounded`, for every width of int, from `BoundInv`: without
  a NUL no alarm is pending behind the loop, so nothing jumps back to a test that
  would hold again.
* `KexecSegmentsProofs`. `OnlyRamStaged` and `NoOverlapStaged` from
  `SegmentInv` (each segment is placed on whole pages
  in a valid range at every moment, and after the sort neighbours are apart).
  They assume `RamFits`: no RAM above an unsigned long, and no range
  that ends one byte before a page does. `NoOverlapStaged` needs the lemma that
  comparing neighbours of a sorted list compares all pairs, which rests on no
  segment having a negative size.

  The other four are about the merge of `locate_hole`, for every list of segments it
  may meet. `BuffersApart` and `HolesUsable`: an entry of the free list lies in one
  RAM range and meets no segment, so that a buffer placed in it, rounded up to
  pages, meets none either; they assume `RamApart` as well, that there is
  something between one RAM range and the next, and of every request that its lower
  bound can be rounded up to its alignment (`RoundsUp`). `NoHoleOverlooked`: a base with
  room for the buffer lies in some entry, because the last segment before it and
  the first one after it delimit one. `FreeListAlwaysFits` counts the entries: each
  is named by its range or by a segment the merge has met, so there are at most
  as many as RAM ranges and segments, and one range that is not RAM makes up for
  the entry `locate_hole` does not allocate. The hypotheses are not conveniences: without
  `RamApart` and without a range that is not RAM, the code fails as section 5 says
  (`kexec.c:202`, `:190`).

  The loaders. `ReadFromFile` from `LoadInv`: what remains to be done is part of the
  program of the loader whose probe accepted the file, a part that is placed was
  asked for by a step of it and lies where that step allows (`Settled`), and what
  was taken from the file lies in it. `PurgatoryWhole` needs no invariant of the
  run: for every object and every base it is shown, section by section, that the two
  passes of `elf_rel_load` agree. They do since alignments are powers of two, so that the
  padding before a section is the same from the aligned base on as from zero.
  `HandoverSound` from `HandInv`, which follows a run that was not given up: every
  segment was accepted by `add_segment` (`Proper`), every part has its segment
  (`Lies`), what the rest of the program needs is placed by what comes before
  (`Ordered`), the comparison of the setup code with purgatory is still ahead or was
  made (`SetupBelow`), and nothing is placed once the kernel has been told (`ToldOf`).
  The property speaks of the staged kernel alone and says nothing of a loader
  halfway. Its hypotheses are `RamFits`, and `MapFits`: at most 32 ranges, since
  `setup_linux_system_parameters` cuts off what exceeds its table, and RAM at 1 MB. TLC
  evaluates both on the run's map. The property itself asks that the e820 map ends with
  the setup code it is written into (`SetupFits`), which the loaders do not compare.
* `KexecCommandProofs`. `JumpsPrepared` and `SuccessIsStaged` from `CommandInv`. Its part
  `FlagsInv` says what the flags tell of the options read so far: a flag may be set,
  implied by another option and taken back by a third, and only the last one of
  these counts (`LastRead`). `ActInv` says what has been done at each step of the chain
  of ifs that the flags ask for.

  `StreamedDigest` is about the hashing alone, for every size of block, length field
  and word: whatever pieces a message comes in, the blocks are those of the
  reference. The step of its induction is that a context holds the message so far
  (`Held`: whole blocks processed, the rest in the buffer, the total in bits). With it
  `DigestOfMemory` and `IntactImageStarts` follow from `ImageInv`, that every staged
  image is one `update_purgatory` has been over: kexec's pieces, with the zeros it
  takes from `null_buf` a piece at a time, and purgatory's regions are two ways of
  cutting the same bytes.
* `ImageHandoffProofs`. `AskedOrFailsafe` from `HandoffInv`: what the walk has
  found (`WalkInv`), what the command line then says (`CmdlineInv`), what the
  search mounts (`SearchInv`) and what the later steps keep (`FoundInv`). A uuid on
  the command line that was read from a partition leads back to that partition
  only, by `UuidsTell`, and the name is only attached where it is found; being an end
  of the path, it is the image's by `PathTells`.
  `CleanHandedOver`, that the right image is reached and not only no wrong one,
  from `CleanInv`: the words linuxrc will find are those kexec wrote, the
  entry of `/dev` by which kexec knew the partition is still to come in linuxrc's
  search, and the failsafe branch is not taken.
* `CliProofs`. `PrivilegeAlwaysEarned`, `LoginAlwaysEarned` and
  `ConfigAlwaysPrivileged` from `SessionInv`, their conjunction with the types the
  scan relies on: none is inductive alone, since a command that configures is
  only reached with the privilege it asks for, and only enable raises that. The
  lemma `CommandKeeps` says what one command may do, in a file or at the prompt.
  The assumption is `ConfigurersPrivileged`: the commands that lead into a
  configuration mode are registered as privileged, as monoboot's are.
  `HistoryAlwaysLast`, for every length of the history, from `HistoryInv` (the
  array is the sequence of the last lines, padded with NULL).

  The tree: `FullNameAlwaysFinds` and `AbbreviationNeverAmbiguous` from
  `TreeInv`. A registration measures the commands from one of them on and a
  removal none, so it is not true that a command's shortest length tells it from
  all others of its list; what every registration and removal keeps is that it is told
  from the later ones (`ToldFromLater`), and from all while `complete` and among
  children (`ToldFromAll`). The first is enough for full names, because the first
  command that accepts a word and may be run is taken.
* `CliPipeProofs`. `LineCutIntoWords` from `ParseInv`: at every turn of the loop the scan
  is at the start, between words, in a word or in a quotation (`Scan`), the words
  found are those that begin before that place, and the variables say where the one
  that is being read began. After the loop the words are the line's (`Tokenised`),
  also when the loop stopped because `words[]` was full.

  `OutputThroughPipe` from `PipeInv`: the lines printed so far are an initial part D of
  all lines (`Position` says what of the strings is left), every filter is in the
  state that the lines of D it was given put it in (`State`), and what the client
  has received are the lines of D that all filters keep, by rank (`OutIs`); in the
  cleanup, those of all lines and the counts of the filters already called
  (`CleanedTo`). The heart is the lemma `StatePasses`: a filter in that state, which
  remembers one bit or a number, passes the next line exactly when `Keeps`, which looks
  at all lines before it, says so. Both hold for every size of `words[]`, every number
  of filters and every output.
* `CliLineEditProofs`. `BufferAlwaysLine`, `ScreenAlwaysShowsLine` and
  `PasswordNeverShown` from `EditInv`: the types, with the cursor within the line and
  the line within the buffer; `BufferIsLine`; and `ScreenInv`, which sees the row of the
  terminal cell by cell (`Shows`), as prompt, line and blanks, since trailing
  blanks leave no trace in a row. Each key is a composition of a few writes, and
  each write has a lemma for the cells it changes. `EditorRefined` is the refinement:
  by `EditInv` the bytes of `cmd` are a sequence of characters with a point, and each
  key maps to the action of `LineEditor` of the same name or to a stutter; a line
  that is lost is found again only when it ends. The bound on the input is not
  used.
* `RwSyncProofs`. `BootRestoresSaved` from `RwInv`. The property speaks of one boot;
  the invariant follows what each file of the partition may hold, in the cache and
  on the disk: what a finished save left stays until a later one touches it
  (`SettledInv`), what has been copied at each point of a save and the room that is
  left for the checksum (`SaveInv`), which checksums are of whole tarballs
  (`SignedInv`) and, where nothing was interrupted, that so is every file
  (`UntornInv`).

Only model-checked:

* liveness under fairness, which the prover does not do: `MonobootTerminates`,
  `KeypressReturns`, `HandoffEnds`.

Every invariant of every passing run has a theorem. Where a proof is about all prefixes of
a sequence (the pieces of a message, the sections of purgatory, the filters of a
line), the induction is done by hand: the set of numbers for which the statement
fails would have a least member, which the well-foundedness of the naturals gives
(`UpTo`), and that a recursive function has the values its definition says is shown
the same way, from the functions on shorter domains (`RecursionExists`).

## 5. Where the code and its documentation disagree

`PROJECT.json` has one finding with a run of its own: `check_last` clears `tryonce`
before `cmd_boot` reads it, so the bootonce image is never tried
(`monoboot/monoboot.c:141`, against `monoboot/README:28`). The other disagreements met
while modelling are in the models and are listed here, so that the exceptions in
the properties can be traced to a line.

Boot selector and success report:

* `monoboot_cmds.c:149`: `cmd_boot` takes the tag from `cmdline[1]`, but libcli passes
  the words after the command, so `boot safe` boots the default image (comment at
  `:146`, `monoboot/README:64`).
* `monoboot_cmds.c:474`: `cmd_write` writes an empty configuration, so `lasttry` never
  reaches the disk (`monoboot/README:13`) and after one boot every option reads as
  its default.
* `monoboot_cmds.c:480`: a failed rename of `mb.conf` is logged and the next one
  overwrites the only copy; `AuthoredRecoverable` is therefore only asked while
  no rename has failed.
* `monoboot_cmds.c:181`: the last stanza whose title begins the tag wins.
* `monoboot_cmds.c:221`: the configuration is freed before `execlp`; when that fails
  the shell goes on with the freed one.
* `monoboot_cli.c:47`: SIGALRM between `getchar`'s return and the assignment loses the
  key, and in the last second the boot goes ahead ("press a key for a shell",
  `:37`). A negative delay (`:38`) counts down through all of int. So does any delay
  when a NUL cut the last second short and its alarm fires behind the loop, before
  the return: the test that ended the loop has left -1, and the wait takes 2^32
  seconds more. `WaitIsBounded` excepts a NUL.
* `monoinit.c:171`: monoinit reads `/config/mb.conf` and saves to a path of its own
  root, so `lastboot` never changes on the partition.

Handoff:

* `linuxrc.c:120`: the letters F, I and C are searched anywhere, so a capital in the
  image's name or in `--append` is taken for the variable, and the failsafe image
  is used (comment at `:252`). `Legible` excludes such names.
* `kexec-monoimage.c:299`: the path is skipped as far as it agrees with the mount
  point, not as far as the mount point goes, and is taken as it was typed: a relative
  path, a link, another mount of the same device, a device name that begins
  another (`:278`, which leaves an empty mount point) or no line at all give a different
  `F=`. linuxrc then takes the file of that name on the partition, if there is one,
  and else the failsafe image. `PathTells` and `Clean` exclude it.
* `linuxrc.c:358`: linuxrc's own `monoimage.h` has `rootfs_offset` at byte 12, where
  `makeimage.pl:92-98` writes the ramdisk's offset (`doc/overview:14`).
* `linuxrc.c:140`: `is_null_uuid` never advances its pointer, so a uuid whose first
  byte is zero is handed over as `<none>`.
* `linuxrc.c:362`: a failed `set_loop` is not noticed.
* `kexec-monoimage.c:243`: an entry of `/dev` that vanished is compared with the
  buffer of the one before it. `:67`: an image of another version is loaded.
  `:309`: nothing bounds the command line to the 256 bytes it has.

kexec:

* `purgatory/string.c:46`: `memcmp` never advances its pointers, so purgatory
  compares only the first byte of the two digests: an image that was written to
  after it was loaded starts whenever that byte agrees (`purgatory.c:25` "sha256
  digests do not match", then an endless loop). `Memcmp` in `KexecCommand` allows
  both outcomes, and only `IntactStarts` is asked.
* `kexec.c:97`: the 64-bit bounds of a range are stored in an `unsigned long`, so on
  i386 RAM above 4 GB validates addresses 4 GB lower (`kexec.c:570`); hence
  `RamFits`.
* `kexec.c:202`: with two RAM ranges that touch, a segment at the start of the
  second is charged to the first, and its memory is offered again; the check
  after the sort then refuses the load. `kexec_segments` uses a map with a gap.
* `kexec.c:235`: a start within the last `hole_align` bytes below 4 GB is rounded up to
  0, which may be memory in use; hence `RoundsUp`, which every loader's request meets.
* `kexec.c:190`: the free list has one entry too few when every range is RAM.
* `kexec.c:483`: `region[]` and `kexec_load` have room for a fixed number of segments,
  `add_segment` only warns beyond it.
* Options: `-e -l` loads, does not jump, and takes the network down; `-e` with nothing
  loaded takes the network down and then fails; `-p -e -u` jumps without a sync;
  the result of `-u` replaces that of a bad serial option. `slurp_file` loops for
  ever on a file that shrinks while it is read.
* `kexec-elf-exec.c`: for a dynamic executable `if (start > first) start = first`
  never lowers `first`, so the base is misaligned and most such files end in
  `die`. ELF64 offsets are compared after truncation, section indices with
  `> e_shnum`, and `p_offset + p_filesz` may wrap past the length check
  (`LoadedFromFile` asks for sums in range).
* Loaders: `nbi_load` loads no purgatory, so setting the registers always dies;
  `--args-none` is refused on i386 because of a third underscore in a macro;
  `--initrd` with `--args-linux` is dropped (the buffer is a variable of the inner
  block); a bzImage without a command line writes one byte before its buffer;
  `regs16.cs` is an address where a segment is meant; beoboot sizes and
  the offsets of a monoimage (`kexec-monoimage.c:326-351`) are not compared with the
  file. With low RAM that ends inside a page, purgatory or a
  small setup part may be offered a hole that `add_segment` refuses.
* `x86-linux-setup.c:145`: the e820 map is written at 0x2d0 of the setup code whatever
  `setup_sects` says; with one sector and 16 ranges or more it overwrites the command
  line and then what lies behind the buffer. `SetupFits` excludes it.
* Memory: `x86-linux-setup.c:167` takes a number of bytes from a number of K, so on
  machines under 1 GB the memory above 1 MB is given as its maximum (the e820 map
  beside it is right, and is what `HandedOver` asks about); `mem_lower` of
  multiboot is always 0.

libcli:

* `libcli.c:586` and `:614`: the early returns in the loop over the filters leave the
  filters already built for the next command (`Doc/usersguide.html:93`).
  `OutputIsPipe` is asked of the commands that left none.
* `libcli.c:266`: a registration under a parent measures only the parent and the
  commands after it, and a removal nothing; `AbbreviationUnambiguous` is asked of
  the first level while `complete`. Registration compares with case, lookup
  without.
* `libcli.c:529`: lookup passes over what the user may not run, so the full name of a
  command they lack the privilege or the mode for may take another command that
  it begins; `FullNameFinds` is asked of those who may run the command.
* Line editor, the cases `spoilt` stands for: Ctrl-Z clears the buffer and keeps
  its length; a full line overwrites its terminator; an insertion near the end of
  the buffer; erasing in the middle of a password does not close the gap, and
  inserting there shows the rest; Ctrl-A after a prompt that does not begin its
  row; completing a word behind a quote mark (`:480-484`), which is written over the
  line from the last blank on and leaves the old tail on the screen, or behind the
  terminator (`:1192-1211`). Further: `cli_clear_line` writes three times the
  length, which overruns from 1366 characters on; a completion is copied
  unchecked; Down on an empty history counts on; three, seven, ... completions are
  listed without a last newline.
* `libcli.c:852`: `memset` is given a number of entries and clears as many bytes, and
  the cleanup leaves freed entries in `history`; a second `cli_loop` on the same
  `cli_def` would meet them.
* `libcli/README:66` says an authentication callback grants with `CLI_OK`; the code
  grants on any other value, as `Doc/developers.html:355` says.
* `Doc/developers.html:295` says that after `CLI_ERROR` the next matching command is
  tried; `cli_find_command` returns.

rw-sync:

* `rw-sync.sh:240`: `MD5BAK` is unset when it is tested, so the backup's checksum is
  never recorded and `init.d/overlay:49` never takes the backup (and would look for
  it in `/root`). After an interrupted save the boot restores nothing, backup or
  not, until the operator renames it.
* `rw-sync.sh:214`: without an old tarball its size is taken to be the new one's, so
  the first save is never refused for room and may be cut off, and the checksum
  vouches for what was written.
* `rw-sync.sh:239`: a save that is refused for room signs the tarball that is there,
  also one an earlier power failure tore.
* `rw-sync.sh:207`: tar's status is ignored, so with a full `TMPDIR`, or a tar that dies, a
  tarball that is cut short is copied, signed and unpacked at boot although the
  partition has room. These three are `cramped`.
* `rw-sync.sh:133`: a failed mount is not noticed; the save reports success.

## 6. Not modelled, and the plan

Not modelled: kexec for other machines, kdump and `kexec_test` (upstream code
this project builds for no target), the build scripts, `gpio` and the disk setup
(straight-line, no state), the network and tftp helpers (they only run other
programs), `cmd_copy` (registered without a callback and never reached), the
configuration commands of `cmd_conf` (their bodies are commented out), the option
handling of `makeimage.pl`, monoinit's tmpfs and rsync, the service links of
`init.d/overlay`, and `bzImage-loader.c`, an older copy of `kexec-bzImage.c` that no
Makefile compiles. Of the loaders, the screen and drive defaults of
`setup_linux_system_parameters`; of ELF, decoding by class and byte order.

Left, in this order:

1. Two saves at once in `RwSync`: nothing keeps a second `rw-sync -w` out.
2. The composition of `CliLineEdit`, `CliTree` and `CliPipe` with `CliSession` in one
   module, in place of the relations between them.
