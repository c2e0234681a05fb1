---------------------------- MODULE KexecLoaders ----------------------------
(***************************************************************************)
(* my_load from a file to the staged kernel, with the i386 loaders: which  *)
(* segments each of them asks KexecSegments for, in which order, and which *)
(* addresses it hands to the kernel it loads (kexec-bzImage.c,             *)
(* x86-linux-setup.c, kexec-elf-x86.c, kexec-elf-boot.c,                   *)
(* kexec-multiboot-x86.c, kexec-beoboot-x86.c, kexec-nbi.c,                *)
(* kexec-monoimage.c from line 326; its command line is ImageHandoff's).   *)
(*                                                                         *)
(* A loader is straight-line code around calls of add_segment, add_buffer  *)
(* and locate_hole, so it is a list of steps; what depends on where a step *)
(* ended up is an action.  Addresses and sizes are those of the PC.        *)
(***************************************************************************)
EXTENDS ElfImage

CONSTANT Cases   \* the files, with purgatory and what the command line says

VARIABLES
  case,     \* the file, purgatory, command line, ramdisk, style and modules
  loader,   \* the file type my_load has settled on, or ""
  todo,     \* the loader's steps still to come
  where,    \* the address each part has been given
  base,     \* what a dynamic executable is moved by
  taken,    \* the bytes of the file that were loaded
  told,     \* the addresses handed to the new kernel: [ptr, len, part]
  memory    \* the memory it is told of: a map and what lies above 1MB, in K

lvars == <<vars, case, loader, todo, where, base, taken, told, memory>>

NoMemory == [map |-> <<>>, above |-> 0]

LInit ==
  /\ Init /\ case \in Cases
  /\ loader = "" /\ todo = <<>> /\ where = << >> /\ base = 0 /\ taken = {} /\ told = {}
  /\ memory = NoMemory

(* x86-linux-setup.h, x86-linux.h, mb_info.h, kexec-elf-boot.c             *)
LowMin == 12288             \* 0x3000
LowMax == 640 * 1024
Kern32Base == 1048576       \* 1MB
InitrdBase == 16777216      \* 16MB
InitrdAddrMax == 939524095  \* DEFAULT_INITRD_ADDR_MAX
CommandLineSize == 256
LinuxHeaderSize == 32768    \* sizeof(struct x86_linux_header)
E820Map == 720              \* its e820_map, at 0x2d0
E820Entry == 20             \* sizeof(struct e820entry)
FakedParamSize == 4096      \* sizeof(struct x86_linux_faked_param_header)
FakedCommandLine == 2048    \* its command_line
BootNotesSize == 64         \* sizeof(struct boot_notes), nearly
MbiSize == 88               \* sizeof(struct multiboot_info)
BootloaderName == 12        \* "kexec " VERSION and its terminator
ModListSize == 16
MmapEntry == 24
E820Max == 32
NbiHeader == 512
BeobootHeader == 16         \* sizeof(struct beoboot_header)
MonoimageHeader == 20       \* sizeof(struct monoimage_header)
SetupBase == 589824         \* 0x90000, for a protocol before 2.00

-----------------------------------------------------------------------------
(* Probing *)

(* bzImage_probe                                                           *)
BzProbe(k) ==
  k.kind = "bzImage" /\ k.len >= LinuxHeaderSize /\ k.protocol >= 512 /\ k.big

(* elf_x86_probe                                                           *)
ElfProbe(f) == f.kind = "elf" /\ ExecInfo(f) = "ok" /\ f.machine = "386"

(* multiboot_x86_probe: the first header in the first 8KB decides.         *)
MultibootProbe(f) == ElfProbe(f) /\ f.multiboot \in {"plain", "memory", "video"}

(* beoboot_probe: its bzImage is probed where the header says it is.       *)
BeobootProbe(f) ==
  f.kind = "beoboot" /\ f.len >= BeobootHeader /\ f.arch = "i386" /\ BzProbe(f.kernel)

(* nbi_probe: every segment header is in the first 512 bytes.              *)
NbiProbe(f) ==
  /\ f.kind = "nbi" /\ f.len >= NbiHeader /\ ~f.returns /\ ~f.reserved
  /\ \A i \in DOMAIN f.segs : f.segs[i].mode # "negative"
  /\ 16 + 16 * Len(f.segs) <= NbiHeader

(* monoimage_probe: another version than 1 is no error to my_load, and the *)
(* kernel is not looked at.                                                *)
MonoimageProbe(f) == f.kind = "monoimage" /\ f.len >= MonoimageHeader

FileTypes ==
  <<"multiboot-x86", "elf-x86", "bzImage", "beoboot-x86", "nbi-x86", "monoimage-x86">>
Accepts(t, f) ==
  \/ t = "multiboot-x86" /\ MultibootProbe(f)
  \/ t = "elf-x86" /\ ElfProbe(f)
  \/ t = "bzImage" /\ BzProbe(f)
  \/ t = "beoboot-x86" /\ BeobootProbe(f)
  \/ t = "nbi-x86" /\ NbiProbe(f)
  \/ t = "monoimage-x86" /\ MonoimageProbe(f)

-----------------------------------------------------------------------------
(* The loaders as lists of steps *)

(* A fixed segment with bytes of the file from an offset, or -1.           *)
SegmentAt(part, from, r) == [op |-> "segment", part |-> part, from |-> from, request |-> r]
BufferOf(part, from, r) == [op |-> "buffer", part |-> part, from |-> from, request |-> r]
Plain(size, align, min, max, dir) ==
  [bufsz |-> size, memsz |-> size, align |-> align, min |-> min, max |-> max, dir |-> dir]
Check(what) == <<[op |-> what]>>
Unless(condition, steps) == IF condition THEN <<>> ELSE steps

PurgatoryStep(c, min, max, dir) ==
  Check("purgatory info")
    \o <<BufferOf("purgatory", -1, RelRequest(c.purgatory, min, max, dir))>>
    \o Check("relocate")

(* do_bzImage_load: k is the kernel, at an offset of the file.             *)
Kern16Size(k) == ((IF k.sects = 0 THEN 4 ELSE k.sects) + 1) * 512
InitrdMax(k) == IF k.protocol >= 515 THEN k.initrdMax ELSE InitrdAddrMax
InitrdStep(k, initrd, at) ==
  Unless(initrd < 0,
    <<BufferOf("initrd", at, Plain(initrd, 4096, InitrdBase, InitrdMax(k), -1))>>)
BzSteps(c, k, at, cmdline, initrd, initrdAt) ==
  IF k.len < LinuxHeaderSize \/ k.len < Kern16Size(k) THEN Check("fail")
  ELSE PurgatoryStep(c, LowMin, LowMax, -1)
       \o <<LET size == Kern16Size(k) + cmdline
            IN IF k.protocol >= 512
               THEN BufferOf("setup", -1, Plain(size, 16, LowMin, LowMax, -1))
               ELSE SegmentAt("setup", -1, [bufsz |-> size, base |-> SetupBase, memsz |-> size])>>
       \o Check("above")
       \o <<SegmentAt("kernel", at + Kern16Size(k),
              [bufsz |-> k.len - Kern16Size(k), base |-> Kern32Base,
               memsz |-> k.len - Kern16Size(k)])>>
       \o InitrdStep(k, initrd, initrdAt)
       \o Check("symbols")

(* The three loaders that come to do_bzImage_load.  beoboot_load: command  *)
(* line, kernel and ramdisk follow one another in the file, with the sizes *)
(* its header gives.  monoimage_load: kernel and ramdisk each end where    *)
(* the header has the next part begin.                                     *)
BzLoaders == {"bzImage", "beoboot-x86", "monoimage-x86"}
MonoKernel(f) ==
  [len |-> f.ramdisk - f.kernel, sects |-> f.sects, protocol |-> f.protocol,
   initrdMax |-> f.initrdMax]
KernelOf(t, c) ==
  CASE t = "bzImage" -> c.file
    [] t = "beoboot-x86" -> c.file.kernel
    [] t = "monoimage-x86" -> MonoKernel(c.file)
KernelAt(t, c) ==
  CASE t = "bzImage" -> 0
    [] t = "beoboot-x86" -> BeobootHeader + c.file.cmdline
    [] t = "monoimage-x86" -> c.file.kernel
LineOf(t, c) == IF t = "beoboot-x86" THEN c.file.cmdline ELSE c.cmdline
RamdiskOf(t, c) ==
  CASE t = "bzImage" -> c.ramdisk
    [] t = "beoboot-x86" -> c.file.initrd
    [] t = "monoimage-x86" -> c.file.rootfs - c.file.ramdisk
RamdiskAt(t, c) ==
  CASE t = "bzImage" -> -1
    [] t = "beoboot-x86" -> KernelAt(t, c) + c.file.kernel.len
    [] t = "monoimage-x86" -> c.file.ramdisk

(* elf_exec_build_load and elf_exec_load                                   *)
ExecSteps(f) ==
  Unless(~DynamicMoves(f), Check("hole"))
    \o [i \in DOMAIN LoadSegments(f) |->
          [op |-> "load", part |-> "exec", from |-> LoadSegments(f)[i].offset,
           phdr |-> LoadSegments(f)[i]]]

(* elf_x86_load: elf_boot_notes for --args-elf, the faked parameters for   *)
(* --args-linux, whose ramdisk stays in a variable of the inner block.     *)
(* --args-none is refused: the macro it asks for has a third underscore.   *)
ElfSteps(c) ==
  IF c.style = "none" THEN Check("die") ELSE
  ExecSteps(c.file) \o PurgatoryStep(c, 0, UlongMax, 1)
    \o (IF c.style = "elf"
        THEN <<BufferOf("notes", -1,
                 Plain(BootNotesSize + AlignUp(c.cmdline, 4), 4, 0, UlongMax, 1))>>
             \o Check("symbols") \o Unless(c.ramdisk < 0, Check("die"))
        ELSE <<BufferOf("params", -1, Plain(FakedParamSize, 16, 0, UlongMax, 1))>>
             \o Check("symbols"))

(* multiboot_x86_load: the memory map, the modules and the information     *)
(* that points to them.                                                    *)
MbiBase(c) == AlignUp(MbiSize + c.cmdline + BootloaderName, 4)
ModuleLines(c) ==
  LET lines[i \in 0..Len(c.modules)] == IF i = 0 THEN 0 ELSE lines[i - 1] + c.modules[i].line
  IN lines[Len(c.modules)]

(* Seeded fault: no room is made for the modules' command lines.           *)
MbiBytesNoLines(c) == MbiBase(c) + ModListSize * Len(c.modules)

MbiBytes(c) == MbiBase(c) + ModListSize * Len(c.modules) + ModuleLines(c)
MaxModules == 3   \* bound: --module options
ModulePart(i) == <<"module 1", "module 2", "module 3">>[i]
MultibootSteps(c) ==
  ExecSteps(c.file) \o PurgatoryStep(c, 0, UlongMax, 1)
    \o Unless(c.file.multiboot # "memory",
         <<BufferOf("mmap", -1, Plain(Len(Ranges) * MmapEntry, 4, 0, UlongMax, 1))>>)
    \o [i \in DOMAIN c.modules |->
          BufferOf(ModulePart(i), -1, Plain(c.modules[i].size, Page, 0, UlongMax, 1))]
    \o Check("sort")
    \o <<BufferOf("mbi", -1, Plain(MbiBytes(c), 4, 0, UlongMax, 1))>>
    \o Check("symbols")

(* nbi_load: each segment absolute, after or before the last one.  No      *)
(* purgatory is loaded, so the registers cannot be set.                    *)
NbiPlace(f, i, last) ==
  LET s == f.segs[i]
      size == IF i = 1 THEN NbiHeader ELSE f.segs[i - 1].memlen
  IN CASE s.mode = "absolute" -> s.addr
       [] s.mode = "append" -> Cut(last + size + s.addr)
       [] s.mode = "prepend" -> Wrap(last - s.addr)
NbiAddr(f) ==
  LET at[i \in 0..Len(f.segs)] == IF i = 0 THEN f.base ELSE NbiPlace(f, i, at[i - 1])
  IN at
NbiFrom(f) ==
  LET from[i \in DOMAIN f.segs] ==
        IF i = 1 THEN NbiHeader ELSE from[i - 1] + f.segs[i - 1].imglen
  IN from
NbiSteps(f) ==
  <<SegmentAt("nbi", 0, [bufsz |-> NbiHeader, base |-> f.base, memsz |-> NbiHeader])>>
    \o [i \in DOMAIN f.segs |->
          SegmentAt("nbi", NbiFrom(f)[i],
            [bufsz |-> f.segs[i].imglen, base |-> NbiAddr(f)[i], memsz |-> f.segs[i].memlen])]
    \o Check("symbols")

Program(t, c) ==
  CASE t = "multiboot-x86" -> MultibootSteps(c)
    [] t = "elf-x86" -> ElfSteps(c)
    [] t = "nbi-x86" -> NbiSteps(c.file)
    [] t \in BzLoaders ->
         BzSteps(c, KernelOf(t, c), KernelAt(t, c), LineOf(t, c), RamdiskOf(t, c),
                 RamdiskAt(t, c))

-----------------------------------------------------------------------------
(* What is taken for granted of the files *)

(* An unsigned long reaches beyond the addresses the loaders ask for, and  *)
(* conventional memory ends with a page.                                   *)
ASSUME WordAssumption ==
  /\ Word > InitrdAddrMax /\ LowMax % Page = 0 /\ Len(Ranges) * MmapEntry < Word
  /\ RoundsUp(InitrdBase, 4096)

(* Tables are sequences; numbers are unsigned, what a loader adds up to    *)
(* ask for memory stays one, and the parts of a monoimage are in order.    *)
Table(s) == s \in Seq({s[i] : i \in DOMAIN s})
KernelNumbers(k, cmdline, initrd) ==
  /\ {k.len, k.sects, k.protocol, k.initrdMax, cmdline, Kern16Size(k) + cmdline} \subseteq ULong
  /\ initrd \in ULong \/ initrd = -1
FileNumbers(c) ==
  LET f == c.file
  IN CASE f.kind = "bzImage" -> KernelNumbers(f, c.cmdline, c.ramdisk)
       [] f.kind = "beoboot" -> KernelNumbers(f.kernel, f.cmdline, f.initrd)
       [] f.kind = "monoimage" ->
            /\ KernelNumbers(MonoKernel(f), c.cmdline, f.rootfs - f.ramdisk)
            /\ {f.kernel, f.ramdisk} \subseteq Nat /\ f.rootfs >= f.ramdisk
       [] f.kind = "nbi" ->
            /\ Table(f.segs) /\ f.base \in ULong
            /\ \A i \in DOMAIN f.segs :
                 /\ f.segs[i].mode \in {"absolute", "append", "prepend", "negative"}
                 /\ {f.segs[i].addr, f.segs[i].imglen, f.segs[i].memlen} \subseteq ULong
       [] f.kind = "elf" ->
            /\ Table(f.phdrs) /\ f.len \in Nat
            /\ \A i \in DOMAIN f.phdrs :
                 {f.phdrs[i].offset, f.phdrs[i].filesz, f.phdrs[i].memsz, f.phdrs[i].paddr,
                  f.phdrs[i].vaddr, f.phdrs[i].align} \subseteq Nat
            /\ c.cmdline \in Nat /\ Table(c.modules) /\ Len(c.modules) <= MaxModules
            /\ \A i \in DOMAIN c.modules :
                 c.modules[i].size \in ULong /\ c.modules[i].line \in Nat
            /\ {BootNotesSize + AlignUp(c.cmdline, 4), MbiBytes(c)} \subseteq ULong

(* purgatory as the assembler and ld -r leave it.  A symbol lies in a      *)
(* section that is loaded, the entries in one with data, the debug hooks   *)
(* less than 64KB above their entry, which a .balign puts on a paragraph.  *)
DebugHooks == {"entry16_debug_pre32", "entry16_debug_first32"}
Entries == {"entry16", "entry16_debug"} \cup DebugHooks
SymbolLinked(o, n) ==
  LET y == o.symbols[n]
      s == o.shdrs[y.shndx]
      e == o.symbols["entry16_debug"]
  IN /\ y.shndx \in DOMAIN o.shdrs /\ s.alloc /\ s.size > 0
     /\ {y.value, y.size} \subseteq Nat /\ y.value + y.size <= s.size
     /\ n \in Entries => s.type # "NOBITS" /\ y.value < s.size
     /\ n = "entry16_debug" => s.align % 16 = 0 /\ y.value % 16 = 0
     /\ n \in DebugHooks =>
          /\ "entry16_debug" \in DOMAIN o.symbols /\ e.shndx = y.shndx
          /\ e.value <= y.value /\ y.value < e.value + 65536

(* A relocation refers to its symbol's section, a relative one from the    *)
(* end of the word it is in.                                               *)
RelocLinked(o, r) ==
  LET y == o.symbols[r.symbol]
      to == y.value + r.addend + (IF r.type = "R_386_PC32" THEN 4 ELSE 0)
  IN /\ r.section \in DOMAIN o.shdrs /\ r.offset \in Nat /\ r.addend \in Int
     /\ r.symbol \in DOMAIN o.symbols => 0 <= to /\ to <= o.shdrs[y.shndx].size

(* Alignments are powers of two, and the whole fits.                       *)
WellLinked(o) ==
  LET aligns == {o.shdrs[i].align : i \in DOMAIN o.shdrs} \cup {Page}
  IN /\ Table(o.shdrs) /\ o.entry \in Nat
     /\ \A i \in DOMAIN o.shdrs :
          {o.shdrs[i].addr, o.shdrs[i].size} \subseteq Nat /\ o.shdrs[i].align \in Nat \ {0}
     /\ \A a, b \in aligns : a <= b => b % a = 0
     /\ \A n \in DOMAIN o.symbols : SymbolLinked(o, n)
     /\ \A i \in DOMAIN o.relocs : RelocLinked(o, o.relocs[i])
     /\ RelRequest(o, 0, 0, 1).memsz < Word
     /\ RoundsUp(LowMin, RelRequest(o, 0, 0, 1).align)

ASSUME CasesAssumption ==
  \A c \in Cases :
    FileNumbers(c) /\ WellLinked(c.purgatory) /\ {c.realMode, c.debug} \subseteq BOOLEAN

-----------------------------------------------------------------------------
(* What the new kernel is told *)

Told(ptr, len, part) == {[ptr |-> ptr, len |-> len, part |-> part]}
At(part) == where[part]
Purgatory(name) == Told(SymbolAddr(case.purgatory, At("purgatory"), name), 1, "purgatory")

(* setup_linux_bootloader_parameters: the ramdisk and the command line.    *)
LinuxTold(k, cmdline, initrd) ==
  (IF k.protocol < 514 THEN {}
   ELSE Told(At("setup") + Kern16Size(k), Lesser(cmdline, CommandLineSize), "setup"))
    \cup (IF initrd < 0 THEN {} ELSE Told(At("initrd"), initrd, "initrd"))
(* setup_linux_system_parameters: the map in the parameters themselves.    *)
MapEntries == Lesser(Len(Ranges), E820Max)
MapTold(part) == Told(At(part) + E820Map, E820Entry * MapEntries, part)
(* The hooks of a debug start: a far pointer and a 32-bit address.         *)
DebugTold ==
  LET addr(n) == SymbolAddr(case.purgatory, At("purgatory"), n)
      cs == (addr("entry16_debug") \div 16) % 65536
      ip == (addr("entry16_debug_pre32") - addr("entry16_debug")) % 65536
  IN Told(16 * cs + ip, 1, "purgatory") \cup Purgatory("entry16_debug_first32")
(* The registers: --debug has the last word on where to start.             *)
EntryTold(k) ==
  IF case.debug THEN Purgatory("entry16_debug") \cup DebugTold
  ELSE IF case.realMode THEN Purgatory("entry16")
  ELSE Told(Kern32Base, k.len - Kern16Size(k), "kernel")
BzTold(k, cmdline, initrd) ==
  Told(At("setup"), Kern16Size(k), "setup") \cup LinuxTold(k, cmdline, initrd)
    \cup (IF case.realMode THEN {} ELSE MapTold("setup")) \cup EntryTold(k)

ElfTold ==
  IF case.style = "elf"
  THEN Told(At("notes"), BootNotesSize + case.cmdline, "notes") \cup Purgatory("stack_arg32_2")
  ELSE Told(At("params"), FakedParamSize, "params")
         \cup Told(At("params") + FakedCommandLine, Lesser(case.cmdline, CommandLineSize),
                   "params")
         \cup MapTold("params")

(* The fields of the multiboot information, relocated to where it lives:   *)
(* the descriptors of the modules, then their command lines.               *)
LinesAt(c, i) ==
  LET at[j \in 1..Len(c.modules)] ==
        IF j = 1 THEN MbiBase(c) + ModListSize * Len(c.modules)
        ELSE at[j - 1] + c.modules[j - 1].line
  IN at[i]
MultibootTold ==
  LET mbi == At("mbi")
  IN Told(mbi, MbiSize, "mbi") \cup Told(mbi + MbiSize, case.cmdline, "mbi")
       \cup Told(mbi + MbiSize + case.cmdline, BootloaderName, "mbi")
       \cup (IF case.file.multiboot # "memory" THEN {}
             ELSE Told(At("mmap"), Len(Ranges) * MmapEntry, "mmap"))
       \cup UNION {Told(mbi + MbiBase(case) + ModListSize * (i - 1), ModListSize, "mbi")
                     \cup Told(mbi + LinesAt(case, i), case.modules[i].line, "mbi")
                     \cup Told(At(ModulePart(i)), case.modules[i].size, ModulePart(i))
                   : i \in DOMAIN case.modules}

Handed ==
  CASE loader \in BzLoaders ->
         BzTold(KernelOf(loader, case), LineOf(loader, case), RamdiskOf(loader, case))
    [] loader = "elf-x86" -> ElfTold
    [] loader = "multiboot-x86" -> MultibootTold

(* setup_linux_system_parameters: the first E820MAX ranges; the memory     *)
(* above 1MB is a size in K less an address in bytes, so that it wraps     *)
(* below 1GB and is cut to 63MB.                                           *)
Above(range) ==
  LET k == range.end \div 1024 - Kern32Base
  IN IF k \in 0..64512 THEN k ELSE 64512
SystemMemory ==
  LET n == MapEntries
      high == {i \in 1..n : Ranges[i].type = "RAM" /\ Ranges[i].start <= Kern32Base
                            /\ Ranges[i].end > Kern32Base}
  IN [map |-> [i \in 1..n |-> [addr |-> Ranges[i].start,
                                size |-> Ranges[i].end - Ranges[i].start,
                                type |-> Ranges[i].type]],
      above |-> IF high = {} THEN 0
                ELSE Above(Ranges[CHOOSE i \in high : \A j \in high : j <= i])]

(* multiboot_x86_load: every range, as RAM or not (mem_lower stays 0: it   *)
(* asks for RAM at 0, and get_memory_ranges begins it at 0x100).           *)
MultibootMemory ==
  LET low == {i \in Ram : Ranges[i].start <= Kern32Base}
      tops == {0} \cup {Ranges[i].end - Kern32Base : i \in low}
  IN [map |-> [i \in DOMAIN Ranges |->
                 [addr |-> Ranges[i].start, size |-> Ranges[i].end - Ranges[i].start,
                  type |-> IF Ranges[i].type = "RAM" THEN "RAM" ELSE "not RAM"]],
      above |-> (CHOOSE top \in tops : \A t \in tops : t <= top) \div 1024]

MemoryTold ==
  CASE loader \in BzLoaders /\ ~case.realMode -> SystemMemory
    [] loader = "elf-x86" /\ case.style = "linux" -> SystemMemory
    [] loader = "multiboot-x86" /\ case.file.multiboot = "memory" -> MultibootMemory
    [] OTHER -> NoMemory

(* The symbols of purgatory a loader writes, with the size it expects, and *)
(* those it only refers to.                                                *)
Written(t, c) ==
  CASE t \in BzLoaders ->
         {<<"entry16_regs", 48>>, <<"entry16_debug_regs", 48>>, <<"entry32_regs", 36>>}
           \cup (IF c.debug THEN {<<"entry16_debug_old_first32", 4>>} ELSE {})
    [] t = "elf-x86" ->
         {<<"entry32_regs", 36>>}
           \cup (IF c.style = "elf" THEN {<<"stack_arg32_1", 4>>, <<"stack_arg32_2", 4>>}
                 ELSE {})
    [] OTHER -> {<<"entry32_regs", 36>>}
Referred(t, c) ==
  CASE t \in BzLoaders ->
         {"stack_end"} \cup {n \in {"entry16"} : c.realMode}
           \cup {n \in {"entry16_debug"} \cup DebugHooks : c.debug}
    [] t = "elf-x86" /\ c.style = "linux" -> {"stack_end"}
    [] OTHER -> {}
SymbolsFound ==
  /\ "purgatory" \in DOMAIN where
  /\ \A w \in Written(loader, case) : CanSet(case.purgatory, w[1], w[2])
  /\ Referred(loader, case) \subseteq DOMAIN case.purgatory.symbols

-----------------------------------------------------------------------------
(* my_load *)

(* The type -t names if the file is of that type, or the first that is.    *)
Chosen(c) ==
  LET fits == {i \in DOMAIN FileTypes :
                 Accepts(FileTypes[i], c.file) /\ c.type \in {"", FileTypes[i]}}
  IN {FileTypes[i] : i \in {j \in fits : \A k \in fits : j <= k}}
ProbeDies == case.file.kind = "elf" /\ ElfInfo(case.file) = "die"

Probe ==
  /\ phase = "load" /\ loader = "" /\ ~ProbeDies
  /\ loader' \in Chosen(case) /\ todo' = Program(loader', case)
  /\ UNCHANGED <<vars, case, where, base, taken, told, memory>>

ProbeFails ==
  /\ loader = "" /\ ~ProbeDies /\ Chosen(case) = {}
  /\ LoaderFails
  /\ UNCHANGED <<case, loader, todo, where, base, taken, told, memory>>

ProbeEnds ==
  /\ phase = "load" /\ loader = "" /\ ProbeDies
  /\ Die("notes")
  /\ UNCHANGED <<segment, request, staged, case, loader, todo, where, base, taken, told,
                 memory>>

-----------------------------------------------------------------------------
(* The loaders' steps *)

Step(op) ==
  /\ phase = "load" /\ loader # "" /\ todo # <<>> /\ Head(todo).op = op
  /\ todo' = Tail(todo)
  /\ UNCHANGED <<case, loader>>

Settles(part, at) ==
  where' = IF phase' = "ended" THEN where
           ELSE [p \in DOMAIN where \cup {part} |-> IF p = part THEN at ELSE where[p]]
Takes(from, size) ==
  taken' = IF phase' = "ended" \/ from < 0 THEN taken
           ELSE taken \cup {[from |-> from, size |-> size]}

LoadSegment ==
  LET s == Head(todo)
  IN /\ Step("segment")
     /\ AddSegment(s.request)
     /\ Settles(s.part, s.request.base) /\ Takes(s.from, s.request.bufsz)
     /\ UNCHANGED <<base, told, memory>>

(* A buffer of no bytes is given a place and forgotten.                    *)
LoadBuffer ==
  LET s == Head(todo)
  IN /\ Step("buffer")
     /\ AddBuffer(s.request)
     /\ Settles(s.part,
          IF Len(segment') > Len(segment) THEN segment'[Len(segment')].mem
          ELSE CHOOSE b \in LocateHole(segment', s.request) : TRUE)
     /\ Takes(s.from, s.request.bufsz)
     /\ UNCHANGED <<base, told, memory>>

(* elf_exec_load                                                           *)
FindHole ==
  LET holes == LocateHole(segment, DynamicRequest(case.file))
  IN /\ Step("hole")
     /\ \/ holes = {} /\ Die("no hole") /\ UNCHANGED base
        \/ (\E hole \in holes : base' = Wrap(hole - DynamicFirst)) /\ UNCHANGED <<phase, died>>
     /\ UNCHANGED <<segment, request, staged, where, taken, told, memory>>

LoadExec ==
  LET r == ExecRequest(Head(todo).phdr, base)
  IN /\ Step("load")
     /\ AddSegment(r)
     /\ Takes(Head(todo).from, r.bufsz)
     /\ UNCHANGED <<where, base, told, memory>>

(* A step that only looks: it goes on, or ends the process.                *)
Inspect(op, good, reason) ==
  /\ Step(op)
  /\ IF good THEN UNCHANGED <<phase, died>> ELSE Die(reason)
  /\ UNCHANGED <<segment, request, staged, where, base, taken>>

PurgatoryInfo ==
  Inspect("purgatory info", RelInfo(case.purgatory) = "ok", "purgatory") /\ UNCHANGED <<told, memory>>
Relocate ==
  Inspect("relocate", ~RelocDies(case.purgatory), "relocation") /\ UNCHANGED <<told, memory>>
CheckAbove ==
  Inspect("above", At("purgatory") >= At("setup"), "setup above") /\ UNCHANGED <<told, memory>>
SetSymbols ==
  /\ Inspect("symbols", SymbolsFound, "symbol")
  /\ told' = IF SymbolsFound THEN Handed ELSE told
  /\ memory' = IF SymbolsFound THEN MemoryTold ELSE memory
Refuse == Inspect("die", FALSE, "unsupported") /\ UNCHANGED <<told, memory>>

(* multiboot_x86_load sorts before it asks for the information's place.    *)
SortNow ==
  /\ Step("sort")
  /\ segment' \in SortedForms(segment)
  /\ phase' = IF Overlapping(segment') THEN "ended" ELSE phase
  /\ UNCHANGED <<died, request, staged, where, base, taken, told, memory>>

(* A loader stops at an option it does not know, monoimage_load also at a  *)
(* device it cannot look up, before its first step.                        *)
BadOption ==
  /\ loader # "" /\ todo = Program(loader, case) /\ segment = <<>>
  /\ LoaderFails
  /\ UNCHANGED <<case, loader, todo, where, base, taken, told, memory>>

GiveUp ==
  /\ Step("fail") /\ LoaderFails
  /\ UNCHANGED <<where, base, taken, told, memory>>

Loaded ==
  /\ loader # "" /\ todo = <<>> /\ LoaderReturns
  /\ UNCHANGED <<case, loader, todo, where, base, taken, told, memory>>

LNext ==
  \/ Probe \/ ProbeFails \/ ProbeEnds
  \/ LoadSegment \/ LoadBuffer \/ FindHole \/ LoadExec
  \/ PurgatoryInfo \/ Relocate \/ CheckAbove \/ SetSymbols \/ Refuse \/ SortNow \/ BadOption
  \/ GiveUp \/ Loaded
  \/ /\ Verify \/ Sort \/ KexecLoad \/ KexecLoadFails
     /\ UNCHANGED <<case, loader, todo, where, base, taken, told, memory>>

LSpec == LInit /\ [][LNext]_lvars

-----------------------------------------------------------------------------
(* Properties *)

(* Memory maps the loaders pass on as they are: no more ranges than the    *)
(* parameters of a Linux kernel have room for, and RAM at 1MB.             *)
MapFits ==
  /\ Len(Ranges) <= E820Max
  /\ \E i \in Ram : Ranges[i].start <= Kern32Base /\ Kern32Base <= Ranges[i].end

(* The map of a Linux kernel is as long as its ranges, the real-mode part  *)
(* it is written into as long as setup_sects says, and nobody compares     *)
(* them: two sectors of setup code have room for E820MAX ranges, one only  *)
(* for 15 before the command line is overwritten.                          *)
SetupFits ==
  loader \in BzLoaders /\ ~case.realMode =>
    E820Map + E820Entry * MapEntries <= Kern16Size(KernelOf(loader, case))

StagedAt(part) == {i \in DOMAIN staged : staged[i].mem = where[part]}

(* Each loader works out sizes and offsets in one place, asks for memory   *)
(* in a second and writes addresses in a third: once the kernel is staged, *)
(* everything it is told of lies whole in the data of the segment it was   *)
(* put in, real-mode code under purgatory and both below 640KB (unless it  *)
(* is so old that it has an address of its own), a ramdisk between 16MB    *)
(* and the kernel's limit, and all of it in what a memory map handed over  *)
(* calls RAM.                                                              *)
HandedOver ==
  staged # <<>> /\ SetupFits =>
    /\ \A t \in told :
         t.len > 0 =>
           \E i \in StagedAt(t.part) :
             staged[i].mem <= t.ptr /\ t.ptr + t.len <= staged[i].mem + staged[i].bufsz
    /\ "setup" \in DOMAIN where =>
         /\ where["setup"] <= where["purgatory"]
         /\ KernelOf(loader, case).protocol >= 512 =>
              \A i \in StagedAt("setup") \cup StagedAt("purgatory") :
                LowMin <= staged[i].mem /\ End(staged[i]) <= LowMax
    /\ "initrd" \in DOMAIN where =>
         \A i \in StagedAt("initrd") :
           /\ InitrdBase <= staged[i].mem
           /\ staged[i].mem + staged[i].bufsz <= InitrdMax(KernelOf(loader, case))
    /\ memory # NoMemory =>
         /\ \A i \in DOMAIN staged : \E j \in DOMAIN memory.map :
              LET m == memory.map[j]
              IN m.type = "RAM" /\ m.addr <= staged[i].mem /\ End(staged[i]) <= m.addr + m.size
         /\ loader = "multiboot-x86" =>
              \E j \in DOMAIN Ranges :
                Ranges[j].type = "RAM" /\ Ranges[j].start <= Kern32Base
                  /\ Kern32Base + 1024 * memory.above <= Ranges[j].end

(* elf_rel_load sizes purgatory in a first pass over its sections and      *)
(* gives them addresses in a second: every section is aligned, none        *)
(* overlaps another or leaves the memory that was asked for, those with    *)
(* data stay in the buffer, the entry lands in one, and a word that was    *)
(* relocated leads the processor, which adds a relative one to the address *)
(* behind it, into the section its symbol is in.                           *)
PurgatoryPlaced ==
  "purgatory" \in DOMAIN where =>
    LET o == case.purgatory
        rel == where["purgatory"]
        addr == SectionAddr(o, rel)
        placed == {i \in DOMAIN o.shdrs : o.shdrs[i].alloc /\ o.shdrs[i].size > 0}
        end(i) == addr[i] + o.shdrs[i].size
        request_ == RelRequest(o, 0, 0, 1)
    IN /\ \A i \in placed :
            /\ addr[i] % o.shdrs[i].align = 0
            /\ rel <= addr[i] /\ end(i) <= rel + request_.memsz
            /\ o.shdrs[i].type # "NOBITS" => end(i) <= rel + request_.bufsz
            /\ \A j \in placed : i < j => end(i) <= addr[j] \/ end(j) <= addr[i]
       /\ \A i \in DOMAIN o.relocs :
            LET r == o.relocs[i]
                j == o.symbols[r.symbol].shndx
                target == IF r.type = "R_386_32" THEN Relocated(o, rel, r)
                          ELSE Cut(Relocated(o, rel, r) + addr[r.section] + r.offset + 4)
            IN ~RelocDies(o) => j \in placed /\ addr[j] <= target /\ target <= end(j)
       /\ Holding(o) # {} =>
            \E j \in placed : addr[j] <= RelEntry(o, rel) /\ RelEntry(o, rel) < end(j)

(* build_mem_phdrs compares a segment with the file once, elf_exec_load    *)
(* copies it later: what is staged was read from inside the file, when the *)
(* sums in its headers stay in range (a beoboot header's sizes and a net   *)
(* boot image's are taken at their word).                                  *)
Sums(f) == \A i \in DOMAIN f.phdrs : f.phdrs[i].offset + f.phdrs[i].filesz <= UlongMax
LoadedFromFile ==
  (/\ staged # <<>> /\ loader \in {"elf-x86", "multiboot-x86", "bzImage"}
   /\ case.file.kind = "elf" => Sums(case.file))
    => \A t \in taken : t.from + t.size <= case.file.len
==============================================================================
