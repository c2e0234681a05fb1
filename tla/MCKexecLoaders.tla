--------------------------- MODULE MCKexecLoaders ---------------------------
(* Files for the loaders: good ones of each kind, ones that ask for what   *)
(* is not there, and ones a probe or a loader has to refuse.               *)
EXTENDS KexecLoaders, TLC

MB == 1048576

(* A PC with 48MB.                                                         *)
MCRanges == <<[start |-> 256, end |-> 654336, type |-> "RAM"],
              [start |-> 654336, end |-> MB, type |-> "reserved"],
              [start |-> MB, end |-> 48 * MB, type |-> "RAM"]>>

(* It is one the theorems about the loaders apply to.                      *)
ASSUME MapAssumption == RamFits /\ MapFits

Shdr(type, alloc, exec, size, align) ==
  [type |-> type, flags |-> (IF alloc THEN 2 ELSE 0) + (IF exec THEN 4 ELSE 0), alloc |-> alloc,
   exec |-> exec, addr |-> 0, offset |-> 64, size |-> size, align |-> align, entsize |-> IF type = "REL" THEN 8 ELSE 0]
Phdr(type, offset, filesz, memsz, paddr, align) ==
  [type |-> type, offset |-> offset, filesz |-> filesz, memsz |-> memsz, paddr |-> paddr,
   vaddr |-> paddr, align |-> align]
Elf(type, phdrs, shdrs) ==
  [kind |-> "elf", len |-> 262144, class |-> 32, data |-> "lsb", ehsize |-> 52,
   phentsize |-> 32, shentsize |-> 40, version |-> 1, type |-> type, machine |-> "386",
   entry |-> 0, phoff |-> IF phdrs = <<>> THEN 0 ELSE 52, phdrs |-> phdrs,
   shoff |-> IF shdrs = <<>> THEN 0 ELSE 131072, shdrs |-> shdrs, notesTerminated |-> TRUE,
   multiboot |-> "none"]

(* Purgatory: its own layout with one alignment or another for the bss,    *)
(* one that puts the registers in the bss, one whose size is refused below *)
(* 640KB once it is rounded up, one for another machine and one with a     *)
(* relocation nobody knows.                                                *)
Names == {"entry16", "entry16_debug", "entry16_regs", "entry16_debug_regs", "entry32_regs",
          "entry16_debug_old_first32", "entry16_debug_pre32", "entry16_debug_first32",
          "stack_arg32_1", "stack_arg32_2", "stack_end"}
Object(bssAlign, registers, tail) ==
  [symbols |-> [n \in Names |->
                  CASE n \in {"entry16", "entry16_debug"} ->
                         [shndx |-> 1, value |-> 16, size |-> 0]
                    [] n \in DebugHooks -> [shndx |-> 1, value |-> 3999, size |-> 0]
                    [] n = "stack_end" -> [shndx |-> 4, value |-> 4096, size |-> 0]
                    [] n = "entry32_regs" -> [shndx |-> registers, value |-> 96, size |-> 36]
                    [] n \in {"entry16_regs", "entry16_debug_regs"} ->
                         [shndx |-> registers, value |-> 0, size |-> 48]
                    [] OTHER -> [shndx |-> 3, value |-> 200, size |-> 4]],
   relocs |-> <<[type |-> "R_386_32", section |-> 1, offset |-> 4, symbol |-> "stack_end", addend |-> -16],
                [type |-> "R_386_PC32", section |-> 1, offset |-> 8, symbol |-> "entry16",
                 addend |-> -4]>>]
  @@ Elf("REL", <<>>, <<Shdr("PROGBITS", TRUE, TRUE, 4001, 16), Shdr("REL", FALSE, FALSE, 16, 4),
                        Shdr("PROGBITS", TRUE, FALSE, 517, 32),
                        Shdr("NOBITS", TRUE, FALSE, 4096, bssAlign),
                        Shdr("NOBITS", TRUE, FALSE, tail, 4)>>)
Good == Object(4096, 3, 3500)
Purgatories ==
  {Good, Object(4096, 3, 13), Object(64, 3, 3500), Object(8192, 3, 3500),
   Object(4, 4, 3500), [Good EXCEPT !.machine = "x86_64"],
   [Good EXCEPT !.relocs[1].type = "R_386_GOTPC"]}

Case(file, purgatory) ==
  [file |-> file, purgatory |-> purgatory, type |-> "", cmdline |-> 40, ramdisk |-> -1,
   realMode |-> FALSE, debug |-> FALSE, style |-> "elf", modules |-> <<>>]

Kernel(len, sects, protocol) ==
  [kind |-> "bzImage", len |-> len, sects |-> sects, protocol |-> protocol, big |-> TRUE,
   initrdMax |-> 40 * MB]
BzCases ==
  {[Case(Kernel(len, sects, 515), p) EXCEPT !.cmdline = line, !.ramdisk = initrd,
                                            !.realMode = real, !.debug = debug]
     : len \in {4 * MB + 77, 40 * MB}, sects \in {0, 1, 10}, p \in Purgatories,
       line \in {0, 300}, initrd \in {-1, 0, 3000000, 30 * MB}, real, debug \in BOOLEAN}
  \cup {Case(Kernel(MB, 10, protocol), Good) : protocol \in {511, 512, 514}}
  \cup {Case(Kernel(33000, 100, 515), Good), Case(Kernel(32767, 4, 515), Good)}

BeobootCases ==
  {Case([kind |-> "beoboot", len |-> 16 * MB, arch |-> arch, cmdline |-> 40, initrd |-> initrd,
         kernel |-> Kernel(3 * MB, 10, 515)], Good)
     : arch \in {"i386", "alpha"}, initrd \in {-1, 5 * MB}}

(* A monoimage's kernel is not probed: it may be too short, or so old that *)
(* its setup code has an address of its own.                               *)
Monoimage(len, initrd, sects, protocol) ==
  [kind |-> "monoimage", len |-> 16 * MB, kernel |-> 20, ramdisk |-> 20 + len,
   rootfs |-> 20 + len + initrd, sects |-> sects, protocol |-> protocol, initrdMax |-> 40 * MB]
MonoimageCases ==
  {[Case(Monoimage(len, initrd, sects, protocol), p) EXCEPT !.realMode = real]
     : len \in {20000, 3 * MB}, initrd \in {0, 3000000}, sects \in {1, 10, 100},
       protocol \in {256, 511, 512, 515}, p \in {Good, Object(8192, 3, 3500)}, real \in BOOLEAN}
  \cup {Case([Monoimage(0, 0, 4, 515) EXCEPT !.len = 19], Good)}

Elf64(phdrs, shdrs) ==
  [Elf("EXEC", phdrs, shdrs) EXCEPT !.class = 64, !.ehsize = 64, !.phentsize = 56,
                                    !.shentsize = 64]
Text == Phdr("LOAD", 4096, 65536, 65536, MB, 4096)
Data == Phdr("LOAD", 69632, 100, 20000, MB + 65536, 4096)
Note == Phdr("NOTE", 300, 20, 20, 0, 4)
Executables ==
  {Elf("EXEC", <<Text, Data, Note>>, <<>>),
   Elf("EXEC", <<Text, Phdr("LOAD", 0, 50, 5000, 40960, 4)>>, <<>>),
   Elf("EXEC", <<Text, [Data EXCEPT !.paddr = MB + 61440]>>, <<>>),       \* overlap
   Elf("EXEC", <<[Text EXCEPT !.paddr = 655360]>>, <<>>),                  \* not RAM
   Elf("EXEC", <<[Text EXCEPT !.offset = 200000]>>, <<>>),                 \* past the file
   Elf("EXEC", <<Text, Phdr("INTERP", 0, 9, 9, 0, 1)>>, <<>>),
   [Elf("EXEC", <<Text, Note>>, <<>>) EXCEPT !.notesTerminated = FALSE],
   [Elf("EXEC", <<Text>>, <<>>) EXCEPT !.machine = "ppc"],
   Elf64(<<Text>>, <<>>),
   [Elf("EXEC", <<Text>>, <<>>) EXCEPT !.class = 64],
   Elf64(<<[Text EXCEPT !.vaddr = Word]>>, <<>>),                          \* out of range
   Elf64(<<Text>>, <<[Shdr("NOTE", FALSE, FALSE, 16, 4) EXCEPT !.flags = Word]>>),
   Elf("EXEC", <<Text>>, <<[Shdr("REL", FALSE, FALSE, 16, 4) EXCEPT !.entsize = 12]>>),
   Elf("EXEC", <<Text>>, <<Shdr("NOTE", FALSE, FALSE, 16, 4)>>),
   Elf("DYN", <<Text, Data>>, <<>>),
   Elf("DYN", <<[Text EXCEPT !.memsz = 60 * MB]>>, <<>>)}
ElfCases ==
  {[Case(f, p) EXCEPT !.style = style, !.ramdisk = ramdisk, !.type = type]
     : f \in Executables, p \in {Good, Object(8192, 3, 3500), Object(4, 4, 3500)},
       style \in {"elf", "linux", "none"}, ramdisk \in {-1, MB},
       type \in {"", "elf-x86", "nbi-x86"}}

MultibootCases ==
  {[Case([f EXCEPT !.multiboot = m], p) EXCEPT !.modules = modules]
     : f \in Executables, m \in {"plain", "memory", "video", "kludge"},
       p \in {Good, Object(4, 4, 3500)},
       modules \in {<<>>, <<[size |-> 5000, line |-> 20]>>,
                    <<[size |-> MB, line |-> 300], [size |-> 0, line |-> 9]>>}}

Nbi(segs) ==
  [kind |-> "nbi", len |-> 65536, returns |-> FALSE, reserved |-> FALSE, base |-> 36864,
   segs |-> segs]
NbiCases ==
  {Case(Nbi(<<[mode |-> "absolute", addr |-> 65536, imglen |-> 4096, memlen |-> 4096],
              [mode |-> mode, addr |-> 8192, imglen |-> 4096, memlen |-> 4096]>>), Good)
     : mode \in {"append", "prepend", "negative"}}
  \cup {Case([Nbi(<<>>) EXCEPT !.returns = TRUE], Good)}

MCCases ==
  BzCases \cup BeobootCases \cup MonoimageCases \cup ElfCases \cup MultibootCases \cup NbiCases
==============================================================================
