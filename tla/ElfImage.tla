------------------------------ MODULE ElfImage ------------------------------
(***************************************************************************)
(* kexec's ELF reader (kexec-elf.c, kexec-elf-exec.c) and the loader that  *)
(* gives purgatory, a relocatable object, its place (kexec-elf-rel.c,      *)
(* kexec-elf-rel-x86.c).                                                   *)
(*                                                                         *)
(* Abstractions.  A file is a record of what its headers say, each field   *)
(* read in the byte order the file declares; sizes and offsets are those   *)
(* of the file format; alloc and exec are two bits of sh_flags.            *)
(* sh_addralign is a power of two, as assemblers write it, so that         *)
(* rounding with a mask is AlignUp.                                        *)
(***************************************************************************)
EXTENDS KexecSegments

UlongMax == Word - 1

(* The sizes of Elf32_Phdr, Elf64_Phdr and so on, and of the entries of    *)
(* the tables kexec reads.                                                 *)
PhdrSize(class) == IF class = 32 THEN 32 ELSE 56
ShdrSize(class) == IF class = 32 THEN 40 ELSE 64
EntSizes(class) ==
  IF class = 32 THEN [SYMTAB |-> 16, RELA |-> 12, DYNAMIC |-> 8, REL |-> 8]
  ELSE [SYMTAB |-> 24, RELA |-> 24, DYNAMIC |-> 16, REL |-> 16]

-----------------------------------------------------------------------------
(* build_elf_info *)

(* e_entry, e_phoff and e_shoff of a 64-bit file are compared with         *)
(* ULONG_MAX after elf32_to_cpu has cut them, so they are cut, not refused.*)
Cut(n) == n % Word

(* build_mem_elf32_ehdr and build_mem_elf64_ehdr                           *)
EhdrOk(f, size) ==
  /\ f.len >= size /\ f.ehsize = size
  /\ f.phdrs # <<>> => f.phentsize = PhdrSize(f.class)
  /\ f.shdrs # <<>> => f.shentsize = ShdrSize(f.class)
Elf32Ehdr(f) == EhdrOk(f, 52)
Elf64Ehdr(f) == EhdrOk(f, 64)

(* build_mem_ehdr                                                          *)
HeaderOk(f) ==
  /\ f.kind = "elf" /\ f.len >= 16 /\ f.data \in {"lsb", "msb"}
  /\ (f.class = 32 /\ Elf32Ehdr(f)) \/ (f.class = 64 /\ Elf64Ehdr(f))
  /\ f.version = 1

(* build_mem_elf32_phdr and build_mem_elf64_phdr: what is wider than an    *)
(* unsigned long is refused.                                               *)
InWord(numbers) == \A n \in numbers : n <= UlongMax
Elf32Phdr(p) == InWord({p.filesz, p.memsz, p.offset, p.paddr, p.vaddr, p.align})
Elf64Phdr(p) == InWord({p.filesz, p.memsz, p.offset, p.paddr, p.vaddr, p.align})
PhdrRead(f, p) == IF f.class = 32 THEN Elf32Phdr(p) ELSE Elf64Phdr(p)

(* Seeded fault: only the offset is compared with the file's length.       *)
PhdrOkOffsetOnly(f, p) ==
  PhdrRead(f, p) /\ p.offset <= f.len /\ Cut(p.paddr + p.memsz) >= p.paddr

(* The checks build_mem_phdrs makes of each entry.                         *)
PhdrOk(f, p) ==
  /\ PhdrRead(f, p)
  /\ Cut(p.offset + p.filesz) <= f.len
  /\ Cut(p.paddr + p.memsz) >= p.paddr

(* build_mem_phdrs; e_phdr stays NULL without a table.                     *)
HasPhdrs(f) == Cut(f.phoff) > 0 /\ f.phdrs # <<>>
PhdrsOk(f) ==
  HasPhdrs(f) =>
    /\ Cut(Cut(f.phoff) + PhdrSize(f.class) * Len(f.phdrs)) <= f.len
    /\ \A i \in DOMAIN f.phdrs : PhdrOk(f, f.phdrs[i])

(* build_mem_elf32_shdr and build_mem_elf64_shdr                           *)
EntSizeOk(s, class) ==
  s.type \in DOMAIN EntSizes(class) => s.entsize = EntSizes(class)[s.type]
Elf32Shdr(s) ==
  InWord({s.flags, s.addr, s.offset, s.size, s.align, s.entsize}) /\ EntSizeOk(s, 32)
Elf64Shdr(s) ==
  InWord({s.flags, s.addr, s.offset, s.size, s.align, s.entsize}) /\ EntSizeOk(s, 64)

(* The checks build_mem_shdrs makes of each entry.                         *)
ShdrOk(f, s) ==
  /\ IF f.class = 32 THEN Elf32Shdr(s) ELSE Elf64Shdr(s)
  /\ s.type # "NOBITS" => Cut(s.offset + s.size) <= f.len
  /\ Cut(s.addr + s.size) >= s.addr

(* build_mem_shdrs                                                         *)
HasShdrs(f) == Cut(f.shoff) > 0 /\ f.shdrs # <<>>
ShdrsOk(f) ==
  HasShdrs(f) =>
    /\ Cut(Cut(f.shoff) + ShdrSize(f.class) * Len(f.shdrs)) <= f.len
    /\ \A i \in DOMAIN f.shdrs : ShdrOk(f, f.shdrs[i])

(* build_mem_notes: the first note segment, or else the first note         *)
(* section; a name that is not terminated ends the process, and so does a  *)
(* header that counts entries of a table it does not have.                 *)
NotesDie(f) ==
  \/ ~HasPhdrs(f) /\ f.phdrs # <<>>
  \/ ~HasShdrs(f) /\ f.shdrs # <<>> /\ \A i \in DOMAIN f.phdrs : f.phdrs[i].type # "NOTE"
  \/ /\ \/ \E i \in DOMAIN f.phdrs : f.phdrs[i].type = "NOTE"
        \/ \E i \in DOMAIN f.shdrs : f.shdrs[i].type = "NOTE"
     /\ ~f.notesTerminated

(* What build_elf_info returns, or "die".                                  *)
ElfInfo(f) ==
  IF ~(HeaderOk(f) /\ PhdrsOk(f) /\ ShdrsOk(f)) THEN "bad"
  ELSE IF NotesDie(f) THEN "die" ELSE "ok"

(* build_elf_exec_info: an executable that needs no interpreter.           *)
ExecInfo(f) ==
  IF ElfInfo(f) # "ok" THEN ElfInfo(f)
  ELSE IF /\ f.type \in {"EXEC", "DYN"} /\ HasPhdrs(f)
          /\ \A i \in DOMAIN f.phdrs : f.phdrs[i].type # "INTERP"
       THEN "ok" ELSE "bad"

(* build_elf_rel_info with machine_verify_elf_rel.                         *)
RelInfo(f) ==
  IF ElfInfo(f) # "ok" THEN ElfInfo(f)
  ELSE IF /\ f.type = "REL" /\ HasShdrs(f)
          /\ f.data = "lsb" /\ f.class = 32 /\ f.machine = "386"
       THEN "ok" ELSE "bad"

-----------------------------------------------------------------------------
(* elf_exec_load *)

LoadSegments(f) ==
  LET loads[i \in 0..Len(f.phdrs)] ==
        IF i = 0 THEN <<>>
        ELSE IF f.phdrs[i].type # "LOAD" THEN loads[i - 1]
        ELSE Append(loads[i - 1], f.phdrs[i])
  IN loads[Len(f.phdrs)]

(* The hole a dynamic executable is moved to: first is never lowered from  *)
(* ULONG_MAX, so its size wraps to that of the last address and two more.  *)
DynamicSpan(f) ==
  LET used == {i \in DOMAIN f.phdrs : f.phdrs[i].type = "LOAD" /\ f.phdrs[i].memsz > 0}
      most(g(_)) == IF used = {} THEN 0
                    ELSE CHOOSE m \in {g(i) : i \in used} : \A i \in used : g(i) <= m
  IN [last |-> most(LAMBDA i : Cut(f.phdrs[i].paddr + f.phdrs[i].memsz)),
      align |-> most(LAMBDA i : f.phdrs[i].align)]
DynamicFirst == UlongMax
DynamicRequest(f) ==
  [bufsz |-> 0, memsz |-> Wrap(DynamicSpan(f).last - DynamicFirst + 1),
   align |-> DynamicSpan(f).align, min |-> 0, max |-> UlongMax, dir |-> 1]
DynamicMoves(f) == f.type = "DYN" /\ ~ValidMemoryRange(DynamicFirst, DynamicSpan(f).last)

(* One add_segment for each PT_LOAD.                                       *)
ExecRequest(p, base) ==
  [bufsz |-> Lesser(p.filesz, p.memsz), base |-> Wrap(p.paddr + base), memsz |-> p.memsz]

-----------------------------------------------------------------------------
(* elf_rel_load *)

(* The first pass over the sections: how much room, and how aligned.       *)
Sized(room, s) ==
  IF ~s.alloc THEN room
  ELSE IF s.type # "NOBITS"
  THEN [room EXCEPT !.align = Greater(@, s.align), !.buf = AlignUp(@, s.align) + s.size]
  ELSE [room EXCEPT !.bssAlign = Greater(@, s.align), !.bss = AlignUp(@, s.align) + s.size]
Room(o) ==
  LET room[i \in 0..Len(o.shdrs)] ==
        IF i = 0 THEN [align |-> 1, buf |-> 0, bssAlign |-> 1, bss |-> 0]
        ELSE Sized(room[i - 1], o.shdrs[i])
  IN room[Len(o.shdrs)]

(* Seeded fault: the bss begins right after the data.                      *)
BssPadNone(room) == 0

BssPad(room) ==
  IF room.buf % room.bssAlign = 0 THEN 0 ELSE room.bssAlign - (room.buf % room.bssAlign)

RelRequest(o, min, max, dir) ==
  [bufsz |-> Room(o).buf, memsz |-> Room(o).buf + BssPad(Room(o)) + Room(o).bss,
   align |-> Greater(Room(o).align, Room(o).bssAlign),
   min |-> min, max |-> Lesser(max, UlongMax), dir |-> dir]

(* The second pass: an address for each section.                           *)
Placed(at, s) ==
  IF ~s.alloc THEN [at EXCEPT !.addr = s.addr]
  ELSE IF s.type # "NOBITS"
  THEN [at EXCEPT !.addr = AlignUp(at.data, s.align), !.data = AlignUp(@, s.align) + s.size]
  ELSE [at EXCEPT !.addr = AlignUp(at.bss, s.align), !.bss = AlignUp(@, s.align) + s.size]
SectionAddr(o, base) ==
  LET at[i \in 0..Len(o.shdrs)] ==
        IF i = 0 THEN [data |-> base, bss |-> base + Room(o).buf + BssPad(Room(o)), addr |-> 0]
        ELSE Placed(at[i - 1], o.shdrs[i])
  IN [i \in DOMAIN o.shdrs |-> at[i].addr]

(* The entry moves with the first code section that holds it.              *)
Holding(o) ==
  {i \in DOMAIN o.shdrs :
     /\ o.shdrs[i].alloc /\ o.shdrs[i].exec
     /\ o.shdrs[i].addr <= o.entry /\ o.entry < o.shdrs[i].addr + o.shdrs[i].size}
RelEntry(o, base) ==
  IF Holding(o) = {} THEN o.entry
  ELSE LET i == CHOOSE i \in Holding(o) : \A j \in Holding(o) : i <= j
       IN o.entry - o.shdrs[i].addr + SectionAddr(o, base)[i]

(* elf_rel_get_addr                                                        *)
SymbolAddr(o, base, name) ==
  SectionAddr(o, base)[o.symbols[name].shndx] + o.symbols[name].value

(* elf_rel_set_symbol and elf_rel_get_symbol die unless the symbol is      *)
(* there, has the expected size and is not in the bss.                     *)
CanSet(o, name, size) ==
  /\ name \in DOMAIN o.symbols
  /\ o.symbols[name].size = size /\ o.shdrs[o.symbols[name].shndx].type # "NOBITS"

(* The relocations: machine_apply_elf_rel adds to the word that is there   *)
(* the symbol's address, less that of the place with R_386_PC32.           *)
RelocDies(o) ==
  \E i \in DOMAIN o.relocs :
    \/ o.relocs[i].symbol \notin DOMAIN o.symbols
    \/ o.relocs[i].type \notin {"R_386_32", "R_386_PC32"}
Relocated(o, base, r) ==
  LET value == SymbolAddr(o, base, r.symbol)
      place == SectionAddr(o, base)[r.section] + r.offset
  IN Wrap(r.addend + (IF r.type = "R_386_32" THEN value ELSE value - place))
==============================================================================
