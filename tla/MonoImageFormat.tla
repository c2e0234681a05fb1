--------------------------- MODULE MonoImageFormat ---------------------------
(***************************************************************************)
(* The header of a monoimage: the program that writes it (makeimage.pl)    *)
(* and the two that read it, each with a declaration of its own.  A layout *)
(* is the sequence of the header's fields with their widths in bytes; a    *)
(* reader gets whatever the writer put at the reader's offset.             *)
(***************************************************************************)
EXTENDS Integers, Sequences

Field(name, width) == [name |-> name, width |-> width]

(* makeimage.pl: the magic, then pack "SCCIII".                            *)
MakeImage ==
  <<Field("magic", 4), Field("version", 2), Field("fstype", 1), Field("runfrom", 1),
    Field("kernel", 4), Field("ramdisk", 4), Field("rootfs", 4)>>

(* kexec-tools/include/monoimage.h, with the 32-bit off_t of i386.         *)
KexecHeader ==
  <<Field("magic", 4), Field("version", 2), Field("runfrom", 1), Field("fstype", 1),
    Field("kernel", 4), Field("ramdisk", 4), Field("rootfs", 4)>>

(* linuxrc/monoimage.h.                                                    *)
LinuxrcHeader ==
  <<Field("magic", 2), Field("version", 2),
    Field("kernel", 4), Field("ramdisk", 4), Field("rootfs", 4)>>

(* The number of bytes before the n-th field.                              *)
Before(layout, n) ==
  LET sum[i \in 0..Len(layout)] ==
        IF i = 0 THEN 0 ELSE sum[i - 1] + layout[i].width
  IN sum[n - 1]

Position(layout, name) == CHOOSE n \in DOMAIN layout : layout[n].name = name

(* The written fields a reader's field shares bytes with.                  *)
Covers(reader, name) ==
  LET from == Before(reader, Position(reader, name))
      to == from + reader[Position(reader, name)].width
  IN {MakeImage[n].name : n \in
        {k \in DOMAIN MakeImage :
           Before(MakeImage, k) < to
             /\ Before(MakeImage, k) + MakeImage[k].width > from}}
==============================================================================
