---------------------------- MODULE MCImageHandoff ----------------------------
(* The card of the top-level README: hda1 boots and holds the failsafe     *)
(* image, hda2 the configuration, hda3 the images; an older copy of the    *)
(* image is left on hda1.  hdc is a raw disk, hda31 a longer name.         *)
EXTENDS ImageHandoff, TLC

CONSTANTS d1, d2, d3, dRaw, hda1, hda2, hda3, hdc, tty, cdrom, hda31

MCDisks == {d1, d2, d3, dRaw}
MCNodes == {hda1, hda2, hda3, hda31, hdc, tty, cdrom}
MCChar == {"/", "=", "F", "I", "C", "<none>", " ", "1", "2", "3", "0", "n", "m", "i", "f"}

u1 == <<"1">>
u2 == <<"2">>
u3 == <<"3">>
uZero == <<"0", "3">>
uNull == <<"0">>
MCUuids == {u1, u2, u3, uZero, uNull}
MCZeroFirst == {uZero, uNull}

image == <<"i", "/", "F">>
imageIC == <<"i", "/", "I", "C", "1">>
shortName == <<"F">>
longName == <<"m">> \o <<"/">> \o image
failsafe == <<"f">>
MCNames == {image, imageIC, shortName, longName, failsafe}
MCNodePrefix == {<<n, n>> : n \in MCNodes} \cup {<<hda3, hda31>>}
MCNodeRest == [pair \in MCNodePrefix |-> <<>>]

Line(n, p) == [node |-> n, point |-> p]
AtRoot == Line(hda1, <<"/">>)
AtConfig == Line(hda2, <<"/", "n">>)
AtImages == Line(hda3, <<"/", "m">>)

Standard ==
  [ext |-> {d1, d2, d3},
   uuid |-> d1 :> u1 @@ d2 :> u2 @@ d3 :> u3 @@ dRaw :> uNull,
   files |-> d1 :> {image, imageIC, failsafe} @@ d2 :> {} @@ d3 :> {image, imageIC} @@ dRaw :> {},
   node |-> hda1 :> d1 @@ hda2 :> d2 @@ hda3 :> d3 @@ hda31 :> NoDisk @@ hdc :> dRaw
              @@ tty :> NoDisk @@ cdrom :> NoDisk,
   mounts |-> <<AtRoot, AtConfig, AtImages>>,
   path |-> <<"/">> \o longName, image |-> [disk |-> d3, name |-> image], config |-> d2,
   append |-> <<>>, header |-> "v1"]

(* I in the name of the image: what follows it is taken for the uuid.      *)
Capital == [Standard EXCEPT !.image.name = imageIC, !.path = <<"/", "m", "/">> \o imageIC]
Stale == [Standard EXCEPT !.node[cdrom] = Dangling]
ZeroByte == [Standard EXCEPT !.uuid[d3] = uZero]
Twins == [Standard EXCEPT !.uuid[d1] = u3]
LongName == [Standard EXCEPT !.node[hda31] = d2, !.mounts = <<Line(hda31, <<"/", "n">>)>> \o @]
Relative == [Standard EXCEPT !.path = shortName]
TwoPoints == [Standard EXCEPT !.mounts = <<Line(hda3, <<"/", "n">>)>> \o @]
OnRoot == [Standard EXCEPT !.image.disk = d1, !.path = <<"/">> \o image]
Noisy == [Standard EXCEPT !.append = << <<"n", "F", "=", "f">> >>]

(* The standard card and every oddity, alone; and the ones that cut the    *)
(* path elsewhere once more with a file of that name on the partition.     *)
MCMachines ==
  {Standard, Capital, Stale, ZeroByte, Twins, LongName, Relative, TwoPoints, OnRoot, Noisy,
   [LongName EXCEPT !.files[d3] = @ \cup {longName}],
   [TwoPoints EXCEPT !.files[d3] = @ \cup {longName}],
   [Relative EXCEPT !.files[d3] = @ \cup {shortName}],
   [Standard EXCEPT !.append = << <<"n", "=", "1">> >>],
   [Standard EXCEPT !.append = << <<"n", "I">> >>],
   [Standard EXCEPT !.config = d3],
   [Standard EXCEPT !.config = NoDisk], [Standard EXCEPT !.config = dRaw],
   [Noisy EXCEPT !.files[d1] = {image}],
   [Standard EXCEPT !.mounts = <<AtRoot>>], [Standard EXCEPT !.header = "v2"],
   [Standard EXCEPT !.header = "other"]}
===============================================================================
