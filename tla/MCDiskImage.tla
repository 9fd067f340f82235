---------------------------- MODULE MCDiskImage ----------------------------
(* Every small disk with up to two files in the root, one subdirectory and *)
(* a file in it, chains in any order, slots in any order and a bitmap that *)
(* may be wrong about two sectors; then every sequence of writes.          *)
EXTENDS DiskImage

CONSTANT NoFile

DataSector == Sector \ Reserved
Linkable == {s \in DataSector : s <= LinkMax}
ChainSeqs == {<<>>} \cup {<<s>> : s \in Linkable} \cup {<<s, t>> : s, t \in Linkable}

File(name, chain) == [kind |-> "file", name |-> name, start |-> chain[1], count |-> Len(chain)]
Subdirectory(s) == [kind |-> "directory", name |-> "D", start |-> s, count |-> 1]
Blank == [kind |-> "empty", name |-> "", start |-> 0, count |-> 0]
Deleted == [kind |-> "deleted", name |-> "A", start |-> Boot + 1, count |-> 1]

Position(s, chain) == CHOOSE i \in DOMAIN chain : chain[i] = s
Old(name, chain, s) ==
  LET i == Position(s, chain) IN
  [next |-> IF i = Len(chain) THEN 0 ELSE chain[i + 1], chunk |-> <<name, i>>, entries |-> <<>>]

(* What such a disk has in the root, and in its sectors.                   *)
Occupied(a, b, d) == {i \in 1..3 : (i = 1 /\ a # <<>>) \/ (i = 2 /\ b # <<>>) \/ (i = 3 /\ d # <<>>)}
Thing(a, b, d, k) == CASE k = 1 -> File("A", a) [] k = 2 -> File("B", b) [] k = 3 -> Subdirectory(d[1])
Unused == [next |-> 0, chunk |-> <<"", 0>>, entries |-> <<>>]
Holds(a, b, n, d, s) ==
  CASE s \in ToSet(a) -> Old("A", a, s)
    [] s \in ToSet(b) -> Old("B", b, s)
    [] s \in ToSet(n) -> Old("N", n, s)
    [] s \in ToSet(d) -> [Unused EXCEPT !.entries = IF n = <<>> THEN <<>> ELSE <<File("A", n)>>]
    [] OTHER -> Unused

Laid(a, b, n, d) ==
  /\ IsInjective(a \o b \o n \o d)
  /\ n # <<>> => d # <<>>
  /\ Len(a \o b \o n \o d) <= Cardinality(Linkable) - 1
  /\ \E order \in SetToSeqs(Occupied(a, b, d)), rest \in {Blank, Deleted} :
       slot = [i \in Slot |-> IF i > Len(order) THEN rest ELSE Thing(a, b, d, order[i])]
  /\ sector = [s \in Sector |-> Holds(a, b, n, d, s)]
  /\ \E wrong \in {{}} \cup {{s, t} : s, t \in DataSector} :
       LET right == ToSet(a \o b \o n \o d) \cup Reserved IN
       vtoc = (right \ wrong) \cup (wrong \ right)

AnyDisk ==
  \E a, b, n \in ChainSeqs, d \in {<<>>} \cup {<<s>> : s \in Linkable} : Laid(a, b, n, d)

DiskSpec == AnyDisk /\ [][WriteDisk]_disk

-----------------------------------------------------------------------------
At(p) ==
  IF p[1] = "root" THEN {e \in RootEntries : e.kind = "file" /\ e.name = p[2]}
  ELSE {e \in Nested : e.kind = "file" /\ e.name = p[2]}

(* What one who reads by name sees of the image. *)
Shown == [p \in {"root", "sub"} \X Name |->
            IF At(p) = {} THEN NoFile ELSE Contents(CHOOSE e \in At(p) : TRUE)]

Store == INSTANCE FileStore WITH
  Path <- {"root", "sub"} \X Name,
  Root <- {"root"} \X {Stored[t] : t \in Spelling},
  Content <- {Chunks(n, d) : n \in Length, d \in Data \cup {"A", "B", "N"}},
  files <- Shown

Exactly == [t \in Spelling |-> IF t = "A." THEN "A" ELSE t]
=============================================================================
