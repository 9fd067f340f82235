----------------------------- MODULE DiskImage -----------------------------
(***************************************************************************)
(* The writer of crates/atrcopy-rs/src/atr.rs: upsert_file puts a file in  *)
(* the root directory of a disk whose sectors are shared by the chains of  *)
(* all files, in subdirectories too, and counted in a bitmap that may be   *)
(* wrong.  It works on a clone that replaces the image when all went well, *)
(* so a call that fails does nothing and one that succeeds is one step.    *)
(* Sector bytes are abstracted to chunks of files and lists of entries; a  *)
(* root directory sector, the VTOC and the boot sectors are reserved.      *)
(***************************************************************************)
EXTENDS Naturals, SequencesExt

CONSTANTS Sectors,            \* how many the disk has
          Boot,               \* boot sectors, which come first
          System,             \* those of the VTOC and the root directory
          LinkMax,            \* the last a chain can link to
          Slots,              \* entries of the root directory
          Name,               \* names as a directory stores them
          Spelling,           \* names as a caller may write them
          Stored,             \* how the directory stores each spelling
          Length,             \* bound: sectors a file may take
          Data                \* what may be written

ASSUME DiskAssumption ==
  /\ Sectors \in Nat /\ Boot \in Nat /\ LinkMax \in Nat /\ Slots \in Nat
  /\ System \subseteq 1..Sectors /\ Length \subseteq Nat \ {0}
  /\ Stored \in [Spelling -> Name] /\ Name \subseteq Spelling

VARIABLES slot,               \* the root directory
          sector,             \* next, chunk and entries of each sector
          vtoc                \* sectors the bitmap says are used

disk == <<slot, sector, vtoc>>

Sector == 1..Sectors
Slot == 1..Slots
Reserved == {s \in Sector : s <= Boot} \cup System
Chunk == Data \X Nat
Chunks(n, d) == [i \in 1..n |-> <<d, i>>]

-----------------------------------------------------------------------------
(* Reading.                                                                *)
IsLive(e) == e.kind \in {"file", "directory"}

(* The sectors a chain visits; 0 where it ends too early.                  *)
Hop(s) == IF s \in Sector THEN sector[s].next ELSE 0
Chain(e) ==
  LET At[i \in 1..e.count] == IF i = 1 THEN e.start ELSE Hop(At[i - 1])
  IN  At
Intact(e) == LET c == Chain(e) IN ToSet(c) \subseteq Sector /\ IsInjective(c)

Extent(e) == IF e.kind = "directory" THEN {e.start + i : i \in 0..e.count - 1} ELSE ToSet(Chain(e))
Readable(e) == IF e.kind = "directory" THEN Extent(e) \subseteq Sector ELSE Intact(e)

RootEntries == {slot[i] : i \in {j \in Slot : IsLive(slot[j])}}
Within(d) == {e \in UNION {ToSet(sector[s].entries) : s \in Extent(d) \cap Sector} : IsLive(e)}
Subdirectories == {e \in RootEntries : e.kind = "directory"}

(* Subdirectories hold files only: directories in them are left out.       *)
Nested == UNION {Within(d) : d \in Subdirectories}

Contents(e) == [i \in 1..e.count |-> sector[Chain(e)[i]].chunk]

-----------------------------------------------------------------------------
(* Writing.  The chains of entries of that name are given back first, and  *)
(* then everything that any other entry uses is taken.                     *)
Replaced(t) == {e \in RootEntries : e.name = t}
Kept(t) == (RootEntries \ Replaced(t)) \cup Nested
Extents(entries) == UNION {Extent(e) : e \in entries}

Used_TrustsVtoc(t) == (vtoc \ Extents(Replaced(t))) \cup Reserved
Used_NeverFrees(t) == vtoc \cup Extents(Kept(t)) \cup Reserved
Used(t) == ((vtoc \cup Reserved) \ Extents(Replaced(t))) \cup Extents(Kept(t)) \cup Reserved

(* The entry of that name, else an empty one, else a deleted one.          *)
Candidates(t) ==
  LET Of(kind) == {i \in Slot : slot[i].kind = kind}
      Same == {i \in Slot : IsLive(slot[i]) /\ slot[i].name = t}
  IN  IF Same # {} THEN Same ELSE IF Of("empty") # {} THEN Of("empty") ELSE Of("deleted")
RootSlot(t) == CHOOSE i \in Candidates(t) : \A j \in Candidates(t) : i <= j

Free(t) == {s \in Sector : Boot < s /\ s <= LinkMax} \ Used(t)

(* The first n sectors of those, in order.                                 *)
Lowest(c, n, S) ==
  /\ \A i, j \in 1..n : i < j => c[i] < c[j]
  /\ \A s \in S \ ToSet(c) : \A i \in 1..n : c[i] < s
Allocated(t, n) == CHOOSE c \in [1..n -> Free(t)] : Lowest(c, n, Free(t))

Fails(t, n) ==
  \/ \E e \in Replaced(t) : e.kind = "directory"
  \/ \E e \in Replaced(t) \cup Kept(t) : ~Readable(e)
  \/ Candidates(t) = {}
  \/ Cardinality(Free(t)) < n

Written(chain, d) ==
  [s \in Sector |->
     IF s \notin ToSet(chain) THEN sector[s]
     ELSE LET i == CHOOSE j \in DOMAIN chain : chain[j] = s IN
          [next |-> IF i = Len(chain) THEN 0 ELSE chain[i + 1], chunk |-> <<d, i>>, entries |-> <<>>]]

Upsert(t, n, d) ==
  /\ ~Fails(t, n)
  /\ LET chain == Allocated(t, n) IN
       /\ sector' = Written(chain, d)
       /\ slot' = [slot EXCEPT ![RootSlot(t)] =
                     [kind |-> "file", name |-> Stored[t], start |-> chain[1], count |-> n]]
       /\ vtoc' = Used(t) \cup ToSet(chain)

WriteDisk == \E t \in Spelling : \E n \in Length : \E d \in Data : Upsert(t, n, d)

-----------------------------------------------------------------------------
(* No two entries share a sector, none uses a reserved one and every chain *)
(* can be followed, whatever the bitmap said: a chain is given back whole  *)
(* and only when the entry that named it is overwritten.                   *)
Live == RootEntries \cup Nested
ChainsDisjoint ==
  /\ \A e \in Live : Readable(e) /\ Extent(e) \cap Reserved = {}
  /\ \A i, j \in Slot : i # j /\ IsLive(slot[i]) /\ IsLive(slot[j]) =>
       Extent(slot[i]) \cap Extent(slot[j]) = {}
  /\ \A e \in RootEntries, f \in Nested : Extent(e) \cap Extent(f) = {}
  /\ \A e, f \in Nested : e # f => Extent(e) \cap Extent(f) = {}

(* A write leaves the bitmap right about every file, loses no sector and   *)
(* reuses none that the bitmap keeps for something the directory omits.    *)
Orphans == vtoc \ (Extents(Live) \cup Reserved)
SpaceAccounted == [][disk' # disk => Extents(Live)' \subseteq vtoc' /\ Orphans' = Orphans]_disk
=============================================================================
