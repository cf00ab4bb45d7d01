------------------------------ MODULE SimpleFs ------------------------------
(***************************************************************************)
(* The flat file system (filesystem/simple_fs.zig): what its operations    *)
(* make of a directory sector and an open file.  The VFS calls them with a *)
(* copy of the directory read from the disk, and writes the copy back.     *)
(* Sizes and positions are counted in units of which a sector has          *)
(* SectorSize; the contents of the sectors are left out.                   *)
(***************************************************************************)
EXTENDS Integers, FiniteSets, FiniteSetsExt

CONSTANTS
    Names,
    MAX_ENTRIES, DATA_START_SECTOR, DATA_END_SECTOR, SectorSize

Entries == 0 .. MAX_ENTRIES - 1

Unused == [in_use |-> FALSE, name |-> "", size |-> 0, start_sector |-> 0]

EmptyDirectory == [i \in Entries |-> Unused]

NamedEntries(dir, name) == {i \in Entries : dir[i].in_use /\ dir[i].name = name}

FreeEntries(dir) == {i \in Entries : ~ dir[i].in_use}

findEntry(dir, name) == Min(NamedEntries(dir, name))

findFreeSlot(dir) == Min(FreeEntries(dir))

FileSectors(size) == (size + SectorSize - 1) \div SectorSize

HighSector(dir) ==
    Max({DATA_START_SECTOR} \cup
        {dir[i].start_sector + FileSectors(dir[i].size) : i \in {j \in Entries : dir[j].in_use}})

\* Where a new file starts, if it fits: after the last sector in use.
allocateSectors(dir, sector_count) ==
    IF HighSector(dir) + sector_count > DATA_END_SECTOR THEN {} ELSE {HighSector(dir)}

OpenExisting(dir, i, create) ==
    [start_sector |-> dir[i].start_sector, size |-> dir[i].size, pos |-> 0,
     dir_idx |-> i, writable |-> create]

CreateEntry(dir, name, start) ==
    [dir EXCEPT ![findFreeSlot(dir)] =
        [in_use |-> TRUE, name |-> name, size |-> 0, start_sector |-> start]]

OpenCreated(dir, start) ==
    [start_sector |-> start, size |-> 0, pos |-> 0, dir_idx |-> findFreeSlot(dir),
     writable |-> TRUE]

\* A read that does not fail, at the file's position.
read(file, len) ==
    [file EXCEPT !.pos = IF @ >= file.size THEN @ ELSE @ + Min({len, file.size - @})]

\* A write that does not fail; the file may grow.
write(file, len) ==
    [file EXCEPT !.pos = @ + len, !.size = Max({@, file.pos + len})]

sync(dir, file) == [dir EXCEPT ![file.dir_idx].size = file.size]

\* The sectors an open file of this size lies in.
Extent(file) == file.start_sector .. file.start_sector + FileSectors(file.size) - 1

=============================================================================
