---------------------------- MODULE SliceSymbols ----------------------------
(***************************************************************************)
(* Names and addresses: how `slice profile` finds the probe offset of a    *)
(* function, and how the capture later names the addresses of a stack.     *)
(* An ELF file is a record: symbols, a sequence in table order (.symtab,   *)
(* then .dynsym) of [name, address, text], and segments, the PT_LOAD       *)
(* headers as [address, offset, size, exec].                               *)
(***************************************************************************)
EXTENDS Integers, FiniteSets, SequencesExt

\* The symbols that both sides look at.
Callable(elf) == {k \in DOMAIN elf.symbols : elf.symbols[k].text /\ elf.symbols[k].address # 0}

-----------------------------------------------------------------------------
(* slice symbols and slice profile *)

\* list_symbols does not ask for an address.
ListedNames(elf) == {s.name : s \in {t \in ToSet(elf.symbols) : t.text}}

\* The addresses that bear the requested name, each once.
RequestedAddresses(elf, name) ==
    {elf.symbols[k].address : k \in {c \in Callable(elf) : elf.symbols[c].name = name}}

SegmentBelow(elf, a) == SelectInSeq(elf.segments, LAMBDA g : g.address <= a)

\* The first segment with a as one of its addresses, by its size in the file.
SegmentOfAddress(elf, a) ==
    SelectInSeq(elf.segments, LAMBDA g : g.address <= a /\ a < g.address + g.size)

NotSelected(reason) == [status |-> reason, address |-> 0, offset |-> 0]

SelectSymbol(elf, name) ==
    LET found == RequestedAddresses(elf, name)
        address == CHOOSE a \in found : TRUE
        k == SegmentOfAddress(elf, address)
        segment == elf.segments[k]
    IN IF found = {} THEN NotSelected("unknown")
       ELSE IF Cardinality(found) > 1 THEN NotSelected("ambiguous")
       ELSE IF k = 0 THEN NotSelected("unmapped")
       ELSE [status |-> "selected", address |-> address,
             offset |-> segment.offset + (address - segment.address)]

-----------------------------------------------------------------------------
(* Resolver *)

\* Of several symbols at one address the table keeps the first.
NameAt(elf, a) ==
    elf.symbols[Min({k \in Callable(elf) : elf.symbols[k].address = a})].name

\* The segment whose bytes in the file include the offset of a mapping.
SegmentOfOffset(elf, offset) ==
    SelectInSeq(elf.segments, LAMBDA g : g.offset <= offset /\ offset < g.offset + g.size)

\* The lines of /proc/pid/maps that map the module, as file addresses.
Mappings(elf, maps) ==
    {[start |-> line.start, end |-> line.end,
      file |-> LET g == elf.segments[SegmentOfOffset(elf, line.offset)]
               IN g.address + (line.offset - g.offset)] :
        line \in {l \in maps : l.module /\ SegmentOfOffset(elf, l.offset) # 0}}

\* The symbol at or below the file address, however far.
FrameLabel(elf, maps, address) ==
    LET covering == {m \in Mappings(elf, maps) : m.start <= address /\ address < m.end}
        mapping == CHOOSE m \in covering : TRUE
        below == {elf.symbols[k].address :
                     k \in {c \in Callable(elf) :
                              elf.symbols[c].address <= mapping.file + (address - mapping.start)}}
    IN IF covering = {} \/ below = {} THEN "unknown" ELSE NameAt(elf, Max(below))

\* frames: the stack of the kernel is leaf first, the frames are root first.
Frames(elf, maps, addresses) ==
    [k \in DOMAIN addresses |-> FrameLabel(elf, maps, Reverse(addresses)[k])]

\* An off-CPU stack without the selected function gets it as its root.
OffcpuFrames(elf, maps, addresses, name) ==
    LET frames == Frames(elf, maps, addresses)
    IN IF name \in ToSet(frames) THEN frames ELSE <<name>> \o frames

-----------------------------------------------------------------------------
(* What the kernel does with a file *)

PageDown(page, x) == page * (x \div page)

\* The loader maps whole pages of each segment at the load bias.
LoadedMaps(elf, bias, page) ==
    {LET g == elf.segments[k]
     IN [start |-> bias + PageDown(page, g.address),
         end |-> bias + PageDown(page, g.address + g.size + page - 1),
         offset |-> PageDown(page, g.offset),
         module |-> TRUE, exec |-> g.exec] : k \in DOMAIN elf.segments}

\* A uprobe at a file offset fires where code is mapped from that offset.
ProbedAddresses(maps, offset) ==
    {m.start + (offset - m.offset) :
        m \in {l \in maps : l.exec /\ l.offset <= offset /\ offset < l.offset + (l.end - l.start)}}

FileRange(g) == g.offset..(g.offset + g.size - 1)

MemoryRange(g, page) ==
    PageDown(page, g.address)..(PageDown(page, g.address + g.size + page - 1) - 1)

\* What a linker makes: segments that share no byte of the file and, loaded, no
\* page of memory, and functions in code only.
LinkedElf(elf, page) ==
    /\ elf.symbols \in Seq([name : STRING, address : Nat, text : BOOLEAN])
    /\ elf.segments \in Seq([address : Nat, offset : Nat, size : Nat, exec : BOOLEAN])
    /\ \A k, l \in DOMAIN elf.segments :
          k # l => /\ FileRange(elf.segments[k]) \cap FileRange(elf.segments[l]) = {}
                   /\ MemoryRange(elf.segments[k], page) \cap MemoryRange(elf.segments[l], page) = {}
    /\ \A k \in Callable(elf), l \in DOMAIN elf.segments :
          LET g == elf.segments[l]
          IN elf.symbols[k].address \in g.address..(g.address + g.size - 1) => g.exec

=============================================================================
