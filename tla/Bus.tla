---------------------------------- MODULE Bus ----------------------------------
(***************************************************************************)
(* The C64's bus: what answers at an address under the processor port, in  *)
(* the three places where that is decided (read, peek and write), and what *)
(* is left on the data lines when nothing answers.  Addresses and the      *)
(* port's bits are the real ones; what a chip answers, and what it does    *)
(* with a byte, is left to the chips.                                      *)
(***************************************************************************)
EXTENDS Naturals

CONSTANTS
    OpenBusProfiles,    \* makeOpenBusProfile: [revision -> threshold, value]
    BusPrograms         \* what a program has on the bus and does there, by name

VARIABLES
    busProgram,
    busPort,            \* cpuPortDir, cpuPortData
    busMemory,          \* of the program's addresses
    flat,               \* flatMemoryMode
    openBus             \* openBusValue, IdleReads, DecayEnabled, Revision

VARIABLES
    busKept,            \* history: the bytes written where no chip was
    quiet               \* history: the byte last driven, and the reads since

busVars == <<busProgram, busPort, busMemory, flat, openBus, busKept, quiet>>
busHistory == <<busKept, quiet>>

OnBus == BusPrograms[busProgram]

\* What the program's own limits say of the constants: an idle bus holds its byte for a read at
\* least, and a program writes bytes.
BusProgramOK(p) ==
    /\ p.addresses \subseteq Nat
    /\ \A a \in p.addresses : p.bytes[a] \subseteq 0..255
    /\ p.dummies \subseteq 0..255 /\ p.revisions \subseteq DOMAIN OpenBusProfiles
BusConstants ==
    /\ "NMOS" \in DOMAIN OpenBusProfiles
    /\ \A r \in DOMAIN OpenBusProfiles :
        OpenBusProfiles[r].threshold \in Nat \ {0} /\ OpenBusProfiles[r].value \in 0..255
    /\ \A p \in DOMAIN BusPrograms : BusProgramOK(BusPrograms[p])

\* The bytes the ROMs hold, and the chips may answer.
RomByte == [basic |-> \hBA, kernal |-> \hE0, char |-> \hCC]
ChipByte == \hC1

-----------------------------------------------------------------------------
(* The processor port, by its bits.  A pin that is an input reads as 1 and *)
(* counts as 0.                                                            *)

IsSet(v, i) == (v \div 2^i) % 2 = 1
Pin(i) == IF IsSet(busPort.dir, i) => IsSet(busPort.data, i) THEN 2^i ELSE 0
PortRead == Pin(0) + Pin(1) + Pin(2) + Pin(3) + Pin(4) + Pin(5) + Pin(6) + Pin(7)
PinHigh(i) == IsSet(busPort.dir, i) /\ IsSet(busPort.data, i)
loram == PinHigh(0)
hiram == PinHigh(1)
charen == PinHigh(2)
ioVisible == (loram \/ hiram) /\ charen
charVisible == (loram \/ hiram) /\ ~charen

InD(a) == a \div 4096 = 13
ChipAt(a) ==
    CASE a < \hD400 -> {"vic"}
      [] a \in \hD400..\hD41B -> {"sid"}
      [] a \in \hDC00..\hDC0F -> {"cia1"}
      [] a \in \hDD00..\hDD0F -> {"cia2"}
      [] OTHER -> {}
ChipsAt(a) == ChipAt(a) \cap OnBus.chips

\* What answers a read ...
ReadFrom(a) ==
    CASE a >= \hA000 /\ a <= \hBFFF /\ loram /\ hiram /\ "basic" \in OnBus.roms -> "basic"
      [] a >= \hE000 /\ hiram /\ "kernal" \in OnBus.roms -> "kernal"
      [] InD(a) /\ ~ioVisible /\ charVisible /\ "char" \in OnBus.roms -> "char"
      [] InD(a) /\ ioVisible /\ ChipsAt(a) # {} -> "chip"
      [] InD(a) /\ ioVisible /\ ChipsAt(a) = {} /\ a \div 256 = \hDE -> "nothing"
      [] OTHER -> "memory"
\* ... and a peek.
PeekFrom(a) ==
    CASE a >= \hA000 /\ a <= \hBFFF /\ loram /\ hiram /\ "basic" \in OnBus.roms -> "basic"
      [] a >= \hE000 /\ hiram /\ "kernal" \in OnBus.roms -> "kernal"
      [] InD(a) /\ ~ioVisible /\ charVisible /\ "char" \in OnBus.roms -> "char"
      [] InD(a) /\ ioVisible /\ ChipsAt(a) # {} -> "chip"
      [] OTHER -> "memory"

\* Mutant: the chips stay there when the characters are in their place.
WritesToAlways(a) == IF InD(a) /\ (loram \/ hiram) /\ ChipsAt(a) # {} THEN "chip" ELSE "memory"
\* Where a write goes.
WritesTo(a) == IF InD(a) /\ ioVisible /\ ChipsAt(a) # {} THEN "chip" ELSE "memory"

ByteAt(place, a) ==
    CASE place \in DOMAIN RomByte -> RomByte[place]
      [] place = "chip" -> ChipByte
      [] place = "nothing" -> openBus.value
      [] OTHER -> busMemory[a]

-----------------------------------------------------------------------------
(* The open bus.                                                           *)

Driven(v) == [openBus EXCEPT !.value = v, !.idle = 0]

\* Every read lets the lines decay first, those that are answered as well.
Decayed ==
    IF ~openBus.decays THEN openBus
    ELSE LET n == openBus.idle + 1
             p == OpenBusProfiles[openBus.revision]
         IN  [openBus EXCEPT !.idle = IF n > p.threshold THEN p.threshold ELSE n,
                             !.value = IF n >= p.threshold THEN p.value ELSE @]

Drive(v) ==
    /\ openBus' = Driven(v)
    /\ quiet' = [byte |-> v, reads |-> 0]

readBus(a) ==
    /\ CASE flat -> Drive(busMemory[a])
         [] ~flat /\ a = 0 -> Drive(busPort.dir)
         [] ~flat /\ a = 1 -> Drive(PortRead)
         [] ~flat /\ a > 1 /\ ReadFrom(a) # "nothing" -> Drive(ByteAt(ReadFrom(a), a))
         [] OTHER ->
                /\ openBus' = Decayed
                /\ quiet' = [quiet EXCEPT !.reads = IF openBus.decays THEN @ + 1 ELSE @]
    /\ quiet'.reads <= OnBus.reads
    /\ UNCHANGED <<busProgram, busPort, busMemory, flat, busKept>>

\* The port's bytes are stored, too.
writeBus(a, v) ==
    /\ busPort' = IF flat \/ a > 1 THEN busPort
               ELSE IF a = 0 THEN [busPort EXCEPT !.dir = v] ELSE [busPort EXCEPT !.data = v]
    /\ busMemory' = IF flat \/ a <= 1 \/ WritesTo(a) = "memory" THEN [busMemory EXCEPT ![a] = v] ELSE busMemory
    /\ busKept' = IF ~flat /\ ReadFrom(a) = "chip" THEN busKept ELSE [busKept EXCEPT ![a] = v]
    /\ Drive(v)
    /\ UNCHANGED <<busProgram, flat>>

\* A dummy write only drives the lines.
laWrite(v) ==
    /\ Drive(v)
    /\ UNCHANGED <<busProgram, busPort, busMemory, flat, busKept>>

setOpenBusRevision(r) ==
    /\ openBus' = [openBus EXCEPT !.revision = r, !.idle = 0, !.decays = TRUE]
    /\ quiet' = [byte |-> openBus.value, reads |-> 0]
    /\ UNCHANGED <<busProgram, busPort, busMemory, flat, busKept>>

\* The self-tests run programs without the C64's memory map.
setFlat ==
    /\ flat' = TRUE
    /\ UNCHANGED <<busProgram, busPort, busMemory, openBus, busHistory>>

AtReset == [dir |-> \h2F, data |-> \h37]
Cleared == [a \in OnBus.addresses |-> CASE a = 0 -> AtReset.dir [] a = 1 -> AtReset.data [] OTHER -> 0]
resetBus ==
    /\ busPort' = AtReset
    /\ busMemory' = Cleared /\ busKept' = Cleared
    /\ flat' = FALSE
    /\ Drive(255)
    /\ UNCHANGED busProgram

BusInit ==
    /\ busProgram \in DOMAIN BusPrograms
    /\ busPort = AtReset
    /\ busMemory = Cleared /\ busKept = Cleared
    /\ flat = FALSE
    /\ openBus = [value |-> 255, idle |-> 0, decays |-> FALSE, revision |-> "NMOS"]
    /\ quiet = [byte |-> 255, reads |-> 0]

BusNext ==
    \/ \E a \in OnBus.addresses : readBus(a)
    \/ \E a \in OnBus.addresses : \E v \in OnBus.bytes[a] : writeBus(a, v)
    \/ \E v \in OnBus.dummies : laWrite(v)
    \/ \E r \in OnBus.revisions : setOpenBusRevision(r)
    \/ OnBus.flat /\ setFlat
    \/ resetBus

BusSpec == BusInit /\ [][BusNext]_busVars

-----------------------------------------------------------------------------
(* Properties.                                                             *)

\* Every variable has the values the program's types allow.
BusTypeOK ==
    /\ {busPort.dir, busPort.data, openBus.value} \subseteq 0..255
    /\ \A a \in OnBus.addresses : busMemory[a] \in 0..255
    /\ openBus.idle \in Nat /\ flat \in BOOLEAN

\* A peek shows what a read would bring, wherever something answers.
PeekShows == \A a \in OnBus.addresses \ {0, 1} : ReadFrom(a) # "nothing" => PeekFrom(a) = ReadFrom(a)

\* What was written where no chip was, under a ROM too, is there when memory answers, whatever
\* has been switched in and out since.
RamKept == \A a \in OnBus.addresses : flat \/ (a > 1 /\ ReadFrom(a) = "memory") => busMemory[a] = busKept[a]

\* Lines that nothing drives keep the last byte until as many reads as the chips' generation
\* allows have gone by, and the byte they decay to after that.
LinesHold ==
    openBus.value = IF quiet.reads < OpenBusProfiles[openBus.revision].threshold THEN quiet.byte
                    ELSE OpenBusProfiles[openBus.revision].value

\* Bus: a monitor sees what the processor would read, what is written under a chip or a ROM
\* comes back when it is gone, and an idle bus holds its byte as long as its revision does.
BusHolds ==
    /\ BusTypeOK
    /\ PeekShows /\ RamKept /\ LinesHold

================================================================================
