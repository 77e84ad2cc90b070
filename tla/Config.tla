------------------------------- MODULE Config -------------------------------
(***************************************************************************)
(* The persistent configuration of HARDWARE/config.c: one SYS_CONFIG at    *)
(* the start of flash sector 11, a working copy s_cfg in RAM.  writeFlash  *)
(* erases the sector if any byte is written and programs byte by byte,     *)
(* header first; prepareConfig trusts whatever follows a valid header.     *)
(* Power may fail, or the board reset, at any moment; an erase or a byte   *)
(* program may be refused by the flash controller.                         *)
(***************************************************************************)
EXTENDS Integers

CONSTANTS Size,         \* sizeof(SYS_CONFIG)
          Cell,         \* the values of a flash byte
          HeadByte,         \* 0xaa
          Erased,       \* 0xff
          Worn,         \* what programming a byte that is not erased leaves
          DefaultBody,  \* the bytes of defaultConfig after the header
          Bodies,       \* the bytes after the header setConfig may be given
          Faults        \* which of "crash", "erase" and "program" may happen

Addr == 0..(Size - 1)
BodyAddr == 2..(Size - 1)
Image == [Addr -> Cell]
Blank == [i \in Addr |-> Erased]
\* setConfig and defaultConfig both write the header themselves.
WithHeader(body) == [i \in Addr |-> IF i < 2 THEN HeadByte ELSE body[i]]
Default == WithHeader(DefaultBody)

ASSUME SizeAssumption == Size \in Nat /\ Size > 2
ASSUME CellAssumption == /\ {HeadByte, Erased, Worn} \subseteq Cell
                         /\ HeadByte # Erased
ASSUME BodyAssumption == /\ DefaultBody \in [BodyAddr -> Cell]
                         /\ Bodies \subseteq [BodyAddr -> Cell]
ASSUME FaultAssumption == Faults \subseteq {"crash", "erase", "program"}

VARIABLES flash,        \* the first Size bytes of sector 11
          s_cfg,        \* the working copy
          pc,           \* "off", "scan", "erase", "program" or "run"
          faddr,        \* the byte writeFlash programs next
          written,      \* history: the configuration last programmed, or the
                        \* one being programmed
          complete      \* history: the last writeFlash reached its last byte

vars == <<flash, s_cfg, pc, faddr, written, complete>>

\* A board fresh from the factory: the sector is blank.
Init == /\ flash = Blank /\ s_cfg = Blank
        /\ pc = "off" /\ faddr = 0
        /\ written = Blank /\ complete = FALSE
-----------------------------------------------------------------------------
\* writeFlash(sector 11, &s_cfg): the working copy is set, the scan follows.
Write(cfg) == s_cfg' = cfg /\ pc' = "scan" /\ faddr' = 0

HeaderValid == flash[0] = HeadByte /\ flash[1] = HeadByte

\* prepareConfig finds the header and copies what follows it.
Load == /\ pc = "off" /\ HeaderValid
        /\ s_cfg' = flash
        /\ pc' = "run"
        /\ UNCHANGED <<flash, faddr, written, complete>>

\* prepareConfig finds none and calls defaultConfig.
FirstBoot == /\ pc = "off" /\ ~HeaderValid
             /\ Write(Default)
             /\ complete' = FALSE
             /\ UNCHANGED <<flash, written>>

\* The configuration form: setConfig, in the ETH interrupt.
SetConfig(body) == /\ pc = "run"
                   /\ Write(WithHeader(body))
                   /\ complete' = FALSE
                   /\ UNCHANGED <<flash, written>>

\* The push button: EXTI9_5_IRQHandler calls defaultConfig.
ResetButton == /\ pc = "run"
               /\ Write(Default)
               /\ complete' = FALSE
               /\ UNCHANGED <<flash, written>>
-----------------------------------------------------------------------------
\* Lines 78 to 88: every byte already reads 0xff.
ScanBlank == /\ pc = "scan" /\ flash = Blank
             /\ pc' = "program" /\ written' = s_cfg
             /\ UNCHANGED <<flash, s_cfg, faddr, complete>>

\* Lines 79 and 80: a byte does not, the sector is to be erased.
ScanDirty == /\ pc = "scan" /\ flash # Blank
             /\ pc' = "erase"
             /\ UNCHANGED <<flash, s_cfg, faddr, written, complete>>

\* Mutant: STMFLASH_GetFlashSector names the sector below.
EraseOtherSector == /\ pc = "erase"
                    /\ pc' = "scan"
                    /\ UNCHANGED <<flash, s_cfg, faddr, written, complete>>

\* FLASH_EraseSector succeeds; the scan goes on.
EraseDone == /\ pc = "erase"
             /\ flash' = Blank
             /\ pc' = "scan"
             /\ UNCHANGED <<s_cfg, faddr, written, complete>>

\* An erase cut short leaves some bytes erased and the others as they were.
PartlyErased(bytes) == [i \in Addr |-> IF i \in bytes THEN Erased ELSE flash[i]]

\* Mutant: line 91 does not look at the status of the erase.
EraseFailsUnnoticed(bytes) == /\ pc = "erase" /\ "erase" \in Faults
                              /\ flash' = PartlyErased(bytes)
                              /\ pc' = "program" /\ written' = s_cfg
                              /\ UNCHANGED <<s_cfg, faddr, complete>>

\* FLASH_EraseSector fails: nothing is programmed, and nobody is told.
EraseFails(bytes) == /\ pc = "erase" /\ "erase" \in Faults
                     /\ flash' = PartlyErased(bytes)
                     /\ pc' = "run"
                     /\ UNCHANGED <<s_cfg, faddr, written, complete>>

\* Lines 92 to 98: FLASH_ProgramByte can only clear bits.
Programmed == IF flash[faddr] = Erased THEN s_cfg[faddr] ELSE Worn

\* Mutant: the loop ends one byte early.
LastByteEarly == faddr = Size - 2

LastByte == faddr = Size - 1
ProgramByte == /\ pc = "program"
               /\ flash' = [flash EXCEPT ![faddr] = Programmed]
               /\ \/ ~LastByte /\ faddr' = faddr + 1 /\ UNCHANGED <<pc, complete>>
                  \/ LastByte /\ pc' = "run" /\ faddr' = 0 /\ complete' = TRUE
               /\ UNCHANGED <<s_cfg, written>>

\* FLASH_ProgramByte fails: the rest is not programmed, and nobody is told.
ProgramFails == /\ pc = "program" /\ "program" \in Faults
                /\ pc' = "run"
                /\ UNCHANGED <<flash, s_cfg, faddr, written, complete>>

\* Power fails or the board resets: the working copy is gone.
PowerOff == /\ s_cfg' = Blank /\ pc' = "off" /\ faddr' = 0
            /\ UNCHANGED <<written, complete>>
Crash == /\ pc # "off" /\ "crash" \in Faults
         /\ PowerOff /\ UNCHANGED flash
CrashErasing(bytes) == /\ pc = "erase" /\ "crash" \in Faults
                       /\ flash' = PartlyErased(bytes) /\ PowerOff

\* The orderly reboot by main() never cuts a write short: writeFlash runs in
\* a handler or before the main loop.
Reboot == pc = "run" /\ PowerOff /\ UNCHANGED flash
-----------------------------------------------------------------------------
Boot == Load \/ FirstBoot
WriteFlash == \/ ScanBlank \/ ScanDirty \/ EraseDone \/ ProgramByte
              \/ ProgramFails
              \/ \E bytes \in SUBSET Addr : EraseFails(bytes)
Next == \/ Boot \/ WriteFlash \/ ResetButton \/ Reboot \/ Crash
        \/ \E body \in Bodies : SetConfig(body)
        \/ \E bytes \in SUBSET Addr : CrashErasing(bytes)

Spec == Init /\ [][Next]_vars

\* The program runs while there is power.
FairSpec == Spec /\ WF_vars(Boot) /\ WF_vars(WriteFlash)
-----------------------------------------------------------------------------
TypeOK == /\ flash \in Image /\ s_cfg \in Image
          /\ pc \in {"off", "scan", "erase", "program", "run"}
          /\ faddr \in Addr
          /\ written \in Image
          /\ complete \in BOOLEAN

\* Flash holds bytes of one configuration only: whatever is cut short or
\* refused, and however often, no byte of an older configuration survives
\* among the bytes of a newer one.
NoMixture == \A i \in Addr : flash[i] \in {Erased, written[i]}

\* Why: programming starts on a blank sector and proceeds byte by byte, and
\* the history variables follow the sector.
FlashInv == /\ NoMixture
            /\ pc = "program" =>
                  /\ written = s_cfg
                  /\ \A i \in Addr : flash[i] = IF i < faddr THEN s_cfg[i] ELSE Erased
            /\ pc \in {"scan", "erase"} => faddr = 0
            /\ complete => pc \in {"off", "run"} /\ flash = written
            /\ complete /\ pc = "run" => s_cfg = written
            /\ pc # "off" => s_cfg[0] = HeadByte /\ s_cfg[1] = HeadByte

\* A configuration that was programmed to its last byte is the one every
\* later boot finds, until the next write begins.
Durable == complete /\ pc \in {"off", "run"} =>
               /\ flash = written
               /\ pc = "run" => s_cfg = written

\* Whatever configuration the device works with carries the header, so it
\* survives its own next save and boot.
HeaderInUse == pc = "run" => s_cfg[0] = HeadByte /\ s_cfg[1] = HeadByte

\* prepareConfig copies an "existing configuration": the device works with a
\* configuration somebody saved, or the default one.
NeverTorn == pc = "run" => s_cfg = Default \/ \E b \in Bodies : s_cfg = WithHeader(b)

\* If power fails only finitely often the device comes back into service
\* after every write and every boot.
BackInService == <>[][~(Crash \/ \E bytes \in SUBSET Addr : CrashErasing(bytes))]_vars
                     => []<>(pc = "run")
=============================================================================
