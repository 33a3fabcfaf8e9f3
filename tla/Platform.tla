------------------------------ MODULE Platform ------------------------------
(***************************************************************************)
(* The checks that read what the kernel shows of the machine: check_efi,   *)
(* check_tpm, check_bios_cntl, check_me_version, check_dci, check_iommu,   *)
(* check_bolt, check_microcode, check_memory_encryption and the readers of *)
(* silicon_parsers.c (all under src/src).                                  *)
(*                                                                         *)
(* Most of them are one decision per row.  Thunderbolt domains come and go *)
(* while check_bolt goes through their directory twice.                    *)
(***************************************************************************)
EXTENDS Section, Integers

CONSTANTS
  Domains,     \* Thunderbolt domains
  Bytes,       \* values of the BIOS_CNTL register
  AuthFails    \* values of TPM2_PT_MAX_AUTH_FAIL

ASSUME PlatformAssumption == Bytes \subseteq 0..255 /\ AuthFails \subseteq Nat

VARIABLES
  plugged,     \* the machine: domains in /sys/bus/thunderbolt/devices
  protection,  \* the machine: their iommu_dma_protection: "1", "0" or "unreadable"
  toRead,      \* domains the second pass has still to read
  readable,    \* how many it read
  unprotected, \* how many of those were not "1"
  stayed,      \* history: domains plugged in all the time, unless readdir failed
               \* before it came to them
  known        \* history: domains plugged in at some time

platformVars == <<plugged, protection, toRead, readable, unprotected, stayed, known>>

EfiRows  == {"EFI boot mode", "ESRT entries"}
PcrRows  == {"TPM PCR 7", "TPM PCR 0"}
LogRow   == "TPM event log"
AsciiRow == "TPM event log ASCII"
DmaRow   == "Thunderbolt DMA protection"

Vendors == {"AMD", "INTEL", "UNKNOWN"}   \* bythos_cpu_vendor

Verdict(good) == Row(IF good THEN "OK" ELSE "WARN")
-----------------------------------------------------------------------------
(***************************************************************************)
(* EFI and TPM.                                                            *)
(***************************************************************************)

\* bythos_check_efi: an unreadable directory of ESRT entries counts as empty.
CheckEfi ==
  /\ \E visible, entries \in BOOLEAN :
       Section("efi",
         [n \in EfiRows |->
           IF n = "EFI boot mode" THEN Verdict(visible)
           ELSE IF ~visible THEN Skip("FEATURE_ABSENT")
           ELSE Verdict(entries)],
         "secure boot")
  /\ UNCHANGED platformVars

\* "DA lockout": zero disables the lockout, up to 255 tries are strict enough.
LockoutRow(match, capture, parsed, maxAuthFail) ==
  IF match # "trusted" THEN ToolRow(match)
  ELSE IF capture \in {"failed", "nonzero"} THEN SkipRoot("EXEC_FAILED")
  ELSE IF ~parsed THEN Skip("OUTPUT_UNPARSEABLE")
  ELSE Verdict(0 < maxAuthFail /\ maxAuthFail <= 255)

\* "TPM PCR 7" and "TPM PCR 0": bythos_pcr_zero_check finds no digest, only
\* zeros, or something else.
PcrRow(match, capture, digest) ==
  IF match # "trusted" THEN ToolRow(match)
  ELSE IF capture \in {"failed", "nonzero"} THEN SkipRoot("EXEC_FAILED")
  ELSE IF digest = "none" THEN Skip("REPORT_FIELD_ABSENT")
  ELSE Verdict(digest = "measured")

\* Binary event log, and the kernel's ASCII form of it.
LogRows(binary, ascii) ==
  [n \in {LogRow, AsciiRow} |->
    IF ~binary THEN Skip("FEATURE_ABSENT")
    ELSE IF n = LogRow THEN Row("OK")
    ELSE IF ascii = "absent" THEN Skip("FEATURE_ABSENT")
    ELSE Verdict(ascii = "S-CRTM Version")]

\* bythos_check_tpm, in two parts: without a TPM all rows but the first skip.
CheckTpm ==
  /\ \/ Section("tpm",
          Add(Fill({"TPM presence"}, Row("WARN")),
              Fill(PcrRows \cup {"DA lockout", LogRow, AsciiRow}, Skip("HW_ABSENT"))),
          "bios_cntl")
     \/ \E version2, parsed \in BOOLEAN, match \in PathMatches, capture \in Captures,
           maxAuthFail \in AuthFails :
          Section("tpm",
            Add(Fill({"TPM presence"}, Verdict(version2)),
                Fill({"DA lockout"}, LockoutRow(match, capture, parsed, maxAuthFail))),
            "tpm registers")
  /\ UNCHANGED platformVars

CheckTpmRegisters ==
  /\ \E match \in PathMatches, capture \in [PcrRows -> Captures],
        digest \in [PcrRows -> {"none", "zero", "measured"}],
        binary \in BOOLEAN, ascii \in {"absent", "S-CRTM Version", "other"} :
       Section("tpm registers",
         Add([n \in PcrRows |-> PcrRow(match, capture[n], digest[n])], LogRows(binary, ascii)),
         "bios_cntl")
  /\ UNCHANGED platformVars
-----------------------------------------------------------------------------
(***************************************************************************)
(* Platform firmware.                                                      *)
(***************************************************************************)

Bit(byte, n) == (byte \div 2^n) % 2 = 1

\* BIOSWE clear, BLE and SMM_BWP set.
BiosCntlRow(byte) == Verdict(~Bit(byte, 0) /\ Bit(byte, 1) /\ Bit(byte, 5))

\* bythos_check_bios_cntl: the register of the SPI or the LPC controller.
CheckBiosCntl ==
  /\ \E vendor \in Vendors, byte \in Bytes,
        read \in {Skip("HW_ABSENT"), SkipRoot("EXEC_FAILED"), Skip("EXEC_FAILED"), Row("OK")} :
       Section("bios_cntl",
         Fill({"Intel BIOS write protection"},
              IF vendor # "INTEL" THEN Skip("VENDOR_SCOPE")
              ELSE IF read # Row("OK") THEN read
              ELSE BiosCntlRow(byte)),
         "me_version")
  /\ UNCHANGED platformVars

\* bythos_check_me_version, bythos_parse_me_version
CheckMeVersion ==
  /\ \E vendor \in Vendors,
        read \in {Skip("FEATURE_ABSENT"), Skip("EXEC_FAILED"), Skip("OUTPUT_UNPARSEABLE"),
                  Row("OK")} :
       Section("me_version",
         Fill({"Intel ME version"}, IF vendor # "INTEL" THEN Skip("VENDOR_SCOPE") ELSE read),
         "dci")
  /\ UNCHANGED platformVars

\* Enable and lock bit of the debug interface register.
DciRow(enabled, locked) ==
  IF enabled THEN Row("FAIL") ELSE Verdict(locked)

\* bythos_check_dci: on AMD the row of the platform security processor instead.
CheckDci ==
  /\ \E vendor \in Vendors, enabled, locked, psp \in BOOLEAN,
        read \in {Skip("FEATURE_ABSENT"), SkipRoot("EXEC_FAILED"), Skip("EXEC_FAILED"), Row("OK")} :
       Section("dci",
         IF vendor = "AMD" THEN Fill({"AMD PSP visibility"}, Verdict(psp))
         ELSE Fill({"Intel DCI"},
                   IF vendor # "INTEL" THEN Skip("VENDOR_SCOPE")
                   ELSE IF read # Row("OK") THEN read
                   ELSE DciRow(enabled, locked)),
         "chipsec")
  /\ UNCHANGED platformVars

\* bythos_check_chipsec: two names of one tool, each looked up on its own.
CheckChipsec ==
  /\ \E main, short \in PathMatches :
       Section("chipsec",
         Fill({"platform firmware deep audit"},
              IF "trusted" \in {main, short} THEN Skip("NOT_CONFIGURED")
              ELSE IF "untrusted" \in {main, short} THEN Row("WARN")
              ELSE SkipActionable("TOOL_ABSENT")),
         "iommu")
  /\ UNCHANGED platformVars
-----------------------------------------------------------------------------
(***************************************************************************)
(* DMA.                                                                    *)
(***************************************************************************)

\* Words of the kernel command line bythos_parse_iommu_cmdline looks for.
CmdlineWords == {"disabled", "passthrough", "lazy", "hardened"}

\* "IOMMU DMA posture": what the command line turns off comes before what the
\* runtime groups show; words that only harden change the wording.
PostureRow(groups, words) ==
  IF words \cap {"disabled", "passthrough"} # {} THEN Row("FAIL")
  ELSE Verdict("lazy" \notin words /\ groups)

\* bythos_check_iommu
CheckIommu ==
  /\ \E groups, cmdline \in BOOLEAN, words \in SUBSET CmdlineWords :
       Section("iommu",
         [n \in {"IOMMU groups", "IOMMU DMA posture"} |->
           IF n = "IOMMU groups" \/ ~cmdline THEN Verdict(groups)
           ELSE PostureRow(groups, words)],
         "controller")
  /\ UNCHANGED platformVars

\* tb_controller_present, whose opendir or readdir may fail, and opendir of the
\* second pass.
FindController ==
  /\ plugged' \in SUBSET Domains
  /\ protection' \in [Domains -> {"1", "0", "unreadable"}]
  /\ stayed' = plugged'
  /\ known' = plugged'
  /\ toRead' = plugged'
  /\ \/ plugged' # {} /\ Silent("controller", "domains")
     \/ Section("controller", Fill({DmaRow}, Skip("HW_ABSENT")), "dma")
  /\ UNCHANGED <<readable, unprotected>>

\* Mutant of ReadDomain: only the domain read last counts.
ReadDomainLast ==
  /\ pc = "domains"
  /\ \E d \in toRead :
       /\ toRead' = toRead \ {d}
       /\ IF d \in plugged /\ protection[d] # "unreadable"
          THEN /\ readable' = readable + 1
               /\ unprotected' = IF protection[d] # "1" THEN 1 ELSE 0
          ELSE UNCHANGED <<readable, unprotected>>
  /\ UNCHANGED <<pc, rows, plugged, protection, stayed, known>>

\* One entry of read_tb_dma_state's loop: a domain that cannot be read, or is
\* gone by now, is passed over.
ReadDomain ==
  /\ pc = "domains"
  /\ \E d \in toRead :
       /\ toRead' = toRead \ {d}
       /\ IF d \in plugged /\ protection[d] # "unreadable"
          THEN /\ readable' = readable + 1
               /\ unprotected' = unprotected + (IF protection[d] # "1" THEN 1 ELSE 0)
          ELSE UNCHANGED <<readable, unprotected>>
  /\ UNCHANGED <<pc, rows, plugged, protection, stayed, known>>

\* opendir or readdir fails: the loop ends like at the end of the directory.
DirectoryFails ==
  /\ pc = "domains"
  /\ toRead # {}
  /\ toRead' = {}
  /\ stayed' = stayed \ toRead
  /\ UNCHANGED <<pc, rows, plugged, protection, readable, unprotected, known>>

\* The row of bythos_check_bolt_dma.
EmitDma ==
  /\ toRead = {}
  /\ Section("domains",
       Fill({DmaRow}, IF readable = 0 THEN Skip("FEATURE_ABSENT") ELSE Verdict(unprotected = 0)),
       "dma")
  /\ UNCHANGED platformVars

\* A domain is plugged in, or out.  readdir may or may not show a new one.
\* Bound: each is plugged in once.
Hotplug ==
  /\ pc = "domains"
  /\ \E d \in Domains :
       \/ /\ d \in plugged
          /\ plugged' = plugged \ {d}
          /\ toRead' \in {toRead, toRead \ {d}}
       \/ /\ d \notin known
          /\ plugged' = plugged \cup {d}
          /\ toRead' \in {toRead, toRead \cup {d}}
  /\ stayed' = stayed \cap plugged'
  /\ known' = known \cup plugged'
  /\ UNCHANGED <<pc, rows, protection, readable, unprotected>>

EndDma ==
  /\ Silent("dma", "microcode")
  /\ plugged' = {} /\ stayed' = {} /\ known' = {} /\ toRead' = {}
  /\ protection' = [d \in Domains |-> "unreadable"]
  /\ readable' = 0 /\ unprotected' = 0
-----------------------------------------------------------------------------
(***************************************************************************)
(* Processor.                                                              *)
(***************************************************************************)

\* What the entries of the vulnerabilities directory say that could be read:
\* one "vulnerable" is more than any number of "unknown".
VulnerabilitiesRow(said) ==
  IF said = {} THEN Skip("FEATURE_ABSENT") ELSE Verdict(said = {"mitigated"})

MicrocodeRow(vendor, revision) ==
  IF vendor = "UNKNOWN" THEN Skip("VENDOR_SCOPE") ELSE Verdict(revision)

\* spectre-meltdown-checker is looked up and never run.
ScanRow(match) == IF match = "trusted" THEN Skip("NOT_CONFIGURED") ELSE ToolRow(match)

\* bythos_check_microcode
CheckMicrocode ==
  /\ \E vendor \in Vendors, revision \in BOOLEAN,
        said \in SUBSET {"vulnerable", "unknown", "mitigated"}, match \in PathMatches :
       Section("microcode",
         Add(Fill({"CPU microcode"}, MicrocodeRow(vendor, revision)),
             Add(Fill({"CPU vulnerabilities"}, VulnerabilitiesRow(said)),
                 Fill({"CPU vulnerability scan"}, ScanRow(match)))),
         "memory encryption")
  /\ UNCHANGED platformVars

\* bythos_check_memory_encryption: the flag of the vendor, no other.
CheckMemoryEncryption ==
  /\ \E vendor \in Vendors, flagsLine \in BOOLEAN, flags \in SUBSET {"sme", "tme"} :
       Section("memory encryption",
         Fill({"memory encryption"},
              IF vendor = "UNKNOWN" THEN Skip("VENDOR_SCOPE")
              ELSE IF ~flagsLine THEN Skip("EXEC_FAILED")
              ELSE IF (IF vendor = "AMD" THEN "sme" ELSE "tme") \in flags THEN Row("OK")
              ELSE Skip("FEATURE_ABSENT")),
         "done")
  /\ UNCHANGED platformVars

PlatformInit ==
  /\ plugged = {}
  /\ protection = [d \in Domains |-> "unreadable"]
  /\ toRead = {}
  /\ readable = 0
  /\ unprotected = 0
  /\ stayed = {}
  /\ known = {}

PlatformNext ==
  \/ CheckEfi \/ CheckTpm \/ CheckTpmRegisters
  \/ CheckBiosCntl \/ CheckMeVersion \/ CheckDci \/ CheckChipsec
  \/ CheckIommu \/ FindController \/ ReadDomain \/ DirectoryFails \/ EmitDma \/ Hotplug \/ EndDma
  \/ CheckMicrocode \/ CheckMemoryEncryption
-----------------------------------------------------------------------------
(***************************************************************************)
(* Properties.                                                             *)
(***************************************************************************)

\* "pre-boot DMA active" means that no domain that was there all the time shows
\* its protection as off, whatever was plugged in or out meanwhile and in
\* whatever order the directory was read, if it could be read to the end.  (A
\* domain whose attribute cannot be read is passed over.)
DmaOkMeansProtected ==
  pc = "dma" /\ rows[DmaRow].state = "OK" => \A d \in stayed : protection[d] # "0"
=============================================================================
