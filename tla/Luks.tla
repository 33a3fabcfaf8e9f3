-------------------------------- MODULE Luks --------------------------------
(***************************************************************************)
(* bythos_check_luks (src/src/check_luks.c) and the parsers it uses        *)
(* (src/src/storage_parsers.c): two lsblk listings, one luksDump per LUKS  *)
(* device, and six rows about them.                                        *)
(*                                                                         *)
(* The block devices are read twice and each header once, at different     *)
(* moments, so what each command answers is chosen when it is run.  A      *)
(* header is what the parsers can tell of a luksDump: version, integrity,  *)
(* and the token section, in which a systemd-tpm2 token lists the PCRs of  *)
(* a hash policy, of a signed policy, of neither or of both.               *)
(***************************************************************************)
EXTENDS Integers, FiniteSets, Sequences, Rows

CONSTANTS
  Headers,    \* the luksDump outputs a model uses, as records
  MaxVolumes  \* bound: LUKS devices lsblk lists

LuksHeader ==
  [version : 0..2, integrity : BOOLEAN, token : {"none", "clevis", "tpm2"},
   hash : SUBSET (0..31), signed : SUBSET (0..31)]

ASSUME HeadersAssumption == Headers \subseteq LuksHeader
ASSUME MaxVolumesAssumption == MaxVolumes \in Nat

VARIABLES
  pc,           \* "list", "gate", "dump", "rows" or "done"
  rows,         \* the rows emitted so far, by name
  tpmPresent,   \* tpm_present
  left,         \* LUKS lines of the second listing still to visit
  dumped,       \* history: the headers of the volumes dumped so far, in order
  read,         \* what the parsers made of them
  failed,       \* dump_failed
  counts,       \* the other counters of the dump loop
  weakest,      \* weakest_mask as a set of PCRs; 0..31 before any
  signedWeakest \* signed_weakest_mask

vars == <<pc, rows, tpmPresent, left, dumped, read, failed, counts, weakest, signedWeakest>>

DevicesRow == "LUKS block devices"
VersionRow == "LUKS version"
IntegrityRow == "LUKS dm-integrity"
BindingRow == "LUKS TPM binding"
SecureBootRow == "LUKS Secure Boot binding"
BootChainRow == "LUKS boot chain binding"
DumpRows == {VersionRow, IntegrityRow, BindingRow, SecureBootRow, BootChainRow}
PcrRows == {SecureBootRow, BootChainRow}

ZeroCounts ==
  [luks1 |-> 0, luks2 |-> 0, unknown |-> 0, integrity |-> 0, noToken |-> 0,
   clevis |-> 0, tokens |-> 0, unparsed |-> 0, signed |-> 0]

AllPcrs == 0..31
-----------------------------------------------------------------------------
\* The verdict on the first listing: encrypted swap and open mappings without
\* a LUKS signature only change the wording of the warning.
ListingRow(luks) == IF luks > 0 THEN Row("OK") ELSE Row("WARN")

\* "LUKS block devices": the first lsblk.
ListDevices ==
  /\ pc = "list"
  /\ \E lsblk \in PathMatches, result \in Captures, luks \in 0..1 :
       rows' = Add(rows, Fill({DevicesRow},
                 IF lsblk # "trusted" THEN ToolRow(lsblk)
                 ELSE IF result \in {"failed", "nonzero"} THEN Skip("EXEC_FAILED")
                 ELSE IF result = "truncated" THEN Skip("OUTPUT_UNPARSEABLE")
                 ELSE ListingRow(luks)))
  /\ pc' = "gate"
  /\ UNCHANGED <<tpmPresent, left, dumped, read, failed, counts, weakest, signedWeakest>>

\* The helpers are resolved again and the second lsblk is run.  Its failures
\* give the same row five times; otherwise its LUKS lines are to be dumped.
SecondListing ==
  /\ pc = "gate"
  /\ tpmPresent' \in BOOLEAN
  /\ \E lsblk, cryptsetup \in PathMatches, result \in Captures :
       LET row == IF lsblk # "trusted" THEN ToolRow(lsblk)
                  ELSE IF cryptsetup # "trusted" THEN ToolRow(cryptsetup)
                  ELSE IF result = "truncated" THEN Skip("OUTPUT_UNPARSEABLE")
                  ELSE Skip("EXEC_FAILED")
       IN IF lsblk = "trusted" /\ cryptsetup = "trusted" /\ result = "complete"
          THEN /\ left' \in 0..MaxVolumes
               /\ pc' = "dump"
               /\ UNCHANGED rows
          ELSE /\ rows' = Add(rows, Fill(DumpRows, row))
               /\ pc' = "done"
               /\ UNCHANGED left
  /\ UNCHANGED <<dumped, read, failed, counts, weakest, signedWeakest>>

\* A path of 128 characters or more does not fit device_path: the line is
\* passed over, and no counter of the loop records it.
PathDoesNotFit ==
  /\ pc = "dump"
  /\ left > 0
  /\ left' = left - 1
  /\ UNCHANGED <<pc, rows, tpmPresent, dumped, read, failed, counts, weakest, signedWeakest>>

\* Mutant of DumpFails: the line is tried again.
DumpFailsRetry ==
  /\ pc = "dump"
  /\ left > 0
  /\ failed' = failed + 1
  /\ UNCHANGED <<pc, rows, tpmPresent, left, dumped, read, counts, weakest, signedWeakest>>

\* luksDump fails: capture returned FALSE or a non-zero status.
DumpFails ==
  /\ pc = "dump"
  /\ left > 0
  /\ left' = left - 1
  /\ failed' = failed + 1
  /\ UNCHANGED <<pc, rows, tpmPresent, dumped, read, counts, weakest, signedWeakest>>

\* bythos_parse_luks_pcr_mask finds PCRs in the hash-policy line.
HasHash(h) == h.token = "tpm2" /\ h.hash # {}

\* bythos_luks_signed_policy_pcr_mask is asked only if that fails.
HasSigned(h) == h.token = "tpm2" /\ h.hash = {} /\ h.signed # {}

\* Mutant of Weaker: the mask with more bits is kept.
Stronger(mask, old) == IF Cardinality(mask) < Cardinality(old) /\ old # AllPcrs
                       THEN old ELSE mask

\* The mask with fewer bits; the earlier one if they have equally many.
Weaker(mask, old) == IF Cardinality(mask) < Cardinality(old) THEN mask ELSE old

\* Mutant of Tally: a header with no readable PCR mask is not counted.
TallyIgnoringUnparsed(h) ==
  [counts EXCEPT
    !.luks1     = @ + (IF h.version = 1 THEN 1 ELSE 0),
    !.luks2     = @ + (IF h.version = 2 THEN 1 ELSE 0),
    !.unknown   = @ + (IF h.version = 0 THEN 1 ELSE 0),
    !.integrity = @ + (IF h.integrity THEN 1 ELSE 0),
    !.noToken   = @ + (IF h.token = "none" THEN 1 ELSE 0),
    !.clevis    = @ + (IF h.token = "clevis" THEN 1 ELSE 0),
    !.tokens    = @ + (IF h.token = "tpm2" THEN 1 ELSE 0),
    !.signed    = @ + (IF HasSigned(h) THEN 1 ELSE 0)]

\* The counters of the loop; tokens > 0 is any_token.
Tally(h) ==
  [counts EXCEPT
    !.luks1     = @ + (IF h.version = 1 THEN 1 ELSE 0),
    !.luks2     = @ + (IF h.version = 2 THEN 1 ELSE 0),
    !.unknown   = @ + (IF h.version = 0 THEN 1 ELSE 0),
    !.integrity = @ + (IF h.integrity THEN 1 ELSE 0),
    !.noToken   = @ + (IF h.token = "none" THEN 1 ELSE 0),
    !.clevis    = @ + (IF h.token = "clevis" THEN 1 ELSE 0),
    !.tokens    = @ + (IF h.token = "tpm2" THEN 1 ELSE 0),
    !.unparsed  = @ + (IF h.token = "tpm2" /\ ~HasHash(h) /\ ~HasSigned(h)
                       THEN 1 ELSE 0),
    !.signed    = @ + (IF HasSigned(h) THEN 1 ELSE 0)]

\* An ascending list of PCRs that was cut off before or within one of them.
CutLists(S) ==
  UNION {{{p \in S : p < m}}
           \cup (IF m > 9 THEN {{p \in S : p < m} \cup {m \div 10}} ELSE {}) : m \in S}

\* What the parsers can make of a dump: all of it, or as much as the buffer of
\* 16 KB (whose truncation is not asked for) or the timeout left of it.  The
\* version comes first, then the segments with their integrity, the tokens,
\* and in a token the PCRs of the hash policy before those of the signed one.
Readings(h) ==
  LET upToSegments == [h EXCEPT !.token = "none", !.hash = {}, !.signed = {}]
      upToVersion  == [upToSegments EXCEPT !.integrity = FALSE]
  IN {h, upToSegments, upToVersion, [upToVersion EXCEPT !.version = 0],
      [h EXCEPT !.hash = {}, !.signed = {}]}
       \cup {[h EXCEPT !.hash = S, !.signed = {}] : S \in CutLists(h.hash)}
       \cup {[h EXCEPT !.signed = S] : S \in CutLists(h.signed)}

\* luksDump of a volume with header full succeeds and its text is parsed as h.
DumpSucceeds(full, h) ==
  /\ pc = "dump"
  /\ left > 0
  /\ left' = left - 1
  /\ dumped' = Append(dumped, full)
  /\ read' = Append(read, h)
  /\ counts' = Tally(h)
  /\ weakest' = IF HasHash(h) THEN Weaker(h.hash, weakest) ELSE weakest
  /\ signedWeakest' = IF HasSigned(h) THEN Weaker(h.signed, signedWeakest)
                      ELSE signedWeakest
  /\ UNCHANGED <<pc, rows, tpmPresent, failed>>

EndOfListing ==
  /\ pc = "dump"
  /\ left = 0
  /\ pc' = "rows"
  /\ UNCHANGED <<rows, tpmPresent, left, dumped, read, failed, counts, weakest, signedWeakest>>
-----------------------------------------------------------------------------
(***************************************************************************)
(* The rows made of the counters, when at least one header was read.       *)
(***************************************************************************)

found == Len(read) + failed

VersionResult ==
  IF failed > 0 THEN Skip("EXEC_FAILED")
  ELSE IF counts.unknown > 0 THEN Skip("OUTPUT_UNPARSEABLE")
  ELSE IF counts.luks1 > 0 THEN Row("WARN")
  ELSE Row("OK")

IntegrityResult ==
  IF failed > 0 THEN Skip("EXEC_FAILED")
  ELSE IF counts.integrity = 0 THEN SkipActionable("NOT_CONFIGURED")
  ELSE IF counts.integrity = Len(read) THEN Row("OK")
  ELSE Row("WARN")

BindingResult ==
  IF counts.tokens = 0 /\ counts.clevis = 0 THEN Row("WARN")
  ELSE IF counts.tokens = 0 THEN Skip("PROBE_INDETERMINATE")
  ELSE IF failed > 0 THEN Row("WARN")
  ELSE IF counts.noToken > 0 \/ counts.clevis > 0 THEN Row("WARN")
  ELSE Row("OK")

\* Mutant of HashPolicyRows: tokens whose PCRs were not readable are forgotten.
HashPolicyRowsReadable ==
  [n \in PcrRows |->
     IF n = SecureBootRow THEN Row(IF 7 \in weakest THEN "OK" ELSE "WARN")
     ELSE Row(IF {4, 9} \subseteq weakest THEN "OK" ELSE "WARN")]

\* The verdict on the weakest hash policy: PCR 7 for Secure Boot, PCRs 4 and 9
\* for the boot chain, and neither if some token's PCRs could not be read.
HashPolicyRows ==
  [n \in PcrRows |->
     IF n = SecureBootRow
     THEN Row(IF 7 \in weakest /\ counts.unparsed = 0 THEN "OK" ELSE "WARN")
     ELSE Row(IF {4, 9} \subseteq weakest /\ counts.unparsed = 0
              THEN "OK" ELSE "WARN")]

\* The verdict when no hash policy was seen but a signed one was.
SignedPolicyRows ==
  [n \in PcrRows |->
     IF n = SecureBootRow THEN Row("OK")
     ELSE Row(IF 11 \in signedWeakest THEN "OK" ELSE "WARN")]

\* Mutant of PcrResults: unreadable volumes are forgotten.
PcrResultsIgnoringFailures ==
  IF counts.tokens = 0 /\ counts.clevis = 0 THEN Fill(PcrRows, Skip("SUBJECT_ABSENT"))
  ELSE IF counts.tokens = 0 THEN Fill(PcrRows, Skip("PROBE_INDETERMINATE"))
  ELSE IF weakest # AllPcrs /\ weakest # {} THEN HashPolicyRows
  ELSE IF counts.signed > 0 THEN SignedPolicyRows
  ELSE Fill(PcrRows, Skip("OUTPUT_UNPARSEABLE"))

PcrResults ==
  IF counts.tokens = 0 /\ counts.clevis = 0 THEN Fill(PcrRows, Skip("SUBJECT_ABSENT"))
  ELSE IF counts.tokens = 0 THEN Fill(PcrRows, Skip("PROBE_INDETERMINATE"))
  ELSE IF failed > 0 THEN Fill(PcrRows, Skip("EXEC_FAILED"))
  ELSE IF weakest # AllPcrs /\ weakest # {} THEN HashPolicyRows
  ELSE IF counts.signed > 0 THEN SignedPolicyRows
  ELSE Fill(PcrRows, Skip("OUTPUT_UNPARSEABLE"))

TpmResults ==
  IF tpmPresent
  THEN Add(Fill({BindingRow}, BindingResult), PcrResults)
  ELSE Fill({BindingRow} \cup PcrRows, Skip("HW_ABSENT"))

DumpResults ==
  IF found = 0 THEN Fill(DumpRows, Skip("SUBJECT_ABSENT"))
  ELSE IF read = <<>> THEN Fill(DumpRows, SkipRoot("EXEC_FAILED"))
  ELSE Add(Fill({VersionRow}, VersionResult),
           Add(Fill({IntegrityRow}, IntegrityResult), TpmResults))

EmitRows ==
  /\ pc = "rows"
  /\ rows' = Add(rows, DumpResults)
  /\ pc' = "done"
  /\ UNCHANGED <<tpmPresent, left, dumped, read, failed, counts, weakest, signedWeakest>>

Returned == pc = "done" /\ UNCHANGED vars

Init ==
  /\ pc = "list"
  /\ rows = <<>>
  /\ tpmPresent = FALSE
  /\ left = 0
  /\ dumped = <<>>
  /\ read = <<>>
  /\ failed = 0
  /\ counts = ZeroCounts
  /\ weakest = AllPcrs
  /\ signedWeakest = AllPcrs

Next ==
  \/ ListDevices \/ SecondListing \/ PathDoesNotFit \/ DumpFails
  \/ \E full \in Headers : \E h \in Readings(full) : DumpSucceeds(full, h)
  \/ EndOfListing \/ EmitRows \/ Returned

Spec == Init /\ [][Next]_vars
-----------------------------------------------------------------------------
(***************************************************************************)
(* Properties.                                                             *)
(***************************************************************************)

\* The headers of the volumes, and what was read of them.
Volumes == {dumped[i] : i \in DOMAIN dumped}
Parsed == {read[i] : i \in DOMAIN read}

AllNames == {DevicesRow} \cup DumpRows

\* The variables keep their types: no loop counter goes negative or exceeds the
\* number of lines visited, and every row is a check_result_t.
TypeOK ==
  /\ pc \in {"list", "gate", "dump", "rows", "done"}
  /\ DOMAIN rows \subseteq AllNames
  /\ \A n \in DOMAIN rows : rows[n] \in AllRows
  /\ tpmPresent \in BOOLEAN
  /\ left \in 0..MaxVolumes
  /\ dumped \in Seq(Headers)
  /\ Len(read) = Len(dumped)
  /\ \A i \in DOMAIN read : read[i] \in Readings(dumped[i])
  /\ failed \in 0..MaxVolumes
  /\ \A c \in DOMAIN counts : counts[c] \in 0..MaxVolumes
  /\ weakest \subseteq AllPcrs
  /\ signedWeakest \subseteq AllPcrs

\* Every header read by the dump loop is counted under exactly one version and
\* exactly one kind of token, and every systemd-tpm2 token gave its PCRs to
\* the hash mask, to the signed mask, or to neither.
EveryHeaderCounted ==
  /\ counts.luks1 + counts.luks2 + counts.unknown = Len(read)
  /\ counts.noToken + counts.clevis + counts.tokens = Len(read)
  /\ counts.unparsed + counts.signed
       + Cardinality({i \in DOMAIN read : HasHash(read[i])}) = counts.tokens

\* The mask the PCR rows are decided by is one that was read of some volume, and
\* of no volume fewer PCRs were read.
WeakestIsFewest ==
  \A kind \in {"hash", "signed"} :
    LET mask == IF kind = "hash" THEN weakest ELSE signedWeakest
        masks == {h[kind] : h \in {v \in Parsed :
                     IF kind = "hash" THEN HasHash(v) ELSE HasSigned(v)}}
    IN /\ mask \in masks \cup {AllPcrs}
       /\ \A m \in masks : Cardinality(mask) <= Cardinality(m)

\* An ok row speaks of every volume, not only of the last or the best: every
\* header could be read, and all of them are LUKS2, all with integrity, all
\* with a systemd-tpm2 token, even if the text of some dump was cut short.
OkHoldsForEveryVolume ==
  pc = "done" =>
    /\ \A n \in DumpRows : rows[n].state = "OK" => failed = 0
    /\ rows[VersionRow].state = "OK" => \A v \in Volumes : v.version = 2
    /\ rows[IntegrityRow].state = "OK" => \A v \in Volumes : v.integrity
    /\ rows[BindingRow].state = "OK" =>
         tpmPresent /\ \A v \in Volumes : v.token = "tpm2"

\* When hash policies decide, an ok PCR row means that every systemd-tpm2 token
\* seen had readable PCRs and that the header of some volume really binds PCR 7,
\* or PCRs 4 and 9: no list cut in the middle of a number makes up a PCR that
\* counts.  That every volume does so is another matter: EveryVolumeBindsPcr7.
HashOkMeansCovered ==
  pc = "done" /\ weakest # AllPcrs =>
    \A n \in PcrRows :
      rows[n].state = "OK" =>
        /\ \A v \in Parsed : v.token = "tpm2" => HasHash(v) \/ HasSigned(v)
        /\ \E v \in Volumes :
             HasHash(v) /\ (IF n = SecureBootRow THEN {7} ELSE {4, 9}) \subseteq v.hash

\* "LUKS Secure Boot binding" is ok only if every systemd-tpm2 token read binds
\* PCR 7, directly or through a signed policy.  The loop keeps the mask with
\* the fewest PCRs instead, so {7} hides a second volume's {0, 2}.
EveryVolumeBindsPcr7 ==
  pc = "done" /\ rows[SecureBootRow].state = "OK" =>
    \A v \in Parsed : HasHash(v) => 7 \in v.hash
=============================================================================
