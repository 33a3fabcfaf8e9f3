--------------------------- MODULE PostureProofs ---------------------------
(***************************************************************************)
(* Proofs about Posture, for every number of places and domains, every     *)
(* content of the signature databases and every size of their buffers.     *)
(***************************************************************************)
EXTENDS Posture, WellFoundedInduction, FiniteSetTheorems, TLAPS

SecureBootPcs == {"secure boot", "probe", "states", "ownership", "owned", "db", "dbx",
                  "dbx size", "db keys", "keys counted", "policies", "sbctl"}
EspPcs == {"esp", "ownership of esp", "filesystem", "vendors", "fallback",
           "hash of shim", "compared", "capsules", "counted"}
PlatformPcs == {"efi", "tpm", "tpm registers", "bios_cntl", "me_version", "dci", "chipsec",
                "iommu", "controller", "domains", "dma", "microcode", "memory encryption"}

LEMMA SecureBootFlow == SecureBootNext => pc \in SecureBootPcs /\ pc' \in SecureBootPcs \cup {"esp"}
<1> USE DEF Section, Silent, SecureBootPcs
<1>1. BeginSecureBoot \/ ProbeOwnership \/ OwnershipRows \/ LookForEfi =>
        pc \in SecureBootPcs /\ pc' \in SecureBootPcs
  BY DEF BeginSecureBoot, ProbeOwnership, OwnershipRows, LookForEfi
<1>2. ReadStates => pc \in SecureBootPcs /\ pc' \in SecureBootPcs
  BY DEF ReadStates
<1>3. CheckDb \/ CheckDbx \/ CheckDbxSize \/ CheckDbKeys \/ EndSigdbs \/ WriteSigdb =>
        pc \in SecureBootPcs /\ pc' \in SecureBootPcs
  BY DEF CheckDb, CheckDbx, CheckDbxSize, CheckDbKeys, EndSigdbs, WriteSigdb
<1>4. PolicyRows => pc \in SecureBootPcs /\ pc' \in SecureBootPcs
  BY DEF PolicyRows
<1>5. CheckSbctl => pc \in SecureBootPcs /\ pc' = "esp"
  BY DEF CheckSbctl
<1> QED BY <1>1, <1>2, <1>3, <1>4, <1>5 DEF SecureBootNext

LEMMA EspFlow == EspNext => pc \in EspPcs /\ pc' \in EspPcs \cup {"tpm"}
<1> USE DEF Section, Silent, EspPcs
<1>1. BeginEsp \/ CheckPermissions \/ CheckFilesystem \/ CheckVendors => pc \in EspPcs /\ pc' \in EspPcs
  BY DEF BeginEsp, CheckPermissions, CheckFilesystem, CheckVendors
<1>2. HashFallback \/ HashShim \/ FindCapsules \/ CountCapsules => pc \in EspPcs /\ pc' \in EspPcs
  BY DEF HashFallback, HashShim, FindCapsules, CountCapsules
<1>3. EndEsp \/ MovePartition \/ ReplaceFile \/ ChangeCapsules => pc \in EspPcs /\ pc' \in EspPcs \cup {"tpm"}
  BY DEF EndEsp, MovePartition, ReplaceFile, ChangeCapsules
<1> QED BY <1>1, <1>2, <1>3 DEF EspNext

LEMMA PlatformFlow ==
  PlatformNext => pc \in PlatformPcs /\ pc' \in PlatformPcs \cup {"secure boot", "done"}
<1> USE DEF Section, Silent, PlatformPcs
<1>1. CheckEfi \/ CheckTpm \/ CheckTpmRegisters \/ CheckBiosCntl \/ CheckMeVersion =>
       pc \in PlatformPcs /\ pc' \in PlatformPcs \cup {"secure boot"}
  BY DEF CheckEfi, CheckTpm, CheckTpmRegisters, CheckBiosCntl, CheckMeVersion
<1>2. CheckDci \/ CheckChipsec \/ CheckIommu \/ FindController => pc \in PlatformPcs /\ pc' \in PlatformPcs
  BY DEF CheckDci, CheckChipsec, CheckIommu, FindController
<1>3. ReadDomain \/ DirectoryFails \/ EmitDma \/ Hotplug \/ EndDma => pc \in PlatformPcs /\ pc' \in PlatformPcs
  BY DEF ReadDomain, DirectoryFails, EmitDma, Hotplug, EndDma
<1>4. CheckMicrocode => pc \in PlatformPcs /\ pc' \in PlatformPcs
  BY DEF CheckMicrocode
<1>5. CheckMemoryEncryption => pc \in PlatformPcs /\ pc' = "done"
  BY DEF CheckMemoryEncryption
<1> QED BY <1>1, <1>2, <1>3, <1>4, <1>5 DEF PlatformNext
-----------------------------------------------------------------------------
(***************************************************************************)
(* Thunderbolt: a domain that stays and is not protected has still to be   *)
(* read, or has been counted.                                              *)
(***************************************************************************)

DmaInv ==
  /\ unprotected \in Nat
  /\ pc = "domains" =>
       /\ stayed \subseteq plugged
       /\ \A d \in stayed : d \in toRead \/ protection[d] # "0" \/ unprotected > 0
  /\ DmaOkMeansProtected

LEMMA DmaInit == Init => DmaInv
BY DEF Init, PlatformInit, DmaInv, DmaOkMeansProtected

LEMMA OkRows == /\ Row("OK").state = "OK" /\ Row("WARN").state = "WARN" /\ Row("FAIL").state = "FAIL"
                /\ \A r : Skip(r).state = "SKIP" /\ SkipRoot(r).state = "SKIP"
                           /\ SkipActionable(r).state = "SKIP"
                /\ \A match : ToolRow(match).state \in {"WARN", "SKIP"}
<1>1. \A r : Skip(r).state = "SKIP" /\ SkipRoot(r).state = "SKIP" /\ SkipActionable(r).state = "SKIP"
  BY DEF Row, Skip, SkipRoot, SkipActionable
<1> QED BY <1>1 DEF Row, ToolRow

LEMMA DmaNext == DmaInv /\ PlatformNext => DmaInv'
<1> SUFFICES ASSUME DmaInv, PlatformNext PROVE DmaInv'
  OBVIOUS
<1> USE DEF DmaInv, DmaOkMeansProtected, Section, Silent
<1>1. CASE pc' \notin {"domains", "dma"} /\ UNCHANGED platformVars
  BY <1>1 DEF platformVars
<1>2. CheckEfi \/ CheckTpm \/ CheckTpmRegisters \/ CheckBiosCntl \/ CheckMeVersion
        => pc' \notin {"domains", "dma"} /\ UNCHANGED platformVars
  BY DEF CheckEfi, CheckTpm, CheckTpmRegisters, CheckBiosCntl, CheckMeVersion
<1>3. CheckDci \/ CheckChipsec \/ CheckIommu \/ CheckMemoryEncryption
        => pc' \notin {"domains", "dma"} /\ UNCHANGED platformVars
  BY DEF CheckDci, CheckChipsec, CheckIommu, CheckMemoryEncryption
<1>4. CheckMicrocode => pc' \notin {"domains", "dma"} /\ UNCHANGED platformVars
  BY DEF CheckMicrocode
<1>5. CASE FindController
  <2>1. CASE pc' = "domains"
    BY <1>5, <2>1 DEF FindController
  <2>2. CASE pc' # "domains"
    <3>1. rows' = Fill({DmaRow}, Skip("HW_ABSENT")) /\ unprotected' = unprotected
      BY <1>5, <2>2 DEF FindController
    <3>2. rows'[DmaRow].state # "OK"
      BY <3>1, OkRows DEF Fill
    <3> QED BY <2>2, <3>1, <3>2
  <2> QED BY <2>1, <2>2
<1>6. CASE ReadDomain
  <2>1. PICK d \in toRead :
          /\ toRead' = toRead \ {d}
          /\ IF d \in plugged /\ protection[d] # "unreadable"
             THEN unprotected' = unprotected + (IF protection[d] # "1" THEN 1 ELSE 0)
             ELSE unprotected' = unprotected
    BY <1>6 DEF ReadDomain
  <2>2. /\ pc = "domains" /\ pc' = "domains"
        /\ UNCHANGED <<plugged, protection, stayed>>
    BY <1>6 DEF ReadDomain
  <2>3. unprotected' \in Nat /\ unprotected' >= unprotected
    BY <2>1
  <2>4. d \in plugged /\ protection[d] = "0" => unprotected' > 0
    BY <2>1
  <2> QED BY <2>1, <2>2, <2>3, <2>4
<1>7. CASE DirectoryFails
  BY <1>7 DEF DirectoryFails
<1>8. CASE EmitDma
  <2>1. /\ pc = "domains" /\ pc' = "dma" /\ toRead = {} /\ UNCHANGED platformVars
        /\ rows' = Fill({DmaRow}, IF readable = 0 THEN Skip("FEATURE_ABSENT")
                                  ELSE Verdict(unprotected = 0))
    BY <1>8 DEF EmitDma
  <2>2. rows'[DmaRow].state = "OK" => unprotected = 0
    BY <2>1, OkRows DEF Fill, Verdict
  <2> QED BY <2>1, <2>2 DEF platformVars
<1>9. CASE Hotplug
  BY <1>9 DEF Hotplug
<1>10. CASE EndDma
  BY <1>10 DEF EndDma
<1> QED BY <1>1, <1>2, <1>3, <1>4, <1>5, <1>6, <1>7, <1>8, <1>9, <1>10 DEF PlatformNext

LEMMA DmaStep == DmaInv /\ [Next]_vars => DmaInv'
<1> SUFFICES ASSUME DmaInv, [Next]_vars PROVE DmaInv'
  OBVIOUS
<1>1. CASE PlatformNext
  BY <1>1, DmaNext
<1>2. CASE (SecureBootNext \/ EspNext) /\ UNCHANGED platformVars
  <2>1. pc' \notin {"domains", "dma"}
    BY <1>2, SecureBootFlow, EspFlow DEF SecureBootPcs, EspPcs
  <2> QED BY <1>2, <2>1 DEF DmaInv, DmaOkMeansProtected, platformVars
<1>3. CASE UNCHANGED vars
  BY <1>3 DEF vars, platformVars, DmaInv, DmaOkMeansProtected
<1> QED BY <1>1, <1>2, <1>3 DEF Next, Returned

\* "pre-boot DMA active" is the row of bythos_check_bolt_dma only if no domain
\* that was there all the time shows its protection as off, for any number of
\* domains and however they come and go during the two passes.
THEOREM DmaOkEarned == Spec => []DmaOkMeansProtected
<1>1. DmaInv => DmaOkMeansProtected
  BY DEF DmaInv
<1> QED BY <1>1, DmaInit, DmaStep, PTL DEF Spec

\* What the row says of the domains is not said of an empty set: a warning was
\* seen at some domain that was plugged in, and so was the protection of one
\* when the row is ok.
DmaVerdictSeen ==
  pc = "dma" =>
    /\ rows[DmaRow].state = "WARN" => \E d \in known : protection[d] = "0"
    /\ rows[DmaRow].state = "OK" => \E d \in known : protection[d] = "1"

\* The counters of read_tb_dma_state count domains that were there.
SeenInv ==
  /\ readable \in Nat /\ unprotected \in Nat /\ unprotected <= readable
  /\ pc \notin {"domains", "dma"} => readable = 0 /\ unprotected = 0
  /\ pc = "domains" =>
       /\ plugged \subseteq known
       /\ known \subseteq Domains
       /\ \A d \in Domains : protection[d] \in {"1", "0", "unreadable"}
       /\ unprotected > 0 => \E d \in known : protection[d] = "0"
       /\ unprotected < readable => \E d \in known : protection[d] = "1"
  /\ DmaVerdictSeen

LEMMA SeenNext == SeenInv /\ PlatformNext => SeenInv'
<1> SUFFICES ASSUME SeenInv, PlatformNext PROVE SeenInv'
  OBVIOUS
<1> USE DEF SeenInv, DmaVerdictSeen, Section, Silent
<1>1. CASE pc \notin {"domains", "dma"} /\ pc' \notin {"domains", "dma"} /\ UNCHANGED platformVars
  BY <1>1 DEF platformVars
<1>2. CheckEfi \/ CheckTpm \/ CheckTpmRegisters \/ CheckBiosCntl \/ CheckMeVersion
        => /\ pc \notin {"domains", "dma"} /\ pc' \notin {"domains", "dma"}
           /\ UNCHANGED platformVars
  BY DEF CheckEfi, CheckTpm, CheckTpmRegisters, CheckBiosCntl, CheckMeVersion
<1>3. CheckDci \/ CheckChipsec \/ CheckIommu \/ CheckMemoryEncryption
        => /\ pc \notin {"domains", "dma"} /\ pc' \notin {"domains", "dma"}
           /\ UNCHANGED platformVars
  BY DEF CheckDci, CheckChipsec, CheckIommu, CheckMemoryEncryption
<1>4. CheckMicrocode => /\ pc \notin {"domains", "dma"} /\ pc' \notin {"domains", "dma"}
                        /\ UNCHANGED platformVars
  BY DEF CheckMicrocode
<1>5. CASE FindController
  <2>1. /\ readable = 0 /\ unprotected = 0 /\ UNCHANGED <<readable, unprotected>>
        /\ plugged' \subseteq Domains /\ known' = plugged'
        /\ protection' \in [Domains -> {"1", "0", "unreadable"}]
    BY <1>5 DEF FindController
  <2>2. CASE pc' = "domains"
    BY <2>1, <2>2
  <2>3. CASE pc' # "domains"
    <3>1. rows' = Fill({DmaRow}, Skip("HW_ABSENT")) /\ pc' = "dma"
      BY <1>5, <2>3 DEF FindController
    <3>2. rows'[DmaRow].state = "SKIP"
      BY <3>1, OkRows DEF Fill
    <3> QED BY <2>1, <3>1, <3>2
  <2> QED BY <2>2, <2>3
<1>6. CASE ReadDomain
  <2>1. PICK d \in toRead :
          IF d \in plugged /\ protection[d] # "unreadable"
          THEN /\ readable' = readable + 1
               /\ unprotected' = unprotected + (IF protection[d] # "1" THEN 1 ELSE 0)
          ELSE UNCHANGED <<readable, unprotected>>
    BY <1>6 DEF ReadDomain
  <2>2. /\ pc = "domains" /\ pc' = "domains"
        /\ UNCHANGED <<plugged, protection, known>>
    BY <1>6 DEF ReadDomain
  <2>3. CASE UNCHANGED <<readable, unprotected>>
    BY <2>2, <2>3
  <2>4. CASE d \in plugged /\ protection[d] = "1"
    <3>1. readable' = readable + 1 /\ unprotected' = unprotected
      BY <2>1, <2>4
    <3>2. d \in known
      BY <2>2, <2>4
    <3> QED BY <2>2, <2>4, <3>1, <3>2
  <2>5. CASE d \in plugged /\ protection[d] = "0"
    <3>1. readable' = readable + 1 /\ unprotected' = unprotected + 1
      BY <2>1, <2>5
    <3>2. d \in known
      BY <2>2, <2>5
    <3> QED BY <2>2, <2>5, <3>1, <3>2
  <2>6. d \in plugged => protection[d] \in {"1", "0", "unreadable"}
    BY <2>2
  <2> QED BY <2>1, <2>3, <2>4, <2>5, <2>6
<1>7. CASE DirectoryFails
  BY <1>7 DEF DirectoryFails
<1>8. CASE EmitDma
  <2>1. /\ pc = "domains" /\ pc' = "dma" /\ UNCHANGED platformVars
        /\ rows' = Fill({DmaRow}, IF readable = 0 THEN Skip("FEATURE_ABSENT")
                                  ELSE Verdict(unprotected = 0))
    BY <1>8 DEF EmitDma
  <2>2. /\ rows'[DmaRow].state = "OK" => readable # 0 /\ unprotected = 0
        /\ rows'[DmaRow].state = "WARN" => unprotected # 0
    BY <2>1, OkRows DEF Fill, Verdict
  <2> QED BY <2>1, <2>2 DEF platformVars
<1>9. CASE Hotplug
  <2>1. /\ pc = "domains" /\ pc' = "domains" /\ UNCHANGED <<protection, readable, unprotected>>
        /\ known' = known \cup plugged' /\ plugged' \subseteq plugged \cup Domains
    BY <1>9 DEF Hotplug
  <2> QED BY <2>1
<1>10. CASE EndDma
  BY <1>10 DEF EndDma
<1> QED BY <1>1, <1>2, <1>3, <1>4, <1>5, <1>6, <1>7, <1>8, <1>9, <1>10 DEF PlatformNext

\* Neither verdict of bythos_check_bolt_dma is vacuous, however domains come
\* and go between tb_controller_present and read_tb_dma_state: "pre-boot DMA
\* active" needs a domain that was read as protected, the warning one that was
\* read as not.
THEOREM DmaVerdictsEarned == Spec => []DmaVerdictSeen
<1>1. Init => SeenInv
  BY DEF Init, PlatformInit, SeenInv, DmaVerdictSeen
<1>2. SeenInv /\ [Next]_vars => SeenInv'
  <2> SUFFICES ASSUME SeenInv, [Next]_vars PROVE SeenInv'
    OBVIOUS
  <2>1. CASE PlatformNext
    BY <2>1, SeenNext
  <2>2. CASE (SecureBootNext \/ EspNext) /\ UNCHANGED platformVars
    <3>1. pc \notin {"domains", "dma"} /\ pc' \notin {"domains", "dma"}
      BY <2>2, SecureBootFlow, EspFlow DEF SecureBootPcs, EspPcs
    <3> QED BY <2>2, <3>1 DEF SeenInv, DmaVerdictSeen, platformVars
  <2>3. CASE UNCHANGED vars
    BY <2>3 DEF vars, platformVars, SeenInv, DmaVerdictSeen
  <2> QED BY <2>1, <2>2, <2>3 DEF Next, Returned
<1>3. SeenInv => DmaVerdictSeen
  BY DEF SeenInv
<1> QED BY <1>1, <1>2, <1>3, PTL DEF Spec
-----------------------------------------------------------------------------
(***************************************************************************)
(* The EFI system partition.                                               *)
(***************************************************************************)

\* Every nonempty set of naturals has a least member.
LEMMA Least ==
  ASSUME NEW S \in SUBSET Nat, S # {}
  PROVE  \E i \in S : \A j \in S : i <= j
<1> DEFINE R == OpToRel(<, Nat)
<1>1. IsWellFoundedOn(R, Nat)
  BY NatLessThanWellFounded
<1>2. \A x, y \in Nat : x < y => <<x, y>> \in R
  BY DEF OpToRel
<1> HIDE DEF R
<1>3. PICK x \in S : \A y \in S : ~ (<<y, x>> \in R)
  BY <1>1, WFMin
<1>4. ASSUME NEW y \in S PROVE x <= y
  <2>1. ~(y < x)
    BY <1>2, <1>3
  <2> QED BY <2>1
<1> QED BY <1>3, <1>4

\* The first place there is: it exists, and no other comes before it.
LEMMA FirstIsLeast ==
  ASSUME NEW S \in SUBSET Places, NEW default, S # {}
  PROVE  FirstOf(S, default) \in S /\ \A j \in S : FirstOf(S, default) <= j
<1>1. S \in SUBSET Nat
  BY EspAssumption DEF Places
<1>2. \E i \in S : \A j \in S : i <= j
  BY <1>1, Least
<1> QED BY <1>2 DEF FirstOf

\* The first of a set of places, and the first of a larger one.
LEMMA FirstOfMore ==
  ASSUME NEW P \in SUBSET Places, NEW M \in SUBSET P
  PROVE  /\ FirstOf(P, 1) \in Places
         /\ FirstOf(P, 0) \in {0, FirstOf(P, 1)}
         /\ FirstOf(M, 0) \in {0} \cup M /\ FirstOf(M, 0) \in Nat
         /\ FirstOf(M, 0) # 0 =>
              /\ FirstOf(M, 0) >= FirstOf(P, 1)
              /\ FirstOf(P, 1) \in M => FirstOf(M, 0) = FirstOf(P, 1)
<1>1. 1 \in Places /\ Places \subseteq Nat
  BY EspAssumption DEF Places
<1>2. CASE P = {}
  BY <1>1, <1>2 DEF FirstOf
<1>3. CASE P # {} /\ M = {}
  <2>1. FirstOf(P, 1) = FirstOf(P, 0)
    BY <1>3 DEF FirstOf
  <2>2. FirstOf(P, 1) \in P
    BY <1>3, FirstIsLeast
  <2> QED BY <1>1, <1>3, <2>1, <2>2 DEF FirstOf
<1>4. CASE P # {} /\ M # {}
  <2>1. FirstOf(P, 1) = FirstOf(P, 0)
    BY <1>4 DEF FirstOf
  <2>2. FirstOf(P, 1) \in P /\ \A j \in P : FirstOf(P, 1) <= j
    BY <1>4, FirstIsLeast
  <2>3. FirstOf(M, 0) \in M /\ \A j \in M : FirstOf(M, 0) <= j
    BY <1>4, FirstIsLeast
  <2> DEFINE p == FirstOf(P, 1)
             m == FirstOf(M, 0)
  <2>4. /\ p \in Nat /\ m \in Nat /\ p <= m
        /\ p \in M => m <= p
    BY <1>1, <2>2, <2>3
  <2> HIDE DEF p, m
  <2>5. m >= p /\ (p \in M => m = p)
    BY <2>4
  <2> QED BY <1>1, <2>1, <2>2, <2>3, <2>5 DEF p, m
<1> QED BY <1>2, <1>3, <1>4

AfterFilesystem == {"vendors", "fallback", "hash of shim", "compared", "capsules", "counted"}

\* As long as nothing moves, the three searches have found the first place there
\* is: the one for the base may still have to be made.
PlaceInv ==
  /\ present \in SUBSET Places
  /\ base \in {0} \cup Places
  /\ moved \in BOOLEAN
  /\ spoke \in [ownership : Nat, filesystem : Nat]
  /\ pc \notin AfterFilesystem => spoke.filesystem = 0
  /\ ~moved =>
       /\ pc \in EspPcs \ {"esp"} => base \in {0, FirstOf(present, 1)}
       /\ pc \in {"filesystem"} \cup AfterFilesystem => spoke.ownership = FirstOf(present, 0)
       /\ pc \in AfterFilesystem =>
            spoke.filesystem \in {0, FirstOf({i \in present : mounted[i] # "none"}, 0)}
       /\ pc \in AfterFilesystem \ {"vendors"} => base = FirstOf(present, 1)
       /\ pc = "capsules" => base \in present

LEMMA PlaceInit == Init => PlaceInv
<1> SUFFICES ASSUME Init PROVE PlaceInv
  OBVIOUS
<1>1. /\ pc = "efi" /\ present = {} /\ base = 0 /\ moved = FALSE
      /\ spoke = [ownership |-> 0, filesystem |-> 0]
  BY DEF Init, EspInit
<1>2. spoke \in [ownership : Nat, filesystem : Nat] /\ spoke.filesystem = 0
  BY <1>1
<1> QED BY <1>1, <1>2 DEF PlaceInv, EspPcs, AfterFilesystem

\* bythos_esp_efi_base gives the first place, if the one cached was it.
LEMMA BaseIsFirst ==
  ASSUME PlaceInv
  PROVE  /\ EspEfiBase \in Places
         /\ ~moved /\ pc \in EspPcs \ {"esp"} => EspEfiBase = FirstOf(present, 1)
<1>1. FirstOf(present, 1) \in Places /\ 0 \notin Places
  <2>1. present \in SUBSET Places /\ {} \in SUBSET present
    BY DEF PlaceInv
  <2> QED BY <2>1, FirstOfMore, EspAssumption DEF Places
<1> QED BY <1>1 DEF PlaceInv, EspEfiBase

LEMMA PlaceNext == PlaceInv /\ EspNext => PlaceInv'
<1> SUFFICES ASSUME PlaceInv, EspNext PROVE PlaceInv'
  OBVIOUS
<1> USE DEF PlaceInv, Section, Silent, EspPcs, AfterFilesystem
<1>1. CASE BeginEsp
  <2>1. /\ pc = "esp" /\ pc' = "ownership of esp"
        /\ present' \in SUBSET Places /\ base' \in {0} \cup Places
        /\ moved' = (base' \notin {0, FirstOf(present', 1)}) /\ spoke' = spoke
    BY <1>1 DEF BeginEsp
  <2>2. moved' \in BOOLEAN /\ (~moved' => base' \in {0, FirstOf(present', 1)})
    BY <2>1
  <2> QED BY <2>1, <2>2
<1>2. CASE CheckPermissions
  <2>1. /\ pc = "ownership of esp" /\ pc' = "filesystem"
        /\ spoke' = [spoke EXCEPT !.ownership = FirstOf(present, 0)]
        /\ UNCHANGED <<present, mounted, moved, base>>
    BY <1>2 DEF CheckPermissions
  <2>2. FirstOf(present, 0) \in Nat
    <3>1. present \in SUBSET Places /\ present \in SUBSET present
      OBVIOUS
    <3> QED BY <3>1, FirstOfMore
  <2>3. /\ spoke' \in [ownership : Nat, filesystem : Nat]
        /\ spoke'.ownership = FirstOf(present, 0) /\ spoke'.filesystem = 0
    BY <2>1, <2>2
  <2> QED BY <2>1, <2>3
<1>3. CASE CheckFilesystem
  <2> DEFINE M == {i \in present : mounted[i] # "none"}
  <2>1. /\ pc = "filesystem" /\ pc' = "vendors"
        /\ spoke' = spoke \/ spoke' = [spoke EXCEPT !.filesystem = FirstOf(M, 0)]
        /\ UNCHANGED <<present, mounted, moved, base>>
    BY <1>3 DEF CheckFilesystem
  <2>2. FirstOf(M, 0) \in Nat
    <3>1. present \in SUBSET Places /\ M \in SUBSET present
      OBVIOUS
    <3> HIDE DEF M
    <3> QED BY <3>1, FirstOfMore
  <2> HIDE DEF M
  <2>3. /\ spoke' \in [ownership : Nat, filesystem : Nat]
        /\ spoke'.ownership = spoke.ownership /\ spoke'.filesystem \in {0, FirstOf(M, 0)}
    BY <2>1, <2>2
  <2> QED BY <2>1, <2>3 DEF M
<1>4. CASE CheckVendors \/ HashFallback \/ FindCapsules
  <2>1. /\ base' = EspEfiBase /\ UNCHANGED placeVars
        /\ pc \in {"vendors", "fallback", "compared"}
        /\ pc' \in AfterFilesystem \ {"vendors"}
        /\ pc' = "capsules" => base' \in present
    BY <1>4 DEF CheckVendors, HashFallback, FindCapsules
  <2> HIDE DEF PlaceInv
  <2>2. EspEfiBase \in Places /\ (~moved => EspEfiBase = FirstOf(present, 1))
    BY <2>1, BaseIsFirst
  <2> QED BY <2>1, <2>2 DEF PlaceInv, placeVars
<1>5. CASE HashShim \/ CountCapsules
  <2>1. /\ UNCHANGED <<placeVars, base>>
        /\ pc \in {"hash of shim", "capsules"} /\ pc' \in {"compared", "counted"}
    BY <1>5 DEF HashShim, CountCapsules
  <2> QED BY <2>1 DEF placeVars
<1>6. CASE EndEsp
  BY <1>6 DEF EndEsp
<1>7. CASE MovePartition
  BY <1>7 DEF MovePartition
<1>8. CASE ReplaceFile \/ ChangeCapsules
  <2>1. UNCHANGED <<pc, placeVars, base>>
    BY <1>8 DEF ReplaceFile, ChangeCapsules
  <2> QED BY <2>1 DEF placeVars
<1> QED BY <1>1, <1>2, <1>3, <1>4, <1>5, <1>6, <1>7, <1>8 DEF EspNext

LEMMA PlaceStep == PlaceInv /\ [Next]_vars => PlaceInv'
<1> SUFFICES ASSUME PlaceInv, [Next]_vars PROVE PlaceInv'
  OBVIOUS
<1>1. CASE EspNext
  BY <1>1, PlaceNext
<1>2. CASE (SecureBootNext \/ PlatformNext) /\ UNCHANGED espVars
  <2>1. pc \notin EspPcs /\ pc' \notin EspPcs \ {"esp"}
    BY <1>2, SecureBootFlow, PlatformFlow DEF SecureBootPcs, PlatformPcs, EspPcs
  <2> QED BY <1>2, <2>1 DEF PlaceInv, espVars, EspPcs, AfterFilesystem
<1>3. CASE UNCHANGED vars
  BY <1>3 DEF vars, espVars, PlaceInv
<1> QED BY <1>1, <1>2, <1>3 DEF Next, Returned

\* As long as no partition is mounted or unmounted during the audit, the rows on
\* ownership and filesystem speak of the place bythos_esp_efi_base has cached,
\* for any number of candidates.
THEOREM EspSearchesAgree == Spec => []EspRowsAgree
<1>1. PlaceInv => EspRowsAgree
  <2> SUFFICES ASSUME PlaceInv, pc = "counted", ~moved
               PROVE  /\ spoke.ownership \in {0, base}
                      /\ spoke.filesystem # 0 =>
                           /\ spoke.filesystem >= base
                           /\ mounted[base] # "none" => spoke.filesystem = base
    BY DEF EspRowsAgree
  <2> DEFINE M == {i \in present : mounted[i] # "none"}
  <2>1. /\ present \in SUBSET Places /\ M \in SUBSET present
        /\ base = FirstOf(present, 1) /\ spoke.ownership = FirstOf(present, 0)
        /\ spoke.filesystem \in {0, FirstOf(M, 0)}
    BY DEF PlaceInv, EspPcs, AfterFilesystem
  <2>2. mounted[base] # "none" /\ M # {} => base \in M
    <3> SUFFICES ASSUME M # {} PROVE base \in present
      OBVIOUS
    <3>1. present # {}
      OBVIOUS
    <3> QED BY <2>1, <3>1, FirstIsLeast
  <2>3. M = {} => FirstOf(M, 0) = 0
    BY DEF FirstOf
  <2> HIDE DEF M
  <2>4. /\ FirstOf(present, 0) \in {0, FirstOf(present, 1)}
        /\ FirstOf(M, 0) # 0 =>
              /\ FirstOf(M, 0) >= FirstOf(present, 1)
              /\ FirstOf(present, 1) \in M => FirstOf(M, 0) = FirstOf(present, 1)
    BY <2>1, FirstOfMore
  <2> QED BY <2>1, <2>2, <2>3, <2>4
<1> QED BY <1>1, PlaceInit, PlaceStep, PTL DEF Spec
-----------------------------------------------------------------------------
(***************************************************************************)
(* The fallback loader and the capsules.  A file is replaced only by the   *)
(* newer version, so a hash taken earlier is no newer than the file: if it *)
(* equals the shim's, the two were equal when it was taken or are now.     *)
(***************************************************************************)

FileInv ==
  /\ files \in [fallback : 0..1, shim : 0..1]
  /\ capsules \in BOOLEAN /\ misread \in BOOLEAN /\ wasTrue \in BOOLEAN
  /\ pc \in {"fallback", "hash of shim"} => (files.fallback = files.shim => wasTrue)
  /\ pc = "hash of shim" =>
       /\ hash \in {NoHash, 0, 1}
       /\ hash = 1 => files.fallback = 1
       /\ hash = files.shim => wasTrue
  /\ pc = "capsules" => (~capsules => wasTrue)
  /\ EspOkWasTrue

LEMMA FileInit == Init => FileInv
<1> SUFFICES ASSUME Init PROVE FileInv
  OBVIOUS
<1>1. /\ pc = "efi" /\ files = [fallback |-> 0, shim |-> 0] /\ capsules = FALSE
      /\ misread = FALSE /\ wasTrue = FALSE
  BY DEF Init, EspInit
<1>2. files \in [fallback : 0..1, shim : 0..1]
  BY <1>1
<1> QED BY <1>1, <1>2 DEF FileInv, EspOkWasTrue

LEMMA FileTypes ==
  /\ NoHash # 1
  /\ [fallback |-> 0, shim |-> 0] \in [fallback : 0..1, shim : 0..1]
  /\ \A fs \in [fallback : 0..1, shim : 0..1] :
       /\ fs.fallback \in {0, 1} /\ fs.shim \in {0, 1} /\ fs.shim # NoHash
       /\ \A f \in {"fallback", "shim"} :
            LET new == [fs EXCEPT ![f] = 1]
            IN /\ new \in [fallback : 0..1, shim : 0..1]
               /\ fs.fallback = 1 => new.fallback = 1
               /\ new.shim # fs.shim => new.shim = 1
BY DEF NoHash

LEMMA FileNext == PlaceInv /\ FileInv /\ EspNext => FileInv'
<1> SUFFICES ASSUME PlaceInv, FileInv, EspNext PROVE FileInv'
  OBVIOUS
<1> USE DEF FileInv, EspOkWasTrue, Section, Silent, fileVars
<1>1. CASE BeginEsp \/ CheckPermissions \/ CheckFilesystem
  <2>1. UNCHANGED fileVars /\ pc' \in {"ownership of esp", "filesystem", "vendors"}
    BY <1>1 DEF BeginEsp, CheckPermissions, CheckFilesystem
  <2> QED BY <2>1
<1>2. CASE CheckVendors
  <2>1. /\ pc' = "fallback" /\ files' \in [fallback : 0..1, shim : 0..1]
        /\ wasTrue' = (files'.fallback = files'.shim) /\ UNCHANGED <<capsules, misread>>
    BY <1>2 DEF CheckVendors
  <2> QED BY <2>1
<1>3. CASE HashFallback
  <2>1. pc = "fallback" /\ UNCHANGED <<files, capsules, misread, wasTrue>>
    BY <1>3 DEF HashFallback
  <2>2. CASE pc' = "compared"
    <3>1. rows'[FallbackRow].state = "OK" => files.fallback = files.shim
      <4>1. \/ \E row \in {Skip("SUBJECT_ABSENT"), Skip("EXEC_FAILED"),
                           ToolRow("none"), ToolRow("untrusted")} : rows' = Fill({FallbackRow}, row)
            \/ files.fallback = files.shim
        BY <1>3, <2>2 DEF HashFallback
      <4> QED BY <4>1, OkRows DEF Fill
    <3> QED BY <2>1, <2>2, <3>1
  <2>3. CASE pc' = "hash of shim"
    <3>1. hash' \in {files.fallback, NoHash}
      BY <1>3, <2>3 DEF HashFallback
    <3>2. files.shim # NoHash /\ files.fallback \in {0, 1}
      BY FileTypes
    <3>3. hash' \in {NoHash, 0, 1} /\ (hash' = 1 => files.fallback = 1)
      <4>1. NoHash # 1
        BY FileTypes
      <4> HIDE DEF FileInv
      <4> QED BY <3>1, <3>2, <4>1
    <3>4. hash' = files.shim => files.fallback = files.shim
      BY <3>1, <3>2
    <3> QED BY <2>1, <2>3, <3>3, <3>4
  <2> QED BY <1>3, <2>2, <2>3 DEF HashFallback
<1>4. CASE HashShim
  <2>1. pc = "hash of shim" /\ pc' = "compared" /\ UNCHANGED <<files, hash, capsules, misread, wasTrue>>
    BY <1>4 DEF HashShim
  <2>2. rows'[FallbackRow].state = "OK" => hash = files.shim
    <3>1. \/ \E other \in {files.shim, NoHash} : rows' = Fill({FallbackRow}, ComparedRow(hash, other))
          \/ rows' = Fill({FallbackRow}, Skip("EXEC_FAILED"))
      BY <1>4 DEF HashShim
    <3> QED BY <3>1, OkRows DEF Fill, ComparedRow
  <2> QED BY <2>1, <2>2
<1>5. CASE FindCapsules
  <2>1. /\ capsules' \in BOOLEAN /\ wasTrue' = ~capsules' /\ misread' = FALSE /\ files' = files
        /\ \/ pc' = "capsules"
           \/ pc' = "counted" /\ rows' = Fill({CapsuleRow}, Skip("FEATURE_ABSENT"))
    BY <1>5 DEF FindCapsules
  <2>2. pc' = "counted" => rows'[CapsuleRow].state # "OK"
    BY <2>1, OkRows DEF Fill
  <2> QED BY <2>1, <2>2
<1>6. CASE CountCapsules
  <2>1. /\ pc = "capsules" /\ pc' = "counted"
        /\ UNCHANGED <<files, hash, capsules, wasTrue, moved>> /\ misread' \in BOOLEAN
    BY <1>6 DEF CountCapsules, placeVars
  <2>2. rows'[CapsuleRow].state = "OK" /\ ~moved /\ ~misread' => ~capsules
    <3>1. ~moved => base \in present
      BY <2>1 DEF PlaceInv
    <3>2. CASE \E errno \in {"ENOENT", "EACCES", "EIO"} :
                 /\ errno = "ENOENT" => ~capsules \/ base \notin present
                 /\ rows' = Fill({CapsuleRow}, OpenErrorRow(errno))
      BY <3>1, <3>2, OkRows DEF Fill, OpenErrorRow
    <3>3. CASE \E some \in BOOLEAN :
                 /\ some => capsules
                 /\ ~misread' => some = capsules
                 /\ rows' = Fill({CapsuleRow}, Row(IF some THEN "WARN" ELSE "OK"))
      <4>1. PICK some \in BOOLEAN :
                 /\ some => capsules
                 /\ ~misread' => some = capsules
                 /\ rows' = Fill({CapsuleRow}, Row(IF some THEN "WARN" ELSE "OK"))
        BY <3>3
      <4>2. CASE some
        <5>1. rows'[CapsuleRow].state = "WARN"
          BY <4>1, <4>2, OkRows DEF Fill
        <5> QED BY <5>1
      <4>3. CASE ~some
        BY <4>1, <4>3
      <4> QED BY <4>2, <4>3
    <3> QED BY <1>6, <3>2, <3>3 DEF CountCapsules
  <2> QED BY <2>1, <2>2
<1>7. CASE EndEsp
  <2>1. /\ pc' = "tpm" /\ files' = [fallback |-> 0, shim |-> 0]
        /\ capsules' = FALSE /\ misread' = FALSE /\ wasTrue' = FALSE
    BY <1>7 DEF EndEsp
  <2>2. files' \in [fallback : 0..1, shim : 0..1]
    BY <2>1, FileTypes
  <2> QED BY <2>1, <2>2
<1>8. CASE MovePartition
  <2>1. UNCHANGED <<pc, rows, fileVars>> /\ moved' = TRUE
    BY <1>8 DEF MovePartition
  <2> QED BY <2>1
<1>9. CASE ReplaceFile
  <2>1. /\ pc \in {"fallback", "hash of shim"}
        /\ wasTrue' = (wasTrue \/ files'.fallback = files'.shim)
        /\ UNCHANGED <<pc, hash, capsules, misread>>
    BY <1>9 DEF ReplaceFile
  <2>2. PICK f \in {"fallback", "shim"} : files[f] = 0 /\ files' = [files EXCEPT ![f] = 1]
    BY <1>9 DEF ReplaceFile
  <2>3. /\ files' \in [fallback : 0..1, shim : 0..1]
        /\ files.fallback = 1 => files'.fallback = 1
        /\ files'.shim # files.shim => files'.shim = 1
    BY <2>2, FileTypes
  <2>4. wasTrue' \in BOOLEAN /\ (wasTrue => wasTrue') /\ (files'.fallback = files'.shim => wasTrue')
    BY <2>1
  <2>5. pc = "hash of shim" => (hash = files'.shim => wasTrue')
    BY <2>3, <2>4
  <2> QED BY <2>1, <2>3, <2>4, <2>5
<1>10. CASE ChangeCapsules
  BY <1>10 DEF ChangeCapsules
<1> QED BY <1>1, <1>2, <1>3, <1>4, <1>5, <1>6, <1>7, <1>8, <1>9, <1>10 DEF EspNext

LEMMA FileStep == PlaceInv /\ FileInv /\ [Next]_vars => FileInv'
<1> SUFFICES ASSUME PlaceInv, FileInv, [Next]_vars PROVE FileInv'
  OBVIOUS
<1>1. CASE EspNext
  BY <1>1, FileNext
<1>2. CASE (SecureBootNext \/ PlatformNext) /\ UNCHANGED espVars
  <2>1. pc \notin EspPcs /\ pc' \notin EspPcs \ {"esp"}
    BY <1>2, SecureBootFlow, PlatformFlow DEF SecureBootPcs, PlatformPcs, EspPcs
  <2> QED BY <1>2, <2>1 DEF FileInv, EspOkWasTrue, espVars, EspPcs
<1>3. CASE UNCHANGED vars
  BY <1>3 DEF vars, espVars, FileInv, EspOkWasTrue
<1> QED BY <1>1, <1>2, <1>3 DEF Next, Returned

\* The fallback row of check_bootx64 is ok only if fallback loader and shim were
\* equal at some moment of the check, whenever an upgrade replaces either; the
\* capsule row is ok only if there was a moment without a pending capsule,
\* unless the partition moved or readdir failed.
THEOREM EspOkEarned == Spec => []EspOkWasTrue
<1>1. FileInv => EspOkWasTrue
  BY DEF FileInv
<1> QED BY <1>1, PlaceInit, PlaceStep, FileInit, FileStep, PTL DEF Spec
-----------------------------------------------------------------------------
(***************************************************************************)
(* Signature databases: what was said of the first reading is what would   *)
(* be said now, unless the variable was written in between.                *)
(***************************************************************************)

SigdbInv ==
  /\ db.state \in {"missing", "unreadable", "present"}
  /\ dbx.state \in {"missing", "unreadable", "present"}
  /\ DOMAIN first = {"db", "dbx"}
  /\ pc \in {"dbx", "dbx size", "db keys"} /\ "db" \notin changed => first.db = SigdbRow(db)
  /\ pc = "dbx size" /\ "dbx" \notin changed => first.dbx = SigdbRow(dbx)
  /\ SameVariableSameVerdict

LEMMA SigdbInit == Init => SigdbInv
BY DEF Init, SecureBootInit, NoVariable, NoRows, SigdbInv, SameVariableSameVerdict

LEMMA SigdbNext == SigdbInv /\ SecureBootNext => SigdbInv'
<1> SUFFICES ASSUME SigdbInv, SecureBootNext PROVE SigdbInv'
  OBVIOUS
<1> USE DEF Section, Silent, SigdbInv, SameVariableSameVerdict
<1> DEFINE judged == {"dbx", "dbx size", "db keys", "keys counted"}
<1>1. CASE BeginSecureBoot \/ ProbeOwnership \/ OwnershipRows \/ CheckSbctl
  <2>1. UNCHANGED <<db, dbx, first>> /\ pc' \notin judged
    BY <1>1 DEF BeginSecureBoot, ProbeOwnership, OwnershipRows, CheckSbctl, secureBootVars
  <2> QED BY <2>1
<1>2. CASE ReadStates
  <2>1. UNCHANGED <<db, dbx, first>> /\ pc' \notin judged
    BY <1>2 DEF ReadStates
  <2> QED BY <2>1
<1>3. CASE PolicyRows
  <2>1. UNCHANGED <<db, dbx, first>> /\ pc' \notin judged
    BY <1>3 DEF PolicyRows
  <2> QED BY <2>1
<1>4. CASE LookForEfi
  <2>1. db' \in Sigdbs /\ dbx' \in Sigdbs /\ pc' = "db" /\ first' = first
    BY <1>4 DEF LookForEfi
  <2>2. \A v \in Sigdbs : v.state \in {"missing", "unreadable", "present"}
    BY SecureBootAssumption DEF Sigdb
  <2> QED BY <2>1, <2>2
<1>5. CASE CheckDb
  <2>1. /\ pc' = "dbx" /\ UNCHANGED <<db, dbx, efiVisible>>
        /\ first' = [first EXCEPT !.db = SigdbRow(db)]
    BY <1>5 DEF CheckDb
  <2>2. DOMAIN first' = {"db", "dbx"} /\ first'.db = SigdbRow(db)
    BY <2>1
  <2>3. SigdbRow(db)' = SigdbRow(db)
    BY <2>1 DEF SigdbRow
  <2> QED BY <2>1, <2>2, <2>3
<1>6. CASE CheckDbx
  <2>1. /\ pc = "dbx" /\ pc' = "dbx size" /\ UNCHANGED <<db, dbx, efiVisible, changed>>
        /\ first' = [first EXCEPT !.dbx = SigdbRow(dbx)]
    BY <1>6 DEF CheckDbx
  <2>2. DOMAIN first' = {"db", "dbx"} /\ first'.db = first.db /\ first'.dbx = SigdbRow(dbx)
    BY <2>1
  <2>3. SigdbRow(db)' = SigdbRow(db) /\ SigdbRow(dbx)' = SigdbRow(dbx)
    BY <2>1 DEF SigdbRow
  <2> QED BY <2>1, <2>2, <2>3
<1>7. CASE CheckDbxSize
  <2>1. /\ pc = "dbx size" /\ pc' = "db keys" /\ UNCHANGED secureBootVars
        /\ rows' = Fill({DbxSizeRow}, DbxSize(dbx))
    BY <1>7 DEF CheckDbxSize
  <2>2. UNCHANGED <<db, dbx, efiVisible, changed, first>>
    BY <2>1 DEF secureBootVars
  <2>3. SigdbRow(db)' = SigdbRow(db)
    BY <2>2 DEF SigdbRow
  <2>4. rows'[DbxSizeRow] = DbxSize(dbx)
    BY <2>1 DEF Fill
  <2>5. /\ SigdbRow(dbx).state = "OK" => DbxSize(dbx).state \in {"OK", "WARN"}
        /\ DbxSize(dbx).state = "OK" => SigdbRow(dbx).state # "SKIP"
    BY OkRows DEF SigdbRow, DbxSize
  <2> QED BY <2>1, <2>2, <2>3, <2>4, <2>5
<1>8. CASE CheckDbKeys
  <2>1. /\ pc = "db keys" /\ pc' = "keys counted" /\ UNCHANGED secureBootVars
        /\ rows' = Fill({DbKeysRow}, DbKeys(db))
    BY <1>8 DEF CheckDbKeys
  <2>2. UNCHANGED <<db, dbx, efiVisible, changed, first>>
    BY <2>1 DEF secureBootVars
  <2>3. rows'[DbKeysRow] = DbKeys(db)
    BY <2>1 DEF Fill
  <2>4. SigdbRow(db).state = "OK" <=> DbKeys(db).state = "OK"
    BY OkRows DEF SigdbRow, DbKeys
  <2> QED BY <2>1, <2>2, <2>3, <2>4
<1>9. CASE EndSigdbs
  BY <1>9 DEF EndSigdbs, NoVariable, NoRows
<1>10. CASE WriteSigdb
  <2>1. pc \in {"dbx", "dbx size", "db keys"} /\ UNCHANGED <<pc, rows, first, efiVisible>>
    BY <1>10 DEF WriteSigdb
  <2>2. \A v \in Sigdbs : v.state \in {"missing", "unreadable", "present"}
    BY SecureBootAssumption DEF Sigdb
  <2>3. CASE db' \in Sigdbs /\ changed' = changed \cup {"db"} /\ UNCHANGED dbx
    <3>1. SigdbRow(dbx)' = SigdbRow(dbx)
      BY <2>1, <2>3 DEF SigdbRow
    <3> QED BY <2>1, <2>2, <2>3, <3>1
  <2>4. CASE dbx' \in Sigdbs /\ changed' = changed \cup {"dbx"} /\ UNCHANGED db
    <3>1. SigdbRow(db)' = SigdbRow(db)
      BY <2>1, <2>4 DEF SigdbRow
    <3> QED BY <2>1, <2>2, <2>4, <3>1
  <2> QED BY <1>10, <2>3, <2>4 DEF WriteSigdb
<1> QED BY <1>1, <1>2, <1>3, <1>4, <1>5, <1>6, <1>7, <1>8, <1>9, <1>10 DEF SecureBootNext

LEMMA SigdbStep == SigdbInv /\ [Next]_vars => SigdbInv'
<1> SUFFICES ASSUME SigdbInv, [Next]_vars PROVE SigdbInv'
  OBVIOUS
<1>1. CASE SecureBootNext
  BY <1>1, SigdbNext
<1>2. CASE (EspNext \/ PlatformNext) /\ UNCHANGED secureBootVars
  <2>1. pc' \notin SecureBootPcs \ {"secure boot"}
    BY <1>2, EspFlow, PlatformFlow DEF SecureBootPcs, PlatformPcs, EspPcs
  <2> QED BY <1>2, <2>1 DEF SigdbInv, SameVariableSameVerdict, secureBootVars, SecureBootPcs
<1>3. CASE UNCHANGED vars
  <2>1. UNCHANGED <<pc, rows, db, dbx, first, changed, efiVisible>>
    BY <1>3 DEF vars, secureBootVars
  <2>2. SigdbRow(db)' = SigdbRow(db) /\ SigdbRow(dbx)' = SigdbRow(dbx)
    BY <2>1 DEF SigdbRow
  <2> QED BY <2>1, <2>2 DEF SigdbInv, SameVariableSameVerdict
<1> QED BY <1>1, <1>2, <1>3 DEF Next, Returned

\* The two rows made of db agree, and the two made of dbx do not contradict each
\* other, for every content of the variables and every size of the buffers they
\* are read into, unless the variable was written between the readings.
THEOREM SigdbReadingsAgree == Spec => []SameVariableSameVerdict
<1>1. SigdbInv => SameVariableSameVerdict
  BY DEF SigdbInv
<1> QED BY <1>1, SigdbInit, SigdbStep, PTL DEF Spec
-----------------------------------------------------------------------------
(***************************************************************************)
(* State, setup mode and shim validation.                                  *)
(***************************************************************************)

Words == {"enabled", "disabled", "setup mode", "validation disabled", "other"}
Firmware == [sb : BOOLEAN, setup : BOOLEAN, unchecked : BOOLEAN]

\* Two texts one after the other say what either says.
LEMMA SaysBoth ==
  ASSUME NEW s \in Seq(Words), NEW t \in Seq(Words)
  PROVE  /\ s \o t \in Seq(Words)
         /\ \A w : Says(s \o t, w) <=> Says(s, w) \/ Says(t, w)
         /\ Len(s) >= 1 => Len(s \o t) >= 1 /\ (s \o t)[1] = s[1]
<1> DEFINE u == s \o t
<1>1. /\ u \in Seq(Words) /\ DOMAIN u = 1..(Len(s) + Len(t))
      /\ \A i \in 1..Len(s) : u[i] = s[i]
      /\ \A i \in (Len(s) + 1)..(Len(s) + Len(t)) : u[i] = t[i - Len(s)]
      /\ Len(u) = Len(s) + Len(t) /\ Len(s) \in Nat /\ Len(t) \in Nat
  OBVIOUS
<1>2. DOMAIN s = 1..Len(s) /\ DOMAIN t = 1..Len(t)
  OBVIOUS
<1> HIDE DEF u
<1>3. ASSUME NEW w, Says(u, w) PROVE Says(s, w) \/ Says(t, w)
  <2>1. PICK i \in DOMAIN u : u[i] = w
    BY <1>3 DEF Says
  <2>2. CASE i \in 1..Len(s)
    BY <1>1, <1>2, <2>1, <2>2 DEF Says
  <2>3. CASE i \in (Len(s) + 1)..(Len(s) + Len(t))
    <3>1. i - Len(s) \in 1..Len(t)
      BY <1>1, <2>3
    <3> QED BY <1>1, <1>2, <2>1, <2>3, <3>1 DEF Says
  <2> QED BY <1>1, <2>1, <2>2, <2>3
<1>4. ASSUME NEW w, Says(s, w) \/ Says(t, w) PROVE Says(u, w)
  <2>1. CASE Says(s, w)
    <3>1. PICK i \in 1..Len(s) : s[i] = w
      BY <2>1, <1>2 DEF Says
    <3>2. i \in DOMAIN u
      BY <1>1
    <3> QED BY <1>1, <3>1, <3>2 DEF Says
  <2>2. CASE Says(t, w)
    <3>1. PICK i \in 1..Len(t) : t[i] = w
      BY <2>2, <1>2 DEF Says
    <3> DEFINE k == i + Len(s)
    <3>2. k \in DOMAIN u /\ k \in (Len(s) + 1)..(Len(s) + Len(t)) /\ k - Len(s) = i
      BY <1>1
    <3> HIDE DEF k
    <3> QED BY <1>1, <3>1, <3>2 DEF Says
  <2> QED BY <1>4, <2>1, <2>2
<1>5. Len(s) >= 1 => Len(u) >= 1 /\ u[1] = s[1]
  BY <1>1
<1> QED BY <1>1, <1>3, <1>4, <1>5 DEF u

LEMMA OneLine ==
  ASSUME NEW S, NEW x \in S
  PROVE  <<x>> \in Seq(S) /\ Len(<<x>>) = 1 /\ <<x>>[1] = x
OBVIOUS

LEMMA SaysOne ==
  /\ \A s \in Seq(Words) : Len(s) = 1 => \A w : Says(s, w) <=> w = s[1]
  /\ \A s \in Seq(Words) : Len(s) = 0 => \A w : ~Says(s, w)
<1>1. ASSUME NEW s \in Seq(Words), Len(s) = 1 PROVE DOMAIN s = {1}
  BY <1>1
<1> QED BY <1>1 DEF Says

\* mokutil says what is so, and its first line is about the state.
LEMMA LinesSay ==
  ASSUME firmware \in Firmware
  PROVE  /\ StateLines \in Seq(Words) /\ Len(StateLines) >= 1
         /\ Says(StateLines, "enabled") => firmware.sb
         /\ Says(StateLines, "disabled") => ~firmware.sb
         /\ Says(StateLines, "setup mode") <=> firmware.setup
         /\ Says(StateLines, "validation disabled") <=> firmware.sb /\ firmware.unchecked
         /\ firmware.sb => StateLines[1] = "enabled"
<1> DEFINE a == <<IF firmware.sb THEN "enabled" ELSE "disabled">>
           b == IF firmware.setup THEN <<"setup mode">> ELSE <<>>
           c == IF firmware.sb /\ firmware.unchecked THEN <<"validation disabled">> ELSE <<>>
<1>1. PICK x \in {"enabled", "disabled"} : a = <<x>> /\ (x = "enabled" <=> firmware.sb)
  <2>1. CASE firmware.sb
    BY <2>1
  <2>2. CASE ~firmware.sb
    BY <2>2
  <2> QED BY <2>1, <2>2
<1>2. \/ firmware.setup /\ b = <<"setup mode">>
      \/ ~firmware.setup /\ b = <<>>
  OBVIOUS
<1>3. \/ firmware.sb /\ firmware.unchecked /\ c = <<"validation disabled">>
      \/ ~(firmware.sb /\ firmware.unchecked) /\ c = <<>>
  OBVIOUS
<1>4. StateLines = (a \o b) \o c
  BY DEF StateLines
<1> HIDE DEF a, b, c
<1>12. a \in Seq(Words) /\ Len(a) >= 1 /\ a[1] = x /\ \A w : Says(a, w) <=> w = x
  <2>1. x \in Words
    BY <1>1 DEF Words
  <2>2. <<x>> \in Seq(Words) /\ Len(<<x>>) = 1 /\ <<x>>[1] = x
    BY <2>1, OneLine
  <2>3. a \in Seq(Words) /\ Len(a) = 1 /\ a[1] = x
    BY <1>1, <2>2
  <2> QED BY <2>3, SaysOne
<1>13. /\ b \in Seq(Words) /\ \A w : Says(b, w) => w = "setup mode"
       /\ Says(b, "setup mode") <=> firmware.setup
  <2>1. /\ firmware.setup => b \in Seq(Words) /\ Len(b) = 1 /\ b[1] = "setup mode"
        /\ ~firmware.setup => b \in Seq(Words) /\ Len(b) = 0
    <3>1. "setup mode" \in Words
      BY DEF Words
    <3>2. <<"setup mode">> \in Seq(Words) /\ Len(<<"setup mode">>) = 1 /\ <<"setup mode">>[1] = "setup mode"
      BY <3>1, OneLine
    <3>3. ~firmware.setup => b = <<>>
      BY <1>2
    <3>4. <<>> \in Seq(Words) /\ Len(<<>>) = 0
      OBVIOUS
    <3> QED BY <1>2, <3>2, <3>3, <3>4
  <2> QED BY <2>1, SaysOne
<1>14. /\ c \in Seq(Words) /\ \A w : Says(c, w) => w = "validation disabled"
       /\ Says(c, "validation disabled") <=> firmware.sb /\ firmware.unchecked
  <2>1. /\ firmware.sb /\ firmware.unchecked =>
             c \in Seq(Words) /\ Len(c) = 1 /\ c[1] = "validation disabled"
        /\ ~(firmware.sb /\ firmware.unchecked) => c \in Seq(Words) /\ Len(c) = 0
    <3>1. "validation disabled" \in Words
      BY DEF Words
    <3>2. <<"validation disabled">> \in Seq(Words) /\ Len(<<"validation disabled">>) = 1 /\ <<"validation disabled">>[1] = "validation disabled"
      BY <3>1, OneLine
    <3>3. ~(firmware.sb /\ firmware.unchecked) => c = <<>>
      BY <1>3
    <3>4. <<>> \in Seq(Words) /\ Len(<<>>) = 0
      OBVIOUS
    <3> QED BY <1>3, <3>2, <3>3, <3>4
  <2> QED BY <2>1, SaysOne
<1> DEFINE ab == a \o b
<1>5. /\ ab \in Seq(Words) /\ Len(ab) >= 1 /\ ab[1] = a[1]
      /\ \A w : Says(ab, w) <=> Says(a, w) \/ Says(b, w)
  BY <1>12, <1>13, SaysBoth
<1>6. StateLines = ab \o c
  BY <1>4
<1> HIDE DEF ab
<1>7. /\ StateLines \in Seq(Words) /\ Len(StateLines) >= 1 /\ StateLines[1] = a[1]
      /\ \A w : Says(StateLines, w) <=> Says(ab, w) \/ Says(c, w)
  BY <1>14, <1>5, <1>6, SaysBoth
<1>8. \A w : Says(StateLines, w) <=> Says(a, w) \/ Says(b, w) \/ Says(c, w)
  BY <1>5, <1>7
<1>9. /\ Says(StateLines, "enabled") => firmware.sb
      /\ Says(StateLines, "disabled") => ~firmware.sb
  BY <1>1, <1>12, <1>13, <1>14, <1>8
<1>10. Says(StateLines, "setup mode") <=> firmware.setup
  BY <1>1, <1>12, <1>13, <1>14, <1>8
<1>11. Says(StateLines, "validation disabled") <=> firmware.sb /\ firmware.unchecked
  BY <1>1, <1>12, <1>13, <1>14, <1>8
<1> QED BY <1>1, <1>12, <1>7, <1>9, <1>10, <1>11

\* A text cut short says nothing new, and keeps its first line to the last.
LEMMA PrefixSays ==
  ASSUME NEW s \in Seq(Words), NEW n \in 0..Len(s)
  PROVE  LET t == SubSeq(s, 1, n)
         IN /\ \A w : Says(t, w) => Says(s, w) /\ Says(t, s[1])
            /\ n = Len(s) => \A w : Says(s, w) => Says(t, w)
<1> DEFINE t == SubSeq(s, 1, n)
<1>1. n \in Nat /\ DOMAIN t = 1..n /\ DOMAIN s = 1..Len(s) /\ \A i \in 1..n : t[i] = s[i]
  OBVIOUS
<1>2. \A i \in 1..n : i \in 1..Len(s) /\ 1 \in 1..n
  OBVIOUS
<1> HIDE DEF t
<1>3. \A w : Says(t, w) => Says(s, w) /\ Says(t, s[1])
  BY <1>1, <1>2 DEF Says
<1>4. n = Len(s) => \A w : Says(s, w) => Says(t, w)
  BY <1>1 DEF Says
<1> QED BY <1>3, <1>4 DEF t

\* What mokutil said is so, and if all of it was read, it said all there is.
TextTrue(text, exit, complete) ==
  /\ Says(text, "enabled") => firmware.sb
  /\ Says(text, "disabled") => ~firmware.sb
  /\ Says(text, "validation disabled") =>
       firmware.sb /\ firmware.unchecked /\ Says(text, "enabled")
  /\ complete /\ exit = 0 /\ ParseState(text) # "UNKNOWN" =>
       /\ firmware.setup => Says(text, "setup mode")
       /\ firmware.sb /\ firmware.unchecked => Says(text, "validation disabled")

RowsTrue(r, complete) ==
  /\ r[StateRow].state = "OK" => firmware.sb
  /\ r[StateRow].state = "FAIL" => ~firmware.sb
  /\ r[SetupRow].state = "OK" /\ complete => ~firmware.setup
  /\ r[ValidationRow].state = "FAIL" => firmware.sb /\ firmware.unchecked
  /\ r[ValidationRow].state = "OK" => firmware.sb /\ (complete => ~firmware.unchecked)

\* The three rows, by what the EFI variables and mokutil say.
LEMMA StateRowsTrue ==
  ASSUME firmware \in Firmware,
         NEW sbKnown, NEW setupKnown, NEW exit, NEW text, NEW again, NEW complete,
         TextTrue(text, exit, complete)
  PROVE  RowsTrue(StateRows(sbKnown, setupKnown, exit, text, again), complete)
<1> USE DEF TextTrue
<1> DEFINE r == StateRows(sbKnown, setupKnown, exit, text, again)
           have == StateOutput(exit, text)
           state == IF sbKnown THEN (IF firmware.sb THEN "ENABLED" ELSE "DISABLED")
                    ELSE IF have THEN ParseState(text) ELSE "UNKNOWN"
<1>1. have => exit = 0 /\ ParseState(text) # "UNKNOWN"
  BY DEF StateOutput
<1>2. /\ state \in {"ENABLED", "DISABLED", "UNKNOWN"}
      /\ state = "ENABLED" => firmware.sb
      /\ state = "DISABLED" => ~firmware.sb
  <2>1. ParseState(text) = "ENABLED" => firmware.sb
    BY DEF ParseState
  <2>2. ParseState(text) = "DISABLED" => ~firmware.sb
    BY DEF ParseState
  <2>3. ParseState(text) \in {"ENABLED", "DISABLED", "UNKNOWN"}
    BY DEF ParseState
  <2> QED BY <2>1, <2>2, <2>3
<1>3. r[StateRow] = IF state # "UNKNOWN" THEN Row(IF state = "ENABLED" THEN "OK" ELSE "FAIL")
                    ELSE IF mokutil # "trusted" THEN ToolRow(again)
                    ELSE Skip(IF exit # 0 THEN "EXEC_FAILED" ELSE "OUTPUT_UNPARSEABLE")
  BY DEF StateRows, StateRow, SetupRow, ValidationRow
<1>4. r[SetupRow] = IF setupKnown THEN Row(IF firmware.setup THEN "WARN" ELSE "OK")
                    ELSE IF mokutil # "trusted" THEN ToolRow(again)
                    ELSE IF ~have THEN Skip("PROBE_INDETERMINATE")
                    ELSE Row(IF Says(text, "setup mode") THEN "WARN" ELSE "OK")
  BY DEF StateRows, StateRow, SetupRow, ValidationRow
<1>5. r[ValidationRow] = IF mokutil # "trusted" THEN ToolRow(again)
                         ELSE IF state = "DISABLED" THEN Skip("FEATURE_ABSENT")
                         ELSE IF state = "UNKNOWN" \/ ~have THEN Skip("PROBE_INDETERMINATE")
                         ELSE Row(IF Says(text, "validation disabled") THEN "FAIL" ELSE "OK")
  BY DEF StateRows, StateRow, SetupRow, ValidationRow
<1> HIDE DEF r, have, state
<1>6. /\ r[StateRow].state = "OK" => state = "ENABLED"
      /\ r[StateRow].state = "FAIL" => state = "DISABLED"
  BY <1>2, <1>3, OkRows
<1>7. r[SetupRow].state = "OK" /\ complete => ~firmware.setup
  BY <1>1, <1>4, OkRows
<1>8. r[ValidationRow].state \in {"OK", "FAIL"} =>
        /\ state = "ENABLED" /\ have
        /\ r[ValidationRow].state = "FAIL" <=> Says(text, "validation disabled")
  BY <1>2, <1>5, OkRows
<1>9. /\ r[StateRow].state = "OK" => firmware.sb
      /\ r[StateRow].state = "FAIL" => ~firmware.sb
  BY <1>2, <1>6
<1>10. r[ValidationRow].state = "FAIL" => firmware.sb /\ firmware.unchecked
  BY <1>8
<1>11. r[ValidationRow].state = "OK" => firmware.sb /\ (complete => ~firmware.unchecked)
  BY <1>1, <1>2, <1>8
<1> QED BY <1>7, <1>9, <1>10, <1>11 DEF r, RowsTrue

StateInv == firmware \in Firmware /\ late \in BOOLEAN /\ SecureBootVerdictsTrue

LEMMA ReadStatesTrue == StateInv /\ ReadStates => StateInv'
<1> SUFFICES ASSUME StateInv, ReadStates PROVE StateInv'
  OBVIOUS
<1>1. PICK sbKnown \in BOOLEAN, setupKnown \in BOOLEAN, exit \in {-1, 0, 1},
           n \in 0..Len(StateLines), other \in BOOLEAN, again \in PathMatches :
        /\ late' = (exit = 0 /\ ~other /\ n < Len(StateLines))
        /\ rows' = StateRows(sbKnown, setupKnown, exit,
                     IF other THEN <<"other">> ELSE SubSeq(StateLines, 1, n), again)
        /\ firmware' = firmware
  BY DEF ReadStates, Section
<1> DEFINE text == IF other THEN <<"other">> ELSE SubSeq(StateLines, 1, n)
<1>2. firmware \in Firmware
  BY DEF StateInv
<1>3. /\ StateLines \in Seq(Words) /\ Len(StateLines) >= 1
      /\ Says(StateLines, "enabled") => firmware.sb
      /\ Says(StateLines, "disabled") => ~firmware.sb
      /\ Says(StateLines, "setup mode") <=> firmware.setup
      /\ Says(StateLines, "validation disabled") <=> firmware.sb /\ firmware.unchecked
      /\ firmware.sb => StateLines[1] = "enabled"
  BY <1>2, LinesSay
<1>4. TextTrue(text, exit, ~late')
  <2>1. CASE other
    <3>1. text = <<"other">>
      BY <2>1
    <3>2. "other" \in Words
      BY DEF Words
    <3>3. <<"other">> \in Seq(Words) /\ Len(<<"other">>) = 1 /\ <<"other">>[1] = "other"
      BY <3>2, OneLine
    <3> HIDE DEF text
    <3>4. \A w : Says(text, w) <=> w = "other"
      BY <3>1, <3>3, SaysOne
    <3>5. ParseState(text) = "UNKNOWN"
      BY <3>4 DEF ParseState
    <3> QED BY <3>4, <3>5 DEF TextTrue
  <2>2. CASE ~other
    <3> DEFINE lines == StateLines
    <3>1. text = SubSeq(lines, 1, n)
      BY <2>2
    <3>2. lines \in Seq(Words) /\ n \in 0..Len(lines)
      BY <1>3
    <3> HIDE DEF text, lines
    <3>3. /\ \A w : Says(text, w) => Says(lines, w) /\ Says(text, lines[1])
          /\ n = Len(lines) => \A w : Says(lines, w) => Says(text, w)
      BY <3>1, <3>2, PrefixSays
    <3>4. ~late' /\ exit = 0 => n = Len(lines)
      <4>1. ~(exit = 0 /\ n < Len(lines)) \/ late'
        BY <1>1, <2>2 DEF lines
      <4> QED BY <4>1, <3>2
    <3> QED BY <1>3, <3>3, <3>4 DEF lines, TextTrue
  <2> QED BY <2>1, <2>2
<1>5. late' \in BOOLEAN
  BY <1>1
<1>6. rows' = StateRows(sbKnown, setupKnown, exit, text, again)
  BY <1>1
<1> HIDE DEF text
<1>7. RowsTrue(rows', ~late')
  BY <1>2, <1>4, <1>6, StateRowsTrue
<1> QED BY <1>1, <1>2, <1>5, <1>7 DEF StateInv, SecureBootVerdictsTrue, RowsTrue

LEMMA StateInit == Init => StateInv
<1> SUFFICES ASSUME Init PROVE StateInv
  OBVIOUS
<1>1. pc = "efi" /\ late = FALSE /\ firmware = [sb |-> FALSE, setup |-> FALSE, unchecked |-> FALSE]
  BY DEF Init, SecureBootInit, SomeFirmware
<1> QED BY <1>1 DEF StateInv, SecureBootVerdictsTrue, Firmware

LEMMA StateStep == StateInv /\ [Next]_vars => StateInv'
<1> SUFFICES ASSUME StateInv, [Next]_vars PROVE StateInv'
  OBVIOUS
<1> USE DEF Section, Silent
<1>1. CASE pc' # "ownership" /\ firmware' \in Firmware /\ late' \in BOOLEAN
  BY <1>1 DEF StateInv, SecureBootVerdictsTrue
<1>2. CASE ReadStates
  BY <1>2, ReadStatesTrue
<1>3. CASE BeginSecureBoot
  BY <1>1, <1>3 DEF BeginSecureBoot, StateInv, Firmware
<1>4. CASE ProbeOwnership \/ LookForEfi \/ CheckDb \/ CheckDbx \/ EndSigdbs
  <2>1. pc' # "ownership" /\ UNCHANGED <<firmware, late>>
    BY <1>4 DEF ProbeOwnership, LookForEfi, CheckDb, CheckDbx, EndSigdbs
  <2> QED BY <1>1, <2>1 DEF StateInv
<1>5. CASE CheckDbxSize \/ CheckDbKeys \/ CheckSbctl
  <2>1. pc' # "ownership" /\ UNCHANGED secureBootVars
    BY <1>5 DEF CheckDbxSize, CheckDbKeys, CheckSbctl
  <2> QED BY <1>1, <2>1 DEF StateInv, secureBootVars
<1>6. CASE PolicyRows
  <2>1. pc' # "ownership" /\ UNCHANGED <<firmware, late>>
    BY <1>6 DEF PolicyRows
  <2> QED BY <1>1, <2>1 DEF StateInv
<1>7. CASE WriteSigdb
  <2>1. pc' # "ownership" /\ UNCHANGED <<firmware, late>>
    BY <1>7 DEF WriteSigdb
  <2> QED BY <1>1, <2>1 DEF StateInv
<1>8. CASE OwnershipRows
  <2>1. pc' # "ownership" /\ firmware' = [sb |-> FALSE, setup |-> FALSE, unchecked |-> FALSE]
        /\ late' = FALSE
    BY <1>8 DEF OwnershipRows, SomeFirmware
  <2> QED BY <1>1, <2>1 DEF Firmware
<1>9. CASE (EspNext \/ PlatformNext) /\ UNCHANGED secureBootVars
  <2>1. pc' # "ownership"
    BY <1>9, EspFlow, PlatformFlow DEF PlatformPcs, EspPcs
  <2> QED BY <1>1, <1>9, <2>1 DEF StateInv, secureBootVars
<1>10. CASE UNCHANGED vars
  <2>1. UNCHANGED <<pc, rows, firmware, late>>
    BY <1>10 DEF vars, secureBootVars
  <2> QED BY <2>1 DEF StateInv, SecureBootVerdictsTrue
<1> QED BY <1>2, <1>3, <1>4, <1>5, <1>6, <1>7, <1>8, <1>9, <1>10 DEF Next, SecureBootNext, Returned

\* What bythos_check_secureboot says of Secure Boot, setup mode and shim
\* validation is so, whichever of the EFI variables could be read, wherever
\* mokutil failed, and (for the state) wherever its text was cut.
THEOREM SecureBootRowsTrue == Spec => []SecureBootVerdictsTrue
<1>1. StateInv => SecureBootVerdictsTrue
  BY DEF StateInv
<1> QED BY <1>1, StateInit, StateStep, PTL DEF Spec
-----------------------------------------------------------------------------
(***************************************************************************)
(* The names of the enrolled keys.  Placed is defined by recursion on the  *)
(* line, and what it computes is shown by induction on it, as a least line *)
(* at which it would fail.                                                 *)
(***************************************************************************)

NoneYet == [names |-> <<>>, used |-> 0, seen |-> 0]

\* g is what the recursion asks of the lines up to m.
Follows(g, keys, m) ==
  g = [i \in 0..m |-> IF i = 0 THEN NoneYet ELSE Place(g[i - 1], keys[i])]

LEMMA PlacedUnfolds ==
  ASSUME NEW keys, Len(keys) \in Nat
  PROVE  Follows(Placed(keys), keys, Len(keys))
<1> DEFINE Bad == {m \in Nat : ~\E g : Follows(g, keys, m)}
<1>1. Bad = {}
  <2> SUFFICES ASSUME Bad # {} PROVE FALSE
    OBVIOUS
  <2>1. PICK m \in Bad : \A j \in Bad : m <= j
    <3>1. Bad \in SUBSET Nat
      OBVIOUS
    <3> HIDE DEF Bad
    <3> QED BY <3>1, Least
  <2>2. CASE m = 0
    <3> DEFINE g == [i \in 0..0 |-> NoneYet]
    <3>1. Follows(g, keys, 0)
      BY DEF Follows
    <3> QED BY <2>1, <2>2, <3>1
  <2>3. CASE m # 0
    <3>1. m \in Nat /\ m - 1 \in Nat /\ m - 1 \notin Bad
      BY <2>1, <2>3
    <3>2. PICK g : Follows(g, keys, m - 1)
      BY <3>1
    <3> DEFINE h == [i \in 0..m |-> IF i = m THEN Place(g[m - 1], keys[m]) ELSE g[i]]
    <3>3. ASSUME NEW i \in 0..m
          PROVE  h[i] = IF i = 0 THEN NoneYet ELSE Place(h[i - 1], keys[i])
      <4>1. CASE i = m
        <5>1. m - 1 \in 0..m /\ m - 1 # m
          BY <3>1
        <5>2. h[i] = Place(g[m - 1], keys[m]) /\ h[m - 1] = g[m - 1]
          BY <4>1, <5>1
        <5> QED BY <4>1, <5>2, <2>3
      <4>2. CASE i # m
        <5>1. i \in 0..(m - 1)
          BY <3>1, <4>2
        <5>2. g[i] = IF i = 0 THEN NoneYet ELSE Place(g[i - 1], keys[i])
          BY <3>2, <5>1 DEF Follows
        <5>3. h[i] = g[i]
          BY <4>2
        <5>4. i # 0 => h[i - 1] = g[i - 1]
          <6> SUFFICES ASSUME i # 0 PROVE i - 1 \in 0..m /\ i - 1 # m
            OBVIOUS
          <6> QED BY <3>1, <5>1
        <5> HIDE DEF h
        <5> QED BY <5>2, <5>3, <5>4
      <4> QED BY <4>1, <4>2
    <3>4. h = [i \in 0..m |-> h[i]]
      OBVIOUS
    <3> HIDE DEF h
    <3>5. Follows(h, keys, m)
      BY <3>3, <3>4 DEF Follows
    <3> QED BY <2>1, <3>5
  <2> QED BY <2>2, <2>3
<1>2. PICK g : Follows(g, keys, Len(keys))
  BY <1>1
<1> QED BY <1>2 DEF Follows, Placed, NoneYet

PrintedName == [name : STRING, end : Nat, suffix : STRING \cup {"none"}]

Named(keys, i) == {j \in 1..i : keys[j].width > 0}

NamesDiffer(keys, i) ==
  \A a, b \in Named(keys, i) : a # b => keys[a].name # keys[b].name

HashesDiffer(keys, i) ==
  \A a, b \in Named(keys, i) : a # b => keys[a].hash # keys[b].hash

Apart(names) ==
  \A k, l \in DOMAIN names : k # l =>
    names[k].name # names[l].name \/ names[k].suffix # names[l].suffix

\* A name is that of a key before the i-th or the i-th, and so is its suffix.
FromKeys(name, keys, i) ==
  /\ \E j \in Named(keys, i) : keys[j].name = name.name
  /\ name.suffix # "none" => \E j \in Named(keys, i) : keys[j].hash = name.suffix

\* The room n names take at most if none has a suffix, with a separator each.
Room(n) == n * (MaxNameChars + 2)

LEMMA RoomGrows ==
  ASSUME NEW n \in Nat
  PROVE  /\ Room(n) \in Nat /\ Room(0) = 0
         /\ Room(n + 1) = Room(n) + MaxNameChars + 2
         /\ n >= 1 => Room(n) >= MaxNameChars + 2
<1> DEFINE c == MaxNameChars + 2
<1>1. c \in Nat
  BY SecureBootAssumption
<1>2. Room(n) = n * c /\ Room(n + 1) = (n + 1) * c /\ Room(0) = 0 * c
  BY DEF Room
<1>3. MaxNameChars \in Nat
  BY SecureBootAssumption
<1>4. Room(n + 1) = Room(n) + MaxNameChars + 2
  <2>1. (n + 1) * (MaxNameChars + 2) = n * (MaxNameChars + 2) + MaxNameChars + 2
    BY <1>3
  <2> QED BY <2>1 DEF Room
<1> HIDE DEF c
<1>5. n * c \in Nat /\ 0 * c = 0 /\ (n >= 1 => n * c >= c)
  BY <1>1
<1> QED BY <1>2, <1>4, <1>5 DEF c

LEMMA RoomOfAll ==
  ASSUME NEW n \in Nat, n <= MaxNames
  PROVE  Room(n) + 13 <= Shown
<1>1. MaxNames \in Nat /\ MaxNameChars + 2 \in Nat /\ Room(MaxNames) + 13 <= Shown /\ Shown \in Nat
  BY SecureBootAssumption DEF Room
<1> DEFINE c == MaxNameChars + 2
<1>2. c \in Nat
  BY <1>1
<1> HIDE DEF c
<1>3. n * c <= MaxNames * c
  <2>1. (MaxNames - n) * c >= 0
    BY <1>1, <1>2
  <2>2. (MaxNames - n) * c = MaxNames * c - n * c
    BY <1>1, <1>2
  <2>3. MaxNames * c \in Nat /\ n * c \in Nat
    BY <1>1, <1>2
  <2> QED BY <2>1, <2>2, <2>3
<1>4. Room(n) = n * c /\ Room(MaxNames) = MaxNames * c
  BY DEF Room, c
<1>5. MaxNames * c \in Nat /\ n * c \in Nat
  BY <1>1, <1>2
<1> QED BY <1>1, <1>3, <1>4, <1>5

\* What holds of the names after i lines.
PlacedInv(s, keys, i) ==
  /\ s \in [names : Seq(PrintedName), used : Nat, seen : Nat]
  /\ Len(s.names) <= MaxNames /\ Len(s.names) <= s.seen
  /\ s.used = 0 \/ s.used + 1 < NamesSize - TailReserve
  /\ s.seen = Cardinality(Named(keys, i))
  /\ \A k \in DOMAIN s.names : s.names[k].end <= s.used
  /\ \A k \in DOMAIN s.names : FromKeys(s.names[k], keys, i)
  /\ NamesDiffer(keys, i) => s.used = 0 \/ s.used + 2 <= Room(Len(s.names))
  /\ HashesDiffer(keys, i) => Apart(s.names)

\* One more line of the list.
LEMMA NamedGrows ==
  ASSUME NEW keys \in Seq(MokKey), NEW i \in 1..Len(keys)
  PROVE  /\ IsFiniteSet(Named(keys, i - 1)) /\ i \notin Named(keys, i - 1)
         /\ Named(keys, i) = IF keys[i].width > 0 THEN Named(keys, i - 1) \cup {i}
                             ELSE Named(keys, i - 1)
         /\ Cardinality(Named(keys, i)) =
              Cardinality(Named(keys, i - 1)) + (IF keys[i].width > 0 THEN 1 ELSE 0)
<1>1. IsFiniteSet(Named(keys, i - 1))
  <2>1. 1 \in Int /\ i - 1 \in Int
    OBVIOUS
  <2>2. IsFiniteSet(1..(i - 1))
    BY <2>1, FS_Interval
  <2> QED BY <2>2, FS_Subset DEF Named
<1>2. \A j : j \in 1..i <=> j = i \/ j \in 1..(i - 1)
  OBVIOUS
<1>3. i \notin 1..(i - 1)
  OBVIOUS
<1>4. i \notin Named(keys, i - 1)
  BY <1>3 DEF Named
<1>5. Named(keys, i) = IF keys[i].width > 0 THEN Named(keys, i - 1) \cup {i}
                       ELSE Named(keys, i - 1)
  BY <1>2 DEF Named
<1> DEFINE N == Named(keys, i - 1)
<1>6. IsFiniteSet(N) /\ i \notin N
  BY <1>1, <1>4
<1> HIDE DEF N
<1>7. Cardinality(N \cup {i}) = Cardinality(N) + 1 /\ Cardinality(N) \in Nat
  BY <1>6, FS_AddElement, FS_CardinalityType
<1>8. Cardinality(Named(keys, i)) = Cardinality(N) + (IF keys[i].width > 0 THEN 1 ELSE 0)
  BY <1>5, <1>7 DEF N
<1> QED BY <1>1, <1>4, <1>5, <1>8 DEF N

\* With one more name in the list the names and hashes before it still differ, and
\* what is printed still comes from the list.
LEMMA NamedKeeps ==
  ASSUME NEW keys, NEW i, NEW h, Named(keys, h) \subseteq Named(keys, i)
  PROVE  /\ NamesDiffer(keys, i) => NamesDiffer(keys, h)
         /\ HashesDiffer(keys, i) => HashesDiffer(keys, h)
         /\ \A name : FromKeys(name, keys, h) => FromKeys(name, keys, i)
  BY DEF NamesDiffer, HashesDiffer, FromKeys

LEMMA PlaceKeeps ==
  ASSUME NEW keys \in Seq(MokKey), NEW i \in 1..Len(keys), NEW s,
         PlacedInv(s, keys, i - 1)
  PROVE  PlacedInv(Place(s, keys[i]), keys, i)
<1> DEFINE key == keys[i]
           N == Named(keys, i - 1)
           twin == \E k \in DOMAIN s.names : s.names[k].name = key.name
           end == s.used + (IF s.names = <<>> THEN 0 ELSE 2) + key.width
                      + (IF twin THEN SuffixWidth ELSE 0)
           printed == [name |-> key.name, end |-> end,
                       suffix |-> IF twin THEN key.hash ELSE "none"]
           t == Place(s, key)
<1>1. key \in MokKey
  OBVIOUS
<1>2. /\ Named(keys, i) = IF key.width > 0 THEN N \cup {i} ELSE N
      /\ Cardinality(Named(keys, i)) = Cardinality(N) + (IF key.width > 0 THEN 1 ELSE 0)
      /\ i \notin N
  BY NamedGrows
<1>3. /\ s \in [names : Seq(PrintedName), used : Nat, seen : Nat]
      /\ Len(s.names) <= MaxNames /\ Len(s.names) <= s.seen
      /\ s.used = 0 \/ s.used + 1 < NamesSize - TailReserve
      /\ s.seen = Cardinality(N)
      /\ \A k \in DOMAIN s.names : s.names[k].end <= s.used
      /\ \A k \in DOMAIN s.names : FromKeys(s.names[k], keys, i - 1)
      /\ NamesDiffer(keys, i - 1) => s.used = 0 \/ s.used + 2 <= Room(Len(s.names))
      /\ HashesDiffer(keys, i - 1) => Apart(s.names)
  BY DEF PlacedInv
<1>4. /\ MaxNameChars \in Nat /\ MaxNames \in Nat /\ SuffixWidth \in Nat
      /\ key.width \in Nat /\ key.width <= MaxNameChars
      /\ key.name \in STRING /\ key.hash \in STRING /\ key.hash # "none"
  <2>1. MaxNameChars \in Nat /\ MaxNames \in Nat /\ SuffixWidth \in Nat
    BY SecureBootAssumption
  <2> QED BY <1>1, <2>1 DEF MokKey
<1>5. N \subseteq Named(keys, i)
  BY <1>2
<1>6. /\ NamesDiffer(keys, i) => NamesDiffer(keys, i - 1)
      /\ HashesDiffer(keys, i) => HashesDiffer(keys, i - 1)
      /\ \A name : FromKeys(name, keys, i - 1) => FromKeys(name, keys, i)
  BY <1>5, NamedKeeps
<1>7. CASE key.width = 0
  <2>1. t = s
    BY <1>7 DEF Place, PrintName
  <2>2. Cardinality(Named(keys, i)) = Cardinality(N)
    BY <1>2, <1>4, <1>7
  <2> HIDE DEF N, t
  <2>3. PlacedInv(t, keys, i)
    BY <1>3, <1>6, <2>1, <2>2 DEF PlacedInv
  <2> QED BY <2>3 DEF t
<1>8. CASE key.width # 0 /\ ~(Len(s.names) < MaxNames /\ end + 1 < NamesSize - TailReserve)
  <2>1. t = [s EXCEPT !.seen = @ + 1]
    BY <1>8 DEF Place, PrintName
  <2>2. /\ t \in [names : Seq(PrintedName), used : Nat, seen : Nat]
        /\ t.names = s.names /\ t.used = s.used /\ t.seen = s.seen + 1
    BY <1>3, <2>1
  <2>3. Len(s.names) \in Nat /\ Len(t.names) <= t.seen
    BY <1>3, <2>2
  <2>4. t.seen = Cardinality(Named(keys, i))
    <3>1. key.width > 0
      BY <1>4, <1>8
    <3> QED BY <1>2, <1>3, <2>2, <3>1
  <2> HIDE DEF N, t
  <2>5. PlacedInv(t, keys, i)
    BY <1>3, <1>6, <2>2, <2>3, <2>4 DEF PlacedInv
  <2> QED BY <2>5 DEF t
<1>9. CASE key.width # 0 /\ Len(s.names) < MaxNames /\ end + 1 < NamesSize - TailReserve
  <2>1. t = [names |-> Append(s.names, printed), used |-> end, seen |-> s.seen + 1]
    BY <1>9 DEF Place, PrintName
  <2> DEFINE sep == IF s.names = <<>> THEN 0 ELSE 2
             tag == IF twin THEN SuffixWidth ELSE 0
  <2>2. end = s.used + sep + key.width + tag /\ sep \in {0, 2} /\ tag \in Nat
    BY <1>4
  <2>3. twin \/ tag = 0
    OBVIOUS
  <2> HIDE DEF sep, tag, end
  <2>4. end \in Nat /\ s.used <= end
    <3> DEFINE u == s.used
               w == key.width
    <3>1. u \in Nat /\ w \in Nat /\ tag \in Nat /\ sep \in {0, 2} /\ end = u + sep + w + tag
      BY <1>3, <1>4, <2>2
    <3> HIDE DEF u, w
    <3>2. end \in Nat /\ u <= end
      BY <3>1
    <3> QED BY <3>2 DEF u
  <2>5. (IF twin THEN key.hash ELSE "none") \in STRING \cup {"none"}
    BY <1>4
  <2>6. printed \in PrintedName
    BY <1>4, <2>4, <2>5 DEF PrintedName
  <2>7. /\ printed.name = key.name /\ printed.end = end
        /\ printed.suffix # "none" => printed.suffix = key.hash
        /\ twin => printed.suffix = key.hash
    OBVIOUS
  <2> DEFINE n == Len(s.names) + 1
  <2> HIDE DEF printed
  <2>8. /\ t \in [names : Seq(PrintedName), used : Nat, seen : Nat]
        /\ t.names = Append(s.names, printed) /\ t.used = end /\ t.seen = s.seen + 1
    BY <1>3, <2>1, <2>4, <2>6
  <2>9. /\ n \in Nat /\ Len(t.names) = n /\ DOMAIN t.names = 1..n /\ DOMAIN s.names = 1..(n - 1)
        /\ t.names[n] = printed /\ \A k \in 1..(n - 1) : t.names[k] = s.names[k]
    BY <1>3, <2>6, <2>8
  <2>10. Len(t.names) <= MaxNames /\ Len(t.names) <= t.seen
    <3>1. Len(s.names) \in Nat
      BY <1>3
    <3> QED BY <1>3, <1>4, <1>9, <2>8, <2>9, <3>1
  <2>11. t.used + 1 < NamesSize - TailReserve
    BY <1>9, <2>8
  <2>12. Named(keys, i) = N \cup {i} /\ t.seen = Cardinality(Named(keys, i))
    <3>1. key.width > 0
      BY <1>4, <1>9
    <3> QED BY <1>2, <1>3, <2>8, <3>1
  <2>13. \A k \in 1..n : k = n \/ k \in 1..(n - 1)
    BY <2>9
  <2>14. NamesDiffer(keys, i) => t.used + 2 <= Room(Len(t.names))
    <3> SUFFICES ASSUME NamesDiffer(keys, i) PROVE end + 2 <= Room(n)
      BY <2>8, <2>9
    <3>1. ~twin
      <4> SUFFICES ASSUME NEW k \in DOMAIN s.names, s.names[k].name = key.name PROVE FALSE
        OBVIOUS
      <4>1. PICK j \in N : keys[j].name = s.names[k].name
        BY <1>3 DEF FromKeys
      <4>2. j \in Named(keys, i) /\ i \in Named(keys, i) /\ j # i
        BY <1>2, <1>5, <2>12, <4>1
      <4> QED BY <4>1, <4>2 DEF NamesDiffer
    <3> DEFINE m == Len(s.names)
               room == Room(m)
    <3>2. m \in Nat /\ n = m + 1 /\ (sep = 2 => m >= 1) /\ (m >= 1 => sep = 2)
      BY <1>3, <2>9, <2>2 DEF sep
    <3>3. s.used = 0 \/ s.used + 2 <= room
      BY <1>3, <1>6
    <3> HIDE DEF m
    <3>4. /\ room \in Nat /\ Room(n) = room + MaxNameChars + 2
          /\ m = 0 => room = 0
          /\ m >= 1 => room >= MaxNameChars + 2
      BY <3>2, RoomGrows
    <3> HIDE DEF room, n, twin
    <3> DEFINE u == s.used
               w == key.width
               max == MaxNameChars
    <3>5. /\ u \in Nat /\ w \in Nat /\ max \in Nat /\ w <= max
          /\ end = u + sep + w + 0
          /\ u = 0 \/ u + 2 <= room
          /\ Room(n) = room + max + 2 /\ room \in Nat
          /\ m >= 1 => room >= max + 2
      BY <1>3, <1>4, <2>2, <2>3, <3>1, <3>3, <3>4
    <3> HIDE DEF u, w, max
    <3>6. CASE m = 0
      <4>1. sep = 0 /\ room = 0
        BY <2>2, <3>2, <3>4, <3>6
      <4> QED BY <3>5, <4>1
    <3>7. CASE m >= 1
      <4>1. sep = 2 /\ room >= max + 2
        BY <3>2, <3>5, <3>7
      <4> QED BY <3>5, <4>1
    <3> QED BY <3>2, <3>6, <3>7
  <2> HIDE DEF N, t, n
  <2>15. ASSUME NEW k \in DOMAIN t.names PROVE t.names[k].end <= t.used
    <3>1. CASE k = n
      BY <2>4, <2>7, <2>8, <2>9, <3>1
    <3>2. CASE k \in 1..(n - 1)
      <4>1. t.names[k] = s.names[k] /\ s.names[k].end <= s.used
        BY <1>3, <2>9, <3>2
      <4>2. s.names[k].end \in Nat /\ s.used \in Nat
        <5>1. s.names[k] \in PrintedName
          BY <1>3, <2>9, <3>2
        <5> QED BY <1>3, <5>1 DEF PrintedName
      <4> QED BY <2>4, <2>8, <4>1, <4>2
    <3> QED BY <2>9, <2>13, <3>1, <3>2
  <2>16. ASSUME NEW k \in DOMAIN t.names PROVE FromKeys(t.names[k], keys, i)
    <3>1. CASE k = n
      BY <2>7, <2>9, <2>12, <3>1 DEF FromKeys
    <3>2. CASE k \in 1..(n - 1)
      BY <1>3, <1>6, <2>9, <3>2
    <3> QED BY <2>9, <2>13, <3>1, <3>2
  <2>17. ASSUME HashesDiffer(keys, i) PROVE Apart(t.names)
    <3>1. \A j \in N : keys[j].hash # key.hash
      BY <1>2, <2>12, <2>17 DEF HashesDiffer
    <3> DEFINE Differ(a, b) == a.name # b.name \/ a.suffix # b.suffix
    <3>2. ASSUME NEW k \in 1..(n - 1) PROVE Differ(t.names[k], t.names[n])
      <4>1. CASE s.names[k].name = key.name
        <5>1. printed.suffix = key.hash
          BY <2>7, <2>9, <4>1
        <5>2. s.names[k].suffix # key.hash
          BY <1>3, <1>4, <2>9, <3>1 DEF FromKeys, N
        <5> QED BY <2>9, <5>1, <5>2
      <4>2. CASE s.names[k].name # key.name
        BY <2>7, <2>9, <4>2
      <4> QED BY <4>1, <4>2
    <3>3. ASSUME NEW k \in 1..(n - 1), NEW l \in 1..(n - 1), k # l
          PROVE  Differ(t.names[k], t.names[l])
      BY <1>3, <1>6, <2>9, <2>17, <3>3 DEF Apart
    <3>4. \A k, l \in DOMAIN t.names : k # l => Differ(t.names[k], t.names[l])
      BY <2>9, <2>13, <3>2, <3>3
    <3> QED BY <3>4 DEF Apart
  <2>18. PlacedInv(t, keys, i)
    BY <2>8, <2>10, <2>11, <2>12, <2>14, <2>15, <2>16, <2>17 DEF PlacedInv
  <2> QED BY <2>18 DEF t
<1> QED BY <1>7, <1>8, <1>9

\* Hence it holds of every line: the least line it fails at has one before it.
LEMMA PlacedHolds ==
  ASSUME NEW keys \in Seq(MokKey)
  PROVE  \A i \in 0..Len(keys) : PlacedInv(Placed(keys)[i], keys, i)
<1> DEFINE g == Placed(keys)
           Bad == {i \in 0..Len(keys) : ~PlacedInv(g[i], keys, i)}
<1>1. Len(keys) \in Nat
  OBVIOUS
<1>2. Follows(g, keys, Len(keys))
  BY <1>1, PlacedUnfolds
<1> HIDE DEF g
<1>3. Bad = {}
  <2> SUFFICES ASSUME Bad # {} PROVE FALSE
    OBVIOUS
  <2>1. PICK m \in Bad : \A j \in Bad : m <= j
    <3>1. Bad \in SUBSET Nat
      BY <1>1
    <3> HIDE DEF Bad
    <3> QED BY <3>1, Least
  <2>2. CASE m = 0
    <3>1. 0 \in 0..Len(keys)
      BY <1>1
    <3>2. g[0] = NoneYet
      BY <1>2, <3>1 DEF Follows
    <3>3. Named(keys, 0) = {}
      BY DEF Named
    <3>4. Cardinality(Named(keys, 0)) = 0
      BY <3>3, FS_EmptySet
    <3>5. /\ NoneYet \in [names : Seq(PrintedName), used : Nat, seen : Nat]
          /\ NoneYet.names = <<>> /\ NoneYet.used = 0 /\ NoneYet.seen = 0
      BY DEF NoneYet
    <3>6. Len(NoneYet.names) = 0 /\ DOMAIN NoneYet.names = {}
      BY <3>5
    <3>7. MaxNames \in Nat
      BY SecureBootAssumption
    <3>8. PlacedInv(NoneYet, keys, 0)
      BY <3>4, <3>5, <3>6, <3>7 DEF PlacedInv, Apart
    <3> QED BY <2>1, <2>2, <3>2, <3>8
  <2>3. CASE m # 0
    <3>1. m \in 1..Len(keys) /\ m \in 0..Len(keys) /\ m - 1 \in 0..Len(keys) /\ m - 1 \notin Bad
      BY <1>1, <2>1, <2>3
    <3>2. PlacedInv(g[m - 1], keys, m - 1)
      BY <3>1
    <3>3. g[m] = Place(g[m - 1], keys[m])
      BY <1>2, <2>3, <3>1 DEF Follows
    <3>4. PlacedInv(Place(g[m - 1], keys[m]), keys, m)
      BY <3>1, <3>2, PlaceKeeps
    <3> QED BY <2>1, <3>3, <3>4
  <2> QED BY <2>2, <2>3
<1> QED BY <1>3 DEF g

LEMMA TailBounds ==
  ASSUME NEW printed, NEW left \in Nat
  PROVE  /\ TailWidth(printed, left) \in 0..19
         /\ printed > 0 => TailWidth(printed, left) <= 15
<1>1. Digits(left) \in 1..3
  BY DEF Digits
<1> QED BY <1>1 DEF TailWidth

\* What bythos_join_short_list_names makes of a list: the tail always fits the
\* buffer, as room was kept for it, so every name that is not printed is counted;
\* and names that differ need no suffix, so that all of it fits the row.
Joined(j, keys) ==
  LET len == Len(keys)
  IN /\ j \in [count : Nat, names : Seq(PrintedName), more : Nat, width : Nat]
     /\ j.count = len
     /\ Len(j.names) <= MaxNames
     /\ Len(j.names) + j.more = Cardinality(Named(keys, len))
     /\ \A k \in DOMAIN j.names : j.names[k].end <= j.width
     /\ NamesDiffer(keys, len) => j.width <= Shown
     /\ HashesDiffer(keys, len) => Apart(j.names)

LEMMA NamesJoined ==
  ASSUME NEW keys \in Seq(MokKey)
  PROVE  Joined(JoinNames(keys), keys)
<1> DEFINE all == Placed(keys)[Len(keys)]
           len == Len(keys)
           used == all.used
           seen == all.seen
           names == all.names
           n == Len(names)
           left == seen - n
           tail == TailWidth(n, left)
           j == JoinNames(keys)
<1>1. PlacedInv(all, keys, len)
  <2>1. len \in 0..Len(keys)
    OBVIOUS
  <2> QED BY <2>1, PlacedHolds
<1>2. len \in Nat
  OBVIOUS
<1>3. j = [count |-> len, names |-> names,
           more |-> IF used + tail + 1 < NamesSize THEN left ELSE 0,
           width |-> IF used + tail + 1 < NamesSize THEN used + tail ELSE used]
  BY DEF JoinNames
<1> HIDE DEF all, j, len
<1>4. /\ names \in Seq(PrintedName) /\ used \in Nat /\ seen \in Nat
      /\ n <= MaxNames /\ n <= seen
      /\ used = 0 \/ used + 1 < NamesSize - TailReserve
      /\ seen = Cardinality(Named(keys, len))
      /\ \A k \in DOMAIN names : names[k].end <= used
      /\ NamesDiffer(keys, len) => used = 0 \/ used + 2 <= Room(n)
      /\ HashesDiffer(keys, len) => Apart(names)
  BY <1>1 DEF PlacedInv
<1>5. n \in Nat
  BY <1>4
<1> HIDE DEF used, seen, names, n
<1>6. left \in Nat
  BY <1>4, <1>5
<1> HIDE DEF left
<1>7. tail \in 0..19 /\ (n > 0 => tail <= 15)
  BY <1>6, TailBounds
<1> HIDE DEF tail
<1>8. /\ NamesSize \in Nat /\ TailReserve \in Nat /\ Shown \in Nat
      /\ 19 < TailReserve /\ TailReserve < NamesSize /\ 19 <= Shown
  BY SecureBootAssumption
<1>9. used + tail + 1 < NamesSize
  BY <1>4, <1>7, <1>8
<1>10. j = [count |-> len, names |-> names, more |-> left, width |-> used + tail]
  BY <1>3, <1>9
<1>11. used + tail \in Nat
  <2>1. used \in Nat
    BY <1>4
  <2> QED BY <1>7, <2>1
<1>12. /\ j \in [count : Nat, names : Seq(PrintedName), more : Nat, width : Nat]
       /\ j.count = len /\ j.names = names /\ j.more = left /\ j.width = used + tail
  BY <1>2, <1>4, <1>6, <1>10, <1>11
<1>13. n + left = Cardinality(Named(keys, len))
  BY <1>4, <1>5 DEF left
<1>14. ASSUME NEW k \in DOMAIN names PROVE names[k].end <= used + tail
  <2>1. names[k].end \in Nat
    <3>1. names[k] \in PrintedName
      BY <1>4
    <3> QED BY <3>1 DEF PrintedName
  <2> QED BY <1>4, <1>7, <2>1
<1>15. ASSUME NamesDiffer(keys, len) PROVE used + tail <= Shown
  <2> DEFINE room == Room(n)
  <2>1. room + 13 <= Shown
    BY <1>4, <1>5, RoomOfAll
  <2>2. used = 0 \/ used + 2 <= room
    BY <1>4, <1>15
  <2>3. room \in Nat /\ (n = 0 => room = 0)
    BY <1>5, RoomGrows
  <2> HIDE DEF room
  <2>4. CASE n = 0
    BY <1>4, <1>7, <1>8, <2>2, <2>3, <2>4
  <2>5. CASE n > 0
    BY <1>4, <1>7, <1>8, <2>1, <2>2, <2>3, <2>5
  <2> QED BY <1>5, <2>4, <2>5
<1>16. Joined(j, keys)
  BY <1>4, <1>12, <1>13, <1>14, <1>15 DEF Joined, len, n
<1> QED BY <1>16 DEF j

\* What the row prints of them: as many names, and as high a number, as the join
\* has or fewer, and all of it if it fits.
LEMMA NamesCut ==
  ASSUME NEW keys, NEW j, Joined(j, keys)
  PROVE  LET c == CutNames(j)
             accounted == Cardinality(DOMAIN c.names) + c.more
             named == Cardinality(Named(keys, Len(keys)))
         IN /\ c.count = Len(keys)
            /\ accounted <= named
            /\ c.width <= Shown \/ NamesDiffer(keys, Len(keys)) => accounted = named
            /\ HashesDiffer(keys, Len(keys)) => Apart(c.names)
<1> DEFINE c == CutNames(j)
           len == Len(keys)
           D == DOMAIN c.names
           named == Cardinality(Named(keys, len))
           n == Len(j.names)
<1>1. /\ j \in [count : Nat, names : Seq(PrintedName), more : Nat, width : Nat]
      /\ j.count = len
      /\ n + j.more = named
      /\ \A k \in DOMAIN j.names : j.names[k].end <= j.width
      /\ NamesDiffer(keys, len) => j.width <= Shown
      /\ HashesDiffer(keys, len) => Apart(j.names)
  BY DEF Joined
<1>2. /\ c.count = j.count /\ c.width = j.width
      /\ D = {k \in DOMAIN j.names : j.names[k].end <= Shown}
      /\ \A k \in D : c.names[k] = j.names[k]
      /\ c.more = IF j.width <= Shown THEN j.more ELSE 0
  BY DEF CutNames
<1>3. DOMAIN j.names = 1..n /\ n \in Nat /\ j.more \in Nat
  BY <1>1
<1>4. IsFiniteSet(1..n) /\ Cardinality(1..n) = n
  <2>1. 1 \in Int /\ n \in Int /\ 1 <= n + 1
    BY <1>3
  <2> HIDE DEF n
  <2> QED BY <2>1, <1>3, FS_Interval
<1>5. D \subseteq 1..n
  BY <1>2, <1>3
<1> HIDE DEF D, n, named
<1>6. Cardinality(D) <= n /\ Cardinality(D) \in Nat
  BY <1>4, <1>5, FS_Subset, FS_CardinalityType
<1>7. j.width <= Shown => D = 1..n
  <2> SUFFICES ASSUME j.width <= Shown, NEW k \in 1..n PROVE j.names[k].end <= Shown
    BY <1>2, <1>3
  <2>1. j.names[k].end <= j.width
    BY <1>1, <1>3
  <2>2. j.names[k].end \in Nat /\ j.width \in Nat /\ Shown \in Nat
    <3>1. j.names[k] \in PrintedName
      BY <1>1, <1>3
    <3>2. Shown \in Nat
      BY SecureBootAssumption
    <3> QED BY <1>1, <3>1, <3>2 DEF PrintedName
  <2> QED BY <2>1, <2>2
<1>8. Cardinality(D) + c.more <= named
  BY <1>1, <1>2, <1>3, <1>6
<1>9. c.width <= Shown \/ NamesDiffer(keys, len) => Cardinality(D) + c.more = named
  <2> SUFFICES ASSUME j.width <= Shown PROVE Cardinality(D) + c.more = named
    BY <1>1, <1>2
  <2>1. Cardinality(D) = n /\ c.more = j.more
    BY <1>2, <1>4, <1>7
  <2> QED BY <1>1, <2>1
<1>10. HashesDiffer(keys, len) => Apart(c.names)
  BY <1>1, <1>2 DEF Apart, D
<1> QED BY <1>1, <1>2, <1>8, <1>9, <1>10 DEF D, named

\* The keys of a listing are a beginning of the enrolled keys.
LEMMA ListedKeys ==
  ASSUME ProbeOwnership
  PROVE  /\ listed'.keys \in Seq(MokKey)
         /\ listed'.read /\ listed'.all => Len(listed'.keys) = Len(enrolled')
<1>1. enrolled' \in Seq(MokKey)
  <2>1. Enrolled \subseteq Seq(MokKey) /\ <<>> \in Seq(MokKey)
    BY SecureBootAssumption
  <2> QED BY <2>1 DEF ProbeOwnership
<1>2. CASE listed' = NotListed
  BY <1>2 DEF NotListed
<1>3. CASE listed' # NotListed
  <2>1. PICK n \in 0..Len(enrolled') :
          listed' = [read |-> TRUE, keys |-> SubSeq(enrolled', 1, n), all |-> n = Len(enrolled')]
    BY <1>3 DEF ProbeOwnership
  <2>2. listed'.keys = SubSeq(enrolled', 1, n) /\ (listed'.all <=> n = Len(enrolled'))
    BY <2>1
  <2>3. SubSeq(enrolled', 1, n) \in Seq(MokKey) /\ Len(SubSeq(enrolled', 1, n)) = n
    BY <1>1
  <2> QED BY <2>2, <2>3
<1> QED BY <1>2, <1>3

\* The keys of the listing and the names joined, from the probe until the row is
\* made of them.
JoinInv ==
  pc \in {"states", "ownership"} =>
    /\ listed.keys \in Seq(MokKey)
    /\ listed.read /\ listed.all => Len(listed.keys) = Len(enrolled)
    /\ mok = JoinNames(listed.keys)

MokInv == JoinInv /\ MokNamesHonest

LEMMA OwnershipHonest ==
  ASSUME JoinInv, OwnershipRows
  PROVE  MokNamesHonest'
<1> DEFINE keys == listed.keys
           len == Len(keys)
           c == CutNames(mok)
           named == {i \in DOMAIN keys : keys[i].width > 0}
<1>1. pc = "ownership" /\ mok' = c /\ UNCHANGED <<enrolled, listed>>
  BY DEF OwnershipRows, Section
<1>2. /\ keys \in Seq(MokKey) /\ mok = JoinNames(keys)
      /\ listed.read /\ listed.all => len = Len(enrolled)
  BY <1>1 DEF JoinInv
<1>3. named = Named(keys, len)
  BY <1>2 DEF Named
<1>4. Joined(mok, keys)
  BY <1>2, NamesJoined
<1> DEFINE accounted == Cardinality(DOMAIN c.names) + c.more
<1>5. /\ c.count = len
      /\ accounted <= Cardinality(named)
      /\ c.width <= Shown \/ NamesDiffer(keys, len) => accounted = Cardinality(named)
      /\ HashesDiffer(keys, len) => Apart(c.names)
  BY <1>3, <1>4, NamesCut
<1>6. /\ (\A i, j \in named : i # j => keys[i].name # keys[j].name) => NamesDiffer(keys, len)
      /\ (\A i, j \in named : i # j => keys[i].hash # keys[j].hash) => HashesDiffer(keys, len)
  BY <1>3 DEF NamesDiffer, HashesDiffer
<1> DEFINE Honest(m) ==
      /\ m.count = Len(keys)
      /\ listed.all => m.count = Len(enrolled)
      /\ Cardinality(DOMAIN m.names) + m.more <= Cardinality(named)
      /\ (\/ m.width <= Shown
          \/ \A i, j \in named : i # j => keys[i].name # keys[j].name) =>
           Cardinality(DOMAIN m.names) + m.more = Cardinality(named)
      /\ (\A i, j \in named : i # j => keys[i].hash # keys[j].hash) =>
           \A i, j \in DOMAIN m.names : i # j =>
             m.names[i].name # m.names[j].name \/ m.names[i].suffix # m.names[j].suffix
<1> HIDE DEF c, named
<1>7. listed.read => Honest(c)
  BY <1>2, <1>5, <1>6 DEF Apart
<1>8. listed.read => Honest(mok')
  BY <1>1, <1>7
<1>9. listed'.read => /\ listed' = listed /\ enrolled' = enrolled /\ Honest(mok')
  BY <1>1, <1>8
<1> QED BY <1>9 DEF MokNamesHonest, named

LEMMA MokInit == Init => MokInv
  BY DEF Init, MokInv, JoinInv, MokNamesHonest

LEMMA MokStep == MokInv /\ [Next]_vars => MokInv'
<1> SUFFICES ASSUME MokInv, [Next]_vars PROVE MokInv'
  OBVIOUS
<1> USE DEF Section, Silent
<1>1. CASE pc' \notin {"states", "ownership", "owned"}
  BY <1>1 DEF MokInv, JoinInv, MokNamesHonest
<1>2. CASE ProbeOwnership
  <2>1. pc' = "states" /\ mok' = JoinNames(listed'.keys)
    BY <1>2 DEF ProbeOwnership
  <2> QED BY <1>2, <2>1, ListedKeys DEF MokInv, JoinInv, MokNamesHonest
<1>3. CASE ReadStates
  <2>1. pc = "states" /\ pc' = "ownership" /\ UNCHANGED <<enrolled, listed, mok>>
    BY <1>3 DEF ReadStates
  <2> QED BY <2>1 DEF MokInv, JoinInv, MokNamesHonest
<1>4. CASE OwnershipRows
  <2>1. pc' = "owned"
    BY <1>4 DEF OwnershipRows
  <2> QED BY <1>4, <2>1, OwnershipHonest DEF MokInv, JoinInv
<1>5. CASE BeginSecureBoot \/ LookForEfi \/ CheckDb \/ CheckDbx \/ EndSigdbs
  BY <1>1, <1>5 DEF BeginSecureBoot, LookForEfi, CheckDb, CheckDbx, EndSigdbs
<1>6. CASE CheckDbxSize \/ CheckDbKeys \/ CheckSbctl
  BY <1>1, <1>6 DEF CheckDbxSize, CheckDbKeys, CheckSbctl
<1>7. CASE PolicyRows
  BY <1>1, <1>7 DEF PolicyRows
<1>8. CASE WriteSigdb
  BY <1>1, <1>8 DEF WriteSigdb
<1>9. CASE EspNext \/ PlatformNext
  <2>1. pc' \notin {"states", "ownership", "owned"}
    BY <1>9, EspFlow, PlatformFlow DEF PlatformPcs, EspPcs
  <2> QED BY <1>1, <2>1
<1>10. CASE UNCHANGED vars
  <2>1. UNCHANGED <<pc, enrolled, listed, mok>>
    BY <1>10 DEF vars, secureBootVars
  <2> QED BY <2>1 DEF MokInv, JoinInv, MokNamesHonest
<1> QED BY <1>2, <1>3, <1>4, <1>5, <1>6, <1>7, <1>8, <1>9, <1>10 DEF Next, SecureBootNext, Returned

\* Whatever the keys, the limits on their names and the room in the buffer and in
\* the row, the MOK row counts the keys of the captured list, and by name or number
\* accounts for every name of it if what was joined fits the row, as it always does
\* if the names differ; and two whole names it prints look alike only if two
\* hashes do.
THEOREM MokListHonest == Spec => []MokNamesHonest
<1>1. MokInv => MokNamesHonest
  BY DEF MokInv
<1> QED BY <1>1, MokInit, MokStep, PTL DEF Spec
-----------------------------------------------------------------------------
(***************************************************************************)
(* Types.  The rows of a section do not depend on what was found before    *)
(* it, as far as their types go; the rest is one part per component.       *)
(***************************************************************************)

Typed(r) == \A n \in DOMAIN r : r[n] \in AllRows

LEMMA RowTypes ==
  /\ Row("OK") \in AllRows /\ Row("WARN") \in AllRows /\ Row("FAIL") \in AllRows
  /\ \A r \in SkipReasons :
       Skip(r) \in AllRows /\ SkipActionable(r) \in AllRows /\ SkipRoot(r) \in AllRows
  /\ \A match : ToolRow(match) \in AllRows
  /\ \A good : Verdict(good) \in AllRows
<1>1. Row("OK") \in AllRows /\ Row("WARN") \in AllRows /\ Row("FAIL") \in AllRows
  BY DEF Row, AllRows
<1>2. ASSUME NEW r \in SkipReasons
      PROVE  Skip(r) \in AllRows /\ SkipActionable(r) \in AllRows /\ SkipRoot(r) \in AllRows
  <2> DEFINE skips == [state : {"SKIP"}, reason : SkipReasons, root : BOOLEAN, actionable : BOOLEAN]
  <2>1. Row("SKIP") \in [state : {"SKIP"}, reason : {"NONE"}, root : BOOLEAN, actionable : BOOLEAN]
    BY DEF Row
  <2>2. Skip(r) \in skips
    BY <2>1 DEF Skip
  <2>3. SkipActionable(r) \in skips /\ SkipRoot(r) \in skips
    BY <2>2 DEF SkipActionable, SkipRoot
  <2> QED BY <2>2, <2>3 DEF AllRows
<1>3. \A match : ToolRow(match) \in AllRows
  <2>1. "TOOL_ABSENT" \in SkipReasons
    BY DEF SkipReasons
  <2> QED BY <1>1, <1>2, <2>1 DEF ToolRow
<1> QED BY <1>1, <1>2, <1>3 DEF Verdict

LEMMA SilentTyped == Typed(<<>>)
BY DEF Typed

LEMMA FillTyped == ASSUME NEW names, NEW row \in AllRows PROVE Typed(Fill(names, row))
BY DEF Typed, Fill

LEMMA AddTyped == ASSUME NEW f, NEW g, Typed(f), Typed(g) PROVE Typed(Add(f, g))
BY DEF Typed, Add

LEMMA SecureBootRowsTyped == Typed(rows) /\ SecureBootNext => Typed(rows')
<1> SUFFICES ASSUME Typed(rows), SecureBootNext PROVE Typed(rows')
  OBVIOUS
<1> USE DEF Section
<1>0. /\ {"FEATURE_ABSENT", "EXEC_FAILED", "PROBE_INDETERMINATE", "OUTPUT_UNPARSEABLE",
          "NOT_CONFIGURED", "REPORT_FIELD_ABSENT"} \subseteq SkipReasons
  BY DEF SkipReasons
<1>1. CASE BeginSecureBoot \/ ProbeOwnership \/ LookForEfi \/ EndSigdbs
  <2>1. rows' = <<>>
    BY <1>1 DEF BeginSecureBoot, ProbeOwnership, LookForEfi, EndSigdbs, Silent
  <2> QED BY <2>1, SilentTyped
<1>2. CASE WriteSigdb
  BY <1>2 DEF WriteSigdb
<1>3. CASE ReadStates
  <2>1. PICK sbKnown, setupKnown, exit, text, again :
          rows' = StateRows(sbKnown, setupKnown, exit, text, again)
    BY <1>3 DEF ReadStates
  <2> QED BY <1>0, <2>1, RowTypes DEF StateRows, Typed
<1>4. CASE OwnershipRows
  <2>1. PICK again \in PathMatches, owner \in {"EXEC_FAILED", "OUTPUT_UNPARSEABLE", "parsed"} :
          rows' = IF mokutil # "trusted" THEN Fill({OwnerRow, MokRow}, ToolRow(again))
                  ELSE [n \in {OwnerRow, MokRow} |->
                         IF n = OwnerRow THEN IF owner = "parsed" THEN Row("OK") ELSE Skip(owner)
                         ELSE IF ~listed.read THEN Skip("EXEC_FAILED")
                         ELSE Row(IF mok.count = 0 THEN "OK" ELSE "WARN")]
    BY <1>4 DEF OwnershipRows
  <2>2. CASE mokutil # "trusted"
    BY <2>1, <2>2, FillTyped, RowTypes
  <2>3. CASE mokutil = "trusted"
    BY <1>0, <2>1, <2>3, RowTypes DEF Typed
  <2> QED BY <2>2, <2>3
<1>5. CASE CheckDb \/ CheckDbx \/ CheckDbxSize \/ CheckDbKeys
  <2>1. \A v : SigdbRow(v) \in AllRows /\ DbxSize(v) \in AllRows /\ DbKeys(v) \in AllRows
    BY <1>0, RowTypes DEF SigdbRow, DbxSize, DbKeys
  <2>2. \E names, v : rows' \in {Fill(names, SigdbRow(v)), Fill(names, DbxSize(v)), Fill(names, DbKeys(v))}
    BY <1>5 DEF CheckDb, CheckDbx, CheckDbxSize, CheckDbKeys
  <2> QED BY <2>1, <2>2, FillTyped
<1>6. CASE PolicyRows
  <2> HIDE DEF Section
  <2>1. PICK v \in {"absent", "unreadable", "too large", "empty", "no line", "line"},
             again \in PathMatches, capture \in Captures, microsoft \in BOOLEAN,
             mounts \in {"unreadable", "too long", "absent", "ro", "rw"} :
          Section("policies",
            [n \in {SbatRow, BreadthRow, EfivarfsRow} |->
              IF n = SbatRow THEN SbatLevel(v)
              ELSE IF n = EfivarfsRow THEN Efivarfs(mounts)
              ELSE IF mokutil # "trusted" THEN ToolRow(again)
              ELSE Breadth(capture, microsoft)],
            "sbctl")
    BY <1>6, Zenon DEF PolicyRows
  <2>2. SbatLevel(v) \in AllRows /\ Efivarfs(mounts) \in AllRows /\ Breadth(capture, microsoft) \in AllRows
    BY <1>0, RowTypes DEF SbatLevel, Efivarfs, Breadth
  <2> QED BY <2>1, <2>2, RowTypes DEF Section, Typed
<1>7. CASE CheckSbctl
  <2>1. PICK match, capture, installed, owner :
          rows' = Fill({SbctlRow}, Sbctl(match, capture, installed, owner))
    BY <1>7 DEF CheckSbctl
  <2>2. Sbctl(match, capture, installed, owner) \in AllRows
    BY <1>0, RowTypes DEF Sbctl
  <2> QED BY <2>1, <2>2, FillTyped
<1> QED BY <1>1, <1>2, <1>3, <1>4, <1>5, <1>6, <1>7 DEF SecureBootNext

LEMMA EspRowsTyped == Typed(rows) /\ EspNext => Typed(rows')
<1> SUFFICES ASSUME Typed(rows), EspNext PROVE Typed(rows')
  OBVIOUS
<1> USE DEF Section
<1>0. {"FEATURE_ABSENT", "EXEC_FAILED", "PROBE_INDETERMINATE", "OUTPUT_UNPARSEABLE",
       "SUBJECT_ABSENT"} \subseteq SkipReasons
  BY DEF SkipReasons
<1>1. CASE BeginEsp \/ EndEsp
  <2>1. rows' = <<>>
    BY <1>1 DEF BeginEsp, EndEsp, Silent
  <2> QED BY <2>1, SilentTyped
<1>2. CASE MovePartition \/ ReplaceFile \/ ChangeCapsules
  BY <1>2 DEF MovePartition, ReplaceFile, ChangeCapsules
<1>3. CASE CheckPermissions
  <2>1. PICK boot, safe :
          rows' = [n \in boot \cup {OwnershipRow} |->
                    IF n = OwnershipRow /\ present = {} THEN Skip("FEATURE_ABSENT")
                    ELSE Row(IF safe[n] THEN "OK" ELSE "WARN")]
    BY <1>3 DEF CheckPermissions
  <2> QED BY <1>0, <2>1, RowTypes DEF Typed
<1>4. CASE CheckFilesystem
  <2>1. \E row \in AllRows : rows' = Fill({FilesystemRow}, row)
    BY <1>0, <1>4, RowTypes DEF CheckFilesystem
  <2> QED BY <2>1, FillTyped
<1>5. CASE CheckVendors
  <2>1. \E row \in AllRows : rows' = Fill({VendorRow}, row)
    BY <1>0, <1>5, RowTypes DEF CheckVendors
  <2> QED BY <2>1, FillTyped
<1>6. CASE HashFallback
  <2>1. rows' = <<>> \/ \E row \in AllRows : rows' = Fill({FallbackRow}, row)
    BY <1>0, <1>6, RowTypes DEF HashFallback, Silent
  <2> QED BY <2>1, FillTyped, SilentTyped
<1>7. CASE HashShim
  <2>1. \A other : ComparedRow(hash, other) \in AllRows
    BY <1>0, RowTypes DEF ComparedRow
  <2>2. \E row \in AllRows : rows' = Fill({FallbackRow}, row)
    BY <1>0, <1>7, <2>1, RowTypes DEF HashShim
  <2> QED BY <2>2, FillTyped
<1>8. CASE FindCapsules
  <2>1. rows' = <<>> \/ \E row \in AllRows : rows' = Fill({CapsuleRow}, row)
    BY <1>0, <1>8, RowTypes DEF FindCapsules, Silent
  <2> QED BY <2>1, FillTyped, SilentTyped
<1>9. CASE CountCapsules
  <2>1. \A errno : OpenErrorRow(errno) \in AllRows
    BY <1>0, RowTypes DEF OpenErrorRow
  <2>2. \E row \in AllRows : rows' = Fill({CapsuleRow}, row)
    BY <1>9, <2>1, RowTypes DEF CountCapsules
  <2> QED BY <2>2, FillTyped
<1> QED BY <1>1, <1>2, <1>3, <1>4, <1>5, <1>6, <1>7, <1>8, <1>9 DEF EspNext

LEMMA PlatformRowsTyped == Typed(rows) /\ PlatformNext => Typed(rows')
<1> SUFFICES ASSUME Typed(rows), PlatformNext PROVE Typed(rows')
  OBVIOUS
<1> USE DEF Section
<1>0. {"FEATURE_ABSENT", "EXEC_FAILED", "OUTPUT_UNPARSEABLE", "REPORT_FIELD_ABSENT",
       "NOT_CONFIGURED", "HW_ABSENT", "VENDOR_SCOPE"} \subseteq SkipReasons
  BY DEF SkipReasons
<1>1. CASE ReadDomain \/ DirectoryFails \/ Hotplug
  BY <1>1 DEF ReadDomain, DirectoryFails, Hotplug
<1>2. CASE EndDma
  <2>1. rows' = <<>>
    BY <1>2 DEF EndDma, Silent
  <2> QED BY <2>1, SilentTyped
<1>3. CASE CheckEfi \/ CheckIommu
  <2>1. \A groups, words : PostureRow(groups, words) \in AllRows
    BY RowTypes DEF PostureRow
  <2>2. CASE CheckEfi
    BY <1>0, <2>2, RowTypes DEF CheckEfi, Typed
  <2>3. CASE CheckIommu
    <3>1. PICK groups \in BOOLEAN, cmdline \in BOOLEAN, words \in SUBSET CmdlineWords :
            rows' = [n \in {"IOMMU groups", "IOMMU DMA posture"} |->
                      IF n = "IOMMU groups" \/ ~cmdline THEN Verdict(groups)
                      ELSE PostureRow(groups, words)]
      BY <2>3 DEF CheckIommu
    <3> QED BY <2>1, <3>1, RowTypes DEF Typed
  <2> QED BY <1>3, <2>2, <2>3
<1>4. CASE CheckTpm
  <2>1. \A match, capture, parsed, maxAuthFail :
          LockoutRow(match, capture, parsed, maxAuthFail) \in AllRows
    BY <1>0, RowTypes DEF LockoutRow
  <2>2. CASE rows' = Add(Fill({"TPM presence"}, Row("WARN")),
                         Fill(PcrRows \cup {"DA lockout", LogRow, AsciiRow}, Skip("HW_ABSENT")))
    BY <1>0, <2>2, RowTypes, AddTyped, FillTyped
  <2>3. CASE \E version2, parsed, match, capture, maxAuthFail :
               rows' = Add(Fill({"TPM presence"}, Verdict(version2)),
                           Fill({"DA lockout"}, LockoutRow(match, capture, parsed, maxAuthFail)))
    BY <2>1, <2>3, RowTypes, AddTyped, FillTyped
  <2> QED BY <1>4, <2>2, <2>3 DEF CheckTpm
<1>5. CASE CheckTpmRegisters
  <2>1. \A match, capture, digest : PcrRow(match, capture, digest) \in AllRows
    BY <1>0, RowTypes DEF PcrRow
  <2>2. \A binary, ascii : Typed(LogRows(binary, ascii))
    BY <1>0, RowTypes DEF LogRows, Typed
  <2>3. PICK match \in PathMatches, capture \in [PcrRows -> Captures],
             digest \in [PcrRows -> {"none", "zero", "measured"}],
             binary \in BOOLEAN, ascii \in {"absent", "S-CRTM Version", "other"} :
          rows' = Add([n \in PcrRows |-> PcrRow(match, capture[n], digest[n])], LogRows(binary, ascii))
    BY <1>5 DEF CheckTpmRegisters
  <2>4. Typed([n \in PcrRows |-> PcrRow(match, capture[n], digest[n])])
    BY <2>1 DEF Typed
  <2> QED BY <2>2, <2>3, <2>4, AddTyped
<1>6. CASE CheckBiosCntl \/ CheckMeVersion \/ CheckDci \/ CheckChipsec
  <2>1. \A byte, enabled, locked : BiosCntlRow(byte) \in AllRows /\ DciRow(enabled, locked) \in AllRows
    BY RowTypes DEF BiosCntlRow, DciRow
  <2>2. \E names : \E row \in AllRows : rows' = Fill(names, row)
    <3>1. CASE CheckBiosCntl
      BY <1>0, <2>1, <3>1, RowTypes DEF CheckBiosCntl
    <3>2. CASE CheckMeVersion
      BY <1>0, <3>2, RowTypes DEF CheckMeVersion
    <3>3. CASE CheckDci
      BY <1>0, <2>1, <3>3, RowTypes DEF CheckDci
    <3>4. CASE CheckChipsec
      <4>1. Skip("NOT_CONFIGURED") \in AllRows /\ SkipActionable("TOOL_ABSENT") \in AllRows
        BY RowTypes DEF SkipReasons
      <4> QED BY <3>4, <4>1, RowTypes DEF CheckChipsec
    <3> QED BY <1>6, <3>1, <3>2, <3>3, <3>4
  <2> QED BY <2>2, FillTyped
<1>7. CASE FindController
  <2>1. rows' = <<>> \/ \E row \in AllRows : rows' = Fill({DmaRow}, row)
    BY <1>0, <1>7, RowTypes DEF FindController, Silent
  <2> QED BY <2>1, FillTyped, SilentTyped
<1>8. CASE EmitDma
  <2>1. \E row \in AllRows : rows' = Fill({DmaRow}, row)
    BY <1>0, <1>8, RowTypes DEF EmitDma
  <2> QED BY <2>1, FillTyped
<1>9. CASE CheckMicrocode
  <2>1. /\ \A vendor, revision : MicrocodeRow(vendor, revision) \in AllRows
        /\ \A said : VulnerabilitiesRow(said) \in AllRows
        /\ \A match : ScanRow(match) \in AllRows
    BY <1>0, RowTypes DEF MicrocodeRow, VulnerabilitiesRow, ScanRow
  <2>2. PICK vendor \in Vendors, revision \in BOOLEAN,
             said \in SUBSET {"vulnerable", "unknown", "mitigated"}, match \in PathMatches :
          rows' = Add(Fill({"CPU microcode"}, MicrocodeRow(vendor, revision)),
                      Add(Fill({"CPU vulnerabilities"}, VulnerabilitiesRow(said)),
                          Fill({"CPU vulnerability scan"}, ScanRow(match))))
    BY <1>9 DEF CheckMicrocode
  <2>3. Typed(Add(Fill({"CPU vulnerabilities"}, VulnerabilitiesRow(said)),
                  Fill({"CPU vulnerability scan"}, ScanRow(match))))
    BY <2>1, AddTyped, FillTyped
  <2> QED BY <2>1, <2>2, <2>3, AddTyped, FillTyped
<1>10. CASE CheckMemoryEncryption
  <2>1. \E row \in AllRows : rows' = Fill({"memory encryption"}, row)
    BY <1>0, <1>10, RowTypes DEF CheckMemoryEncryption
  <2> QED BY <2>1, FillTyped
<1> QED BY <1>1, <1>2, <1>3, <1>4, <1>5, <1>6, <1>7, <1>8, <1>9, <1>10 DEF PlatformNext

\* What is left of TypeOK.
SecureBootTypes ==
  /\ mokutil \in PathMatches /\ efiVisible \in BOOLEAN
  /\ mok.more \in Nat /\ DOMAIN mok.names \subseteq 1..MaxNames
  /\ changed \subseteq {"db", "dbx"}

HashType == hash \in {NoHash, 0, 1}

DomainTypes ==
  /\ stayed \subseteq plugged /\ plugged \subseteq Domains
  /\ readable \in Nat /\ unprotected \in 0..readable

LEMMA SecureBootTypesKept == SecureBootTypes /\ SecureBootNext => SecureBootTypes'
<1> SUFFICES ASSUME SecureBootTypes, SecureBootNext PROVE SecureBootTypes'
  OBVIOUS
<1> USE DEF SecureBootTypes
<1>1. CASE ProbeOwnership
  <2> DEFINE j == JoinNames(listed'.keys)
  <2>0. Joined(j, listed'.keys) /\ mok' = j
    BY <1>1, ListedKeys, NamesJoined DEF ProbeOwnership
  <2> HIDE DEF j
  <2>1. mok'.more \in Nat /\ DOMAIN mok'.names \subseteq 1..MaxNames
    <3>1. j.more \in Nat /\ j.names \in Seq(PrintedName) /\ Len(j.names) <= MaxNames
      BY <2>0 DEF Joined
    <3>2. DOMAIN j.names = 1..Len(j.names) /\ Len(j.names) \in Nat /\ MaxNames \in Nat
      BY <3>1, SecureBootAssumption
    <3> QED BY <2>0, <3>1, <3>2
  <2>2. UNCHANGED <<mokutil, efiVisible, changed>>
    BY <1>1 DEF ProbeOwnership
  <2> QED BY <2>1, <2>2
<1>2. CASE BeginSecureBoot \/ CheckDb \/ CheckDbx \/ EndSigdbs \/ WriteSigdb
  BY <1>2 DEF BeginSecureBoot, CheckDb, CheckDbx, EndSigdbs, WriteSigdb
<1>3. CASE CheckDbxSize \/ CheckDbKeys \/ CheckSbctl
  <2>1. UNCHANGED secureBootVars
    BY <1>3 DEF CheckDbxSize, CheckDbKeys, CheckSbctl
  <2> QED BY <2>1 DEF secureBootVars
<1>4. CASE OwnershipRows
  <2>1. mok' = CutNames(mok) /\ UNCHANGED <<mokutil, efiVisible, changed>>
    BY <1>4 DEF OwnershipRows
  <2>2. mok'.more \in {0, mok.more} /\ DOMAIN mok'.names \subseteq DOMAIN mok.names
    BY <2>1 DEF CutNames
  <2> QED BY <2>1, <2>2
<1>5. CASE PolicyRows
  <2>1. efiVisible' = FALSE /\ mokutil' = "none" /\ UNCHANGED <<mok, changed>>
    BY <1>5 DEF PolicyRows
  <2> QED BY <2>1 DEF PathMatches
<1>6. CASE ReadStates
  <2>1. UNCHANGED <<efiVisible, mokutil, mok, changed>>
    BY <1>6 DEF ReadStates
  <2> QED BY <2>1
<1>7. CASE LookForEfi
  <2>1. mok'.more = 0 /\ mok'.names = <<>> /\ efiVisible' \in BOOLEAN /\ UNCHANGED <<mokutil, changed>>
    BY <1>7 DEF LookForEfi, NoMok
  <2>2. DOMAIN mok'.names = {}
    BY <2>1
  <2> QED BY <2>1, <2>2
<1> QED BY <1>1, <1>2, <1>3, <1>4, <1>5, <1>6, <1>7 DEF SecureBootNext

LEMMA HashTypeKept == HashType /\ FileInv /\ EspNext => HashType'
<1> SUFFICES ASSUME HashType, FileInv, EspNext PROVE HashType'
  OBVIOUS
<1>1. files.fallback \in {0, 1}
  BY FileTypes DEF FileInv
<1>2. CASE HashFallback
  BY <1>1, <1>2 DEF HashFallback, HashType
<1>3. CASE EndEsp
  BY <1>3 DEF EndEsp, HashType
<1>4. UNCHANGED hash \/ HashFallback \/ EndEsp
  BY DEF EspNext, BeginEsp, CheckPermissions, CheckFilesystem, CheckVendors, HashShim, FindCapsules,
         CountCapsules, MovePartition, ReplaceFile, ChangeCapsules, fileVars
<1> QED BY <1>2, <1>3, <1>4 DEF HashType

LEMMA DomainTypesKept == DomainTypes /\ PlatformNext => DomainTypes'
<1> SUFFICES ASSUME DomainTypes, PlatformNext PROVE DomainTypes'
  OBVIOUS
<1> USE DEF DomainTypes
<1>1. CASE UNCHANGED platformVars
  BY <1>1 DEF platformVars
<1>2. CASE FindController \/ DirectoryFails \/ Hotplug \/ EndDma
  BY <1>2 DEF FindController, DirectoryFails, Hotplug, EndDma
<1>3. CASE ReadDomain
  <2>1. /\ stayed' = stayed /\ plugged' = plugged
        /\ \/ UNCHANGED <<readable, unprotected>>
           \/ readable' = readable + 1 /\ unprotected' \in {unprotected, unprotected + 1}
    BY <1>3 DEF ReadDomain
  <2> QED BY <2>1
<1> QED BY <1>1, <1>2, <1>3 DEF PlatformNext, CheckEfi, CheckTpm, CheckTpmRegisters, CheckBiosCntl,
    CheckMeVersion, CheckDci, CheckChipsec, CheckIommu, EmitDma, CheckMicrocode, CheckMemoryEncryption

TypeInv == Typed(rows) /\ SecureBootTypes /\ HashType /\ DomainTypes

LEMMA TypeInit == Init => TypeInv
<1> SUFFICES ASSUME Init PROVE TypeInv
  OBVIOUS
<1>1. Typed(rows)
  BY SilentTyped DEF Init
<1>2. SecureBootTypes
  <2>1. mok.more = 0 /\ mok.names = <<>> /\ efiVisible = FALSE /\ mokutil = "none" /\ changed = {}
    BY DEF Init, SecureBootInit, NoMok
  <2>2. DOMAIN mok.names = {}
    BY <2>1
  <2>3. mok.more \in Nat /\ DOMAIN mok.names \subseteq 1..MaxNames
    BY <2>1, <2>2
  <2> QED BY <2>1, <2>3 DEF SecureBootTypes, PathMatches
<1>3. HashType /\ DomainTypes
  BY DEF Init, EspInit, PlatformInit, HashType, DomainTypes
<1> QED BY <1>1, <1>2, <1>3 DEF TypeInv

LEMMA TypeStep == TypeInv /\ FileInv /\ [Next]_vars => TypeInv'
<1> SUFFICES ASSUME TypeInv, FileInv, [Next]_vars PROVE TypeInv'
  OBVIOUS
<1>1. Typed(rows) /\ SecureBootTypes /\ HashType /\ DomainTypes
  BY DEF TypeInv
<1>2. UNCHANGED secureBootVars => SecureBootTypes'
  BY <1>1 DEF secureBootVars, SecureBootTypes
<1>3. UNCHANGED espVars => HashType'
  BY <1>1 DEF espVars, HashType
<1>4. UNCHANGED platformVars => DomainTypes'
  BY <1>1 DEF platformVars, DomainTypes
<1>5. CASE SecureBootNext /\ UNCHANGED <<espVars, platformVars>>
  BY <1>1, <1>3, <1>4, <1>5, SecureBootRowsTyped, SecureBootTypesKept DEF TypeInv
<1>6. CASE EspNext /\ UNCHANGED <<secureBootVars, platformVars>>
  BY <1>1, <1>2, <1>4, <1>6, EspRowsTyped, HashTypeKept DEF TypeInv
<1>7. CASE PlatformNext /\ UNCHANGED <<secureBootVars, espVars>>
  BY <1>1, <1>2, <1>3, <1>7, PlatformRowsTyped, DomainTypesKept DEF TypeInv
<1>8. CASE UNCHANGED vars
  <2>1. UNCHANGED <<rows, secureBootVars, espVars, platformVars>>
    BY <1>8 DEF vars
  <2> QED BY <1>1, <1>2, <1>3, <1>4, <2>1 DEF TypeInv
<1> QED BY <1>5, <1>6, <1>7, <1>8 DEF Next, Returned

\* Types of the posture checks' variables.  A row that skips has one of the
\* reasons of skip_reason_t, whichever file, variable or helper failed.
THEOREM TypeCorrect == Spec => []TypeOK
<1>1. TypeInv /\ PlaceInv /\ FileInv /\ SigdbInv /\ StateInv => TypeOK
  <2> SUFFICES ASSUME TypeInv, PlaceInv, FileInv, SigdbInv, StateInv PROVE TypeOK
    OBVIOUS
  <2>1. \A n \in DOMAIN rows : rows[n] \in AllRows
    BY DEF TypeInv, Typed
  <2>2. base \in 0..Candidates /\ present \subseteq Places
    BY EspAssumption DEF PlaceInv, Places
  <2>3. {efiVisible, late, moved, capsules, misread, wasTrue} \subseteq BOOLEAN
    BY DEF TypeInv, SecureBootTypes, StateInv, PlaceInv, FileInv
  <2>4. {db.state, dbx.state} \subseteq {"missing", "unreadable", "present"}
    BY DEF SigdbInv
  <2> QED BY <2>1, <2>2, <2>3, <2>4 DEF TypeOK, TypeInv, SecureBootTypes, HashType, DomainTypes
<1> QED BY <1>1, TypeInit, TypeStep, PlaceInit, PlaceStep, FileInit, FileStep, SigdbInit, SigdbStep,
           StateInit, StateStep, PTL DEF Spec
=============================================================================
