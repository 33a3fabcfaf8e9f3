----------------------------- MODULE LuksProofs -----------------------------
(***************************************************************************)
(* Proofs about Luks, for every set of headers and every number of         *)
(* volumes: the counters add up, the mask kept is the one with the fewest  *)
(* PCRs, and a row that is ok holds for every volume, however the texts of *)
(* the dumps were cut short.                                               *)
(*                                                                         *)
(* Two facts carry the argument.  A text cut short can only lose what the  *)
(* ok rows look for: the number at the cut is at most 3, and no row asks   *)
(* for PCRs 0 to 3 (ReadingsLose).  And a counter that is 0 means that no  *)
(* header read so far is of its kind (TallyInv), which makes a verdict on  *)
(* counters one on volumes.                                                *)
(***************************************************************************)
EXTENDS Luks, FiniteSetTheorems, TLAPS

CountNames == {"luks1", "luks2", "unknown", "integrity", "noToken", "clevis",
               "tokens", "unparsed", "signed"}

\* Types, and the volumes accounted for: visited or still to visit.
TypeInv ==
  /\ pc \in {"list", "gate", "dump", "rows", "done"}
  /\ tpmPresent \in BOOLEAN
  /\ left \in Nat /\ failed \in Nat
  /\ dumped \in Seq(Headers)
  /\ read \in Seq(LuksHeader)
  /\ Len(read) = Len(dumped)
  /\ \A i \in DOMAIN read : read[i] \in Readings(dumped[i])
  /\ counts \in [CountNames -> Nat]
  /\ weakest \in SUBSET AllPcrs /\ signedWeakest \in SUBSET AllPcrs
  /\ Len(read) + failed + left <= MaxVolumes
  /\ pc \in {"list", "gate"} => left = 0 /\ failed = 0 /\ read = <<>>

\* The rows that are there before the volumes have been judged.
RowsInv ==
  /\ \A n \in DOMAIN rows : rows[n] \in AllRows
  /\ DOMAIN rows \subseteq AllNames
  /\ pc # "done" => DOMAIN rows \subseteq {DevicesRow}

\* No counter exceeds the headers read, and one that is 0 (or, for integrity,
\* below their number) tells what none (not all) of them is.
TallyInv ==
  /\ \A c \in CountNames : counts[c] <= Len(read)
  /\ \A i \in DOMAIN read :
       /\ read[i].version = 0 => counts.unknown > 0
       /\ read[i].version = 1 => counts.luks1 > 0
       /\ counts.integrity = Len(read) => read[i].integrity
       /\ read[i].token = "none" => counts.noToken > 0
       /\ read[i].token = "clevis" => counts.clevis > 0
       /\ read[i].token = "tpm2" /\ ~HasHash(read[i]) /\ ~HasSigned(read[i]) =>
            counts.unparsed > 0

IInv == TypeInv /\ RowsInv /\ TallyInv /\ EveryHeaderCounted /\ WeakestIsFewest
          /\ OkHoldsForEveryVolume /\ HashOkMeansCovered
-----------------------------------------------------------------------------
\* Of a list cut short only its last number can be a new one, and then it is
\* at most 3.
LEMMA CutListsLose ==
  ASSUME NEW S \in SUBSET AllPcrs, NEW C \in CutLists(S)
  PROVE  /\ C \in SUBSET AllPcrs
         /\ S # {}
         /\ \A p \in C : p > 3 => p \in S
<1>1. PICK m \in S : C \in {{p \in S : p < m}}
                      \cup (IF m > 9 THEN {{p \in S : p < m} \cup {m \div 10}} ELSE {})
  BY DEF CutLists
<1>2. m \in 0..31
  BY <1>1 DEF AllPcrs
<1>3. CASE C = {p \in S : p < m}
  BY <1>3
<1>4. CASE m > 9 /\ C = {p \in S : p < m} \cup {m \div 10}
  <2> DEFINE k == m \div 10
  <2>1. k \in 0..3
    BY <1>2
  <2>2. \A p \in C : p \in S \/ p = k
    BY <1>4
  <2> HIDE DEF k
  <2>3. C \in SUBSET AllPcrs
    <3>1. \A p \in S : p \in AllPcrs
      OBVIOUS
    <3>2. k \in AllPcrs
      BY <2>1 DEF AllPcrs
    <3> QED BY <2>2, <3>1, <3>2
  <2>4. \A p \in C : p > 3 => p \in S
    BY <2>1, <2>2
  <2> QED BY <1>1, <2>3, <2>4
<1> QED BY <1>1, <1>3, <1>4

\* What the parsers make of a dump cut short is a header that claims nothing
\* that a row asks for and the volume does not have.
LEMMA ReadingsLose ==
  ASSUME NEW full \in LuksHeader, NEW h \in Readings(full)
  PROVE  /\ h \in LuksHeader
         /\ h.version = 2 => full.version = 2
         /\ h.version # 0 => full.version = h.version
         /\ h.integrity => full.integrity
         /\ h.token = "tpm2" => full.token = "tpm2"
         /\ HasHash(h) => HasHash(full)
         /\ \A p \in h.hash : p > 3 => p \in full.hash
<1> DEFINE seg == [full EXCEPT !.token = "none", !.hash = {}, !.signed = {}]
           ver == [seg EXCEPT !.integrity = FALSE]
<1>1. CASE h \in {full, seg, ver, [ver EXCEPT !.version = 0],
                  [full EXCEPT !.hash = {}, !.signed = {}]}
  <2>1. CASE h = full
    BY <2>1
  <2>2. CASE h = seg
    BY <2>2 DEF LuksHeader, HasHash
  <2>3. CASE h = ver
    BY <2>3 DEF LuksHeader, HasHash
  <2>4. CASE h = [ver EXCEPT !.version = 0]
    <3>1. ver \in LuksHeader /\ ver.token = "none" /\ ver.hash = {} /\ ver.integrity = FALSE
      BY DEF LuksHeader
    <3> HIDE DEF ver
    <3> QED BY <2>4, <3>1 DEF LuksHeader, HasHash
  <2>5. CASE h = [full EXCEPT !.hash = {}, !.signed = {}]
    BY <2>5 DEF LuksHeader, HasHash
  <2> HIDE DEF seg, ver
  <2> QED BY <1>1, <2>1, <2>2, <2>3, <2>4, <2>5
<1>2. CASE \E S \in CutLists(full.hash) : h = [full EXCEPT !.hash = S, !.signed = {}]
  <2>1. PICK S \in CutLists(full.hash) : h = [full EXCEPT !.hash = S, !.signed = {}]
    BY <1>2
  <2>2. /\ S \in SUBSET (0..31) /\ full.hash # {}
        /\ \A p \in S : p > 3 => p \in full.hash
    BY <2>1, CutListsLose DEF LuksHeader, AllPcrs
  <2> QED BY <2>1, <2>2 DEF LuksHeader, HasHash
<1>3. CASE \E S \in CutLists(full.signed) : h = [full EXCEPT !.signed = S]
  <2>1. PICK S \in CutLists(full.signed) : h = [full EXCEPT !.signed = S]
    BY <1>3
  <2>2. S \in SUBSET (0..31)
    BY <2>1, CutListsLose DEF LuksHeader, AllPcrs
  <2> QED BY <2>1, <2>2 DEF LuksHeader, HasHash
<1> QED BY <1>1, <1>2, <1>3 DEF Readings
-----------------------------------------------------------------------------
\* The constructors make rows.
LEMMA RowTypes ==
  /\ \A s \in {"OK", "WARN", "FAIL"} : Row(s) \in AllRows /\ Row(s).state = s
  /\ \A r \in SkipReasons :
       /\ Skip(r) \in AllRows /\ Skip(r).state = "SKIP"
       /\ SkipActionable(r) \in AllRows /\ SkipActionable(r).state = "SKIP"
       /\ SkipRoot(r) \in AllRows /\ SkipRoot(r).state = "SKIP"
  /\ \A match : ToolRow(match) \in AllRows /\ ToolRow(match).state \in {"WARN", "SKIP"}
<1>1. \A s \in {"OK", "WARN", "FAIL"} : Row(s) \in AllRows /\ Row(s).state = s
  BY DEF Row, AllRows
<1>2. ASSUME NEW r \in SkipReasons
      PROVE  /\ Skip(r) \in AllRows /\ Skip(r).state = "SKIP"
             /\ SkipActionable(r) \in AllRows /\ SkipActionable(r).state = "SKIP"
             /\ SkipRoot(r) \in AllRows /\ SkipRoot(r).state = "SKIP"
  <2> DEFINE skips == [state : {"SKIP"}, reason : SkipReasons, root : BOOLEAN,
                       actionable : BOOLEAN]
  <2>1. Row("SKIP") \in [state : {"SKIP"}, reason : {"NONE"}, root : BOOLEAN,
                         actionable : BOOLEAN]
    BY DEF Row
  <2>2. Skip(r) \in skips
    BY <2>1 DEF Skip
  <2>3. SkipActionable(r) \in skips /\ SkipRoot(r) \in skips
    BY <2>2 DEF SkipActionable, SkipRoot
  <2> QED BY <2>2, <2>3 DEF AllRows
<1>3. ASSUME NEW match
      PROVE  ToolRow(match) \in AllRows /\ ToolRow(match).state \in {"WARN", "SKIP"}
  <2>1. "TOOL_ABSENT" \in SkipReasons
    BY DEF SkipReasons
  <2> QED BY <1>1, <1>2, <2>1 DEF ToolRow
<1> QED BY <1>1, <1>2, <1>3

\* A counter grows by one for a header of its kind, and else stays.
LEMMA TallyCounts ==
  ASSUME NEW h, counts \in [CountNames -> Nat]
  PROVE  LET add(b) == IF b THEN 1 ELSE 0
         IN /\ Tally(h) \in [CountNames -> Nat]
            /\ \A c \in CountNames : Tally(h)[c] \in {counts[c], counts[c] + 1}
            /\ Tally(h).luks1 = counts.luks1 + add(h.version = 1)
            /\ Tally(h).luks2 = counts.luks2 + add(h.version = 2)
            /\ Tally(h).unknown = counts.unknown + add(h.version = 0)
            /\ Tally(h).integrity = counts.integrity + (IF h.integrity THEN 1 ELSE 0)
            /\ Tally(h).noToken = counts.noToken + add(h.token = "none")
            /\ Tally(h).clevis = counts.clevis + add(h.token = "clevis")
            /\ Tally(h).tokens = counts.tokens + add(h.token = "tpm2")
            /\ Tally(h).unparsed = counts.unparsed
                 + add(h.token = "tpm2" /\ ~HasHash(h) /\ ~HasSigned(h))
            /\ Tally(h).signed = counts.signed + add(HasSigned(h))
<1>1. ASSUME NEW c \in CountNames, NEW d \in {0, 1}
      PROVE  counts[c] + d \in Nat /\ counts[c] + d \in {counts[c], counts[c] + 1}
  OBVIOUS
<1> DEFINE t == Tally(h)
<1>2. /\ t.luks1 = counts.luks1 + (IF h.version = 1 THEN 1 ELSE 0)
      /\ t.luks2 = counts.luks2 + (IF h.version = 2 THEN 1 ELSE 0)
      /\ t.unknown = counts.unknown + (IF h.version = 0 THEN 1 ELSE 0)
      /\ t.integrity = counts.integrity + (IF h.integrity THEN 1 ELSE 0)
      /\ t.noToken = counts.noToken + (IF h.token = "none" THEN 1 ELSE 0)
      /\ t.clevis = counts.clevis + (IF h.token = "clevis" THEN 1 ELSE 0)
      /\ t.tokens = counts.tokens + (IF h.token = "tpm2" THEN 1 ELSE 0)
      /\ t.unparsed = counts.unparsed
           + (IF h.token = "tpm2" /\ ~HasHash(h) /\ ~HasSigned(h) THEN 1 ELSE 0)
      /\ t.signed = counts.signed + (IF HasSigned(h) THEN 1 ELSE 0)
  BY DEF Tally, CountNames
<1>3. t = [c \in CountNames |-> t[c]]
  <2> DEFINE e(f, x, v) == [f EXCEPT ![x] = v]
             luks == e(e(e(counts,
               "luks1", counts.luks1 + (IF h.version = 1 THEN 1 ELSE 0)),
               "luks2", counts.luks2 + (IF h.version = 2 THEN 1 ELSE 0)),
               "unknown", counts.unknown + (IF h.version = 0 THEN 1 ELSE 0))
             token == e(e(e(luks,
               "integrity", counts.integrity + (IF h.integrity THEN 1 ELSE 0)),
               "noToken", counts.noToken + (IF h.token = "none" THEN 1 ELSE 0)),
               "clevis", counts.clevis + (IF h.token = "clevis" THEN 1 ELSE 0))
             all == e(e(e(token,
               "tokens", counts.tokens + (IF h.token = "tpm2" THEN 1 ELSE 0)),
               "unparsed", counts.unparsed
                 + (IF h.token = "tpm2" /\ ~HasHash(h) /\ ~HasSigned(h) THEN 1 ELSE 0)),
               "signed", counts.signed + (IF HasSigned(h) THEN 1 ELSE 0))
             Whole(f) == f = [c \in CountNames |-> f[c]]
  <2>1. \A f, x, v : Whole(f) => Whole(e(f, x, v))
    BY Zenon
  <2>2. Whole(counts)
    OBVIOUS
  <2>3. t = all
    BY Zenon DEF Tally
  <2>4. Whole(luks)
    <3> HIDE DEF e, Whole
    <3> QED BY <2>1, <2>2
  <2>5. Whole(token)
    <3> HIDE DEF e, Whole, luks
    <3> QED BY <2>1, <2>4
  <2>6. Whole(all)
    <3> HIDE DEF e, Whole, token
    <3> QED BY <2>1, <2>5
  <2>7. Whole(t)
    <3> HIDE DEF Whole, t, all
    <3> QED BY <2>3, <2>6
  <2> QED BY <2>7
<1> HIDE DEF t
<1>4. \A c \in CountNames : t[c] \in Nat /\ t[c] \in {counts[c], counts[c] + 1}
  BY <1>1, <1>2 DEF CountNames
<1> QED BY <1>2, <1>3, <1>4 DEF t
-----------------------------------------------------------------------------
\* Initially nothing has been listed.
LEMMA InitHolds == Init => IInv
<1> SUFFICES ASSUME Init PROVE IInv
  OBVIOUS
<1> USE DEF Init
<1>1. TypeInv
  <2>1. counts \in [CountNames -> Nat]
    BY DEF ZeroCounts, CountNames
  <2>2. read \in Seq(LuksHeader) /\ dumped \in Seq(Headers) /\ Len(read) = 0 /\ Len(dumped) = 0
    OBVIOUS
  <2>3. \A i \in DOMAIN read : read[i] \in Readings(dumped[i])
    OBVIOUS
  <2>4. weakest \in SUBSET AllPcrs /\ signedWeakest \in SUBSET AllPcrs
    OBVIOUS
  <2>5. Len(read) + failed + left <= MaxVolumes
    BY <2>2, MaxVolumesAssumption
  <2> QED BY <2>1, <2>2, <2>3, <2>4, <2>5 DEF TypeInv
<1>2. RowsInv /\ OkHoldsForEveryVolume /\ HashOkMeansCovered
  BY DEF RowsInv, OkHoldsForEveryVolume, HashOkMeansCovered
<1>3. TallyInv
  BY DEF TallyInv, ZeroCounts, CountNames
<1>4. EveryHeaderCounted
  <2>1. {i \in DOMAIN read : HasHash(read[i])} = {}
    OBVIOUS
  <2> QED BY <2>1, FS_EmptySet DEF EveryHeaderCounted, ZeroCounts
<1>5. WeakestIsFewest
  BY DEF WeakestIsFewest, Parsed
<1> QED BY <1>1, <1>2, <1>3, <1>4, <1>5 DEF IInv

\* The mask kept is one of those seen, or all PCRs, and none has fewer PCRs:
\* that stays so when one more mask is compared.
LEMMA WeakerKeeps ==
  ASSUME NEW M \in SUBSET (SUBSET AllPcrs), NEW w \in M \cup {AllPcrs},
         \A x \in M : Cardinality(w) <= Cardinality(x),
         NEW m \in SUBSET AllPcrs
  PROVE  /\ Weaker(m, w) \in SUBSET AllPcrs
         /\ Weaker(m, w) \in (M \cup {m}) \cup {AllPcrs}
         /\ \A x \in M \cup {m} : Cardinality(Weaker(m, w)) <= Cardinality(x)
<1>1. ASSUME NEW x \in SUBSET AllPcrs PROVE Cardinality(x) \in Nat
  <2>1. IsFiniteSet(AllPcrs)
    <3>1. 0 \in Int /\ 31 \in Int
      OBVIOUS
    <3> QED BY <3>1, FS_Interval DEF AllPcrs
  <2> QED BY <2>1, FS_Subset, FS_CardinalityType
<1>2. Cardinality(m) \in Nat /\ Cardinality(w) \in Nat
  BY <1>1
<1>3. \A x \in M : Cardinality(x) \in Nat
  BY <1>1
<1> QED BY <1>2, <1>3 DEF Weaker

\* One more header has been read.
LEMMA DumpKeeps ==
  ASSUME IInv, NEW full \in Headers, NEW h \in Readings(full), DumpSucceeds(full, h)
  PROVE  IInv'
<1> DEFINE n == Len(read) + 1
<1>1. /\ pc = "dump" /\ pc' = "dump"
      /\ left > 0 /\ left' = left - 1
      /\ dumped' = Append(dumped, full)
      /\ read' = Append(read, h)
      /\ counts' = Tally(h)
      /\ weakest' = IF HasHash(h) THEN Weaker(h.hash, weakest) ELSE weakest
      /\ signedWeakest' = IF HasSigned(h) THEN Weaker(h.signed, signedWeakest)
                          ELSE signedWeakest
      /\ UNCHANGED <<rows, tpmPresent, failed>>
  BY DEF DumpSucceeds
<1>2. full \in LuksHeader /\ h \in LuksHeader
  BY HeadersAssumption, ReadingsLose
<1>3. /\ dumped \in Seq(Headers) /\ read \in Seq(LuksHeader)
      /\ Len(read) = Len(dumped) /\ counts \in [CountNames -> Nat]
  BY DEF IInv, TypeInv
<1>4. /\ Len(read') = n /\ n \in Nat /\ n >= 1 /\ DOMAIN read' = 1..n /\ DOMAIN read = 1..(n - 1)
      /\ read'[n] = h /\ \A i \in 1..(n - 1) : read'[i] = read[i]
      /\ read' \in Seq(LuksHeader)
  BY <1>1, <1>2, <1>3
<1>5. /\ Len(dumped') = n /\ dumped'[n] = full
      /\ \A i \in 1..(n - 1) : dumped'[i] = dumped[i]
      /\ dumped' \in Seq(Headers)
  BY <1>1, <1>3
<1> HIDE DEF n
<1>6. /\ Tally(h) \in [CountNames -> Nat]
      /\ \A c \in CountNames : Tally(h)[c] \in {counts[c], counts[c] + 1}
  BY <1>3, TallyCounts
<1>7. WeakestIsFewest' /\ weakest' \in SUBSET AllPcrs /\ signedWeakest' \in SUBSET AllPcrs
  <2>1. Parsed' = Parsed \cup {h}
    <3>1. Parsed' \subseteq Parsed \cup {h}
      <4> SUFFICES ASSUME NEW i \in 1..n PROVE read'[i] \in Parsed \cup {h}
        BY <1>4 DEF Parsed
      <4>1. i = n \/ i \in 1..(n - 1)
        BY <1>4
      <4> QED BY <4>1, <1>4 DEF Parsed
    <3>2. Parsed \subseteq Parsed' /\ h \in Parsed'
      <4>1. n \in 1..n /\ \A i \in 1..(n - 1) : i \in 1..n
        BY <1>4
      <4> QED BY <4>1, <1>4 DEF Parsed
    <3> QED BY <3>1, <3>2
  <2>2. Parsed \subseteq LuksHeader
    BY <1>3 DEF Parsed
  <2>3. weakest \in SUBSET AllPcrs /\ signedWeakest \in SUBSET AllPcrs
    BY DEF IInv, TypeInv
  <2> DEFINE Hash(P) == {v.hash : v \in {v \in P : HasHash(v)}}
             Signed(P) == {v.signed : v \in {v \in P : HasSigned(v)}}
  <2>4. /\ Hash(Parsed) \in SUBSET (SUBSET AllPcrs)
        /\ Signed(Parsed) \in SUBSET (SUBSET AllPcrs)
        /\ h.hash \in SUBSET AllPcrs /\ h.signed \in SUBSET AllPcrs
    BY <1>2, <2>2 DEF LuksHeader, AllPcrs
  <2>5. /\ weakest \in Hash(Parsed) \cup {AllPcrs}
        /\ \A m \in Hash(Parsed) : Cardinality(weakest) <= Cardinality(m)
        /\ signedWeakest \in Signed(Parsed) \cup {AllPcrs}
        /\ \A m \in Signed(Parsed) : Cardinality(signedWeakest) <= Cardinality(m)
    BY DEF IInv, WeakestIsFewest
  <2>6. /\ Hash(Parsed \cup {h}) = IF HasHash(h) THEN Hash(Parsed) \cup {h.hash} ELSE Hash(Parsed)
        /\ Signed(Parsed \cup {h}) = IF HasSigned(h) THEN Signed(Parsed) \cup {h.signed}
                                      ELSE Signed(Parsed)
    OBVIOUS
  <2> HIDE DEF Hash, Signed
  <2>7. /\ weakest' \in SUBSET AllPcrs
        /\ weakest' \in Hash(Parsed') \cup {AllPcrs}
        /\ \A m \in Hash(Parsed') : Cardinality(weakest') <= Cardinality(m)
    <3>1. CASE HasHash(h)
      <4> DEFINE M == Hash(Parsed)
                 mask == h.hash
      <4>1. /\ M \in SUBSET (SUBSET AllPcrs) /\ weakest \in M \cup {AllPcrs}
            /\ \A x \in M : Cardinality(weakest) <= Cardinality(x)
            /\ mask \in SUBSET AllPcrs
        BY <2>4, <2>5
      <4>2. Hash(Parsed') = M \cup {mask} /\ weakest' = Weaker(mask, weakest)
        BY <3>1, <1>1, <2>1, <2>6 DEF M
      <4> HIDE DEF M, mask
      <4>3. /\ Weaker(mask, weakest) \in SUBSET AllPcrs
            /\ Weaker(mask, weakest) \in (M \cup {mask}) \cup {AllPcrs}
            /\ \A x \in M \cup {mask} : Cardinality(Weaker(mask, weakest)) <= Cardinality(x)
        BY <4>1, WeakerKeeps, Zenon
      <4> QED BY <4>2, <4>3
    <3>2. CASE ~HasHash(h)
      BY <3>2, <1>1, <2>1, <2>3, <2>5, <2>6
    <3> QED BY <3>1, <3>2
  <2>8. /\ signedWeakest' \in SUBSET AllPcrs
        /\ signedWeakest' \in Signed(Parsed') \cup {AllPcrs}
        /\ \A m \in Signed(Parsed') : Cardinality(signedWeakest') <= Cardinality(m)
    <3>1. CASE HasSigned(h)
      <4> DEFINE M == Signed(Parsed)
                 mask == h.signed
      <4>1. /\ M \in SUBSET (SUBSET AllPcrs) /\ signedWeakest \in M \cup {AllPcrs}
            /\ \A x \in M : Cardinality(signedWeakest) <= Cardinality(x)
            /\ mask \in SUBSET AllPcrs
        BY <2>4, <2>5
      <4>2. Signed(Parsed') = M \cup {mask} /\ signedWeakest' = Weaker(mask, signedWeakest)
        BY <3>1, <1>1, <2>1, <2>6 DEF M
      <4> HIDE DEF M, mask
      <4>3. /\ Weaker(mask, signedWeakest) \in SUBSET AllPcrs
            /\ Weaker(mask, signedWeakest) \in (M \cup {mask}) \cup {AllPcrs}
            /\ \A x \in M \cup {mask} : Cardinality(Weaker(mask, signedWeakest)) <= Cardinality(x)
        BY <4>1, WeakerKeeps, Zenon
      <4> QED BY <4>2, <4>3
    <3>2. CASE ~HasSigned(h)
      BY <3>2, <1>1, <2>1, <2>3, <2>5, <2>6
    <3> QED BY <3>1, <3>2
  <2>9. WeakestIsFewest'
    BY <2>7, <2>8 DEF WeakestIsFewest, Hash, Signed
  <2> QED BY <2>7, <2>8, <2>9
<1>8. TypeInv'
  <2>1. \A i \in DOMAIN read' : read'[i] \in Readings(dumped'[i])
    <3> SUFFICES ASSUME NEW i \in 1..n PROVE read'[i] \in Readings(dumped'[i])
      BY <1>4
    <3>1. i = n \/ i \in 1..(n - 1)
      BY <1>4
    <3> QED BY <3>1, <1>4, <1>5 DEF IInv, TypeInv
  <2>2. left' \in Nat /\ n + failed' + left' <= MaxVolumes /\ failed' \in Nat
    BY <1>1, <1>4, MaxVolumesAssumption DEF IInv, TypeInv, n
  <2> QED BY <1>1, <1>4, <1>5, <1>6, <1>7, <2>1, <2>2 DEF IInv, TypeInv
<1>9. RowsInv'
  BY <1>1 DEF IInv, RowsInv
<1>10. TallyInv'
  <2>1. \A c \in CountNames : counts'[c] <= Len(read') /\ counts[c] <= counts'[c]
    <3> SUFFICES ASSUME NEW c \in CountNames
                 PROVE  counts'[c] <= Len(read') /\ counts[c] <= counts'[c]
      OBVIOUS
    <3>1. counts[c] \in Nat /\ counts[c] <= Len(read) /\ Len(read) \in Nat
      BY <1>3 DEF IInv, TallyInv
    <3>2. counts'[c] \in {counts[c], counts[c] + 1} /\ Len(read') = Len(read) + 1
      BY <1>1, <1>4, <1>6 DEF n
    <3> QED BY <3>1, <3>2
  <2> SUFFICES ASSUME NEW i \in 1..n
               PROVE  /\ read'[i].version = 0 => counts'.unknown > 0
                      /\ read'[i].version = 1 => counts'.luks1 > 0
                      /\ counts'.integrity = Len(read') => read'[i].integrity
                      /\ read'[i].token = "none" => counts'.noToken > 0
                      /\ read'[i].token = "clevis" => counts'.clevis > 0
                      /\ read'[i].token = "tpm2" /\ ~HasHash(read'[i]) /\ ~HasSigned(read'[i]) =>
                           counts'.unparsed > 0
    BY <1>4, <2>1 DEF TallyInv, HasHash, HasSigned
  <2>2. CASE i = n
    <3>1. read'[i] = h
      BY <2>2, <1>4
    <3>2. counts'.integrity = Len(read') => h.integrity
      <4>1. counts'.integrity = counts.integrity + (IF h.integrity THEN 1 ELSE 0)
        BY <1>1, <1>3, TallyCounts
      <4>2. counts.integrity \in Nat /\ counts.integrity <= n - 1
        BY <1>3, <1>4 DEF IInv, TallyInv, CountNames, n
      <4> QED BY <4>1, <4>2, <1>4
    <3>3. /\ h.version = 0 => counts'.unknown = counts.unknown + 1
          /\ h.version = 1 => counts'.luks1 = counts.luks1 + 1
          /\ h.token = "none" => counts'.noToken = counts.noToken + 1
          /\ h.token = "clevis" => counts'.clevis = counts.clevis + 1
          /\ h.token = "tpm2" /\ ~HasHash(h) /\ ~HasSigned(h) =>
               counts'.unparsed = counts.unparsed + 1
      BY <1>1, <1>3, TallyCounts
    <3>4. {counts.unknown, counts.luks1, counts.noToken, counts.clevis, counts.unparsed} \subseteq Nat
      BY <1>3 DEF CountNames
    <3> QED BY <3>1, <3>2, <3>3, <3>4
  <2>3. CASE i # n
    <3>1. i \in 1..(n - 1) /\ read'[i] = read[i] /\ i \in DOMAIN read
      BY <2>3, <1>4
    <3>2. counts'.integrity = Len(read') => counts.integrity = Len(read)
      <4>1. /\ counts'.integrity \in {counts.integrity, counts.integrity + 1}
            /\ counts.integrity \in Nat /\ counts.integrity <= Len(read)
        BY <1>1, <1>3, <1>6 DEF CountNames, IInv, TallyInv
      <4> QED BY <4>1, <1>3, <1>4 DEF n
    <3>3. /\ read[i].version = 0 => counts.unknown > 0
          /\ read[i].version = 1 => counts.luks1 > 0
          /\ counts.integrity = Len(read) => read[i].integrity
          /\ read[i].token = "none" => counts.noToken > 0
          /\ read[i].token = "clevis" => counts.clevis > 0
          /\ read[i].token = "tpm2" /\ ~HasHash(read[i]) /\ ~HasSigned(read[i]) =>
               counts.unparsed > 0
      BY <3>1 DEF IInv, TallyInv
    <3>4. \A c \in {"unknown", "luks1", "noToken", "clevis", "unparsed"} :
            counts[c] \in Nat /\ counts'[c] \in Nat /\ counts[c] <= counts'[c]
      BY <2>1, <1>1, <1>3, <1>6 DEF CountNames
    <3> QED BY <3>1, <3>2, <3>3, <3>4
  <2> QED BY <2>2, <2>3
<1>11. EveryHeaderCounted'
  <2> DEFINE H == {i \in DOMAIN read : HasHash(read[i])}
             H2 == {i \in DOMAIN read' : HasHash(read'[i])}
  <2>1. IsFiniteSet(H) /\ Cardinality(H) \in Nat
    <3>1. IsFiniteSet(DOMAIN read)
      BY <1>4, FS_Interval
    <3> QED BY <3>1, FS_Subset, FS_CardinalityType
  <2>2. H2 = IF HasHash(h) THEN H \cup {n} ELSE H
    <3>1. \A i : i \in 1..n <=> (i = n \/ i \in 1..(n - 1))
      BY <1>4
    <3> QED BY <3>1, <1>4
  <2>3. n \notin H
    BY <1>4
  <2> HIDE DEF H, H2
  <2>4. Cardinality(H2) = Cardinality(H) + (IF HasHash(h) THEN 1 ELSE 0)
    <3>1. Cardinality(H \cup {n}) = Cardinality(H) + 1
      BY <2>1, <2>3, FS_AddElement
    <3> QED BY <2>1, <2>2, <3>1
  <2>5. /\ counts.luks1 + counts.luks2 + counts.unknown = n - 1
        /\ counts.noToken + counts.clevis + counts.tokens = n - 1
        /\ counts.unparsed + counts.signed + Cardinality(H) = counts.tokens
    BY <1>3 DEF IInv, EveryHeaderCounted, H, n
  <2>6. \A c \in CountNames : counts[c] \in Nat
    BY <1>3
  <2>7. /\ counts'.luks1 = counts.luks1 + (IF h.version = 1 THEN 1 ELSE 0)
        /\ counts'.luks2 = counts.luks2 + (IF h.version = 2 THEN 1 ELSE 0)
        /\ counts'.unknown = counts.unknown + (IF h.version = 0 THEN 1 ELSE 0)
        /\ counts'.noToken = counts.noToken + (IF h.token = "none" THEN 1 ELSE 0)
        /\ counts'.clevis = counts.clevis + (IF h.token = "clevis" THEN 1 ELSE 0)
        /\ counts'.tokens = counts.tokens + (IF h.token = "tpm2" THEN 1 ELSE 0)
        /\ counts'.unparsed = counts.unparsed
             + (IF h.token = "tpm2" /\ ~HasHash(h) /\ ~HasSigned(h) THEN 1 ELSE 0)
        /\ counts'.signed = counts.signed + (IF HasSigned(h) THEN 1 ELSE 0)
    BY <1>1, <1>3, TallyCounts
  <2>8. h.version \in {0, 1, 2} /\ h.token \in {"none", "clevis", "tpm2"}
    BY <1>2 DEF LuksHeader
  <2>9. counts'.luks1 + counts'.luks2 + counts'.unknown = n
    <3>1. counts.luks1 \in Nat /\ counts.luks2 \in Nat /\ counts.unknown \in Nat
      BY <2>6 DEF CountNames
    <3>2. n \in Int
      BY <1>4
    <3>3. counts'.luks1 + counts'.luks2 + counts'.unknown
            = counts.luks1 + counts.luks2 + counts.unknown + 1
      BY <3>1, <2>7, <2>8
    <3> QED BY <2>5, <3>1, <3>2, <3>3
  <2>10. counts'.noToken + counts'.clevis + counts'.tokens = n
    <3>1. counts.noToken \in Nat /\ counts.clevis \in Nat /\ counts.tokens \in Nat
      BY <2>6 DEF CountNames
    <3> DEFINE d(b) == IF b THEN 1 ELSE 0
    <3>2. d(h.token = "none") + d(h.token = "clevis") + d(h.token = "tpm2") = 1
      BY <2>8
    <3> DEFINE x == d(h.token = "none")
               y == d(h.token = "clevis")
               z == d(h.token = "tpm2")
    <3>3. x \in Nat /\ y \in Nat /\ z \in Nat
      OBVIOUS
    <3>4. /\ counts'.noToken = counts.noToken + x
          /\ counts'.clevis = counts.clevis + y
          /\ counts'.tokens = counts.tokens + z
          /\ x + y + z = 1
      BY <2>7, <3>2
    <3> HIDE DEF d, x, y, z
    <3>5. (counts.noToken + x) + (counts.clevis + y) + (counts.tokens + z) = n
      <4> DEFINE a == counts.noToken
                 b == counts.clevis
                 c == counts.tokens
      <4>1. n \in Nat /\ a + b + c = n - 1 /\ x + y + z = 1
        BY <1>4, <2>5, <3>4
      <4>2. a \in Nat /\ b \in Nat /\ c \in Nat
        BY <3>1
      <4> HIDE DEF a, b, c
      <4>3. (a + x) + (b + y) + (c + z) = n
        BY <4>1, <4>2, <3>3
      <4> QED BY <4>3 DEF a, b, c
    <3> QED BY <3>4, <3>5
  <2>11. counts'.unparsed + counts'.signed + Cardinality(H2) = counts'.tokens
    BY <2>1, <2>4, <2>5, <2>6, <2>7 DEF CountNames, HasHash, HasSigned
  <2> QED BY <1>4, <2>9, <2>10, <2>11 DEF EveryHeaderCounted, H2, HasHash
<1>12. OkHoldsForEveryVolume' /\ HashOkMeansCovered'
  BY <1>1 DEF OkHoldsForEveryVolume, HashOkMeansCovered
<1> QED BY <1>7, <1>8, <1>9, <1>10, <1>11, <1>12 DEF IInv
-----------------------------------------------------------------------------
\* The names of the rows are different names.
LEMMA NamesDiffer ==
  /\ DevicesRow \notin DumpRows
  /\ DumpRows = {VersionRow, IntegrityRow, BindingRow} \cup PcrRows
  /\ PcrRows = {SecureBootRow, BootChainRow}
  /\ VersionRow # IntegrityRow /\ VersionRow # BindingRow /\ IntegrityRow # BindingRow
  /\ SecureBootRow # BootChainRow
  /\ {VersionRow, IntegrityRow, BindingRow} \cap PcrRows = {}
BY DEF DevicesRow, DumpRows, VersionRow, IntegrityRow, BindingRow, SecureBootRow,
       BootChainRow, PcrRows

\* The rows of the PCRs, by what decides them.
LEMMA PcrResultsAre ==
  /\ DOMAIN PcrResults = PcrRows
  /\ \A n \in PcrRows :
       /\ PcrResults[n] \in AllRows
       /\ PcrResults[n].state = "OK" =>
            /\ ~(failed > 0)
            /\ weakest # AllPcrs /\ weakest # {} =>
                 counts.unparsed = 0
                   /\ (IF n = SecureBootRow THEN {7} ELSE {4, 9}) \subseteq weakest
            /\ (weakest # AllPcrs /\ weakest # {}) \/ counts.signed > 0
<1> SUFFICES ASSUME NEW n \in PcrRows
             PROVE  /\ DOMAIN PcrResults = PcrRows
                    /\ PcrResults[n] \in AllRows
                    /\ PcrResults[n].state = "OK" =>
                         /\ ~(failed > 0)
                         /\ weakest # AllPcrs /\ weakest # {} =>
                              counts.unparsed = 0
                                /\ (IF n = SecureBootRow THEN {7} ELSE {4, 9}) \subseteq weakest
                         /\ (weakest # AllPcrs /\ weakest # {}) \/ counts.signed > 0
  <2>1. SecureBootRow \in PcrRows
    BY DEF PcrRows
  <2> QED BY <2>1
<1>1. ASSUME NEW r \in SkipReasons
      PROVE  /\ DOMAIN Fill(PcrRows, Skip(r)) = PcrRows
             /\ Fill(PcrRows, Skip(r))[n] \in AllRows
             /\ Fill(PcrRows, Skip(r))[n].state # "OK"
  BY RowTypes DEF Fill
<1>2. {"SUBJECT_ABSENT", "PROBE_INDETERMINATE", "EXEC_FAILED", "OUTPUT_UNPARSEABLE"} \subseteq SkipReasons
  BY DEF SkipReasons
<1>3. CASE counts.tokens = 0 /\ counts.clevis = 0
  BY <1>1, <1>2, <1>3 DEF PcrResults
<1>4. CASE ~(counts.tokens = 0 /\ counts.clevis = 0) /\ counts.tokens = 0
  BY <1>1, <1>2, <1>4 DEF PcrResults
<1>5. CASE counts.tokens # 0 /\ failed > 0
  BY <1>1, <1>2, <1>5 DEF PcrResults
<1>6. CASE counts.tokens # 0 /\ ~(failed > 0) /\ weakest # AllPcrs /\ weakest # {}
  <2>1. PcrResults = HashPolicyRows
    BY <1>6 DEF PcrResults
  <2>2. HashPolicyRows[n].state = "OK" =>
          counts.unparsed = 0
            /\ (IF n = SecureBootRow THEN {7} ELSE {4, 9}) \subseteq weakest
    <3>1. Row("WARN").state # "OK"
      BY RowTypes
    <3> QED BY <3>1 DEF HashPolicyRows
  <2>3. DOMAIN HashPolicyRows = PcrRows /\ HashPolicyRows[n] \in AllRows
    BY RowTypes DEF HashPolicyRows
  <2> QED BY <1>6, <2>1, <2>2, <2>3
<1>7. CASE counts.tokens # 0 /\ ~(failed > 0) /\ ~(weakest # AllPcrs /\ weakest # {})
           /\ counts.signed > 0
  <2>1. PcrResults = SignedPolicyRows
    BY <1>7 DEF PcrResults
  <2>2. DOMAIN SignedPolicyRows = PcrRows /\ SignedPolicyRows[n] \in AllRows
    BY RowTypes DEF SignedPolicyRows
  <2> QED BY <1>7, <2>1, <2>2
<1>8. CASE counts.tokens # 0 /\ ~(failed > 0) /\ ~(weakest # AllPcrs /\ weakest # {})
           /\ ~(counts.signed > 0)
  BY <1>1, <1>2, <1>8 DEF PcrResults
<1> QED BY <1>3, <1>4, <1>5, <1>6, <1>7, <1>8

\* The rows that the dump loop ends in, by what decides them.
LEMMA DumpResultsAre ==
  /\ DOMAIN DumpResults = DumpRows
  /\ \A n \in DumpRows : DumpResults[n] \in AllRows
  /\ (\A n \in DumpRows : DumpResults[n].state = "SKIP")
       \/ /\ DumpResults[VersionRow] = VersionResult
          /\ DumpResults[IntegrityRow] = IntegrityResult
          /\ \/ tpmPresent /\ DumpResults[BindingRow] = BindingResult
                /\ \A n \in PcrRows : DumpResults[n] = PcrResults[n]
             \/ \A n \in {BindingRow} \cup PcrRows : DumpResults[n].state = "SKIP"
<1>1. {"SUBJECT_ABSENT", "EXEC_FAILED", "HW_ABSENT", "OUTPUT_UNPARSEABLE", "NOT_CONFIGURED",
       "PROBE_INDETERMINATE"} \subseteq SkipReasons
  BY DEF SkipReasons
<1>2. VersionResult \in AllRows /\ IntegrityResult \in AllRows /\ BindingResult \in AllRows
  BY <1>1, RowTypes DEF VersionResult, IntegrityResult, BindingResult
<1>3. CASE found = 0
  <2>1. DumpResults = Fill(DumpRows, Skip("SUBJECT_ABSENT"))
    BY <1>3 DEF DumpResults
  <2> QED BY <2>1, <1>1, RowTypes DEF Fill
<1>4. CASE found # 0 /\ read = <<>>
  <2>1. DumpResults = Fill(DumpRows, SkipRoot("EXEC_FAILED"))
    BY <1>4 DEF DumpResults
  <2> QED BY <2>1, <1>1, RowTypes DEF Fill
<1>5. CASE found # 0 /\ read # <<>>
  <2> DEFINE tpm == TpmResults
             sub == Add(Fill({IntegrityRow}, IntegrityResult), tpm)
  <2>1. DumpResults = Add(Fill({VersionRow}, VersionResult), sub)
    BY <1>5 DEF DumpResults
  <2>2. /\ DOMAIN tpm = {BindingRow} \cup PcrRows
        /\ \A n \in {BindingRow} \cup PcrRows : tpm[n] \in AllRows
        /\ \/ tpmPresent /\ tpm[BindingRow] = BindingResult
              /\ \A n \in PcrRows : tpm[n] = PcrResults[n]
           \/ \A n \in {BindingRow} \cup PcrRows : tpm[n].state = "SKIP"
    <3>1. CASE tpmPresent
      <4>1. tpm = Add(Fill({BindingRow}, BindingResult), PcrResults)
        BY <3>1 DEF TpmResults
      <4>2. BindingRow \notin DOMAIN PcrResults /\ DOMAIN PcrResults = PcrRows
        BY NamesDiffer, PcrResultsAre
      <4>3. /\ DOMAIN tpm = {BindingRow} \cup PcrRows
            /\ tpm[BindingRow] = BindingResult
            /\ \A n \in PcrRows : tpm[n] = PcrResults[n]
        <5> DEFINE g == PcrResults
        <5>1. BindingRow \notin DOMAIN g /\ DOMAIN g = PcrRows
          BY <4>2
        <5> HIDE DEF g
        <5>2. tpm = Add(Fill({BindingRow}, BindingResult), g)
          BY <4>1 DEF g
        <5> QED BY <5>1, <5>2 DEF Add, Fill, g
      <4> QED BY <3>1, <4>3, <1>2, PcrResultsAre
    <3>2. CASE ~tpmPresent
      <4>1. tpm = Fill({BindingRow} \cup PcrRows, Skip("HW_ABSENT"))
        BY <3>2 DEF TpmResults
      <4> QED BY <4>1, <1>1, RowTypes DEF Fill
    <3> QED BY <3>1, <3>2
  <2> HIDE DEF tpm
  <2>3. IntegrityRow \notin DOMAIN tpm /\ VersionRow \notin {IntegrityRow, BindingRow} \cup PcrRows
    BY <2>2, NamesDiffer
  <2>4. /\ DOMAIN sub = {IntegrityRow, BindingRow} \cup PcrRows
        /\ sub[IntegrityRow] = IntegrityResult
        /\ \A n \in {BindingRow} \cup PcrRows : sub[n] = tpm[n]
    BY <2>2, <2>3 DEF Add, Fill
  <2> HIDE DEF sub
  <2>5. /\ DOMAIN DumpResults = DumpRows
        /\ DumpResults[VersionRow] = VersionResult
        /\ DumpResults[IntegrityRow] = IntegrityResult
        /\ \A n \in {BindingRow} \cup PcrRows : DumpResults[n] = tpm[n]
    BY <2>1, <2>3, <2>4, NamesDiffer DEF Add, Fill
  <2>6. \A n \in DumpRows : DumpResults[n] \in AllRows
    BY <2>2, <2>5, <1>2, NamesDiffer
  <2> QED BY <2>2, <2>5, <2>6
<1> QED BY <1>3, <1>4, <1>5

\* The rows made of the counters are added to the row of the first listing.
LEMMA EmittedRows ==
  ASSUME IInv, EmitRows
  PROVE  RowsInv' /\ \A n \in DumpRows : rows'[n] = DumpResults[n]
<1> DEFINE g == DumpResults
<1>0. pc = "rows" /\ pc' = "done" /\ rows' = Add(rows, g)
  BY DEF EmitRows
<1>1. DOMAIN g = DumpRows /\ \A n \in DumpRows : g[n] \in AllRows
  BY DumpResultsAre
<1>2. DOMAIN rows \subseteq {DevicesRow} /\ \A n \in DOMAIN rows : rows[n] \in AllRows
  BY <1>0 DEF IInv, RowsInv
<1> HIDE DEF g
<1>3. /\ DOMAIN rows' = DOMAIN rows \cup DumpRows
      /\ \A n \in DumpRows : rows'[n] = g[n]
      /\ \A n \in DOMAIN rows : rows'[n] = rows[n]
  BY <1>0, <1>1, <1>2, NamesDiffer DEF Add
<1>4. RowsInv'
  BY <1>0, <1>1, <1>2, <1>3 DEF RowsInv, AllNames
<1> QED BY <1>3, <1>4 DEF g

\* A verdict on counters is one on volumes.
LEMMA EmitKeeps ==
  ASSUME IInv, EmitRows
  PROVE  IInv'
<1>1. /\ pc = "rows" /\ pc' = "done" /\ rows' = Add(rows, DumpResults)
      /\ UNCHANGED <<tpmPresent, left, dumped, read, failed, counts, weakest, signedWeakest>>
  BY DEF EmitRows
<1>2. TypeInv' /\ TallyInv'
  BY <1>1 DEF IInv, TypeInv, TallyInv
<1>3. EveryHeaderCounted' /\ WeakestIsFewest'
  BY <1>1 DEF IInv, EveryHeaderCounted, WeakestIsFewest, Parsed
<1>4. RowsInv' /\ \A n \in DumpRows : rows'[n] = DumpResults[n]
  BY EmittedRows
<1>5. ASSUME NEW i \in DOMAIN dumped
      PROVE  /\ i \in DOMAIN read /\ dumped[i] \in LuksHeader /\ read[i] \in LuksHeader
             /\ read[i].version = 2 => dumped[i].version = 2
             /\ read[i].integrity => dumped[i].integrity
             /\ read[i].token = "tpm2" => dumped[i].token = "tpm2"
             /\ HasHash(read[i]) => HasHash(dumped[i])
             /\ \A p \in read[i].hash : p > 3 => p \in dumped[i].hash
  <2>1. /\ i \in DOMAIN read /\ dumped[i] \in LuksHeader
        /\ read[i] \in Readings(dumped[i])
    BY HeadersAssumption DEF IInv, TypeInv
  <2> QED BY <2>1, ReadingsLose
<1>6. /\ \A c \in CountNames : counts[c] \in Nat
      /\ failed \in Nat /\ Len(read) \in Nat
  BY DEF IInv, TypeInv
<1>7. \A r \in SkipReasons : Skip(r).state # "OK" /\ SkipActionable(r).state # "OK"
  BY RowTypes
<1>8. Row("WARN").state # "OK" /\ Row("OK").state = "OK"
  BY RowTypes
<1>9. {"EXEC_FAILED", "OUTPUT_UNPARSEABLE", "NOT_CONFIGURED", "PROBE_INDETERMINATE"} \subseteq SkipReasons
  BY DEF SkipReasons
<1>10. VersionResult.state = "OK" =>
         failed = 0 /\ \A v \in Volumes : v.version = 2
  <2> SUFFICES ASSUME VersionResult.state = "OK"
               PROVE  failed = 0 /\ \A i \in DOMAIN dumped : dumped[i].version = 2
    BY DEF Volumes
  <2>1. ~(failed > 0) /\ ~(counts.unknown > 0) /\ ~(counts.luks1 > 0)
    BY <1>7, <1>8, <1>9 DEF VersionResult
  <2>2. ASSUME NEW i \in DOMAIN dumped PROVE dumped[i].version = 2
    <3>1. read[i].version # 0 /\ read[i].version # 1
      BY <1>5, <2>1 DEF IInv, TallyInv
    <3>2. read[i].version \in 0..2
      BY <1>5 DEF LuksHeader
    <3> QED BY <1>5, <3>1, <3>2
  <2> QED BY <1>6, <2>1, <2>2
<1>11. IntegrityResult.state = "OK" =>
         failed = 0 /\ \A v \in Volumes : v.integrity
  <2> SUFFICES ASSUME IntegrityResult.state = "OK"
               PROVE  failed = 0 /\ \A i \in DOMAIN dumped : dumped[i].integrity
    BY DEF Volumes
  <2>1. ~(failed > 0) /\ counts.integrity = Len(read)
    BY <1>7, <1>8, <1>9 DEF IntegrityResult
  <2>2. ASSUME NEW i \in DOMAIN dumped PROVE dumped[i].integrity
    BY <1>5, <2>1 DEF IInv, TallyInv
  <2> QED BY <1>6, <2>1, <2>2
<1>12. BindingResult.state = "OK" =>
         failed = 0 /\ \A v \in Volumes : v.token = "tpm2"
  <2> SUFFICES ASSUME BindingResult.state = "OK"
               PROVE  failed = 0 /\ \A i \in DOMAIN dumped : dumped[i].token = "tpm2"
    BY DEF Volumes
  <2>1. ~(failed > 0) /\ ~(counts.noToken > 0) /\ ~(counts.clevis > 0)
    BY <1>7, <1>8, <1>9 DEF BindingResult
  <2>2. ASSUME NEW i \in DOMAIN dumped PROVE dumped[i].token = "tpm2"
    <3>1. read[i].token # "none" /\ read[i].token # "clevis"
      BY <1>5, <2>1 DEF IInv, TallyInv
    <3>2. read[i].token \in {"none", "clevis", "tpm2"}
      BY <1>5 DEF LuksHeader
    <3> QED BY <1>5, <3>1, <3>2
  <2> QED BY <1>6, <2>1, <2>2
<1>13. OkHoldsForEveryVolume'
  <2>1. \A n \in DumpRows : rows'[n].state = "OK" => failed = 0
    <3> SUFFICES ASSUME NEW n \in DumpRows, DumpResults[n].state = "OK" PROVE failed = 0
      BY <1>4
    <3>1. n \in {VersionRow, IntegrityRow, BindingRow} \/ n \in PcrRows
      BY NamesDiffer
    <3>2. CASE n \in {VersionRow, IntegrityRow, BindingRow}
      BY <3>2, <1>10, <1>11, <1>12, DumpResultsAre
    <3>3. CASE n \in PcrRows
      <4>1. ~(failed > 0)
        BY <3>3, DumpResultsAre, PcrResultsAre
      <4> QED BY <4>1, <1>6
    <3> QED BY <3>1, <3>2, <3>3
  <2>2. VersionRow \in DumpRows /\ IntegrityRow \in DumpRows /\ BindingRow \in DumpRows
    BY DEF DumpRows
  <2>3. /\ DumpResults[VersionRow].state = "OK" => VersionResult.state = "OK"
        /\ DumpResults[IntegrityRow].state = "OK" => IntegrityResult.state = "OK"
        /\ DumpResults[BindingRow].state = "OK" => BindingResult.state = "OK" /\ tpmPresent
    BY <2>2, DumpResultsAre
  <2>4. /\ rows'[VersionRow].state = "OK" => \A v \in Volumes : v.version = 2
        /\ rows'[IntegrityRow].state = "OK" => \A v \in Volumes : v.integrity
        /\ rows'[BindingRow].state = "OK" => tpmPresent /\ \A v \in Volumes : v.token = "tpm2"
    BY <2>2, <2>3, <1>4, <1>10, <1>11, <1>12
  <2>5. Volumes' = Volumes
    BY <1>1 DEF Volumes
  <2> QED BY <1>1, <2>1, <2>4, <2>5 DEF OkHoldsForEveryVolume
<1>14. HashOkMeansCovered'
  <2> DEFINE asked(n) == IF n = SecureBootRow THEN {7} ELSE {4, 9}
  <2> SUFFICES ASSUME weakest # AllPcrs, NEW n \in PcrRows, DumpResults[n].state = "OK"
               PROVE  /\ \A v \in Parsed : v.token = "tpm2" => HasHash(v) \/ HasSigned(v)
                      /\ \E v \in Volumes : HasHash(v) /\ asked(n) \subseteq v.hash
    <3>1. PcrRows \subseteq DumpRows
      BY NamesDiffer
    <3>2. Volumes' = Volumes /\ Parsed' = Parsed
      BY <1>1 DEF Volumes, Parsed
    <3> QED BY <1>1, <1>4, <3>1, <3>2 DEF HashOkMeansCovered
  <2>1. PICK k \in DOMAIN read : HasHash(read[k]) /\ weakest = read[k].hash
    BY DEF IInv, WeakestIsFewest, Parsed
  <2>2. weakest # {}
    BY <2>1 DEF HasHash
  <2>3. counts.unparsed = 0 /\ asked(n) \subseteq weakest
    <3>1. n \in DumpRows
      BY NamesDiffer
    <3> QED BY <2>2, <3>1, DumpResultsAre, PcrResultsAre
  <2>4. \A v \in Parsed : v.token = "tpm2" => HasHash(v) \/ HasSigned(v)
    <3> SUFFICES ASSUME NEW i \in DOMAIN read, read[i].token = "tpm2"
                 PROVE  HasHash(read[i]) \/ HasSigned(read[i])
      BY DEF Parsed
    <3>1. ~(counts.unparsed > 0)
      BY <2>3
    <3> QED BY <3>1 DEF IInv, TallyInv
  <2>5. k \in DOMAIN dumped
    BY <2>1 DEF IInv, TypeInv
  <2>6. HasHash(dumped[k]) /\ \A p \in weakest : p > 3 => p \in dumped[k].hash
    BY <2>1, <2>5, <1>5
  <2>7. \A p \in asked(n) : p > 3
    OBVIOUS
  <2>8. asked(n) \subseteq dumped[k].hash
    BY <2>3, <2>6, <2>7
  <2>9. dumped[k] \in Volumes
    BY <2>5 DEF Volumes
  <2> QED BY <2>4, <2>6, <2>8, <2>9
<1> QED BY <1>2, <1>3, <1>4, <1>13, <1>14 DEF IInv

\* The first listing adds its row.
LEMMA ListDevicesKeeps ==
  ASSUME IInv, ListDevices
  PROVE  IInv'
<1>1. /\ pc = "list" /\ pc' = "gate"
      /\ UNCHANGED <<tpmPresent, left, dumped, read, failed, counts, weakest, signedWeakest>>
  BY DEF ListDevices
<1>2. PICK r \in AllRows : rows' = Add(rows, Fill({DevicesRow}, r))
  <2>1. PICK lsblk \in PathMatches, result \in Captures, luks \in 0..1 :
          rows' = Add(rows, Fill({DevicesRow},
                 IF lsblk # "trusted" THEN ToolRow(lsblk)
                 ELSE IF result \in {"failed", "nonzero"} THEN Skip("EXEC_FAILED")
                 ELSE IF result = "truncated" THEN Skip("OUTPUT_UNPARSEABLE")
                 ELSE ListingRow(luks)))
    BY DEF ListDevices
  <2>2. {"EXEC_FAILED", "OUTPUT_UNPARSEABLE"} \subseteq SkipReasons
    BY DEF SkipReasons
  <2>3. /\ ToolRow(lsblk) \in AllRows /\ Skip("EXEC_FAILED") \in AllRows
        /\ Skip("OUTPUT_UNPARSEABLE") \in AllRows /\ ListingRow(luks) \in AllRows
    BY <2>2, RowTypes DEF ListingRow
  <2> QED BY <2>1, <2>3
<1>3. RowsInv'
  BY <1>1, <1>2 DEF IInv, RowsInv, Add, Fill, AllNames
<1>4. TypeInv' /\ TallyInv' /\ EveryHeaderCounted' /\ WeakestIsFewest'
  BY <1>1 DEF IInv, TypeInv, TallyInv, EveryHeaderCounted, WeakestIsFewest, Parsed
<1> QED BY <1>1, <1>3, <1>4 DEF IInv, OkHoldsForEveryVolume, HashOkMeansCovered

\* The second listing fails with a row that is not ok, or starts the loop.
LEMMA SecondListingRows ==
  ASSUME SecondListing
  PROVE  \/ left' \in 0..MaxVolumes /\ pc' = "dump" /\ UNCHANGED rows
         \/ \E r \in AllRows : /\ r.state # "OK" /\ rows' = Add(rows, Fill(DumpRows, r))
                               /\ pc' = "done" /\ UNCHANGED left
<1>1. PICK lsblk \in PathMatches, cryptsetup \in PathMatches, result \in Captures :
        LET row == IF lsblk # "trusted" THEN ToolRow(lsblk)
                   ELSE IF cryptsetup # "trusted" THEN ToolRow(cryptsetup)
                   ELSE IF result = "truncated" THEN Skip("OUTPUT_UNPARSEABLE")
                   ELSE Skip("EXEC_FAILED")
        IN IF lsblk = "trusted" /\ cryptsetup = "trusted" /\ result = "complete"
           THEN left' \in 0..MaxVolumes /\ pc' = "dump" /\ UNCHANGED rows
           ELSE rows' = Add(rows, Fill(DumpRows, row)) /\ pc' = "done" /\ UNCHANGED left
  BY DEF SecondListing
<1>2. {"EXEC_FAILED", "OUTPUT_UNPARSEABLE"} \subseteq SkipReasons
  BY DEF SkipReasons
<1>3. \A r \in {ToolRow(lsblk), ToolRow(cryptsetup), Skip("OUTPUT_UNPARSEABLE"), Skip("EXEC_FAILED")} :
        r \in AllRows /\ r.state # "OK"
  BY <1>2, RowTypes
<1> QED BY <1>1, <1>3

\* Either way the invariant is kept.
LEMMA SecondListingKeeps ==
  ASSUME IInv, SecondListing
  PROVE  IInv'
<1>1. /\ pc = "gate" /\ tpmPresent' \in BOOLEAN
      /\ UNCHANGED <<dumped, read, failed, counts, weakest, signedWeakest>>
  BY DEF SecondListing
<1>2. left = 0 /\ failed = 0 /\ read = <<>> /\ dumped = <<>>
  BY <1>1 DEF IInv, TypeInv
<1>3. TallyInv' /\ EveryHeaderCounted' /\ WeakestIsFewest'
  BY <1>1 DEF IInv, TallyInv, EveryHeaderCounted, WeakestIsFewest, Parsed
<1>4. CASE left' \in 0..MaxVolumes /\ pc' = "dump" /\ UNCHANGED rows
  <2>1. TypeInv'
    <3>1. left' \in Nat /\ left' <= MaxVolumes
      BY <1>4, MaxVolumesAssumption
    <3>2. Len(read') = 0 /\ failed' = 0
      <4>1. read' = <<>>
        BY <1>1, <1>2
      <4> QED BY <4>1, <1>1, <1>2
    <3>3. Len(read') + failed' + left' <= MaxVolumes
      BY <3>1, <3>2
    <3> QED BY <1>1, <1>4, <3>1, <3>3 DEF IInv, TypeInv
  <2>2. RowsInv'
    BY <1>1, <1>4 DEF IInv, RowsInv
  <2> QED BY <1>3, <1>4, <2>1, <2>2 DEF IInv, OkHoldsForEveryVolume, HashOkMeansCovered
<1>5. CASE \E r \in AllRows : /\ r.state # "OK" /\ rows' = Add(rows, Fill(DumpRows, r))
                              /\ pc' = "done" /\ UNCHANGED left
  <2>1. PICK r \in AllRows : /\ r.state # "OK" /\ rows' = Add(rows, Fill(DumpRows, r))
                             /\ pc' = "done" /\ UNCHANGED left
    BY <1>5
  <2>2. TypeInv'
    BY <1>1, <2>1 DEF IInv, TypeInv
  <2>3. DOMAIN rows \subseteq {DevicesRow} /\ \A n \in DOMAIN rows : rows[n] \in AllRows
    BY <1>1 DEF IInv, RowsInv
  <2>4. /\ DOMAIN rows' = DOMAIN rows \cup DumpRows
        /\ \A n \in DumpRows : rows'[n] = r
        /\ \A n \in DOMAIN rows : rows'[n] = rows[n]
    BY <2>1, <2>3, NamesDiffer DEF Add, Fill
  <2>5. RowsInv'
    BY <2>1, <2>3, <2>4 DEF RowsInv, AllNames
  <2>6. OkHoldsForEveryVolume' /\ HashOkMeansCovered'
    <3>1. \A n \in DumpRows : rows'[n].state # "OK"
      BY <2>1, <2>4
    <3>2. /\ VersionRow \in DumpRows /\ IntegrityRow \in DumpRows /\ BindingRow \in DumpRows
          /\ PcrRows \subseteq DumpRows
      BY NamesDiffer
    <3> QED BY <3>1, <3>2 DEF OkHoldsForEveryVolume, HashOkMeansCovered
  <2> QED BY <1>3, <2>2, <2>5, <2>6 DEF IInv
<1> QED BY <1>4, <1>5, SecondListingRows

\* A line is passed over, a dump fails, the listing ends.
LEMMA LoopKeeps ==
  ASSUME IInv, PathDoesNotFit \/ DumpFails \/ EndOfListing
  PROVE  IInv'
<1>1. /\ pc = "dump" /\ pc' \in {"dump", "rows"}
      /\ UNCHANGED <<rows, tpmPresent, dumped, read, counts, weakest, signedWeakest>>
  BY DEF PathDoesNotFit, DumpFails, EndOfListing
<1>2. /\ left' \in Nat /\ failed' \in Nat
      /\ Len(read') + failed' + left' <= MaxVolumes
  <2>1. /\ left \in Nat /\ failed \in Nat /\ Len(read) \in Nat
        /\ Len(read) + failed + left <= MaxVolumes
    BY DEF IInv, TypeInv
  <2>2. \/ left > 0 /\ left' = left - 1 /\ failed' = failed
        \/ left > 0 /\ left' = left - 1 /\ failed' = failed + 1
        \/ left' = left /\ failed' = failed
    BY DEF PathDoesNotFit, DumpFails, EndOfListing
  <2> QED BY <1>1, <2>1, <2>2, MaxVolumesAssumption
<1>3. TypeInv' /\ RowsInv'
  BY <1>1, <1>2 DEF IInv, TypeInv, RowsInv
<1>4. TallyInv' /\ EveryHeaderCounted' /\ WeakestIsFewest'
  BY <1>1 DEF IInv, TallyInv, EveryHeaderCounted, WeakestIsFewest, Parsed
<1> QED BY <1>1, <1>3, <1>4 DEF IInv, OkHoldsForEveryVolume, HashOkMeansCovered

\* Every step keeps the invariant.
LEMMA NextKeeps == IInv /\ [Next]_vars => IInv'
<1> SUFFICES ASSUME IInv, [Next]_vars PROVE IInv'
  OBVIOUS
<1>1. CASE UNCHANGED vars
  <2>1. UNCHANGED <<pc, rows, tpmPresent, left, dumped, read, failed, counts, weakest, signedWeakest>>
    BY <1>1 DEF vars
  <2>2. TypeInv' /\ RowsInv' /\ TallyInv'
    BY <2>1 DEF IInv, TypeInv, RowsInv, TallyInv
  <2>3. EveryHeaderCounted' /\ WeakestIsFewest'
    BY <2>1 DEF IInv, EveryHeaderCounted, WeakestIsFewest, Parsed
  <2>4. OkHoldsForEveryVolume' /\ HashOkMeansCovered'
    BY <2>1 DEF IInv, OkHoldsForEveryVolume, HashOkMeansCovered, Volumes, Parsed
  <2> QED BY <2>2, <2>3, <2>4 DEF IInv
<1>2. CASE \E full \in Headers : \E h \in Readings(full) : DumpSucceeds(full, h)
  BY <1>2, DumpKeeps
<1> QED BY <1>1, <1>2, ListDevicesKeeps, SecondListingKeeps, LoopKeeps, EmitKeeps
        DEF Next, Returned

LEMMA Invariance == Spec => []IInv
BY InitHolds, NextKeeps, PTL DEF Spec
-----------------------------------------------------------------------------
\* The variables of bythos_check_luks keep their types: no counter of the dump
\* loop exceeds the lines lsblk listed.
THEOREM TypeCorrect == Spec => []TypeOK
<1>1. IInv => TypeOK
  <2> SUFFICES ASSUME IInv PROVE TypeOK
    OBVIOUS
  <2>1. /\ left \in Nat /\ failed \in Nat /\ Len(read) \in Nat
        /\ Len(read) + failed + left <= MaxVolumes
    BY DEF IInv, TypeInv
  <2>2. /\ left \in 0..MaxVolumes /\ failed \in 0..MaxVolumes
        /\ Len(read) <= MaxVolumes
    BY <2>1, MaxVolumesAssumption
  <2>3. \A c \in DOMAIN counts : counts[c] \in 0..MaxVolumes
    <3> SUFFICES ASSUME NEW c \in CountNames PROVE counts[c] \in 0..MaxVolumes
      BY DEF IInv, TypeInv
    <3>1. counts[c] \in Nat /\ counts[c] <= Len(read)
      BY DEF IInv, TypeInv, TallyInv
    <3> QED BY <2>1, <2>2, <3>1, MaxVolumesAssumption
  <2> QED BY <2>2, <2>3 DEF IInv, TypeInv, RowsInv, TypeOK
<1> QED BY <1>1, Invariance, PTL

\* Every header the dump loop has read is in exactly one version counter and
\* exactly one token counter, and every systemd-tpm2 token in the hash mask,
\* in the signed mask or among the unparsed ones.
THEOREM CountsAddUp == Spec => []EveryHeaderCounted
<1>1. IInv => EveryHeaderCounted
  BY DEF IInv
<1> QED BY <1>1, Invariance, PTL

\* weakest_mask and signed_weakest_mask are masks read of some volume, and no
\* volume read has fewer PCRs, in whatever order lsblk lists the devices.
THEOREM WeakestKept == Spec => []WeakestIsFewest
<1>1. IInv => WeakestIsFewest
  BY DEF IInv
<1> QED BY <1>1, Invariance, PTL

\* A version, integrity or TPM binding row that is ok is true of every volume
\* dumped, and no dump failed, however many volumes there are and wherever the
\* buffer cut their headers.
THEOREM OkSpeaksOfAll == Spec => []OkHoldsForEveryVolume
<1>1. IInv => OkHoldsForEveryVolume
  BY DEF IInv
<1> QED BY <1>1, Invariance, PTL

\* A PCR row decided by a hash policy is ok only if every systemd-tpm2 token
\* gave its PCRs and some volume really binds the PCRs the row names: the
\* number at which a list was cut is never one of them.
THEOREM HashOkEarned == Spec => []HashOkMeansCovered
<1>1. IInv => HashOkMeansCovered
  BY DEF IInv
<1> QED BY <1>1, Invariance, PTL
-----------------------------------------------------------------------------
(***************************************************************************)
(* The converse questions: whether a warning is earned, when comparing     *)
(* policies by their number of PCRs is enough, and whether the check ends. *)
(***************************************************************************)

\* What counter c of the dump loop counts.
Counted(c, h) ==
  \/ c = "luks1" /\ h.version = 1
  \/ c = "luks2" /\ h.version = 2
  \/ c = "unknown" /\ h.version = 0
  \/ c = "integrity" /\ h.integrity
  \/ c = "noToken" /\ h.token = "none"
  \/ c = "clevis" /\ h.token = "clevis"
  \/ c = "tokens" /\ h.token = "tpm2"
  \/ c = "unparsed" /\ h.token = "tpm2" /\ ~HasHash(h) /\ ~HasSigned(h)
  \/ c = "signed" /\ HasSigned(h)

\* The headers read that counter c counts.
Those(c) == {i \in DOMAIN read : Counted(c, read[i])}

\* Every counter is the number of headers read that are of its kind.
CountersExact == \A c \in CountNames : counts[c] = Cardinality(Those(c))

\* The rows are those made of the counters, or the second listing failed, no
\* volume was dumped and nothing is ok.
RowsSettled ==
  pc = "done" =>
    \/ \A n \in DumpRows : rows[n] = DumpResults[n]
    \/ read = <<>> /\ \A n \in DumpRows : rows[n].state # "OK"

\* A header is counted once more where it is counted at all.
LEMMA TallyIsCounted ==
  ASSUME NEW h, counts \in [CountNames -> Nat], NEW c \in CountNames
  PROVE  Tally(h)[c] = counts[c] + (IF Counted(c, h) THEN 1 ELSE 0)
<1>1. /\ Tally(h).luks1 = counts.luks1 + (IF h.version = 1 THEN 1 ELSE 0)
      /\ Tally(h).luks2 = counts.luks2 + (IF h.version = 2 THEN 1 ELSE 0)
      /\ Tally(h).unknown = counts.unknown + (IF h.version = 0 THEN 1 ELSE 0)
      /\ Tally(h).integrity = counts.integrity + (IF h.integrity THEN 1 ELSE 0)
      /\ Tally(h).noToken = counts.noToken + (IF h.token = "none" THEN 1 ELSE 0)
      /\ Tally(h).clevis = counts.clevis + (IF h.token = "clevis" THEN 1 ELSE 0)
      /\ Tally(h).tokens = counts.tokens + (IF h.token = "tpm2" THEN 1 ELSE 0)
      /\ Tally(h).unparsed = counts.unparsed
           + (IF h.token = "tpm2" /\ ~HasHash(h) /\ ~HasSigned(h) THEN 1 ELSE 0)
      /\ Tally(h).signed = counts.signed + (IF HasSigned(h) THEN 1 ELSE 0)
  BY TallyCounts
<1> QED BY <1>1 DEF Counted, CountNames

\* The headers counted are a finite set of positions.
LEMMA ThoseFinite ==
  ASSUME IInv, NEW c
  PROVE  IsFiniteSet(Those(c)) /\ Cardinality(Those(c)) \in Nat
<1>1. DOMAIN read = 1..Len(read) /\ Len(read) \in Nat
  BY DEF IInv, TypeInv
<1>2. IsFiniteSet(DOMAIN read)
  BY <1>1, FS_Interval
<1>3. Those(c) \in SUBSET DOMAIN read
  BY DEF Those
<1> QED BY <1>2, <1>3, FS_Subset, FS_CardinalityType

\* A counter that is not 0 has counted some header read.
LEMMA SomeCounted ==
  ASSUME IInv, CountersExact, NEW c \in CountNames, counts[c] # 0
  PROVE  \E i \in DOMAIN read : Counted(c, read[i])
<1>1. Cardinality(Those(c)) # 0
  BY DEF CountersExact
<1>2. Those(c) # {}
  BY <1>1, FS_EmptySet
<1> QED BY <1>2 DEF Those

LEMMA ExactInit == Init => CountersExact /\ RowsSettled
<1> SUFFICES ASSUME Init PROVE CountersExact /\ RowsSettled
  OBVIOUS
<1>1. ASSUME NEW c \in CountNames PROVE counts[c] = 0 /\ Those(c) = {}
  BY DEF Init, ZeroCounts, CountNames, Those
<1>2. CountersExact
  BY <1>1, FS_EmptySet DEF CountersExact
<1> QED BY <1>2 DEF Init, RowsSettled

LEMMA ExactDump ==
  ASSUME IInv, CountersExact, NEW full \in Headers, NEW h \in Readings(full),
         DumpSucceeds(full, h)
  PROVE  CountersExact'
<1>1. read' = Append(read, h) /\ counts' = Tally(h)
  BY DEF DumpSucceeds
<1>2. read \in Seq(LuksHeader) /\ counts \in [CountNames -> Nat] /\ h \in LuksHeader
  BY HeadersAssumption, ReadingsLose DEF IInv, TypeInv
<1> DEFINE n == Len(read) + 1
<1>3. /\ n \in Nat /\ n >= 1 /\ DOMAIN read = 1..(n - 1) /\ DOMAIN read' = 1..n
      /\ read'[n] = h /\ \A i \in 1..(n - 1) : read'[i] = read[i]
  BY <1>1, <1>2
<1> HIDE DEF n
<1> SUFFICES ASSUME NEW c \in CountNames PROVE counts'[c] = Cardinality(Those(c)')
  BY DEF CountersExact
<1>4. Those(c)' = IF Counted(c, h) THEN Those(c) \cup {n} ELSE Those(c)
  <2>1. \A i : i \in 1..n <=> (i = n \/ i \in 1..(n - 1))
    BY <1>3
  <2>2. Those(c)' = {i \in 1..n : Counted(c, read'[i])}
    BY <1>3 DEF Those, Counted, HasHash, HasSigned
  <2> QED BY <1>3, <2>1, <2>2 DEF Those
<1>5. n \notin Those(c)
  BY <1>3 DEF Those
<1>6. IsFiniteSet(Those(c)) /\ Cardinality(Those(c)) \in Nat
  BY ThoseFinite
<1>7. Cardinality(Those(c) \cup {n}) = Cardinality(Those(c)) + 1
  BY <1>5, <1>6, FS_AddElement
<1>8. counts'[c] = counts[c] + (IF Counted(c, h) THEN 1 ELSE 0)
  BY <1>1, <1>2, TallyIsCounted
<1>9. counts[c] = Cardinality(Those(c))
  BY DEF CountersExact
<1> QED BY <1>4, <1>6, <1>7, <1>8, <1>9

LEMMA ExactKeeps ==
  IInv /\ CountersExact /\ RowsSettled /\ [Next]_vars => CountersExact' /\ RowsSettled'
<1> SUFFICES ASSUME IInv, CountersExact, RowsSettled, [Next]_vars
             PROVE  CountersExact' /\ RowsSettled'
  OBVIOUS
<1>1. ASSUME UNCHANGED <<read, counts>> PROVE CountersExact'
  BY <1>1 DEF CountersExact, Those
<1>2. CASE UNCHANGED vars
  <2>1. UNCHANGED <<pc, rows, tpmPresent, read, failed, counts, weakest, signedWeakest>>
    BY <1>2 DEF vars
  <2>2. UNCHANGED DumpResults
    BY <2>1 DEF DumpResults, found, VersionResult, IntegrityResult, TpmResults,
                BindingResult, PcrResults, HashPolicyRows, SignedPolicyRows
  <2>3. RowsSettled'
    BY <2>1, <2>2 DEF RowsSettled
  <2> QED BY <1>1, <2>1, <2>3
<1>3. CASE \E full \in Headers : \E h \in Readings(full) : DumpSucceeds(full, h)
  <2>1. pc' = "dump"
    BY <1>3 DEF DumpSucceeds
  <2> QED BY <1>3, <2>1, ExactDump DEF RowsSettled
<1>4. CASE ListDevices \/ PathDoesNotFit \/ DumpFails \/ EndOfListing
  <2>1. UNCHANGED <<read, counts>> /\ pc' \in {"gate", "dump", "rows"}
    BY <1>4 DEF ListDevices, PathDoesNotFit, DumpFails, EndOfListing
  <2> QED BY <1>1, <2>1 DEF RowsSettled
<1>5. CASE SecondListing
  <2>1. UNCHANGED <<read, counts, failed>> /\ pc = "gate"
    BY <1>5 DEF SecondListing
  <2>2. read' = <<>> /\ failed' = 0
    BY <2>1 DEF IInv, TypeInv
  <2>3. pc' = "done" => \A n \in DumpRows : rows'[n].state # "OK"
    <3> SUFFICES ASSUME pc' = "done" PROVE \A n \in DumpRows : rows'[n].state # "OK"
      OBVIOUS
    <3>1. PICK r \in AllRows : r.state # "OK" /\ rows' = Add(rows, Fill(DumpRows, r))
      BY <1>5, SecondListingRows
    <3>2. DOMAIN rows \subseteq {DevicesRow}
      BY <2>1 DEF IInv, RowsInv
    <3>3. \A n \in DumpRows : rows'[n] = r
      BY <3>1, <3>2, NamesDiffer DEF Add, Fill
    <3> QED BY <3>1, <3>3
  <2> QED BY <1>1, <2>1, <2>2, <2>3 DEF RowsSettled
<1>6. CASE EmitRows
  <2>1. UNCHANGED <<tpmPresent, read, failed, counts, weakest, signedWeakest>>
    BY <1>6 DEF EmitRows
  <2>2. UNCHANGED DumpResults
    BY <2>1 DEF DumpResults, found, VersionResult, IntegrityResult, TpmResults,
                BindingResult, PcrResults, HashPolicyRows, SignedPolicyRows
  <2>3. \A n \in DumpRows : rows'[n] = DumpResults[n]
    BY <1>6, EmittedRows
  <2>4. RowsSettled'
    BY <2>2, <2>3 DEF RowsSettled
  <2> QED BY <1>1, <2>1, <2>4
<1> QED BY <1>2, <1>3, <1>4, <1>5, <1>6 DEF Next, Returned

LEMMA Exactness == Spec => [](CountersExact /\ RowsSettled)
BY Invariance, ExactInit, ExactKeeps, PTL DEF Spec
-----------------------------------------------------------------------------
\* The counters of the dump loop are exact: each is the number of headers read
\* that are of its kind, so none is counted twice, missed, or left over.
THEOREM CountersAreExact == Spec => []CountersExact
<1>1. CountersExact /\ RowsSettled => CountersExact
  OBVIOUS
<1> QED BY <1>1, Exactness, PTL

\* The hash policies read are nested: of two of them one contains the other.
NestedPolicies ==
  \A v, w \in Parsed :
    HasHash(v) /\ HasHash(w) => v.hash \subseteq w.hash \/ w.hash \subseteq v.hash

\* The PCRs that a PCR row asks a hash policy for.
Asked(n) == IF n = SecureBootRow THEN {7} ELSE {4, 9}

\* A PCR row that is ok is true of every volume with a hash policy.
PcrOkHoldsForEveryVolume ==
  pc = "done" =>
    \A n \in PcrRows : rows[n].state = "OK" =>
      \A i \in DOMAIN read : HasHash(read[i]) => Asked(n) \subseteq dumped[i].hash

\* Of nested policies the one with the fewest PCRs is contained in all of them.
LEMMA FewestIsLeast ==
  ASSUME IInv, NestedPolicies, NEW i \in DOMAIN read, HasHash(read[i])
  PROVE  weakest \subseteq read[i].hash /\ weakest # {}
<1> DEFINE m == read[i].hash
<1>1. /\ read[i] \in Parsed /\ m \in SUBSET AllPcrs /\ m # {}
  <2>1. read[i] \in LuksHeader
    BY DEF IInv, TypeInv
  <2>2. m \in SUBSET AllPcrs
    BY <2>1 DEF LuksHeader, AllPcrs
  <2> QED BY <2>2 DEF Parsed, HasHash
<1>2. /\ weakest \in {v.hash : v \in {v \in Parsed : HasHash(v)}} \cup {AllPcrs}
      /\ Cardinality(weakest) <= Cardinality(m)
  BY <1>1 DEF IInv, WeakestIsFewest
<1>3. m \subseteq weakest \/ weakest \subseteq m
  BY <1>1, <1>2 DEF NestedPolicies
<1>4. IsFiniteSet(AllPcrs)
  <2>1. 0 \in Int /\ 31 \in Int
    OBVIOUS
  <2> QED BY <2>1, FS_Interval DEF AllPcrs
<1>5. weakest \in SUBSET AllPcrs
  BY DEF IInv, TypeInv
<1>6. IsFiniteSet(weakest) /\ Cardinality(weakest) \in Nat
  BY <1>4, <1>5, FS_Subset, FS_CardinalityType
<1>7. CASE m \subseteq weakest
  <2>1. m \in SUBSET weakest
    BY <1>7
  <2>2. Cardinality(m) <= Cardinality(weakest) /\ Cardinality(m) \in Nat
    BY <1>6, <2>1, FS_Subset, FS_CardinalityType
  <2>3. Cardinality(weakest) = Cardinality(m)
    <3> HIDE DEF m
    <3> QED BY <1>2, <1>6, <2>2
  <2>4. weakest = m
    BY <1>6, <2>1, <2>3, FS_Subset
  <2> QED BY <1>1, <2>4
<1>8. weakest # {}
  <2>1. 0 \in AllPcrs
    BY DEF AllPcrs
  <2> QED BY <1>2, <2>1 DEF HasHash
<1> QED BY <1>3, <1>7, <1>8

\* check_luks.c keeps the mask with the fewest PCRs and lets it speak for all
\* volumes.  That is sound whenever the policies are nested, one volume or any
\* number of them with equal policies included: an ok PCR row then holds for
\* every volume, however the dumps were cut.  The run that violates
\* EveryVolumeBindsPcr7 has to use policies that are not nested.
THEOREM NestedPoliciesAreJudged ==
  Spec => [](NestedPolicies => PcrOkHoldsForEveryVolume /\ EveryVolumeBindsPcr7)
<1>1. ASSUME IInv, RowsSettled, NestedPolicies
      PROVE  PcrOkHoldsForEveryVolume /\ EveryVolumeBindsPcr7
  <2>1. ASSUME pc = "done", NEW n \in PcrRows, rows[n].state = "OK",
               NEW i \in DOMAIN read, HasHash(read[i])
        PROVE  Asked(n) \subseteq read[i].hash /\ Asked(n) \subseteq dumped[i].hash
    <3>1. read # <<>>
      BY <2>1
    <3>2. DumpResults[n].state = "OK" /\ n \in DumpRows
      BY <1>1, <2>1, <3>1, NamesDiffer DEF RowsSettled
    <3>3. PcrResults[n].state = "OK"
      BY <3>2, DumpResultsAre
    <3>4. weakest \subseteq read[i].hash /\ weakest # {}
      BY <1>1, <2>1, FewestIsLeast
    <3>5. weakest # AllPcrs => Asked(n) \subseteq weakest
      BY <3>3, <3>4, PcrResultsAre DEF Asked
    <3>6. Asked(n) \subseteq AllPcrs /\ \A p \in Asked(n) : p > 3
      BY DEF Asked, AllPcrs
    <3>7. Asked(n) \subseteq read[i].hash
      BY <3>4, <3>5, <3>6
    <3>8. i \in DOMAIN dumped /\ dumped[i] \in LuksHeader /\ read[i] \in Readings(dumped[i])
      BY <1>1, HeadersAssumption DEF IInv, TypeInv
    <3>9. \A p \in read[i].hash : p > 3 => p \in dumped[i].hash
      BY <3>8, ReadingsLose
    <3> QED BY <3>6, <3>7, <3>9
  <2>2. PcrOkHoldsForEveryVolume
    BY <2>1 DEF PcrOkHoldsForEveryVolume
  <2>3. EveryVolumeBindsPcr7
    <3>1. SecureBootRow \in PcrRows /\ Asked(SecureBootRow) = {7}
      BY DEF PcrRows, Asked
    <3> QED BY <2>1, <3>1 DEF EveryVolumeBindsPcr7, Parsed
  <2> QED BY <2>2, <2>3
<1>2. IInv /\ CountersExact /\ RowsSettled =>
        (NestedPolicies => PcrOkHoldsForEveryVolume /\ EveryVolumeBindsPcr7)
  BY <1>1
<1> QED BY <1>2, Invariance, Exactness, PTL

\* A warning about volumes whose headers were read is earned.
WarningsEarned ==
  pc = "done" /\ read # <<>> =>
    /\ rows[VersionRow].state = "WARN" => \E v \in Volumes : v.version = 1
    /\ rows[IntegrityRow].state = "WARN" =>
         (\E v \in Volumes : v.integrity) /\ (\E v \in Parsed : ~v.integrity)
    /\ rows[BindingRow].state = "WARN" =>
         tpmPresent /\ (failed > 0 \/ \E v \in Parsed : v.token # "tpm2")
    /\ rows[SecureBootRow].state = "WARN" =>
         \E v \in Parsed : v.token = "tpm2" /\ ~HasSigned(v) /\ 7 \notin v.hash
    /\ rows[BootChainRow].state = "WARN" =>
         \E v \in Parsed :
           /\ v.token = "tpm2"
           /\ IF HasSigned(v) THEN 11 \notin v.signed ELSE ~({4, 9} \subseteq v.hash)

\* The rows of the PCRs that warn, by what decides them.
LEMMA PcrWarns ==
  ASSUME NEW n \in PcrRows, PcrResults[n].state = "WARN"
  PROVE  \/ /\ weakest # AllPcrs /\ weakest # {}
            /\ counts.unparsed # 0 \/ ~(Asked(n) \subseteq weakest)
         \/ n = BootChainRow /\ 11 \notin signedWeakest
<1>1. ASSUME NEW r \in SkipReasons PROVE Fill(PcrRows, Skip(r))[n].state # "WARN"
  BY RowTypes DEF Fill
<1>2. {"SUBJECT_ABSENT", "PROBE_INDETERMINATE", "EXEC_FAILED", "OUTPUT_UNPARSEABLE"} \subseteq SkipReasons
  BY DEF SkipReasons
<1>3. \/ PcrResults = HashPolicyRows /\ weakest # AllPcrs /\ weakest # {}
      \/ PcrResults = SignedPolicyRows
  BY <1>1, <1>2 DEF PcrResults
<1>4. Row("OK").state # "WARN"
  BY RowTypes
<1>5. n = SecureBootRow \/ (n = BootChainRow /\ n # SecureBootRow)
  BY NamesDiffer
<1>6. CASE PcrResults = HashPolicyRows /\ weakest # AllPcrs /\ weakest # {}
  <2>1. HashPolicyRows[n].state = "WARN"
    BY <1>6
  <2>2. ~(Asked(n) \subseteq weakest /\ counts.unparsed = 0)
    BY <1>4, <1>5, <2>1 DEF HashPolicyRows, Asked
  <2> QED BY <1>6, <2>2
<1>7. CASE PcrResults = SignedPolicyRows
  <2>1. SignedPolicyRows[n].state = "WARN"
    BY <1>7
  <2> QED BY <1>4, <1>5, <2>1 DEF SignedPolicyRows
<1> QED BY <1>3, <1>6, <1>7

\* No false alarm: a row of bythos_check_luks that warns of headers it read can
\* name the volume.  "LUKS version" needs a LUKS1 header, which no cut makes
\* up; "LUKS dm-integrity" one with and one without; the TPM and PCR rows a
\* dump that failed, another token, or a token without the PCRs asked for.
THEOREM NoFalseAlarm == Spec => []WarningsEarned
<1>1. ASSUME IInv, CountersExact, RowsSettled, pc = "done", read # <<>>
      PROVE  WarningsEarned
  <2>1. \A n \in DumpRows : rows[n] = DumpResults[n]
    BY <1>1 DEF RowsSettled
  <2>2. /\ VersionRow \in DumpRows /\ IntegrityRow \in DumpRows /\ BindingRow \in DumpRows
        /\ PcrRows \subseteq DumpRows /\ SecureBootRow \in PcrRows /\ BootChainRow \in PcrRows
    BY NamesDiffer
  <2>3. /\ rows[VersionRow].state = "WARN" => VersionResult.state = "WARN"
        /\ rows[IntegrityRow].state = "WARN" => IntegrityResult.state = "WARN"
        /\ rows[BindingRow].state = "WARN" => BindingResult.state = "WARN" /\ tpmPresent
        /\ \A n \in PcrRows : rows[n].state = "WARN" => PcrResults[n].state = "WARN"
    BY <2>1, <2>2, DumpResultsAre
  <2>4. \A r \in SkipReasons : Skip(r).state # "WARN" /\ SkipActionable(r).state # "WARN"
    BY RowTypes
  <2>5. Row("OK").state # "WARN"
    BY RowTypes
  <2>6. {"EXEC_FAILED", "OUTPUT_UNPARSEABLE", "NOT_CONFIGURED", "PROBE_INDETERMINATE"} \subseteq SkipReasons
    BY DEF SkipReasons
  <2>7. ASSUME NEW i \in DOMAIN read
        PROVE  /\ read[i] \in Parsed /\ dumped[i] \in Volumes
               /\ read[i].version # 0 => dumped[i].version = read[i].version
               /\ read[i].integrity => dumped[i].integrity
    <3>1. i \in DOMAIN dumped /\ dumped[i] \in LuksHeader /\ read[i] \in Readings(dumped[i])
      BY <1>1, HeadersAssumption DEF IInv, TypeInv
    <3> QED BY <3>1, ReadingsLose DEF Parsed, Volumes
  <2>8. \A c \in CountNames : counts[c] \in Nat
    BY <1>1 DEF IInv, TypeInv
  <2>9. VersionResult.state = "WARN" => \E v \in Volumes : v.version = 1
    <3> SUFFICES ASSUME VersionResult.state = "WARN" PROVE \E v \in Volumes : v.version = 1
      OBVIOUS
    <3>1. counts.luks1 > 0
      BY <2>4, <2>5, <2>6 DEF VersionResult
    <3>2. "luks1" \in CountNames /\ counts["luks1"] # 0
      BY <3>1 DEF CountNames
    <3>3. PICK i \in DOMAIN read : Counted("luks1", read[i])
      BY <1>1, <3>2, SomeCounted
    <3> QED BY <2>7, <3>3 DEF Counted
  <2>10. IntegrityResult.state = "WARN" =>
           (\E v \in Volumes : v.integrity) /\ (\E v \in Parsed : ~v.integrity)
    <3> SUFFICES ASSUME IntegrityResult.state = "WARN"
                 PROVE  (\E v \in Volumes : v.integrity) /\ (\E v \in Parsed : ~v.integrity)
      OBVIOUS
    <3>1. counts.integrity # 0 /\ counts.integrity # Len(read)
      BY <2>4, <2>5, <2>6 DEF IntegrityResult
    <3>2. "integrity" \in CountNames /\ counts["integrity"] # 0
      BY <3>1 DEF CountNames
    <3>3. PICK i \in DOMAIN read : Counted("integrity", read[i])
      BY <1>1, <3>2, SomeCounted
    <3>4. read[i].integrity
      BY <3>3 DEF Counted
    <3>5. \E j \in DOMAIN read : ~read[j].integrity
      <4> SUFFICES ASSUME \A j \in DOMAIN read : read[j].integrity PROVE FALSE
        OBVIOUS
      <4>1. Those("integrity") = 1..Len(read) /\ Len(read) \in Nat
        BY <1>1 DEF Those, Counted, IInv, TypeInv
      <4>2. Cardinality(1..Len(read)) = Len(read)
        <5> DEFINE k == Len(read)
        <5>1. 1 \in Int /\ k \in Int /\ k >= 0
          BY <4>1
        <5> HIDE DEF k
        <5>2. Cardinality(1..k) = IF 1 > k THEN 0 ELSE k - 1 + 1
          BY <5>1, FS_Interval
        <5>3. Cardinality(1..k) = k
          BY <5>1, <5>2
        <5> QED BY <5>3 DEF k
      <4>3. counts.integrity = Cardinality(Those("integrity"))
        BY <1>1, <3>2 DEF CountersExact
      <4> QED BY <3>1, <4>1, <4>2, <4>3
    <3> QED BY <2>7, <3>4, <3>5
  <2>11. BindingResult.state = "WARN" => failed > 0 \/ \E v \in Parsed : v.token # "tpm2"
    <3> SUFFICES ASSUME BindingResult.state = "WARN", ~(failed > 0)
                 PROVE  \E i \in DOMAIN read : read[i].token # "tpm2"
      BY <2>7
    <3>1. counts.tokens = 0 \/ counts.noToken > 0 \/ counts.clevis > 0
      BY <2>4, <2>5, <2>6 DEF BindingResult
    <3>2. CASE counts.tokens = 0
      <4>1. counts["tokens"] = Cardinality(Those("tokens")) /\ IsFiniteSet(Those("tokens"))
        BY <1>1, ThoseFinite DEF CountersExact, CountNames
      <4>2. Those("tokens") = {}
        BY <3>2, <4>1, FS_EmptySet
      <4>3. 1 \in DOMAIN read
        BY <1>1 DEF IInv, TypeInv
      <4> QED BY <4>2, <4>3 DEF Those, Counted
    <3>3. CASE counts.noToken > 0
      <4>1. "noToken" \in CountNames /\ counts["noToken"] # 0
        BY <3>3 DEF CountNames
      <4>2. PICK i \in DOMAIN read : Counted("noToken", read[i])
        BY <1>1, <4>1, SomeCounted
      <4> QED BY <4>2 DEF Counted
    <3>4. CASE counts.clevis > 0
      <4>1. "clevis" \in CountNames /\ counts["clevis"] # 0
        BY <3>4 DEF CountNames
      <4>2. PICK i \in DOMAIN read : Counted("clevis", read[i])
        BY <1>1, <4>1, SomeCounted
      <4> QED BY <4>2 DEF Counted
    <3> QED BY <3>1, <3>2, <3>3, <3>4
  <2>12. ASSUME NEW n \in PcrRows, PcrResults[n].state = "WARN"
         PROVE  \/ \E i \in DOMAIN read :
                     /\ read[i].token = "tpm2" /\ ~HasSigned(read[i])
                     /\ ~(Asked(n) \subseteq read[i].hash)
                \/ n = BootChainRow
                     /\ \E i \in DOMAIN read : HasSigned(read[i]) /\ 11 \notin read[i].signed
    <3>1. CASE weakest # AllPcrs /\ ~(Asked(n) \subseteq weakest)
      <4>1. PICK i \in DOMAIN read : HasHash(read[i]) /\ weakest = read[i].hash
        BY <1>1, <3>1 DEF IInv, WeakestIsFewest, Parsed
      <4> QED BY <3>1, <4>1 DEF HasHash, HasSigned
    <3>2. CASE counts.unparsed # 0
      <4>1. "unparsed" \in CountNames /\ counts["unparsed"] # 0
        BY <3>2 DEF CountNames
      <4>2. PICK i \in DOMAIN read : Counted("unparsed", read[i])
        BY <1>1, <4>1, SomeCounted
      <4>3. Asked(n) # {}
        BY DEF Asked
      <4> QED BY <4>2, <4>3 DEF Counted, HasHash
    <3>3. CASE n = BootChainRow /\ 11 \notin signedWeakest
      <4>1. signedWeakest # AllPcrs
        BY <3>3 DEF AllPcrs
      <4>2. PICK i \in DOMAIN read : HasSigned(read[i]) /\ signedWeakest = read[i].signed
        BY <1>1, <4>1 DEF IInv, WeakestIsFewest, Parsed
      <4> QED BY <3>3, <4>2
    <3> QED BY <2>12, <3>1, <3>2, <3>3, PcrWarns
  <2>13. PcrResults[SecureBootRow].state = "WARN" =>
           \E v \in Parsed : v.token = "tpm2" /\ ~HasSigned(v) /\ 7 \notin v.hash
    <3>1. Asked(SecureBootRow) = {7} /\ SecureBootRow # BootChainRow
      BY NamesDiffer DEF Asked
    <3> QED BY <2>2, <2>7, <2>12, <3>1
  <2>14. PcrResults[BootChainRow].state = "WARN" =>
           \E v \in Parsed :
             /\ v.token = "tpm2"
             /\ IF HasSigned(v) THEN 11 \notin v.signed ELSE ~({4, 9} \subseteq v.hash)
    <3>1. Asked(BootChainRow) = {4, 9}
      BY NamesDiffer DEF Asked
    <3>2. \A i \in DOMAIN read : HasSigned(read[i]) => read[i].token = "tpm2"
      BY DEF HasSigned
    <3> QED BY <2>2, <2>7, <2>12, <3>1, <3>2
  <2> QED BY <2>2, <2>3, <2>9, <2>10, <2>11, <2>13, <2>14 DEF WarningsEarned
<1>2. IInv /\ CountersExact /\ RowsSettled => WarningsEarned
  BY <1>1 DEF WarningsEarned
<1> QED BY <1>2, Invariance, Exactness, PTL
-----------------------------------------------------------------------------
\* An upper bound on the steps that bythos_check_luks has still to take.
StepsLeft ==
  IF pc = "list" THEN MaxVolumes + 4
  ELSE IF pc = "gate" THEN MaxVolumes + 3
  ELSE IF pc = "dump" THEN left + 2
  ELSE IF pc = "rows" THEN 1 ELSE 0

\* The check cannot run on: every step that changes anything brings its end
\* nearer, so with V volumes listed it returns after at most V + 4 steps, dumps
\* that fail and paths that do not fit included.
THEOREM CheckEnds ==
  Spec => [](StepsLeft \in Nat) /\ [][StepsLeft' < StepsLeft]_vars
<1>1. IInv => StepsLeft \in Nat /\ left \in 0..MaxVolumes
  BY MaxVolumesAssumption DEF IInv, TypeInv, StepsLeft
<1>2. IInv /\ [Next]_vars => [StepsLeft' < StepsLeft]_vars
  <2> SUFFICES ASSUME IInv, Next, ~UNCHANGED vars PROVE StepsLeft' < StepsLeft
    OBVIOUS
  <2>1. left \in Nat /\ left <= MaxVolumes
    BY <1>1, MaxVolumesAssumption
  <2>2. CASE ListDevices
    BY <2>2, MaxVolumesAssumption DEF ListDevices, StepsLeft
  <2>3. CASE SecondListing
    <3>1. pc = "gate"
      BY <2>3 DEF SecondListing
    <3>2. (pc' = "dump" /\ left' \in 0..MaxVolumes) \/ pc' = "done"
      BY <2>3, SecondListingRows
    <3> QED BY <3>1, <3>2, MaxVolumesAssumption DEF StepsLeft
  <2>4. CASE PathDoesNotFit \/ DumpFails
              \/ \E full \in Headers : \E h \in Readings(full) : DumpSucceeds(full, h)
    <3>1. pc = "dump" /\ pc' = "dump" /\ left' = left - 1
      BY <2>4 DEF PathDoesNotFit, DumpFails, DumpSucceeds
    <3> QED BY <2>1, <3>1 DEF StepsLeft
  <2>5. CASE EndOfListing \/ EmitRows
    BY <2>1, <2>5 DEF EndOfListing, EmitRows, StepsLeft
  <2>6. ~Returned
    BY DEF Returned
  <2> QED BY <2>2, <2>3, <2>4, <2>5, <2>6 DEF Next
<1> QED BY <1>1, <1>2, Invariance, PTL DEF Spec
=============================================================================
