---------------------------- MODULE BootEntries ----------------------------
(***************************************************************************)
(* bythos_check_bios_boot (src/src/check_bios_boot.c) with the parsers of  *)
(* src/src/efi_boot_parsers.c: the walk over BootOrder and BootNext, the   *)
(* BootOrder immutable flag, the firmware-attributes USB setting and the   *)
(* SMBIOS passwords.                                                       *)
(*                                                                         *)
(* efivarfs is read one variable at a time while firmware tools may write  *)
(* it, so what each read finds is chosen at that read.  A Boot#### load    *)
(* option is its active bit, its device path as a sequence of node         *)
(* classes, and its description: the words the classifier looks for and    *)
(* the length of its printable form.  Texts are represented by lengths.    *)
(***************************************************************************)
EXTENDS Integers, Sequences, FiniteSets, Rows

CONSTANTS
  Options,        \* the load options a model uses, as records
  MaxEntries,     \* BYTHOS_EFI_BOOT_MAX_ENTRIES
  OrderRoom,      \* boot numbers that fit order_buf
  MaxOrder,       \* bound: boot numbers in the BootOrder variable
  MediumSize,     \* sizeof(usb_entries), net_entries and cd_entries
  UnreadableSize, \* sizeof(unreadable_entries)
  UnclassSize,    \* sizeof(unclassified_entries)
  DetailSize      \* BYTHOS_DETAIL_MAX

Media == {"USB", "NETWORK", "CD"}
Nodes == Media \cup {"DISK", "OTHER", "END", "MALFORMED"}
DescMax == 39     \* BOOT_DESC_DISPLAY_MAX - 1

\* The texts that describe_incomplete_order and compose_blocked_detail put
\* around the lists: "boot order not fully inspected", "; unreadable: ",
\* "; unclassified: ", " and more", "; list shortened at 32 entries" and
\* "; network presence unconfirmed", the longest of the three media.
Lead         == 30
UnreadableLn == 14
UnclassLn    == 16
AndMoreLn    == 9
ShortenedLn  == 30
MediumLn     == 30

ASSUME OptionsAssumption ==
  \A o \in Options :
    /\ o.active \in BOOLEAN
    /\ o.path \in Seq(Nodes)
    /\ o.words \subseteq Media
    /\ o.descLn \in 0..DescMax
ASSUME RoomAssumption ==
  MaxEntries \in Nat /\ MaxOrder \in Nat /\ OrderRoom \in Nat /\ OrderRoom > MaxEntries
ASSUME SizesAssumption ==
  /\ MediumSize \in Nat \ {0}
  /\ UnreadableSize \in Nat \ {0}
  /\ UnclassSize \in Nat \ {0}
  /\ DetailSize \in Nat
ASSUME FirstItemAssumption ==
  MediumSize > 8 /\ UnreadableSize > 8 /\ UnclassSize > 8 + DescMax + 3
ASSUME DetailAssumption ==
  Lead + UnreadableLn + (UnreadableSize - 1) + UnclassLn + (UnclassSize - 1)
    + 2 * AndMoreLn + ShortenedLn + MediumLn < DetailSize

VARIABLES
  pc,         \* "order", "walk", "rows", "next", "immutable", "attrs", "passwords", "done"
  rows,       \* the rows emitted so far, by name
  orderLen,   \* boot numbers the BootOrder variable really held
  left,       \* numbers of order.order still to be walked
  capped,     \* order_capped
  seen,       \* how many numbers of the walk turned out to be of each kind
  lists,      \* strlen of the five lists
  allListed   \* the five ..._all_listed flags

vars == <<pc, rows, orderLen, left, capped, seen, lists, allListed>>
walkVars == <<orderLen, left, capped, seen, lists, allListed>>

Kinds == Media \cup {"DISK", "INACTIVE", "UNKNOWN", "UNREADABLE"}

Causes == {"UNREADABLE", "UNKNOWN"}
Lists  == Media \cup Causes
UsbRow == "EFI USB boot"
NetworkRow == "EFI network boot"
CdRow == "EFI CD/DVD boot"
NextRow == "EFI one-shot boot"
ImmutableRow == "EFI BootOrder immutable"
AttrsRow == "BIOS USB boot"
PasswordRows ==
  {"Firmware admin password", "Firmware power-on password", "Firmware keyboard password"}
OrderRows == {UsbRow, NetworkRow, CdRow, NextRow}

-----------------------------------------------------------------------------
(***************************************************************************)
(* The parsers.                                                            *)
(***************************************************************************)

Stops(node) == node \in {"END", "MALFORMED"}

\* classify_device_path: the class of the first node that has one, before the
\* end node and before a node whose length is too small to step over.
ClassifyPath(path) ==
  LET decisive == {i \in DOMAIN path :
                     /\ path[i] \in Media \cup {"DISK"}
                     /\ \A j \in 1..(i - 1) : ~Stops(path[j]) /\ path[j] = "OTHER"}
  IN IF decisive = {} THEN "UNKNOWN" ELSE path[CHOOSE i \in decisive : TRUE]

\* classify_description: USB words win over network words, those over CD words.
ClassifyDescription(words) ==
  IF "USB" \in words THEN "USB"
  ELSE IF "NETWORK" \in words THEN "NETWORK"
  ELSE IF "CD" \in words THEN "CD"
  ELSE "UNKNOWN"

\* bythos_parse_efi_boot_entry: the description is asked only when the device
\* path says nothing.
EntryType(o) ==
  IF ClassifyPath(o.path) # "UNKNOWN" THEN ClassifyPath(o.path)
  ELSE ClassifyDescription(o.words)
-----------------------------------------------------------------------------
(***************************************************************************)
(* check_efivars_boot.                                                     *)
(***************************************************************************)

\* No efivarfs, no BootOrder, or one shorter than a single number.
NoBootOrder ==
  /\ pc = "order"
  /\ \E r \in {"FEATURE_ABSENT", "OUTPUT_UNPARSEABLE"} :
       rows' = Add(rows, Fill(OrderRows, Skip(r)))
  /\ pc' = "immutable"
  /\ UNCHANGED walkVars

\* Mutant of ParseOrder: the cap is not recorded.
ParseOrderUncapped(n) ==
  /\ pc = "order"
  /\ orderLen' = n
  /\ left' = IF n <= MaxEntries THEN n ELSE MaxEntries
  /\ pc' = "walk"
  /\ UNCHANGED <<rows, capped, seen, lists, allListed>>

\* BootOrder holds n numbers, of which order_buf takes OrderRoom and
\* bythos_parse_efi_boot_order at most MaxEntries.
ParseOrder(n) ==
  /\ pc = "order"
  /\ orderLen' = n
  /\ LET count == IF n <= OrderRoom THEN n ELSE OrderRoom
     IN /\ left' = IF count <= MaxEntries THEN count ELSE MaxEntries
        /\ capped' = (count > MaxEntries)
  /\ pc' = "walk"
  /\ UNCHANGED <<rows, seen, lists, allListed>>

SizeOf(list) ==
  IF list = "UNREADABLE" THEN UnreadableSize
  ELSE IF list = "UNKNOWN" THEN UnclassSize
  ELSE MediumSize

Separator(list) == IF lists[list] > 0 THEN 1 ELSE 0

\* Mutant of ItemLn: the description is quoted as UTF-16 escapes of two
\* characters each, and no longer fits an empty list.
ItemLnEscaped(list, descLn) ==
  Separator(list) + 8 + (IF list = "UNKNOWN" /\ descLn > 0 THEN 2 * descLn + 3 ELSE 0)

\* append_entry_id's item is "Boot%04X", append_unclassified_entry's adds the
\* description in quotes.
ItemLn(list, descLn) ==
  Separator(list) + 8 + (IF list = "UNKNOWN" /\ descLn > 0 THEN descLn + 3 ELSE 0)

\* Mutant of AppendTo: a list that is full is not marked.
AppendToSilently(list, descLn) ==
  LET ln == lists[list] + ItemLn(list, descLn)
  IN IF ln >= SizeOf(list)
     THEN UNCHANGED <<lists, allListed>>
     ELSE lists' = [lists EXCEPT ![list] = ln] /\ UNCHANGED allListed

\* Mutant of AppendTo: the size of the list is not looked at.
AppendToUnchecked(list, descLn) ==
  /\ lists' = [lists EXCEPT ![list] = @ + ItemLn(list, descLn)]
  /\ UNCHANGED allListed

\* Mutant of AppendTo: the list may grow to its whole size.
AppendToFull(list, descLn) ==
  LET ln == lists[list] + ItemLn(list, descLn)
  IN IF ln > SizeOf(list)
     THEN allListed' = [allListed EXCEPT ![list] = FALSE] /\ UNCHANGED lists
     ELSE lists' = [lists EXCEPT ![list] = ln] /\ UNCHANGED allListed

\* An item that does not fit is left out whole and the list is marked.
AppendTo(list, descLn) ==
  LET ln == lists[list] + ItemLn(list, descLn)
  IN IF ln >= SizeOf(list)
     THEN allListed' = [allListed EXCEPT ![list] = FALSE] /\ UNCHANGED lists
     ELSE lists' = [lists EXCEPT ![list] = ln] /\ UNCHANGED allListed

Step(kind) ==
  /\ pc = "walk"
  /\ left > 0
  /\ left' = left - 1
  /\ seen' = [seen EXCEPT ![kind] = @ + 1]
  /\ UNCHANGED <<pc, rows, orderLen, capped>>

\* read_boot_entry fails: no such variable, too long, or too short to parse.
EntryUnreadable ==
  /\ Step("UNREADABLE")
  /\ AppendTo("UNREADABLE", 0)

\* Inactive and disk entries are passed over, the others listed by type.
EntryRead(o) ==
  LET type == EntryType(o)
  IN IF ~o.active \/ type = "DISK"
     THEN Step(IF o.active THEN "DISK" ELSE "INACTIVE") /\ UNCHANGED <<lists, allListed>>
     ELSE Step(type) /\ AppendTo(type, o.descLn)

EndOfOrder ==
  /\ pc = "walk"
  /\ left = 0
  /\ pc' = "rows"
  /\ UNCHANGED <<rows, walkVars>>

\* unreadable > 0, unclassified > 0 and the media's ..._in_order.
Met(kind) == seen[kind] > 0

Blocked == Met("UNREADABLE") \/ Met("UNKNOWN") \/ capped

\* strlen of the text describe_incomplete_order composes; a list is mentioned
\* only if it is not empty.
BlockedLn ==
  LET Part(list, lead) ==
        IF lists[list] = 0 THEN 0
        ELSE lead + lists[list] + (IF allListed[list] THEN 0 ELSE AndMoreLn)
  IN Lead + Part("UNREADABLE", UnreadableLn) + Part("UNKNOWN", UnclassLn)
       + (IF capped THEN ShortenedLn ELSE 0)

MediumResult(m) ==
  IF Met(m) THEN Row("WARN")
  ELSE IF Blocked THEN Skip("OUTPUT_UNPARSEABLE")
  ELSE Row("OK")

EmitMedia ==
  /\ pc = "rows"
  /\ rows' = Add(rows, [n \in {UsbRow, NetworkRow, CdRow} |->
                          IF n = UsbRow THEN MediumResult("USB")
                          ELSE IF n = NetworkRow THEN MediumResult("NETWORK")
                          ELSE MediumResult("CD")])
  /\ pc' = "next"
  /\ UNCHANGED walkVars

\* check_efivars_boot returns and its variables are gone.
LocalsDie ==
  /\ orderLen' = 0
  /\ left' = 0
  /\ capped' = FALSE
  /\ seen' = [k \in Kinds |-> 0]
  /\ lists' = [l \in Lists |-> 0]
  /\ allListed' = [l \in Lists |-> TRUE]

\* BootNext is absent, or present but unreadable, itself or the entry it names.
NoNextEntry ==
  /\ pc = "next"
  /\ \E row \in {Row("OK"), Row("WARN")} : rows' = Add(rows, Fill({NextRow}, row))
  /\ pc' = "immutable"
  /\ LocalsDie

\* BootNext names entry o, which need not be active.
NextEntry(o) ==
  /\ pc = "next"
  /\ rows' = Add(rows, Fill({NextRow},
               IF EntryType(o) \in Media THEN Row("WARN") ELSE Row("OK")))
  /\ pc' = "immutable"
  /\ LocalsDie
-----------------------------------------------------------------------------
(***************************************************************************)
(* The other three sections of bythos_check_bios_boot.                     *)
(***************************************************************************)

\* check_efivars_immutable: no BootOrder, open() or ioctl() failing, the flag.
CheckImmutable ==
  /\ pc = "immutable"
  /\ \E row \in {Skip("FEATURE_ABSENT"), Skip("EXEC_FAILED"), Row("OK"), Row("WARN")} :
       rows' = Add(rows, Fill({ImmutableRow}, row))
  /\ pc' = "attrs"
  /\ UNCHANGED walkVars

\* check_firmware_attrs_boot: the first readable attribute whose name has both
\* "usb" and "boot" decides; "disable" is looked for before "enable".
CheckAttrs ==
  /\ pc = "attrs"
  /\ \E row \in {Skip("FEATURE_ABSENT"), Row("OK"), Row("WARN")} :
       rows' = Add(rows, Fill({AttrsRow}, row))
  /\ pc' = "passwords"
  /\ UNCHANGED walkVars

\* What dmidecode's output says of one password.
SlotRows(tablePresent) ==
  {Row("OK"), Row("WARN"), Skip("OUTPUT_UNPARSEABLE"),
   Skip(IF tablePresent THEN "REPORT_FIELD_ABSENT" ELSE "FEATURE_ABSENT")}

\* check_firmware_password: one dmidecode answers for all three.
CheckPasswords ==
  /\ pc = "passwords"
  /\ \/ \E match \in PathMatches \ {"trusted"} :
          rows' = Add(rows, Fill(PasswordRows, ToolRow(match)))
     \/ \E row \in {SkipRoot("EXEC_FAILED"), Skip("EXEC_FAILED")} :
          rows' = Add(rows, Fill(PasswordRows, row))
     \/ \E tablePresent \in BOOLEAN :
          \E answer \in [PasswordRows -> SlotRows(tablePresent)] :
            rows' = Add(rows, answer)
  /\ pc' = "done"
  /\ UNCHANGED walkVars

Returned == pc = "done" /\ UNCHANGED vars

Init ==
  /\ pc = "order"
  /\ rows = <<>>
  /\ orderLen = 0
  /\ left = 0
  /\ capped = FALSE
  /\ seen = [k \in Kinds |-> 0]
  /\ lists = [l \in Lists |-> 0]
  /\ allListed = [l \in Lists |-> TRUE]

Next ==
  \/ NoBootOrder
  \/ \E n \in 1..MaxOrder : ParseOrder(n)
  \/ EntryUnreadable
  \/ \E o \in Options : EntryRead(o)
  \/ EndOfOrder \/ EmitMedia
  \/ NoNextEntry
  \/ \E o \in Options : NextEntry(o)
  \/ CheckImmutable \/ CheckAttrs \/ CheckPasswords \/ Returned

Spec == Init /\ [][Next]_vars
-----------------------------------------------------------------------------
(***************************************************************************)
(* Properties.                                                             *)
(***************************************************************************)

Total ==
  seen["USB"] + seen["NETWORK"] + seen["CD"] + seen["DISK"] + seen["INACTIVE"]
    + seen["UNKNOWN"] + seen["UNREADABLE"]

\* The variables keep their types; no list grows to the size of its array, so
\* that its terminating NUL has room.
TypeOK ==
  /\ pc \in {"order", "walk", "rows", "next", "immutable", "attrs", "passwords", "done"}
  /\ orderLen \in 0..MaxOrder
  /\ left \in 0..MaxEntries
  /\ capped \in BOOLEAN
  /\ seen \in [Kinds -> Nat]
  /\ lists \in [Lists -> Nat]
  /\ \A l \in Lists : lists[l] < SizeOf(l)
  /\ allListed \in [Lists -> BOOLEAN]

\* "no active entry in EFI boot order" is said of a medium only when every
\* number BootOrder holds was read and classified, and none is of the medium:
\* neither an unreadable entry, nor an unclassified one, nor the numbers
\* beyond the table's end can hide behind an ok.
OkMeansInspected ==
  pc = "next" =>
    \A n \in {UsbRow, NetworkRow, CdRow} :
      rows[n].state = "OK" =>
        /\ Total = orderLen
        /\ seen["UNREADABLE"] = 0 /\ seen["UNKNOWN"] = 0
        /\ n = UsbRow => seen["USB"] = 0
        /\ n = NetworkRow => seen["NETWORK"] = 0
        /\ n = CdRow => seen["CD"] = 0

\* A list of entry numbers holds every entry of its kind that was met, or is
\* marked to be followed by " and more" (k items take 9 k - 1 characters).
ListedOrMarked ==
  \A l \in Media \cup {"UNREADABLE"} :
    /\ 9 * seen[l] >= lists[l]
    /\ allListed[l] <=> lists[l] = (IF seen[l] = 0 THEN 0 ELSE 9 * seen[l] - 1)

\* A walk that met unreadable or unclassified entries names at least one of
\* them: the first item of either list always fits.
CauseNamed == \A l \in Causes : seen[l] > 0 <=> lists[l] > 0

\* The composed reason, with the longest medium clause, fits one row's detail,
\* as the comment on the lists' sizes claims: compose_blocked_detail never
\* has to fall back to the text without the causes.
DetailFits == BlockedLn + MediumLn < DetailSize
=============================================================================
