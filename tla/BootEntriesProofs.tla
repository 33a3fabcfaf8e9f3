------------------------- MODULE BootEntriesProofs -------------------------
(***************************************************************************)
(* The safety properties of BootEntries for every set of load options,     *)
(* every table size and every size of the lists that satisfies the         *)
(* module's assumptions.                                                   *)
(***************************************************************************)
EXTENDS BootEntries, TLAPS

\* The walk's arithmetic: the numbers visited and those left make up BootOrder,
\* or the whole table when BootOrder is longer than the table.
WalkInv ==
  /\ pc = "order" => Total = 0
  /\ pc \in {"walk", "rows", "next"} =>
       /\ capped => Total + left = MaxEntries
       /\ ~capped => Total + left = orderLen
  /\ pc \in {"rows", "next"} => left = 0

\* A list that is not marked holds every entry met; a marked one lacks some.
IdLists == Media \cup {"UNREADABLE"}

ListInv ==
  \A l \in IdLists :
    /\ allListed[l] => lists[l] = (IF seen[l] = 0 THEN 0 ELSE 9 * seen[l] - 1)
    /\ ~allListed[l] => seen[l] > 0 /\ lists[l] <= 9 * seen[l] - 2

\* Once emitted, the media's rows are those MediumResult gives.
RowsInv ==
  pc = "next" =>
    /\ rows[UsbRow] = MediumResult("USB")
    /\ rows[NetworkRow] = MediumResult("NETWORK")
    /\ rows[CdRow] = MediumResult("CD")

\* While the walk has not begun and after its function has returned, its
\* variables are as they are declared.
RestInv ==
  pc = "order" =>
    /\ rows = <<>>
    /\ seen = [k \in Kinds |-> 0]
    /\ lists = [l \in Lists |-> 0]
    /\ allListed = [l \in Lists |-> TRUE]
    /\ capped = FALSE

IInv == TypeOK /\ WalkInv /\ ListInv /\ CauseNamed /\ RowsInv /\ RestInv
-----------------------------------------------------------------------------
\* classify_device_path and classify_description give one of the five types.
LEMMA EntryTypes ==
  ASSUME NEW o \in Options
  PROVE  EntryType(o) \in Media \cup {"DISK", "UNKNOWN"} /\ o.descLn \in 0..DescMax
<1>1. o.path \in Seq(Nodes) /\ o.descLn \in 0..DescMax
  BY OptionsAssumption
<1>2. ClassifyPath(o.path) \in Media \cup {"DISK", "UNKNOWN"}
  <2> DEFINE decisive == {i \in DOMAIN o.path :
                     /\ o.path[i] \in Media \cup {"DISK"}
                     /\ \A j \in 1..(i - 1) : ~Stops(o.path[j]) /\ o.path[j] = "OTHER"}
  <2>1. CASE decisive = {}
    BY <2>1 DEF ClassifyPath
  <2>2. CASE decisive # {}
    <3>1. (CHOOSE i \in decisive : TRUE) \in decisive
      BY <2>2
    <3>2. ClassifyPath(o.path) = o.path[CHOOSE i \in decisive : TRUE]
      BY <2>2 DEF ClassifyPath
    <3> QED BY <3>1, <3>2
  <2> QED BY <2>1, <2>2
<1>3. ClassifyDescription(o.words) \in Media \cup {"UNKNOWN"}
  BY DEF ClassifyDescription, Media
<1> QED BY <1>1, <1>2, <1>3 DEF EntryType

\* One number of the walk adds one to the numbers visited.
LEMMA OneMore ==
  ASSUME seen \in [Kinds -> Nat], NEW k \in Kinds, seen' = [seen EXCEPT ![k] = @ + 1]
  PROVE  Total \in Nat /\ Total' = Total + 1 /\ seen' \in [Kinds -> Nat]
BY DEF Total, Kinds, Media

\* An item appended to a list, or left out and marked, keeps the list inside
\* its array and the relation between the list and the entries met.
LEMMA AppendKeepsLists ==
  ASSUME TypeOK, ListInv, CauseNamed,
         NEW l \in Lists, NEW d \in 0..DescMax,
         AppendTo(l, d), seen' = [seen EXCEPT ![l] = @ + 1]
  PROVE  /\ lists' \in [Lists -> Nat] /\ allListed' \in [Lists -> BOOLEAN]
         /\ \A m \in Lists : lists'[m] < SizeOf(m)
         /\ ListInv' /\ CauseNamed'
<1> DEFINE item == ItemLn(l, d)
           ln   == lists[l] + item
<1>1. /\ lists \in [Lists -> Nat] /\ allListed \in [Lists -> BOOLEAN]
      /\ seen \in [Kinds -> Nat] /\ l \in Kinds
      /\ \A m \in Lists : lists[m] < SizeOf(m)
  BY DEF TypeOK, Lists, Kinds, Causes
<1>2. /\ item \in Nat
      /\ lists[l] > 0 /\ l \in IdLists => item = 9
      /\ lists[l] = 0 /\ l \in IdLists => item = 8
      /\ item > 0
      /\ lists[l] = 0 => item <= 8 + DescMax + 3
  BY <1>1 DEF ItemLn, Separator, IdLists, Media, DescMax
<1> HIDE DEF item
<1>3. CASE ln >= SizeOf(l)
  <2>1. lists' = lists /\ allListed' = [allListed EXCEPT ![l] = FALSE]
    BY <1>3 DEF AppendTo, item
  <2>2. lists' \in [Lists -> Nat] /\ allListed' \in [Lists -> BOOLEAN]
        /\ \A m \in Lists : lists'[m] < SizeOf(m)
    BY <1>1, <2>1
  <2>3. ListInv'
    <3> SUFFICES ASSUME NEW m \in IdLists
                 PROVE  /\ allListed'[m] => lists'[m] = (IF seen'[m] = 0 THEN 0 ELSE 9 * seen'[m] - 1)
                        /\ ~allListed'[m] => seen'[m] > 0 /\ lists'[m] <= 9 * seen'[m] - 2
      BY DEF ListInv
    <3>0. m \in Lists /\ m \in Kinds
      BY DEF IdLists, Lists, Kinds, Causes
    <3>1. CASE m # l
      BY <1>1, <2>1, <3>0, <3>1 DEF ListInv
    <3>2. CASE m = l
      <4>1. ~allListed'[m] /\ seen'[m] = seen[m] + 1 /\ lists'[m] = lists[m]
        BY <1>1, <2>1, <3>0, <3>2
      <4>2. seen[m] \in Nat /\ lists[m] \in Nat
        BY <1>1, <3>0
      <4>3. seen[m] > 0 => lists[m] <= 9 * seen[m] - 1
        BY <1>1, <3>0, <4>2 DEF ListInv
      <4>4. seen[m] = 0 => lists[m] = 0
        BY <1>1, <3>0, <4>2 DEF ListInv
      <4> QED BY <4>1, <4>2, <4>3, <4>4
    <3> QED BY <3>1, <3>2
  <2>4. CauseNamed'
    <3> SUFFICES ASSUME NEW m \in Causes PROVE seen'[m] > 0 <=> lists'[m] > 0
      BY DEF CauseNamed
    <3>0. m \in Lists /\ m \in Kinds /\ seen[m] \in Nat /\ lists[m] \in Nat
      BY <1>1 DEF Lists, Kinds, Causes
    <3>1. CASE m # l
      BY <1>1, <2>1, <3>0, <3>1 DEF CauseNamed
    <3>2. CASE m = l
      <4>1. lists[m] # 0
        BY <1>2, <1>3, <3>2, FirstItemAssumption, SizesAssumption
        DEF SizeOf, Causes, IdLists, DescMax
      <4> QED BY <1>1, <2>1, <3>0, <3>2, <4>1
    <3> QED BY <3>1, <3>2
  <2> QED BY <2>2, <2>3, <2>4
<1>4. CASE ~(ln >= SizeOf(l))
  <2>1. lists' = [lists EXCEPT ![l] = ln] /\ allListed' = allListed
    BY <1>4 DEF AppendTo, item
  <2>2. lists' \in [Lists -> Nat] /\ allListed' \in [Lists -> BOOLEAN]
        /\ \A m \in Lists : lists'[m] < SizeOf(m)
    <3>1. ln \in Nat /\ SizeOf(l) \in Nat
      BY <1>1, <1>2, SizesAssumption DEF SizeOf
    <3> QED BY <1>1, <1>4, <2>1, <3>1
  <2>3. ListInv'
    <3> SUFFICES ASSUME NEW m \in IdLists
                 PROVE  /\ allListed'[m] => lists'[m] = (IF seen'[m] = 0 THEN 0 ELSE 9 * seen'[m] - 1)
                        /\ ~allListed'[m] => seen'[m] > 0 /\ lists'[m] <= 9 * seen'[m] - 2
      BY DEF ListInv
    <3>0. m \in Lists /\ m \in Kinds
      BY DEF IdLists, Lists, Kinds, Causes
    <3>1. CASE m # l
      BY <1>1, <2>1, <3>0, <3>1 DEF ListInv
    <3>2. CASE m = l
      <4>1. seen'[m] = seen[m] + 1 /\ lists'[m] = lists[m] + item
        BY <1>1, <1>2, <2>1, <3>0, <3>2
      <4>2. seen[m] \in Nat /\ lists[m] \in Nat
        BY <1>1, <3>0
      <4>3. CASE allListed[m]
        BY <1>2, <2>1, <3>2, <4>1, <4>2, <4>3 DEF ListInv
      <4>4. CASE ~allListed[m]
        BY <1>2, <2>1, <3>2, <4>1, <4>2, <4>4 DEF ListInv
      <4> QED BY <4>3, <4>4
    <3> QED BY <3>1, <3>2
  <2>4. CauseNamed'
    BY <1>1, <1>2, <2>1 DEF CauseNamed, Lists, Kinds, Causes
  <2> QED BY <2>2, <2>3, <2>4
<1> QED BY <1>3, <1>4

\* A visited number keeps the invariant, whatever kind k it is of and whether
\* it goes to a list or not.
LEMMA VisitStep ==
  ASSUME IInv, NEW k \in Kinds, Step(k),
         \/ k \in Lists /\ \E d \in 0..DescMax : AppendTo(k, d)
         \/ k \in {"DISK", "INACTIVE"} /\ UNCHANGED <<lists, allListed>>
  PROVE  IInv'
<1>1. TypeOK /\ WalkInv /\ ListInv /\ CauseNamed
  BY DEF IInv
<1>2. /\ pc = "walk" /\ left > 0 /\ left' = left - 1
      /\ seen' = [seen EXCEPT ![k] = @ + 1]
      /\ pc' = pc /\ rows' = rows /\ orderLen' = orderLen /\ capped' = capped
  BY DEF Step
<1>3. Total \in Nat /\ Total' = Total + 1 /\ seen' \in [Kinds -> Nat]
  BY <1>1, <1>2, OneMore DEF TypeOK
<1>4. /\ lists' \in [Lists -> Nat] /\ allListed' \in [Lists -> BOOLEAN]
      /\ \A m \in Lists : lists'[m] < SizeOf(m)
      /\ ListInv' /\ CauseNamed'
  <2>1. CASE k \in Lists /\ \E d \in 0..DescMax : AppendTo(k, d)
    BY <1>1, <1>2, <2>1, AppendKeepsLists
  <2>2. CASE k \in {"DISK", "INACTIVE"} /\ UNCHANGED <<lists, allListed>>
    <3>1. \A m \in Lists : m # k /\ m \in Kinds /\ seen'[m] = seen[m]
      BY <1>1, <1>2, <2>2 DEF TypeOK, Lists, Media, Causes, Kinds
    <3>2. IdLists \subseteq Lists /\ Causes \subseteq Lists
      BY DEF IdLists, Lists, Causes
    <3>3. ListInv'
      BY <1>1, <2>2, <3>1, <3>2 DEF ListInv
    <3>4. CauseNamed'
      BY <1>1, <2>2, <3>1, <3>2 DEF CauseNamed
    <3> QED BY <1>1, <2>2, <3>3, <3>4 DEF TypeOK
  <2> QED BY <2>1, <2>2
<1>5. TypeOK'
  BY <1>1, <1>2, <1>3, <1>4, RoomAssumption DEF TypeOK, SizeOf
<1>6. WalkInv'
  <2>1. left \in Nat /\ orderLen \in Nat
    BY <1>1, RoomAssumption DEF TypeOK
  <2> QED BY <1>1, <1>2, <1>3, <2>1 DEF WalkInv
<1> QED BY <1>2, <1>4, <1>5, <1>6 DEF IInv, RowsInv, RestInv

\* The rows of the media, once added to none, are the ones computed.
LEMMA AddedToNone ==
  ASSUME NEW f, NEW g, DOMAIN f = {}
  PROVE  \A n \in DOMAIN g : Add(f, g)[n] = g[n]
BY DEF Add

\* Before the media are judged no row has been emitted.
NoRows == pc \in {"order", "walk", "rows"} => DOMAIN rows = {}

LEMMA InitInv == Init => IInv /\ NoRows
<1> SUFFICES ASSUME Init PROVE IInv /\ NoRows
  OBVIOUS
<1>1. TypeOK
  <2>1. capped \in BOOLEAN /\ allListed \in [Lists -> BOOLEAN]
    BY Zenon DEF Init
  <2>2. /\ seen \in [Kinds -> Nat] /\ lists \in [Lists -> Nat]
        /\ \A l \in Lists : lists[l] < SizeOf(l)
    BY SizesAssumption DEF Init, SizeOf
  <2> QED BY <2>1, <2>2, RoomAssumption DEF Init, TypeOK
<1>2. \A k \in Kinds : seen[k] = 0
  BY DEF Init
<1>3. Total = 0
  BY <1>2 DEF Total, Kinds, Media
<1>4. ListInv /\ CauseNamed
  BY <1>2 DEF Init, ListInv, CauseNamed, IdLists, Lists, Kinds, Causes, Media
<1>5. DOMAIN rows = {}
  BY DEF Init
<1> QED BY <1>1, <1>3, <1>4, <1>5 DEF Init, IInv, WalkInv, RowsInv, RestInv, NoRows

\* After the function has returned its variables are those of Init again.
LEMMA LocalsDieInv ==
  ASSUME LocalsDie, pc' \in {"immutable"}
  PROVE  IInv'
<1>1. TypeOK'
  <2>1. capped' \in BOOLEAN /\ allListed' \in [Lists -> BOOLEAN]
    BY Zenon DEF LocalsDie
  <2>2. /\ seen' \in [Kinds -> Nat] /\ lists' \in [Lists -> Nat]
        /\ \A l \in Lists : lists'[l] < SizeOf(l)
    BY SizesAssumption DEF LocalsDie, SizeOf
  <2> QED BY <2>1, <2>2, RoomAssumption DEF LocalsDie, TypeOK, SizeOf
<1>2. \A k \in Kinds : seen'[k] = 0
  BY DEF LocalsDie
<1>4. ListInv' /\ CauseNamed'
  BY <1>2 DEF LocalsDie, ListInv, CauseNamed, IdLists, Lists, Kinds, Causes, Media
<1> QED BY <1>1, <1>4 DEF IInv, WalkInv, RowsInv, RestInv

LEMMA NextInv == IInv /\ NoRows /\ [Next]_vars => IInv' /\ NoRows'
<1> SUFFICES ASSUME IInv, NoRows, [Next]_vars PROVE IInv' /\ NoRows'
  OBVIOUS
<1>0. TypeOK /\ WalkInv /\ ListInv /\ CauseNamed /\ RowsInv /\ RestInv
  BY DEF IInv
<1>1. CASE NoBootOrder
  BY <1>0, <1>1 DEF NoBootOrder, walkVars, IInv, TypeOK, SizeOf, WalkInv, ListInv,
     CauseNamed, RowsInv, RestInv, NoRows
<1>2. ASSUME NEW n \in 1..MaxOrder, ParseOrder(n)
      PROVE  IInv' /\ NoRows'
  <2> DEFINE count == IF n <= OrderRoom THEN n ELSE OrderRoom
  <2>0. /\ pc' = "walk" /\ orderLen' = n
        /\ left' = (IF count <= MaxEntries THEN count ELSE MaxEntries)
        /\ capped' = (count > MaxEntries)
        /\ UNCHANGED <<rows, seen, lists, allListed>>
    BY <1>2, Zenon DEF ParseOrder
  <2>1. Total = 0 /\ Total' = 0
    BY <1>0, <1>2 DEF ParseOrder, WalkInv, Total
  <2>2. TypeOK'
    <3>1. capped' \in BOOLEAN
      <4>1. CASE count > MaxEntries
        BY <2>0, <4>1, Zenon
      <4>2. CASE ~(count > MaxEntries)
        <5>1. ~capped' /\ capped' = (count > MaxEntries)
          BY <2>0, <4>2, Zenon
        <5>2. (count > MaxEntries) = FALSE
          BY <4>2
        <5> QED BY <5>1, <5>2, Zenon
      <4> QED BY <4>1, <4>2
    <3>2. left' \in 0..MaxEntries /\ orderLen' \in 0..MaxOrder
      BY <1>2, RoomAssumption DEF ParseOrder
    <3> QED BY <1>0, <1>2, <3>1, <3>2 DEF ParseOrder, TypeOK, SizeOf
  <2>3. WalkInv'
    <3>1. CASE count > MaxEntries
      <4>1. capped'
        BY <2>0, <3>1, Zenon
      <4> QED BY <2>0, <2>1, <3>1, <4>1, RoomAssumption DEF WalkInv
    <3>2. CASE ~(count > MaxEntries)
      <4>1. ~capped'
        BY <2>0, <3>2, Zenon
      <4> QED BY <2>0, <2>1, <3>2, <4>1, RoomAssumption DEF WalkInv
    <3> QED BY <3>1, <3>2
  <2> QED BY <1>0, <1>2, <2>2, <2>3
       DEF ParseOrder, IInv, ListInv, CauseNamed, RowsInv, RestInv, NoRows
<1>3. CASE EntryUnreadable
  <2>1. Step("UNREADABLE") /\ AppendTo("UNREADABLE", 0)
    BY <1>3 DEF EntryUnreadable
  <2>2. "UNREADABLE" \in Kinds /\ "UNREADABLE" \in Lists /\ 0 \in 0..DescMax
    BY DEF Kinds, Lists, Causes, DescMax
  <2>3. IInv'
    BY <2>1, <2>2, VisitStep
  <2> QED BY <2>1, <2>3 DEF Step, NoRows
<1>4. ASSUME NEW o \in Options, EntryRead(o)
      PROVE  IInv' /\ NoRows'
  <2>1. EntryType(o) \in Media \cup {"DISK", "UNKNOWN"} /\ o.descLn \in 0..DescMax
    BY EntryTypes
  <2>2. CASE ~o.active \/ EntryType(o) = "DISK"
    <3>1. PICK k \in {"DISK", "INACTIVE"} : Step(k) /\ UNCHANGED <<lists, allListed>>
      BY <1>4, <2>2 DEF EntryRead
    <3>2. k \in Kinds
      BY <3>1 DEF Kinds
    <3>3. IInv'
      BY <3>1, <3>2, VisitStep
    <3> QED BY <3>1, <3>3 DEF Step, NoRows
  <2>3. CASE ~(~o.active \/ EntryType(o) = "DISK")
    <3>1. Step(EntryType(o)) /\ AppendTo(EntryType(o), o.descLn)
      BY <1>4, <2>3 DEF EntryRead
    <3>2. EntryType(o) \in Lists /\ EntryType(o) \in Kinds
      BY <2>1, <2>3 DEF Lists, Kinds, Causes
    <3>3. IInv'
      BY <2>1, <3>1, <3>2, VisitStep
    <3> QED BY <3>1, <3>3 DEF Step, NoRows
  <2> QED BY <2>2, <2>3
<1>5. CASE EndOfOrder
  BY <1>0, <1>5 DEF EndOfOrder, walkVars, NoRows, IInv, TypeOK, SizeOf, WalkInv, Total,
     ListInv, CauseNamed, RowsInv, RestInv
<1>6. CASE EmitMedia
  <2>1. /\ pc' = "next" /\ UNCHANGED walkVars /\ DOMAIN rows = {}
    BY <1>6 DEF EmitMedia, NoRows
  <2>2. \A m \in Media : MediumResult(m)' = MediumResult(m)
    BY <2>1 DEF walkVars, MediumResult, Met, Blocked
  <2>3. RowsInv'
    <3> DEFINE g == [n \in {UsbRow, NetworkRow, CdRow} |->
                       IF n = UsbRow THEN MediumResult("USB")
                       ELSE IF n = NetworkRow THEN MediumResult("NETWORK")
                       ELSE MediumResult("CD")]
    <3>1. rows' = Add(rows, g)
      BY <1>6 DEF EmitMedia
    <3>2. /\ rows'[UsbRow] = g[UsbRow]
          /\ rows'[NetworkRow] = g[NetworkRow]
          /\ rows'[CdRow] = g[CdRow]
      BY <2>1, <3>1, AddedToNone
    <3>3. /\ g[UsbRow] = MediumResult("USB")
          /\ g[NetworkRow] = MediumResult("NETWORK")
          /\ g[CdRow] = MediumResult("CD")
      BY DEF UsbRow, NetworkRow, CdRow
    <3> QED BY <2>2, <3>2, <3>3 DEF RowsInv, Media
  <2>4. TypeOK' /\ ListInv' /\ CauseNamed' /\ RestInv'
    BY <1>0, <2>1 DEF walkVars, TypeOK, SizeOf, ListInv, CauseNamed, RestInv
  <2>5. WalkInv'
    BY <1>0, <1>6, <2>1 DEF EmitMedia, walkVars, WalkInv, Total
  <2> QED BY <2>1, <2>3, <2>4, <2>5 DEF IInv, NoRows
<1>7. CASE NoNextEntry
  BY <1>7, LocalsDieInv DEF NoNextEntry, NoRows
<1>8. ASSUME NEW o \in Options, NextEntry(o)
      PROVE  IInv' /\ NoRows'
  BY <1>8, LocalsDieInv DEF NextEntry, NoRows
<1>9. CASE CheckImmutable \/ CheckAttrs \/ CheckPasswords
  <2>1. /\ pc' \in {"attrs", "passwords", "done"} /\ UNCHANGED walkVars
    BY <1>9 DEF CheckImmutable, CheckAttrs, CheckPasswords
  <2> QED BY <1>0, <2>1 DEF walkVars, IInv, TypeOK, SizeOf, WalkInv, ListInv,
       CauseNamed, RowsInv, RestInv, NoRows
<1>10. CASE UNCHANGED vars
  BY <1>0, <1>10 DEF vars, IInv, TypeOK, SizeOf, WalkInv, Total, ListInv,
     CauseNamed, RowsInv, MediumResult, Met, Blocked, RestInv, NoRows
<1> QED BY <1>1, <1>2, <1>3, <1>4, <1>5, <1>6, <1>7, <1>8, <1>9, <1>10 DEF Next, Returned

\* The inductive invariant holds in every reachable state of every instance.
THEOREM WalkInvariant == Spec => []IInv
<1>1. Spec => [](IInv /\ NoRows)
  BY InitInv, NextInv, PTL DEF Spec
<1> QED BY <1>1, PTL

\* The lists never reach the size of their arrays, whatever BootOrder holds.
THEOREM TypeCorrect == Spec => []TypeOK
<1>1. IInv => TypeOK
  BY DEF IInv
<1> QED BY <1>1, WalkInvariant, PTL

\* An ok about a medium is said only of a BootOrder inspected to its end.
THEOREM OkIsEarned == Spec => []OkMeansInspected
<1>1. IInv => OkMeansInspected
  <2> SUFFICES ASSUME IInv, pc = "next", NEW n \in {UsbRow, NetworkRow, CdRow},
                      rows[n].state = "OK"
               PROVE  /\ Total = orderLen
                      /\ seen["UNREADABLE"] = 0 /\ seen["UNKNOWN"] = 0
                      /\ n = UsbRow => seen["USB"] = 0
                      /\ n = NetworkRow => seen["NETWORK"] = 0
                      /\ n = CdRow => seen["CD"] = 0
    BY DEF OkMeansInspected
  <2>1. \A m \in Media : MediumResult(m).state = "OK" => ~Met(m) /\ ~Blocked
    BY DEF MediumResult, Row, Skip
  <2>2. /\ n = UsbRow => MediumResult("USB").state = "OK"
        /\ n = NetworkRow => MediumResult("NETWORK").state = "OK"
        /\ n = CdRow => MediumResult("CD").state = "OK"
    BY DEF IInv, RowsInv
  <2>3. /\ ~Blocked
        /\ n = UsbRow => ~Met("USB")
        /\ n = NetworkRow => ~Met("NETWORK")
        /\ n = CdRow => ~Met("CD")
    BY <2>1, <2>2 DEF Media
  <2>4. \A k \in Kinds : seen[k] \in Nat
    BY DEF IInv, TypeOK
  <2>5. seen["UNREADABLE"] = 0 /\ seen["UNKNOWN"] = 0 /\ ~capped
    BY <2>3, <2>4 DEF Met, Blocked, Kinds
  <2>6. Total = orderLen
    <3>1. Total \in Nat /\ left = 0 /\ Total + left = orderLen
      BY <2>4, <2>5 DEF IInv, WalkInv, Total, Kinds, Media
    <3> QED BY <3>1
  <2>7. /\ n = UsbRow => seen["USB"] = 0
        /\ n = NetworkRow => seen["NETWORK"] = 0
        /\ n = CdRow => seen["CD"] = 0
    BY <2>3, <2>4 DEF Met, Kinds, Media
  <2> QED BY <2>5, <2>6, <2>7
<1> QED BY <1>1, WalkInvariant, PTL

\* No entry met is silently missing from the list of its kind.
THEOREM ListsAreHonest == Spec => [](ListedOrMarked /\ CauseNamed)
<1>1. IInv => ListedOrMarked /\ CauseNamed
  <2> SUFFICES ASSUME IInv, NEW l \in IdLists
               PROVE  /\ 9 * seen[l] >= lists[l]
                      /\ allListed[l] <=> lists[l] = (IF seen[l] = 0 THEN 0 ELSE 9 * seen[l] - 1)
    BY DEF IInv, ListedOrMarked, IdLists
  <2>1. seen[l] \in Nat /\ lists[l] \in Nat
    BY DEF IInv, TypeOK, IdLists, Lists, Kinds, Causes
  <2>2. CASE allListed[l]
    BY <2>1, <2>2 DEF IInv, ListInv
  <2>3. CASE ~allListed[l]
    BY <2>1, <2>3 DEF IInv, ListInv
  <2> QED BY <2>2, <2>3
<1> QED BY <1>1, WalkInvariant, PTL

\* In particular whatever blocks a verdict is named in the detail of its row.
COROLLARY CausesAreNamed == Spec => []CauseNamed
BY ListsAreHonest, PTL

\* The reason a walk was incomplete is never cut short in a row's detail.
THEOREM DetailNeverCut == Spec => []DetailFits
<1>1. IInv => DetailFits
  <2> SUFFICES ASSUME IInv PROVE DetailFits
    OBVIOUS
  <2>1. /\ lists["UNREADABLE"] \in Nat /\ lists["UNREADABLE"] < UnreadableSize
        /\ lists["UNKNOWN"] \in Nat /\ lists["UNKNOWN"] < UnclassSize
    BY DEF IInv, TypeOK, SizeOf, Lists, Causes
  <2> QED BY <2>1, DetailAssumption, SizesAssumption
       DEF DetailFits, BlockedLn, Lead, UnreadableLn, UnclassLn, AndMoreLn, ShortenedLn, MediumLn
<1> QED BY <1>1, WalkInvariant, PTL
-----------------------------------------------------------------------------
(***************************************************************************)
(* The lists and the verdicts exactly, and the end of the check.           *)
(***************************************************************************)

\* How many entry numbers fit list l: k of them take 9 k - 1 characters and NUL.
Fits(l) == SizeOf(l) \div 9

\* A list of numbers holds the first entries of its kind, as many as fit, and
\* is marked if and only if there were more.
ListsAreFull ==
  \A l \in IdLists :
    /\ allListed[l] <=> seen[l] <= Fits(l)
    /\ LET k == IF seen[l] <= Fits(l) THEN seen[l] ELSE Fits(l)
       IN lists[l] = IF k = 0 THEN 0 ELSE 9 * k - 1

LEMMA FitsRoom ==
  ASSUME NEW l \in IdLists
  PROVE  /\ SizeOf(l) \in Nat /\ Fits(l) \in Nat /\ Fits(l) > 0
         /\ 9 * Fits(l) <= SizeOf(l) /\ SizeOf(l) < 9 * Fits(l) + 9
<1> DEFINE size == SizeOf(l)
<1>1. size \in Nat /\ size > 8
  BY SizesAssumption, FirstItemAssumption DEF SizeOf, IdLists, Media
<1> HIDE DEF size
<1>2. size \div 9 \in Nat /\ 9 * (size \div 9) <= size /\ size < 9 * (size \div 9) + 9
      /\ size \div 9 > 0
  BY <1>1
<1> QED BY <1>1, <1>2 DEF Fits, size

\* One more entry: its number is appended while there is room for it.
LEMMA AppendKeepsFull ==
  ASSUME TypeOK, ListsAreFull, NEW l \in Lists, NEW d \in 0..DescMax,
         AppendTo(l, d), seen' = [seen EXCEPT ![l] = @ + 1]
  PROVE  ListsAreFull'
<1>1. /\ lists \in [Lists -> Nat] /\ allListed \in [Lists -> BOOLEAN]
      /\ seen \in [Kinds -> Nat] /\ l \in Kinds /\ IdLists \subseteq Lists /\ IdLists \subseteq Kinds
  BY DEF TypeOK, Lists, Kinds, Causes, IdLists
<1> DEFINE ln == lists[l] + ItemLn(l, d)
           FullAt(m, s, n, all) ==
             /\ all <=> s <= Fits(m)
             /\ LET k == IF s <= Fits(m) THEN s ELSE Fits(m)
                IN n = IF k = 0 THEN 0 ELSE 9 * k - 1
<1>2. \A m \in IdLists : FullAt(m, seen[m], lists[m], allListed[m])
  BY DEF ListsAreFull
<1> SUFFICES ASSUME NEW m \in IdLists PROVE FullAt(m, seen'[m], lists'[m], allListed'[m])
  BY DEF ListsAreFull, Fits, SizeOf
<1>3. CASE m # l
  <2>1. seen'[m] = seen[m]
    BY <1>1, <1>3
  <2>2. lists'[m] = lists[m] /\ allListed'[m] = allListed[m]
    BY <1>1, <1>3 DEF AppendTo
  <2> QED BY <1>2, <2>1, <2>2
<1>4. CASE m = l
  <2> DEFINE s == seen[l]
             n == lists[l]
             c == Fits(l)
             size == SizeOf(l)
  <2>1. s \in Nat /\ n \in Nat /\ seen'[l] = s + 1
    BY <1>1
  <2>2. size \in Nat /\ c \in Nat /\ 9 * c <= size /\ size < 9 * c + 9
    BY <1>4, FitsRoom
  <2>3. ln = n + (IF n > 0 THEN 1 ELSE 0) + 8
    <3>1. l # "UNKNOWN"
      BY <1>4 DEF IdLists, Media
    <3> QED BY <2>1, <3>1 DEF ItemLn, Separator
  <2>4. /\ ln >= size => allListed' = [allListed EXCEPT ![l] = FALSE] /\ lists' = lists
        /\ ~(ln >= size) => lists' = [lists EXCEPT ![l] = ln] /\ allListed' = allListed
    BY DEF AppendTo
  <2>5. /\ allListed[l] <=> s <= c
        /\ s <= c => n = IF s = 0 THEN 0 ELSE 9 * s - 1
        /\ ~(s <= c) => n = IF c = 0 THEN 0 ELSE 9 * c - 1
    BY <1>2, <1>4
  <2> HIDE DEF s, n, c, size, ln
  <2>6. CASE s < c
    <3>1. n = (IF s = 0 THEN 0 ELSE 9 * s - 1) /\ s <= c
      BY <2>1, <2>2, <2>5, <2>6
    <3>2. ln = 9 * s + 8 /\ s + 1 <= c
      BY <2>1, <2>2, <2>3, <2>6, <3>1
    <3>3. ~(ln >= size)
      BY <2>1, <2>2, <3>2
    <3>4. lists'[l] = ln /\ allListed'[l] = allListed[l]
      BY <1>1, <2>4, <3>3
    <3>5. FullAt(l, s + 1, ln, allListed[l])
      BY <2>1, <2>2, <2>5, <3>1, <3>2 DEF c
    <3> QED BY <1>4, <2>1, <3>4, <3>5
  <2>7. CASE ~(s < c)
    <3>1. n = IF c = 0 THEN 0 ELSE 9 * c - 1
      BY <2>1, <2>2, <2>5, <2>7
    <3>2. ln = 9 * c + 8 /\ ~(s + 1 <= c)
      BY <2>1, <2>2, <2>3, <2>7, <3>1
    <3>3. ln >= size
      BY <2>2, <3>2
    <3>4. lists'[l] = n /\ ~allListed'[l]
      BY <1>1, <2>4, <3>3 DEF n
    <3>5. FullAt(l, s + 1, n, FALSE)
      BY <2>1, <2>2, <3>1, <3>2 DEF c
    <3> QED BY <1>4, <2>1, <3>4, <3>5
  <2> QED BY <2>6, <2>7
<1> QED BY <1>3, <1>4

LEMMA FullStep == IInv /\ ListsAreFull /\ [Next]_vars => ListsAreFull'
<1> SUFFICES ASSUME IInv, ListsAreFull, [Next]_vars PROVE ListsAreFull'
  OBVIOUS
<1>0. TypeOK
  BY DEF IInv
<1>1. ASSUME \A l \in IdLists : seen'[l] = seen[l], UNCHANGED <<lists, allListed>>
      PROVE  ListsAreFull'
  BY <1>1 DEF ListsAreFull, Fits, SizeOf
<1>2. ASSUME LocalsDie PROVE ListsAreFull'
  <2>1. \A l \in IdLists : seen'[l] = 0 /\ lists'[l] = 0 /\ allListed'[l] = TRUE
    BY <1>2, Zenon DEF LocalsDie, IdLists, Kinds, Lists, Causes
  <2>2. \A l \in IdLists : Fits(l) \in Nat
    BY FitsRoom
  <2> QED BY <2>1, <2>2 DEF ListsAreFull, Fits, SizeOf
<1>3. CASE EntryUnreadable
  <2>1. "UNREADABLE" \in Lists /\ 0 \in 0..DescMax
    BY DEF Lists, Causes, DescMax
  <2> QED BY <1>0, <1>3, <2>1, AppendKeepsFull DEF EntryUnreadable, Step
<1>4. ASSUME NEW o \in Options, EntryRead(o) PROVE ListsAreFull'
  <2>1. EntryType(o) \in Media \cup {"DISK", "UNKNOWN"} /\ o.descLn \in 0..DescMax
    BY EntryTypes
  <2>2. CASE ~o.active \/ EntryType(o) = "DISK"
    <3>1. PICK k \in {"DISK", "INACTIVE"} : Step(k) /\ UNCHANGED <<lists, allListed>>
      BY <1>4, <2>2 DEF EntryRead
    <3>2. \A l \in IdLists : seen'[l] = seen[l]
      BY <1>0, <3>1 DEF Step, TypeOK, IdLists, Media, Kinds
    <3> QED BY <1>1, <3>1, <3>2
  <2>3. CASE ~(~o.active \/ EntryType(o) = "DISK")
    <3>1. Step(EntryType(o)) /\ AppendTo(EntryType(o), o.descLn)
      BY <1>4, <2>3 DEF EntryRead
    <3>2. EntryType(o) \in Lists
      BY <2>1, <2>3 DEF Lists, Causes
    <3> QED BY <1>0, <2>1, <3>1, <3>2, AppendKeepsFull DEF Step
  <2> QED BY <2>2, <2>3
<1>5. CASE UNCHANGED <<seen, lists, allListed>>
  BY <1>1, <1>5
<1>6. CASE NoNextEntry \/ \E o \in Options : NextEntry(o)
  BY <1>2, <1>6 DEF NoNextEntry, NextEntry
<1>7. CASE NoBootOrder \/ (\E n \in 1..MaxOrder : ParseOrder(n)) \/ EndOfOrder \/ EmitMedia
             \/ CheckImmutable \/ CheckAttrs \/ CheckPasswords \/ Returned \/ UNCHANGED vars
  <2>1. UNCHANGED <<seen, lists, allListed>>
    BY <1>7 DEF NoBootOrder, ParseOrder, EndOfOrder, EmitMedia, CheckImmutable, CheckAttrs,
                CheckPasswords, Returned, vars, walkVars
  <2> QED BY <1>5, <2>1
<1> QED BY <1>3, <1>4, <1>6, <1>7 DEF Next

\* append_entry_id leaves no entry out that would have fitted: a list holds the
\* first of its kind up to its capacity, and " and more" is said if and only
\* if BootOrder held more of them.
THEOREM ListsHoldWhatFits == Spec => []ListsAreFull
<1>1. Init => ListsAreFull
  <2> SUFFICES ASSUME Init PROVE ListsAreFull
    OBVIOUS
  <2>1. \A l \in IdLists : seen[l] = 0 /\ lists[l] = 0 /\ allListed[l] = TRUE
    BY Zenon DEF Init, IdLists, Kinds, Lists, Causes
  <2>2. \A l \in IdLists : Fits(l) \in Nat
    BY FitsRoom
  <2> QED BY <2>1, <2>2 DEF ListsAreFull
<1> QED BY <1>1, FullStep, WalkInvariant, PTL DEF Spec

MediumRow(m) == IF m = "USB" THEN UsbRow ELSE IF m = "NETWORK" THEN NetworkRow ELSE CdRow

\* A medium's row warns exactly if an active entry of it was met, and is ok
\* exactly if none was and nothing hid one; a warning names an entry and a
\* skip its cause.
MediaVerdicts ==
  pc = "next" =>
    \A m \in Media :
      /\ rows[MediumRow(m)].state = "WARN" <=> seen[m] > 0
      /\ rows[MediumRow(m)].state = "OK" <=> seen[m] = 0 /\ ~Blocked
      /\ rows[MediumRow(m)].state = "WARN" => lists[m] > 0
      /\ rows[MediumRow(m)].state = "SKIP" => capped \/ \E c \in Causes : lists[c] > 0

\* The verdicts of check_efivars_boot on the three media are exact in both
\* directions: no alarm without an active entry to name, no verdict withheld
\* without a cause to name, no ok over an incomplete walk.
THEOREM VerdictsExact == Spec => []MediaVerdicts
<1>1. ASSUME IInv, ListsAreFull, pc = "next", NEW m \in Media
      PROVE  /\ rows[MediumRow(m)].state = "WARN" <=> seen[m] > 0
             /\ rows[MediumRow(m)].state = "OK" <=> seen[m] = 0 /\ ~Blocked
             /\ rows[MediumRow(m)].state = "WARN" => lists[m] > 0
             /\ rows[MediumRow(m)].state = "SKIP" => capped \/ \E c \in Causes : lists[c] > 0
  <2>1. rows[MediumRow(m)] = MediumResult(m)
    BY <1>1 DEF IInv, RowsInv, MediumRow, Media
  <2>2. /\ seen[m] \in Nat /\ m \in IdLists
    BY <1>1 DEF IInv, TypeOK, Kinds, IdLists
  <2>3. /\ MediumResult(m).state = "WARN" <=> seen[m] > 0
        /\ MediumResult(m).state = "OK" <=> ~(seen[m] > 0) /\ ~Blocked
        /\ MediumResult(m).state = "SKIP" => Blocked
    BY DEF MediumResult, Met, Row, Skip
  <2>4. seen[m] > 0 => lists[m] > 0
    <3>1. /\ Fits(m) \in Nat /\ Fits(m) > 0
      BY <2>2, FitsRoom
    <3>2. LET k == IF seen[m] <= Fits(m) THEN seen[m] ELSE Fits(m)
          IN lists[m] = IF k = 0 THEN 0 ELSE 9 * k - 1
      BY <1>1, <2>2 DEF ListsAreFull
    <3> DEFINE f == Fits(m)
    <3> HIDE DEF f
    <3> QED BY <2>2, <3>1, <3>2 DEF f
  <2>5. Blocked => capped \/ \E c \in Causes : lists[c] > 0
    BY <1>1 DEF IInv, CauseNamed, Blocked, Met, Causes
  <2> QED BY <2>1, <2>2, <2>3, <2>4, <2>5
<1>2. IInv /\ ListsAreFull => MediaVerdicts
  BY <1>1 DEF MediaVerdicts
<1> QED BY <1>2, ListsHoldWhatFits, WalkInvariant, PTL

\* An upper bound on the steps bythos_check_bios_boot has still to take.
StepsLeft ==
  IF pc = "order" THEN MaxEntries + 7
  ELSE IF pc = "walk" THEN left + 6
  ELSE IF pc = "rows" THEN 5
  ELSE IF pc = "next" THEN 4
  ELSE IF pc = "immutable" THEN 3
  ELSE IF pc = "attrs" THEN 2
  ELSE IF pc = "passwords" THEN 1 ELSE 0

\* The check ends: every step that changes anything brings its end nearer, and
\* BootOrder, however long, costs no more steps than the table has entries.
THEOREM CheckEnds ==
  Spec => [](StepsLeft \in Nat) /\ [][StepsLeft' < StepsLeft]_vars
<1>1. IInv => StepsLeft \in Nat /\ left \in Nat /\ left <= MaxEntries
  BY RoomAssumption DEF IInv, TypeOK, StepsLeft
<1>2. IInv /\ IInv' /\ [Next]_vars => [StepsLeft' < StepsLeft]_vars
  <2> SUFFICES ASSUME IInv, IInv', Next, ~UNCHANGED vars PROVE StepsLeft' < StepsLeft
    OBVIOUS
  <2>1. left \in Nat /\ left <= MaxEntries /\ left' \in Nat /\ left' <= MaxEntries
    BY RoomAssumption DEF IInv, TypeOK
  <2>2. \/ pc = "order" /\ pc' \in {"walk", "immutable"}
        \/ pc = "walk" /\ pc' = "walk" /\ left' = left - 1
        \/ pc = "walk" /\ pc' = "rows"
        \/ pc = "rows" /\ pc' = "next"
        \/ pc = "next" /\ pc' = "immutable"
        \/ pc = "immutable" /\ pc' = "attrs"
        \/ pc = "attrs" /\ pc' = "passwords"
        \/ pc = "passwords" /\ pc' = "done"
    BY DEF Next, NoBootOrder, ParseOrder, EntryUnreadable, EntryRead, Step, EndOfOrder,
           EmitMedia, NoNextEntry, NextEntry, CheckImmutable, CheckAttrs, CheckPasswords, Returned
  <2>3. CASE pc = "order"
    <3>1. pc' = "walk" \/ pc' = "immutable"
      BY <2>2, <2>3
    <3>2. StepsLeft = MaxEntries + 7
      BY <2>3 DEF StepsLeft
    <3>3. StepsLeft' = left' + 6 \/ StepsLeft' = 3
      BY <3>1 DEF StepsLeft
    <3>4. MaxEntries \in Nat
      BY RoomAssumption
    <3> HIDE DEF StepsLeft
    <3> QED BY <2>1, <3>2, <3>3, <3>4
  <2>4. CASE pc = "walk" /\ pc' = "walk" /\ left' = left - 1
    BY <2>1, <2>4 DEF StepsLeft
  <2>5. CASE pc = "walk" /\ pc' = "rows"
    BY <2>1, <2>5 DEF StepsLeft
  <2>6. CASE pc \in {"rows", "next", "immutable", "attrs", "passwords"}
    BY <2>2, <2>6 DEF StepsLeft
  <2> QED BY <2>2, <2>3, <2>4, <2>5, <2>6
<1> QED BY <1>1, <1>2, WalkInvariant, PTL DEF Spec
-----------------------------------------------------------------------------
(***************************************************************************)
(* classify_device_path.                                                   *)
(***************************************************************************)

\* The nodes that may decide: one with a class, behind none but plain ones.
Decisive(path) ==
  {i \in DOMAIN path :
     /\ path[i] \in Media \cup {"DISK"}
     /\ \A j \in 1..(i - 1) : ~Stops(path[j]) /\ path[j] = "OTHER"}

LEMMA ClassifyPathIs ==
  ASSUME NEW path
  PROVE  ClassifyPath(path) =
           IF Decisive(path) = {} THEN "UNKNOWN" ELSE path[CHOOSE i \in Decisive(path) : TRUE]
BY DEF ClassifyPath, Decisive

\* The class of a device path is that of its first node that is not a plain
\* one, if that has a class: classify_device_path does not look further.
THEOREM FirstNodeDecides ==
  ASSUME NEW path \in Seq(Nodes), NEW i \in DOMAIN path,
         \A j \in 1..(i - 1) : path[j] = "OTHER", path[i] # "OTHER"
  PROVE  ClassifyPath(path) = IF Stops(path[i]) THEN "UNKNOWN" ELSE path[i]
<1>1. DOMAIN path = 1..Len(path) /\ Len(path) \in Nat /\ i \in Nat /\ i >= 1
  OBVIOUS
<1>2. path[i] \in Nodes
  OBVIOUS
<1>3. ASSUME NEW j \in Decisive(path) PROVE j = i
  <2>1. j \in Nat /\ j >= 1 /\ path[j] # "OTHER" /\ \A l \in 1..(j - 1) : path[l] = "OTHER"
    BY <1>1, <1>3 DEF Decisive, Media
  <2>2. ~(j \in 1..(i - 1)) /\ ~(i \in 1..(j - 1))
    BY <2>1
  <2> QED BY <1>1, <2>1, <2>2
<1>4. CASE Stops(path[i])
  <2>1. i \notin Decisive(path)
    BY <1>4 DEF Decisive, Stops, Media
  <2>2. Decisive(path) = {}
    BY <1>3, <2>1
  <2> QED BY <1>4, <2>2, ClassifyPathIs
<1>5. CASE ~Stops(path[i])
  <2>1. path[i] \in Media \cup {"DISK"}
    BY <1>2, <1>5 DEF Nodes, Stops
  <2>2. i \in Decisive(path)
    BY <2>1 DEF Decisive, Stops
  <2>3. (CHOOSE j \in Decisive(path) : TRUE) = i
    BY <1>3, <2>2
  <2>4. ClassifyPath(path) = path[CHOOSE j \in Decisive(path) : TRUE]
    BY <2>2, ClassifyPathIs
  <2> QED BY <1>5, <2>3, <2>4
<1> QED BY <1>4, <1>5

\* Two device paths that agree up to such a node are of one class, whatever
\* follows it: nothing behind the end node, behind a malformed node or behind
\* the deciding one can change how a load option is classified.
THEOREM TailIsIgnored ==
  ASSUME NEW p \in Seq(Nodes), NEW q \in Seq(Nodes), NEW i \in DOMAIN p, i \in DOMAIN q,
         \A j \in 1..(i - 1) : p[j] = "OTHER", p[i] # "OTHER",
         \A j \in 1..i : q[j] = p[j]
  PROVE  ClassifyPath(p) = ClassifyPath(q)
<1>1. i \in Nat /\ i >= 1
  OBVIOUS
<1>2. q[i] = p[i] /\ \A j \in 1..(i - 1) : q[j] = "OTHER"
  <2>1. i \in 1..i /\ \A j \in 1..(i - 1) : j \in 1..i
    BY <1>1
  <2> QED BY <2>1
<1>3. ClassifyPath(p) = IF Stops(p[i]) THEN "UNKNOWN" ELSE p[i]
  BY FirstNodeDecides
<1>4. ClassifyPath(q) = IF Stops(q[i]) THEN "UNKNOWN" ELSE q[i]
  BY <1>2, FirstNodeDecides
<1> QED BY <1>2, <1>3, <1>4
=============================================================================
