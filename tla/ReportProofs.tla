---------------------------- MODULE ReportProofs ----------------------------
(***************************************************************************)
(* Proofs about Report: for every capacity, every table of subgroups and   *)
(* every number of rows the checks emit, the subgroup's array is not       *)
(* overrun, the rows kept are the first ones emitted, and every loss is    *)
(* flagged.                                                                *)
(*                                                                         *)
(* The clamp of run_subgroups is sound only because of what holds between  *)
(* the checks: a subgroup that has lost a row is full (GroupInv), so that  *)
(* no later check is called and ranks and slots never drift apart          *)
(* (SlotInv).                                                              *)
(***************************************************************************)
EXTENDS Report, FiniteSetTheorems, TLAPS

Slot == [state : States \cup {"none"}, rank : Nat]

Subgroup == [rows : Seq(Slot), truncated : BOOLEAN, lost : BOOLEAN,
             summary : [States -> Nat]]

\* Types of the variables the argument is about.
TypeInv ==
  /\ pc \in {"args", "group", "check", "emit", "merge", "done"}
  /\ done \in Seq(Subgroup)
  /\ results \in [0..Cap -> Slot]
  /\ count \in Nat /\ used \in Nat /\ emits \in Nat /\ emitted \in Nat
  /\ truncated \in BOOLEAN /\ unrun \in BOOLEAN

\* Slots in use while the subgroup is worked on.
InUse == IF pc = "emit" THEN count + used ELSE count

\* A slot in use holds the row of its own rank.
SlotInv ==
  /\ count <= Cap
  /\ pc = "emit" => count + used <= Cap + 1
  /\ \A i \in 0..Cap : i < InUse => results[i].rank = i + 1

\* Rows are lost only by a full subgroup, and then it is marked.
GroupInv ==
  /\ pc = "check" =>
       /\ truncated <=> (emitted > count \/ unrun)
       /\ truncated => count = Cap
       /\ emitted >= count
  /\ pc = "emit" =>
       /\ count < Cap /\ ~truncated /\ ~unrun
       /\ emitted >= count + used
       /\ count + used <= Cap => emitted = count + used

\* The subgroups finalised before.
DoneInv == KeptAreFirst /\ TruncationFlagged

IInv == TypeInv /\ SlotInv /\ GroupInv /\ DoneInv
-----------------------------------------------------------------------------
\* bythos_summary_add counts: a summary is a number for each state.
LEMMA SummaryType ==
  ASSUME NEW n \in Nat, NEW rs
  PROVE  Summary(n, rs) \in [States -> Nat]
<1> SUFFICES ASSUME NEW s \in States
             PROVE  Cardinality({i \in 0..(n - 1) : rs[i].state = s}) \in Nat
  BY DEF Summary
<1>1. IsFiniteSet(0..(n - 1))
  BY FS_Interval
<1>2. IsFiniteSet({i \in 0..(n - 1) : rs[i].state = s})
  BY <1>1, FS_Subset
<1> QED BY <1>2, FS_CardinalityType

\* Initially nothing has been written.
LEMMA InitHolds == Init => IInv
<1> SUFFICES ASSUME Init PROVE IInv
  OBVIOUS
<1> USE DEF Init
<1>1. TypeInv
  <2>1. done \in Seq(Subgroup)
    OBVIOUS
  <2>2. Unwritten \in Slot
    BY DEF Slot, Unwritten
  <2>3. results \in [0..Cap -> Slot]
    BY <2>2
  <2> QED BY <2>1, <2>3 DEF TypeInv
<1>2. SlotInv
  BY CapAssumption DEF SlotInv, InUse
<1>3. GroupInv /\ DoneInv
  BY DEF GroupInv, DoneInv, KeptAreFirst, TruncationFlagged
<1> QED BY <1>1, <1>2, <1>3 DEF IInv

\* What a subgroup keeps when it is finalised satisfies the properties.
LEMMA FinishKeeps == IInv /\ FinishSubgroup => IInv'
<1> SUFFICES ASSUME IInv, FinishSubgroup PROVE IInv'
  OBVIOUS
<1> DEFINE d == [rows |-> [i \in 1..count |-> results[i - 1]],
                 truncated |-> truncated,
                 lost |-> emitted > count \/ unrun,
                 summary |-> Summary(count, results)]
<1>1. /\ pc = "check" /\ pc' = "group"
      /\ done' = Append(done, d)
      /\ UNCHANGED <<checkNo, results, count, truncated, used, emits, emitted, unrun>>
  BY DEF FinishSubgroup, groupVars
<1>2. count \in Nat /\ count <= Cap /\ Cap \in Nat
  BY CapAssumption DEF IInv, TypeInv, SlotInv
<1>3. d.rows \in Seq(Slot) /\ Len(d.rows) = count
  <2>1. \A i \in 1..count : results[i - 1] \in Slot
    BY <1>2 DEF IInv, TypeInv
  <2>2. [i \in 1..count |-> results[i - 1]] \in [1..count -> Slot]
    BY <2>1
  <2> QED BY <2>2, <1>2
<1>4. Summary(count, results) \in [States -> Nat]
  BY <1>2, SummaryType
<1>5. d \in Subgroup
  <2>1. (emitted > count \/ unrun) \in BOOLEAN
    OBVIOUS
  <2>2. truncated \in BOOLEAN
    BY DEF IInv, TypeInv
  <2> HIDE DEF Summary
  <2> QED BY <1>3, <1>4, <2>1, <2>2 DEF Subgroup
<1>6. \A i \in 1..Len(d.rows) : d.rows[i].rank = i
  <2> SUFFICES ASSUME NEW i \in 1..count PROVE results[i - 1].rank = i
    BY <1>3
  <2> QED BY <1>1, <1>2 DEF IInv, SlotInv, InUse
<1>7. d.truncated <=> d.lost
  BY <1>1 DEF IInv, GroupInv
<1> HIDE DEF d
<1>8. done \in Seq(Subgroup)
  BY DEF IInv, TypeInv
<1>9. TypeInv'
  BY <1>1, <1>5, <1>8 DEF IInv, TypeInv
<1>10. SlotInv'
  BY <1>1 DEF IInv, SlotInv, InUse
<1>11. GroupInv'
  BY <1>1 DEF GroupInv
<1>12. DoneInv'
  <2> SUFFICES ASSUME NEW g \in 1..Len(done')
               PROVE  /\ \A i \in 1..Len(done'[g].rows) : done'[g].rows[i].rank = i
                      /\ done'[g].truncated <=> done'[g].lost
    BY DEF DoneInv, KeptAreFirst, TruncationFlagged
  <2>1. CASE g = Len(done) + 1
    <3>1. done'[g] = d
      BY <1>1, <1>8, <1>5, <2>1
    <3> QED BY <3>1, <1>6, <1>7
  <2>2. CASE g # Len(done) + 1
    <3>1. g \in 1..Len(done) /\ done'[g] = done[g]
      BY <1>1, <1>8, <1>5, <2>2
    <3> QED BY <3>1 DEF IInv, DoneInv, KeptAreFirst, TruncationFlagged
  <2>3. Len(done) \in Nat
    BY <1>8
  <2> QED BY <2>1, <2>2
<1> QED BY <1>9, <1>10, <1>11, <1>12 DEF IInv
-----------------------------------------------------------------------------
\* Every step of main, run_subgroups and the checks preserves the invariant.
LEMMA NextKeeps == IInv /\ [Next]_vars => IInv'
<1> SUFFICES ASSUME IInv, [Next]_vars PROVE IInv'
  OBVIOUS
<1> USE DEF IInv
<1>a. Cap \in Nat \ {0}
  BY CapAssumption
<1>b. done' = done => DoneInv'
  BY DEF DoneInv, KeptAreFirst, TruncationFlagged
<1>1. CASE ParseArgs
  BY <1>1, <1>b DEF ParseArgs, groupVars, TypeInv, SlotInv, InUse, GroupInv
<1>2. CASE StartSubgroup
  <2>1. TypeInv'
    BY <1>2, <1>a DEF StartSubgroup, TypeInv, Slot, Unwritten
  <2>2. SlotInv'
    BY <1>2, <1>a DEF StartSubgroup, SlotInv, InUse
  <2>3. GroupInv'
    BY <1>2 DEF StartSubgroup, GroupInv
  <2> QED BY <2>1, <2>2, <2>3, <1>2, <1>b DEF StartSubgroup
<1>3. CASE StopAtCapacity
  <2>1. pc' = "check" /\ count = Cap
    BY <1>3, <1>a DEF StopAtCapacity, TypeInv, SlotInv
  <2> QED BY <2>1, <1>3, <1>a, <1>b DEF StopAtCapacity, TypeInv, SlotInv, InUse, GroupInv
<1>4. CASE CallCheck
  BY <1>4, <1>a, <1>b DEF CallCheck, TypeInv, SlotInv, InUse, GroupInv
<1>5. ASSUME NEW s \in States, Emit(s) PROVE IInv'
  <2>1. CASE used < remaining + 1
    <3>1. /\ results' = [results EXCEPT ![count + used] = [state |-> s, rank |-> emitted + 1]]
          /\ used' = used + 1 /\ emitted' = emitted + 1 /\ emits' = emits + 1
          /\ pc = "emit" /\ UNCHANGED <<pc, done, checkNo, count, truncated, unrun>>
      BY <1>5, <2>1 DEF Emit
    <3>2. count + used \in 0..Cap
      BY <2>1, <1>a DEF remaining, TypeInv
    <3>3. emitted = count + used
      BY <3>1, <3>2 DEF GroupInv
    <3>4. [state |-> s, rank |-> emitted + 1] \in Slot
      BY <3>2, <3>3 DEF Slot
    <3>5. TypeInv'
      BY <3>1, <3>2, <3>4 DEF TypeInv
    <3>6. SlotInv'
      <4> SUFFICES ASSUME NEW i \in 0..Cap, i < count + used + 1
                   PROVE  results'[i].rank = i + 1
        BY <3>1, <3>2, <1>a DEF SlotInv, InUse, TypeInv
      <4>1. CASE i = count + used
        BY <4>1, <3>1, <3>2, <3>3 DEF TypeInv
      <4>2. CASE i # count + used
        <5>1. results'[i] = results[i]
          BY <4>2, <3>1 DEF TypeInv
        <5> QED BY <5>1, <4>2, <3>1, <3>2 DEF SlotInv, InUse, TypeInv
      <4> QED BY <4>1, <4>2
    <3>7. GroupInv'
      BY <3>1, <3>2, <3>3 DEF GroupInv, TypeInv
    <3> QED BY <3>1, <3>5, <3>6, <3>7, <1>b
  <2>2. CASE ~(used < remaining + 1)
    <3>1. /\ emitted' = emitted + 1 /\ emits' = emits + 1
          /\ pc = "emit" /\ UNCHANGED <<pc, done, checkNo, count, truncated, unrun, results, used>>
      BY <1>5, <2>2 DEF Emit
    <3> QED BY <3>1, <2>2, <1>a, <1>b DEF remaining, TypeInv, SlotInv, InUse, GroupInv
  <2> QED BY <2>1, <2>2
<1>6. CASE CheckReturns
  <2>1. CASE used > remaining
    BY <1>6, <2>1, <1>a, <1>b DEF CheckReturns, remaining, TypeInv, SlotInv, InUse, GroupInv
  <2>2. CASE ~(used > remaining)
    BY <1>6, <2>2, <1>a, <1>b DEF CheckReturns, remaining, TypeInv, SlotInv, InUse, GroupInv
  <2> QED BY <2>1, <2>2
<1>7. CASE FinishSubgroup
  BY <1>7, FinishKeeps
<1>8. CASE EndOfSubgroups
  BY <1>8, <1>b DEF EndOfSubgroups, TypeInv, SlotInv, InUse, GroupInv
<1>9. CASE MergeSubgroup
  BY <1>9, <1>b DEF MergeSubgroup, TypeInv, SlotInv, InUse, GroupInv
<1>10. CASE Render
  BY <1>10, <1>b DEF Render, groupVars, TypeInv, SlotInv, InUse, GroupInv
<1>11. CASE UNCHANGED vars
  BY <1>11, <1>b DEF vars, TypeInv, SlotInv, InUse, GroupInv
<1>12. CASE Exited
  BY <1>12, <1>11 DEF Exited
<1> QED BY <1>1, <1>2, <1>3, <1>4, <1>5, <1>6, <1>7, <1>8, <1>9, <1>10, <1>11, <1>12 DEF Next

\* The invariant holds throughout a run of the program.
LEMMA ReportInvariant == Spec => []IInv
BY InitHolds, NextKeeps, PTL DEF Spec

\* No check, however many rows it emits, writes past the spare slot of its
\* subgroup's array, and run_subgroups keeps at most Cap of them.
THEOREM ArraysNotOverrun == Spec => []NoOverrun
<1>1. IInv => NoOverrun
  BY DEF IInv, SlotInv, NoOverrun
<1> QED BY <1>1, ReportInvariant, PTL

\* The rows a subgroup keeps are the first ones its checks emitted, in order.
THEOREM FirstRowsKept == Spec => []KeptAreFirst
<1>1. IInv => KeptAreFirst
  BY DEF IInv, DoneInv
<1> QED BY <1>1, ReportInvariant, PTL

\* A finalised subgroup is marked truncated exactly when a row was dropped or a
\* check was not called.
THEOREM LossesAreFlagged == Spec => []TruncationFlagged
<1>1. IInv => TruncationFlagged
  BY DEF IInv, DoneInv
<1> QED BY <1>1, ReportInvariant, PTL
-----------------------------------------------------------------------------
(***************************************************************************)
(* The exit status.  A fail row that a check emits is in a slot in use, or *)
(* the subgroup is full and will be marked, until it is in the report or   *)
(* its subgroup is marked there.  The summaries count the rows of one      *)
(* subgroup each and the loop of main adds those of the first checkNo.     *)
(***************************************************************************)

\* The rows in state s of one subgroup, and of the first n.
RowsOf(d, s) == {i \in 1..Cap : i <= Len(d.rows) /\ d.rows[i].state = s}

Printed(ds, n, s) == {p \in (1..n) \X (1..Cap) :
                        /\ p[2] <= Len(ds[p[1]].rows)
                        /\ ds[p[1]].rows[p[2]].state = s}

CountInv ==
  \A g \in 1..Len(done) :
    /\ Len(done[g].rows) <= Cap
    /\ \A s \in States : done[g].summary[s] = Cardinality(RowsOf(done[g], s))

MergeInv ==
  /\ overall \in [States -> Nat]
  /\ pc \in {"args", "group", "check", "emit"} => overall = ZeroSummary
  /\ pc = "merge" =>
       /\ checkNo \in 0..Len(done)
       /\ \A s \in States : overall[s] = Cardinality(Printed(done, checkNo, s))
  /\ pc = "done" /\ mode # "none" =>
       /\ \A s \in States : overall[s] = Cardinality(Printed(done, Len(done), s))
       /\ exitCode = IF "FAIL" \in States /\ overall["FAIL"] > 0 THEN 1 ELSE 0

FailTold ==
  \E g \in 1..Len(done) :
    done[g].truncated \/ \E i \in 1..Len(done[g].rows) : done[g].rows[i].state = "FAIL"

FailInv ==
  /\ failSeen \in BOOLEAN
  /\ pc = "args" => ~failSeen
  /\ \A i \in 0..Cap : results[i].state = "FAIL" => failSeen
  /\ \A g \in 1..Len(done) : \A i \in 1..Len(done[g].rows) : done[g].rows[i].state = "FAIL" => failSeen
  /\ failSeen =>
       \/ FailTold
       \/ pc = "check" /\ (truncated \/ \E i \in 0..(count - 1) : results[i].state = "FAIL")
       \/ pc = "emit" /\ (count + used > Cap \/ \E i \in 0..(count + used - 1) : results[i].state = "FAIL")

ExitInv == CountInv /\ MergeInv /\ FailInv

\* subgroup_finalize: the summary counts the rows that are kept.
LEMMA SummaryCounts ==
  ASSUME NEW n \in Nat, n <= Cap, NEW rs, NEW d, d.rows = [i \in 1..n |-> rs[i - 1]], NEW s \in States
  PROVE  Summary(n, rs)[s] = Cardinality(RowsOf(d, s))
<1> DEFINE S == {i \in 0..(n - 1) : rs[i].state = s}
           T == RowsOf(d, s)
           f == [i \in S |-> i + 1]
<1>1. Len(d.rows) = n /\ \A i \in 1..n : d.rows[i] = rs[i - 1]
  OBVIOUS
<1>2. Cap \in Nat
  BY CapAssumption
<1>3. \A i \in S : i + 1 \in T
  <2> SUFFICES ASSUME NEW i \in S PROVE i + 1 \in T
    OBVIOUS
  <2>1. i + 1 \in 1..n /\ i + 1 \in 1..Cap /\ i + 1 <= n /\ (i + 1) - 1 = i
    BY <1>2
  <2>2. d.rows[i + 1] = rs[i]
    BY <1>1, <2>1
  <2> QED BY <1>1, <2>1, <2>2 DEF RowsOf
<1>4. \A j \in T : j - 1 \in S /\ (j - 1) + 1 = j
  <2> SUFFICES ASSUME NEW j \in T PROVE j - 1 \in S /\ (j - 1) + 1 = j
    OBVIOUS
  <2>1. j \in 1..Cap /\ j <= n /\ d.rows[j].state = s
    BY <1>1 DEF RowsOf
  <2>2. j \in 1..n /\ j - 1 \in 0..(n - 1) /\ (j - 1) + 1 = j
    BY <1>2, <2>1
  <2> QED BY <1>1, <2>1, <2>2
<1>5. f \in [S -> T] /\ (\A a, b \in S : f[a] = f[b] => a = b) /\ (\A j \in T : \E i \in S : f[i] = j)
  <2>1. f \in [S -> T]
    BY <1>3
  <2>2. \A a, b \in S : f[a] = f[b] => a = b
    OBVIOUS
  <2>3. \A j \in T : \E i \in S : f[i] = j
    BY <1>4
  <2> QED BY <2>1, <2>2, <2>3
<1>6. IsFiniteSet(S)
  <2>1. 0 \in Int /\ n - 1 \in Int
    OBVIOUS
  <2>2. IsFiniteSet(0..(n - 1))
    BY <2>1, FS_Interval
  <2> QED BY <2>2, FS_Subset
<1>7. Summary(n, rs)[s] = Cardinality(S)
  BY DEF Summary
<1> HIDE DEF S, T, f
<1>8. f \in Bijection(S, T)
  BY <1>5 DEF Bijection, Injection, IsInjective, Surjection
<1>9. Cardinality(T) = Cardinality(S)
  BY <1>6, <1>8, FS_Bijection DEF ExistsBijection
<1> QED BY <1>7, <1>9 DEF T

LEMMA PrintedFinite ==
  ASSUME NEW ds, NEW n \in Nat, NEW s
  PROVE  IsFiniteSet(Printed(ds, n, s)) /\ Cardinality(Printed(ds, n, s)) \in Nat
<1>1. IsFiniteSet(1..n) /\ IsFiniteSet(1..Cap)
  <2>1. 1 \in Int /\ n \in Int /\ Cap \in Int
    BY CapAssumption
  <2> QED BY <2>1, FS_Interval
<1>2. IsFiniteSet((1..n) \X (1..Cap))
  BY <1>1, FS_Product
<1>3. IsFiniteSet(Printed(ds, n, s))
  BY <1>2, FS_Subset DEF Printed
<1> QED BY <1>3, FS_CardinalityType

\* bythos_summary_merge: one subgroup more adds its own rows.
LEMMA MergeAdds ==
  ASSUME NEW ds, NEW n \in Nat, NEW s
  PROVE  Cardinality(Printed(ds, n + 1, s)) = Cardinality(Printed(ds, n, s)) + Cardinality(RowsOf(ds[n + 1], s))
<1> DEFINE A == Printed(ds, n, s)
           R == RowsOf(ds[n + 1], s)
           B == {p \in {n + 1} \X (1..Cap) : p[2] \in R}
           f == [i \in R |-> <<n + 1, i>>]
<1>1. Printed(ds, n + 1, s) = A \cup B
  <2>1. 1..(n + 1) = (1..n) \cup {n + 1}
    OBVIOUS
  <2> QED BY <2>1 DEF Printed, RowsOf
<1>2. A \cap B = {}
  <2>1. n + 1 \notin 1..n
    OBVIOUS
  <2> QED BY <2>1 DEF Printed
<1>3. R \subseteq 1..Cap
  BY DEF RowsOf
<1>4. f \in [R -> B] /\ (\A a, b \in R : f[a] = f[b] => a = b) /\ (\A p \in B : \E i \in R : f[i] = p)
  BY <1>3
<1>5. IsFiniteSet(R)
  <2>1. 1 \in Int /\ Cap \in Int
    BY CapAssumption
  <2>2. IsFiniteSet(1..Cap)
    BY <2>1, FS_Interval
  <2> QED BY <1>3, <2>2, FS_Subset
<1>6. IsFiniteSet(A) /\ Cardinality(A) \in Nat
  BY PrintedFinite
<1> HIDE DEF A, B, R, f
<1>7. f \in Bijection(R, B)
  BY <1>4 DEF Bijection, Injection, IsInjective, Surjection
<1>8. IsFiniteSet(B) /\ Cardinality(B) = Cardinality(R)
  BY <1>5, <1>7, FS_Bijection DEF ExistsBijection
<1>9. Cardinality(B) \in Nat
  BY <1>8, FS_CardinalityType
<1>10. Cardinality(A \cup B) = Cardinality(A) + Cardinality(B) - Cardinality(A \cap B)
  BY <1>6, <1>8, FS_Union
<1>11. Cardinality(A \cap B) = 0
  BY <1>2, FS_EmptySet
<1> QED BY <1>1, <1>6, <1>8, <1>9, <1>10, <1>11 DEF A, R

LEMMA ExitInitially == Init => ExitInv
<1> SUFFICES ASSUME Init PROVE ExitInv
  OBVIOUS
<1>1. Len(done) = 0 /\ 1..0 = {} /\ 1..Len(done) = {}
  BY DEF Init
<1>2. \A i \in 0..Cap : results[i].state # "FAIL"
  BY DEF Init, Unwritten
<1>3. CountInv /\ FailInv
  BY <1>1, <1>2 DEF Init, CountInv, FailInv
<1>4. MergeInv
  BY DEF Init, MergeInv, ZeroSummary
<1> QED BY <1>3, <1>4 DEF ExitInv

\* The subgroup that is finalised.
LEMMA FinishCounts == IInv /\ ExitInv /\ FinishSubgroup => ExitInv'
<1> SUFFICES ASSUME IInv, ExitInv, FinishSubgroup PROVE ExitInv'
  OBVIOUS
<1> DEFINE r == [i \in 1..count |-> results[i - 1]]
           d == [rows |-> r, truncated |-> truncated, lost |-> emitted > count \/ unrun,
                 summary |-> Summary(count, results)]
<1>1. /\ pc = "check" /\ pc' = "group" /\ done' = Append(done, d)
      /\ UNCHANGED <<results, count, failSeen, overall>>
  BY DEF FinishSubgroup, groupVars
<1>2. done \in Seq(Subgroup) /\ count \in Nat /\ count <= Cap /\ Cap \in Nat /\ truncated \in BOOLEAN
  BY CapAssumption DEF IInv, TypeInv, SlotInv
<1>3. d.rows = r /\ d.truncated = truncated /\ d.summary = Summary(count, results)
  OBVIOUS
<1>4. Len(r) = count /\ \A i \in 1..count : r[i] = results[i - 1]
  BY <1>2
<1> HIDE DEF r, d
<1>5. /\ Len(done) \in Nat /\ Len(done') = Len(done) + 1 /\ done'[Len(done) + 1] = d
      /\ \A g \in 1..Len(done) : done'[g] = done[g]
      /\ \A g \in 1..Len(done') : g \in 1..Len(done) \/ g = Len(done) + 1
  BY <1>1, <1>2
<1>6. Len(done) + 1 \in 1..Len(done') /\ \A g \in 1..Len(done) : g \in 1..Len(done')
  BY <1>5
<1>7. CountInv'
  <2>1. \A s \in States : d.summary[s] = Cardinality(RowsOf(d, s))
    BY <1>2, <1>3, SummaryCounts DEF r
  <2>2. Len(d.rows) <= Cap
    BY <1>2, <1>3, <1>4
  <2> SUFFICES ASSUME NEW g \in 1..Len(done')
               PROVE  /\ Len(done'[g].rows) <= Cap
                      /\ \A s \in States : done'[g].summary[s] = Cardinality(RowsOf(done'[g], s))
    BY DEF CountInv, RowsOf
  <2>3. CASE g = Len(done) + 1
    BY <1>5, <2>1, <2>2, <2>3
  <2>4. CASE g \in 1..Len(done)
    BY <1>5, <2>4 DEF ExitInv, CountInv
  <2> QED BY <1>5, <2>3, <2>4
<1>8. MergeInv'
  BY <1>1 DEF ExitInv, MergeInv
<1>9. \A i \in 1..count : r[i].state = "FAIL" => failSeen
  <2> SUFFICES ASSUME NEW i \in 1..count, results[i - 1].state = "FAIL" PROVE failSeen
    BY <1>4
  <2>1. i - 1 \in 0..Cap
    BY <1>2
  <2> QED BY <2>1 DEF ExitInv, FailInv
<1>10. \A g \in 1..Len(done') : \A i \in 1..Len(done'[g].rows) : done'[g].rows[i].state = "FAIL" => failSeen
  <2> SUFFICES ASSUME NEW g \in 1..Len(done'), NEW i \in 1..Len(done'[g].rows), done'[g].rows[i].state = "FAIL"
               PROVE  failSeen
    OBVIOUS
  <2>1. CASE g = Len(done) + 1
    BY <1>3, <1>4, <1>5, <1>9, <2>1
  <2>2. CASE g \in 1..Len(done)
    BY <1>5, <2>2 DEF ExitInv, FailInv
  <2> QED BY <1>5, <2>1, <2>2
<1>11. failSeen => FailTold'
  <2> SUFFICES ASSUME failSeen PROVE FailTold'
    OBVIOUS
  <2>1. CASE FailTold
    <3>1. PICK g \in 1..Len(done) :
            done[g].truncated \/ \E i \in 1..Len(done[g].rows) : done[g].rows[i].state = "FAIL"
      BY <2>1 DEF FailTold
    <3>2. g \in 1..Len(done') /\ done'[g] = done[g]
      BY <1>5, <1>6
    <3> QED BY <3>1, <3>2 DEF FailTold
  <2>2. CASE truncated
    <3>1. done'[Len(done) + 1].truncated
      BY <1>3, <1>5, <2>2
    <3> QED BY <1>6, <3>1 DEF FailTold
  <2>3. CASE \E i \in 0..(count - 1) : results[i].state = "FAIL"
    <3>1. PICK i \in 0..(count - 1) : results[i].state = "FAIL"
      BY <2>3
    <3>2. i + 1 \in 1..count /\ (i + 1) - 1 = i
      BY <1>2
    <3>3. r[i + 1].state = "FAIL" /\ i + 1 \in 1..Len(r)
      BY <1>4, <3>1, <3>2
    <3>4. \E j \in 1..Len(done'[Len(done) + 1].rows) : done'[Len(done) + 1].rows[j].state = "FAIL"
      BY <1>3, <1>5, <3>3
    <3> QED BY <1>6, <3>4 DEF FailTold
  <2> QED BY <1>1, <2>1, <2>2, <2>3 DEF ExitInv, FailInv
<1>12. FailInv'
  <2>1. /\ failSeen' = failSeen /\ failSeen \in BOOLEAN
        /\ \A i \in 0..Cap : results'[i].state = "FAIL" => failSeen
    BY <1>1 DEF ExitInv, FailInv
  <2> QED BY <1>1, <1>10, <1>11, <2>1 DEF FailInv
<1> QED BY <1>7, <1>8, <1>12 DEF ExitInv

LEMMA EmitTells ==
  ASSUME IInv, ExitInv, NEW s \in States, Emit(s)
  PROVE  ExitInv'
<1>1. /\ pc = "emit" /\ pc' = "emit" /\ failSeen' = (failSeen \/ s = "FAIL")
      /\ UNCHANGED <<done, count, overall>>
  BY DEF Emit
<1>2. count \in Nat /\ used \in Nat /\ Cap \in Nat /\ results \in [0..Cap -> Slot] /\ failSeen \in BOOLEAN
  BY CapAssumption DEF IInv, TypeInv, ExitInv, FailInv
<1>3. CountInv' /\ MergeInv'
  BY <1>1 DEF ExitInv, CountInv, MergeInv, RowsOf
<1>4. /\ failSeen' \in BOOLEAN /\ (failSeen => failSeen')
      /\ \A g \in 1..Len(done') : \A i \in 1..Len(done'[g].rows) : done'[g].rows[i].state = "FAIL" => failSeen'
      /\ FailTold => FailTold'
  BY <1>1, <1>2 DEF ExitInv, FailInv, FailTold
<1>5. CASE used < remaining + 1
  <2>1. /\ results' = [results EXCEPT ![count + used] = [state |-> s, rank |-> emitted + 1]]
        /\ used' = used + 1
    BY <1>5 DEF Emit
  <2>2. count + used \in 0..Cap
    BY <1>2, <1>5 DEF remaining
  <2>3. results'[count + used].state = s /\ \A i \in 0..Cap : i # count + used => results'[i] = results[i]
    BY <1>2, <2>1, <2>2
  <2>4. \A i \in 0..Cap : results'[i].state = "FAIL" => failSeen'
    BY <1>1, <1>2, <2>3 DEF ExitInv, FailInv
  <2>5. ASSUME failSeen'
        PROVE  FailTold' \/ (count' + used' > Cap \/ \E i \in 0..(count' + used' - 1) : results'[i].state = "FAIL")
    <3>1. CASE s = "FAIL"
      <4>1. count + used \in 0..(count' + used' - 1)
        BY <1>1, <1>2, <2>1
      <4> QED BY <2>3, <3>1, <4>1
    <3>2. CASE FailTold
      BY <1>4, <3>2
    <3>3. CASE count + used > Cap
      BY <1>2, <2>2, <3>3
    <3>4. CASE \E i \in 0..(count + used - 1) : results[i].state = "FAIL"
      <4>1. PICK i \in 0..(count + used - 1) : results[i].state = "FAIL"
        BY <3>4
      <4>2. i \in 0..Cap /\ i # count + used /\ i \in 0..(count' + used' - 1)
        BY <1>1, <1>2, <2>1, <2>2
      <4> QED BY <2>3, <4>1, <4>2
    <3> QED BY <1>1, <2>5, <3>1, <3>2, <3>3, <3>4 DEF ExitInv, FailInv
  <2>6. FailInv'
    BY <1>1, <1>4, <2>4, <2>5 DEF FailInv
  <2> QED BY <1>3, <2>6 DEF ExitInv
<1>6. CASE ~(used < remaining + 1)
  <2>1. UNCHANGED <<results, used>>
    BY <1>6 DEF Emit
  <2>2. count' + used' > Cap
    BY <1>1, <1>2, <1>6, <2>1 DEF remaining
  <2>3. FailInv'
    BY <1>1, <1>4, <2>1, <2>2 DEF ExitInv, FailInv
  <2> QED BY <1>3, <2>3 DEF ExitInv
<1> QED BY <1>5, <1>6

LEMMA MergeCounts == IInv /\ ExitInv /\ MergeSubgroup => ExitInv'
<1> SUFFICES ASSUME IInv, ExitInv, MergeSubgroup PROVE ExitInv'
  OBVIOUS
<1>1. /\ pc = "merge" /\ checkNo < Len(done) /\ checkNo' = checkNo + 1
      /\ overall' = [s \in States |-> overall[s] + done[checkNo + 1].summary[s]]
      /\ UNCHANGED <<pc, mode, done, results, count, truncated, used, failSeen>>
  BY DEF MergeSubgroup
<1>2. checkNo \in Nat /\ checkNo + 1 \in 1..Len(done) /\ checkNo' \in 0..Len(done)
  <2>1. checkNo \in 0..Len(done) /\ Len(done) \in Nat
    BY <1>1 DEF ExitInv, MergeInv, IInv, TypeInv
  <2> QED BY <1>1, <2>1
<1>3. ASSUME NEW s \in States
      PROVE  overall'[s] = Cardinality(Printed(done, checkNo + 1, s)) /\ overall'[s] \in Nat
  <2>1. overall[s] = Cardinality(Printed(done, checkNo, s))
    BY <1>1 DEF ExitInv, MergeInv
  <2>2. done[checkNo + 1].summary[s] = Cardinality(RowsOf(done[checkNo + 1], s))
    BY <1>2 DEF ExitInv, CountInv
  <2>3. overall'[s] = Cardinality(Printed(done, checkNo + 1, s))
    BY <1>1, <1>2, <2>1, <2>2, MergeAdds
  <2>4. checkNo + 1 \in Nat
    BY <1>2
  <2> QED BY <2>3, <2>4, PrintedFinite
<1>4. overall' \in [States -> Nat]
  BY <1>1, <1>3
<1>5. MergeInv'
  <2>1. \A s \in States : overall'[s] = Cardinality(Printed(done, checkNo + 1, s))
    BY <1>3
  <2>2. \A s : Printed(done', checkNo', s) = Printed(done, checkNo + 1, s)
    BY <1>1
  <2> HIDE DEF Printed
  <2>3. \A s \in States : overall'[s] = Cardinality(Printed(done', checkNo', s))
    BY <2>1, <2>2
  <2> QED BY <1>1, <1>2, <1>4, <2>3 DEF MergeInv
<1>6. CountInv' /\ FailInv'
  BY <1>1 DEF ExitInv, CountInv, RowsOf, FailInv, FailTold
<1> QED BY <1>5, <1>6 DEF ExitInv

LEMMA ExitStep == IInv /\ ExitInv /\ [Next]_vars => ExitInv'
<1> SUFFICES ASSUME IInv, ExitInv, [Next]_vars PROVE ExitInv'
  OBVIOUS
<1>a. Cap \in Nat /\ count \in Nat /\ used \in Nat
  BY CapAssumption DEF IInv, TypeInv
<1>b. done' = done => CountInv'
  BY DEF ExitInv, CountInv, RowsOf
<1>c. done' = done => FailTold' = FailTold
  BY DEF FailTold
<1>1. CASE ParseArgs
  BY <1>1, <1>b DEF ParseArgs, groupVars, ExitInv, MergeInv, FailInv, FailTold
<1>2. CASE StartSubgroup
  <2>1. /\ pc = "group" /\ pc' = "check" /\ UNCHANGED <<done, failSeen, overall>>
        /\ \A i \in 0..Cap : results'[i].state # "FAIL"
    BY <1>2 DEF StartSubgroup, Unwritten
  <2> QED BY <1>b, <1>c, <2>1 DEF ExitInv, MergeInv, FailInv
<1>3. CASE StopAtCapacity
  <2>1. /\ pc = "check" /\ pc' = "check" /\ truncated' = TRUE /\ UNCHANGED <<done, results, count, failSeen, overall>>
    BY <1>3 DEF StopAtCapacity
  <2> QED BY <1>b, <1>c, <2>1 DEF ExitInv, MergeInv, FailInv
<1>4. CASE CallCheck
  <2>1. /\ pc = "check" /\ pc' = "emit" /\ count < Cap /\ used' = 0
        /\ UNCHANGED <<done, results, count, failSeen, overall>>
    BY <1>4 DEF CallCheck
  <2>2. ~truncated /\ count' + used' - 1 = count - 1
    BY <1>a, <2>1 DEF IInv, GroupInv
  <2>3. FailInv'
    BY <1>c, <2>1, <2>2 DEF ExitInv, FailInv
  <2> QED BY <1>b, <2>1, <2>3 DEF ExitInv, MergeInv
<1>5. ASSUME NEW s \in States, Emit(s) PROVE ExitInv'
  BY <1>5, EmitTells
<1>6. CASE CheckReturns
  <2>1. /\ pc = "emit" /\ pc' = "check" /\ UNCHANGED <<done, results, failSeen, overall>>
        /\ \/ count + used > Cap /\ truncated' = TRUE
           \/ count + used <= Cap /\ count' = count + used
    BY <1>6, <1>a DEF CheckReturns, remaining
  <2>2. FailInv'
    BY <1>a, <1>c, <2>1 DEF ExitInv, FailInv
  <2> QED BY <1>b, <2>1, <2>2 DEF ExitInv, MergeInv
<1>7. CASE FinishSubgroup
  BY <1>7, FinishCounts
<1>8. CASE EndOfSubgroups
  <2>1. /\ pc = "group" /\ pc' = "merge" /\ checkNo' = 0 /\ UNCHANGED <<done, results, failSeen, overall>>
    BY <1>8 DEF EndOfSubgroups
  <2>2. FailInv'
    BY <1>c, <2>1 DEF ExitInv, FailInv
  <2>3. overall = ZeroSummary /\ overall \in [States -> Nat] /\ 0 \in 0..Len(done)
    <3>1. Len(done) \in Nat
      BY DEF IInv, TypeInv
    <3> QED BY <2>1, <3>1 DEF ExitInv, MergeInv
  <2>4. \A s : Cardinality(Printed(done, 0, s)) = 0
    <3>1. \A s : Printed(done, 0, s) = {}
      BY DEF Printed
    <3> QED BY <3>1, FS_EmptySet
  <2>5. \A s \in States : overall'[s] = Cardinality(Printed(done', checkNo', s))
    <3> HIDE DEF Printed
    <3> QED BY <2>1, <2>3, <2>4 DEF ZeroSummary
  <2>6. MergeInv'
    <3> HIDE DEF Printed
    <3> QED BY <2>1, <2>3, <2>5 DEF MergeInv
  <2> QED BY <1>b, <2>1, <2>2, <2>6 DEF ExitInv
<1>9. CASE MergeSubgroup
  BY <1>9, MergeCounts
<1>10. CASE Render
  <2>1. /\ pc = "merge" /\ checkNo = Len(done) /\ pc' = "done"
        /\ exitCode' = IF "FAIL" \in States /\ overall["FAIL"] > 0 THEN 1 ELSE 0
        /\ UNCHANGED <<done, results, failSeen, overall>>
    BY <1>10 DEF Render, groupVars
  <2>2. FailInv'
    BY <1>c, <2>1 DEF ExitInv, FailInv
  <2>3. \A s \in States : overall[s] = Cardinality(Printed(done, Len(done), s))
    BY <2>1 DEF ExitInv, MergeInv
  <2>4. \A s \in States : overall'[s] = Cardinality(Printed(done', Len(done'), s))
    <3> HIDE DEF Printed
    <3> QED BY <2>1, <2>3
  <2>5. overall' \in [States -> Nat]
    BY <2>1 DEF ExitInv, MergeInv
  <2>6. MergeInv'
    <3> HIDE DEF Printed
    <3> QED BY <2>1, <2>4, <2>5 DEF MergeInv
  <2> QED BY <1>b, <2>1, <2>2, <2>6 DEF ExitInv
<1>11. CASE UNCHANGED vars
  <2>1. UNCHANGED <<pc, mode, done, checkNo, results, count, truncated, used, failSeen, overall, exitCode>>
    BY <1>11 DEF vars
  <2>2. FailInv'
    BY <1>c, <2>1 DEF ExitInv, FailInv
  <2>3. \A n, s : Printed(done', n, s) = Printed(done, n, s)
    BY <2>1
  <2>4. MergeInv'
    <3> HIDE DEF Printed
    <3> QED BY <2>1, <2>3 DEF ExitInv, MergeInv
  <2> QED BY <1>b, <2>1, <2>2, <2>4 DEF ExitInv
<1>12. CASE Exited
  BY <1>12, <1>11 DEF Exited
<1> QED BY <1>1, <1>2, <1>3, <1>4, <1>5, <1>6, <1>7, <1>8, <1>9, <1>10, <1>11, <1>12 DEF Next

LEMMA ExitFollows == IInv /\ ExitInv => ExitStatusSound
<1> SUFFICES ASSUME IInv, ExitInv, pc = "done", mode # "none"
             PROVE  /\ exitCode = 1 => failSeen
                    /\ (exitCode = 0 /\ \A g \in 1..Len(done) : ~done[g].truncated) => ~failSeen
                    /\ exitCode = 1 <=> SummaryState(overall) = "FAIL"
                    /\ \A s \in States : overall[s] = Cardinality(Printed(done, Len(done), s))
  BY DEF ExitStatusSound, Printed
<1>1. /\ \A s \in States : overall[s] = Cardinality(Printed(done, Len(done), s))
      /\ exitCode = IF "FAIL" \in States /\ overall["FAIL"] > 0 THEN 1 ELSE 0
  BY DEF ExitInv, MergeInv
<1>2. Len(done) \in Nat /\ \A g \in 1..Len(done) : done[g] \in Subgroup
  BY DEF IInv, TypeInv
<1>3. exitCode = 1 => failSeen
  <2> SUFFICES ASSUME exitCode = 1 PROVE failSeen
    OBVIOUS
  <2>1. "FAIL" \in States /\ Cardinality(Printed(done, Len(done), "FAIL")) > 0
    BY <1>1
  <2>2. Printed(done, Len(done), "FAIL") # {}
    <3> HIDE DEF Printed
    <3>1. Cardinality({}) = 0
      BY FS_EmptySet
    <3> QED BY <2>1, <3>1
  <2>3. PICK p \in (1..Len(done)) \X (1..Cap) :
          p[2] <= Len(done[p[1]].rows) /\ done[p[1]].rows[p[2]].state = "FAIL"
    BY <2>2 DEF Printed
  <2>4. p[1] \in 1..Len(done) /\ p[2] \in 1..Len(done[p[1]].rows)
    <3>1. p[1] \in 1..Len(done) /\ p[2] \in 1..Cap
      OBVIOUS
    <3>2. done[p[1]].rows \in Seq(Slot)
      BY <1>2, <3>1 DEF Subgroup
    <3>3. Len(done[p[1]].rows) \in Nat
      BY <3>2
    <3> QED BY <2>3, <3>1, <3>3
  <2> QED BY <2>3, <2>4 DEF ExitInv, FailInv
<1>4. (exitCode = 0 /\ \A g \in 1..Len(done) : ~done[g].truncated) => ~failSeen
  <2> SUFFICES ASSUME failSeen, \A g \in 1..Len(done) : ~done[g].truncated PROVE exitCode # 0
    OBVIOUS
  <2>1. FailTold
    BY DEF ExitInv, FailInv
  <2>2. PICK g \in 1..Len(done) : \E i \in 1..Len(done[g].rows) : done[g].rows[i].state = "FAIL"
    BY <2>1 DEF FailTold
  <2>3. PICK i \in 1..Len(done[g].rows) : done[g].rows[i].state = "FAIL"
    BY <2>2
  <2>4. done[g].rows \in Seq(Slot)
    BY <1>2 DEF Subgroup
  <2>5. done[g].rows[i] \in Slot
    BY <2>4
  <2>6. "FAIL" \in States
    BY <2>3, <2>5 DEF Slot
  <2>7. i \in 1..Cap /\ i <= Len(done[g].rows)
    <3>1. Len(done[g].rows) \in Nat /\ Len(done[g].rows) <= Cap /\ Cap \in Nat
      BY <2>4, CapAssumption DEF ExitInv, CountInv
    <3> QED BY <3>1
  <2>8. <<g, i>> \in Printed(done, Len(done), "FAIL")
    BY <2>3, <2>7 DEF Printed
  <2>9. Cardinality(Printed(done, Len(done), "FAIL")) > 0
    <3> HIDE DEF Printed
    <3>1. IsFiniteSet(Printed(done, Len(done), "FAIL")) /\ Cardinality(Printed(done, Len(done), "FAIL")) \in Nat
      BY <1>2, PrintedFinite
    <3>2. Cardinality(Printed(done, Len(done), "FAIL")) # 0
      BY <2>8, <3>1, FS_EmptySet
    <3> QED BY <3>1, <3>2
  <2> QED BY <1>1, <2>6, <2>9
<1>5. exitCode = 1 <=> SummaryState(overall) = "FAIL"
  BY <1>1 DEF SummaryState
<1> QED BY <1>1, <1>3, <1>4, <1>5

\* The exit status is 1 only if a check reported fail, and 0 only if none did or
\* a subgroup is marked truncated; it agrees with the overall state, and the
\* overall counts are those of the rows printed.
THEOREM ExitStatusTrue == Spec => []ExitStatusSound
<1>1. Init => IInv /\ ExitInv
  BY InitHolds, ExitInitially
<1>2. IInv /\ ExitInv /\ [Next]_vars => IInv' /\ ExitInv'
  BY NextKeeps, ExitStep
<1> QED BY <1>1, <1>2, ExitFollows, PTL DEF Spec
-----------------------------------------------------------------------------
(***************************************************************************)
(* The loops of run_subgroups and main: they end, no definition is left    *)
(* out, and nothing already in the report is touched again.                *)
(***************************************************************************)

\* Where the loops are: no index is past its end.
LoopInv ==
  /\ Len(done) <= Len(Checks)
  /\ checkNo \in Nat
  /\ pc \in {"check", "emit"} =>
       Len(done) < Len(Checks) /\ checkNo <= Checks[Len(done) + 1]
  /\ pc = "emit" => checkNo < Checks[Len(done) + 1] /\ emits <= MaxEmits
  /\ pc = "merge" => Len(done) = Len(Checks) /\ checkNo <= Len(done)
  /\ pc = "done" /\ mode # "none" => Len(done) = Len(Checks)

\* A subgroup that is marked truncated has no room left.
FlagMeansFull ==
  \A g \in 1..Len(done) : done[g].truncated => Len(done[g].rows) = Cap

LEMMA LoopTypes ==
  /\ Len(Checks) \in Nat
  /\ \A g \in 1..Len(Checks) : Checks[g] \in Nat
  /\ IInv => Len(done) \in Nat
BY ChecksAssumption DEF IInv, TypeInv

\* The subgroup that is finalised is added behind the others.
LEMMA FinishAppends ==
  ASSUME IInv, FinishSubgroup
  PROVE  /\ Len(done') = Len(done) + 1
         /\ \A g \in 1..Len(done) : done'[g] = done[g]
         /\ done'[Len(done) + 1].truncated = truncated
         /\ Len(done'[Len(done) + 1].rows) = count
<1> DEFINE rows == [i \in 1..count |-> results[i - 1]]
           d == [rows |-> rows, truncated |-> truncated,
                 lost |-> emitted > count \/ unrun, summary |-> Summary(count, results)]
<1>1. done' = Append(done, d)
  BY DEF FinishSubgroup
<1>2. done \in Seq(Subgroup) /\ count \in Nat
  BY DEF IInv, TypeInv
<1>3. Len(rows) = count
  BY <1>2
<1>4. d.truncated = truncated /\ Len(d.rows) = count
  <2> HIDE DEF rows
  <2> QED BY <1>3
<1> HIDE DEF d
<1>5. /\ Len(done') = Len(done) + 1 /\ done'[Len(done) + 1] = d
      /\ \A g \in 1..Len(done) : done'[g] = done[g]
  BY <1>1, <1>2
<1> QED BY <1>4, <1>5

LEMMA LoopStep == IInv /\ LoopInv /\ FlagMeansFull /\ [Next]_vars => LoopInv' /\ FlagMeansFull'
<1> SUFFICES ASSUME IInv, LoopInv, FlagMeansFull, [Next]_vars PROVE LoopInv' /\ FlagMeansFull'
  OBVIOUS
<1>0. /\ Len(Checks) \in Nat /\ Len(done) \in Nat /\ MaxEmits \in Nat /\ emits \in Nat
      /\ \A g \in 1..Len(Checks) : Checks[g] \in Nat
  BY LoopTypes, EmitsAssumption DEF IInv, TypeInv
<1>a. done' = done => FlagMeansFull'
  BY DEF FlagMeansFull
<1>1. CASE ParseArgs
  <2>1. UNCHANGED <<done, checkNo>> /\ (pc' = "group" \/ (pc' = "done" /\ mode' = "none"))
    BY <1>1 DEF ParseArgs, groupVars
  <2> QED BY <1>a, <2>1 DEF LoopInv
<1>2. CASE StartSubgroup
  <2>1. /\ pc' = "check" /\ checkNo' = 0 /\ done' = done /\ Len(done) < Len(Checks)
    BY <1>2 DEF StartSubgroup
  <2>2. Checks[Len(done) + 1] \in Nat
    BY <1>0, <2>1
  <2> QED BY <1>0, <1>a, <2>1, <2>2 DEF LoopInv
<1>3. CASE StopAtCapacity
  <2>1. /\ pc = "check" /\ pc' = "check" /\ done' = done /\ checkNo' = Checks[Len(done) + 1]
    BY <1>3 DEF StopAtCapacity
  <2>2. Len(done) < Len(Checks)
    BY <2>1 DEF LoopInv
  <2>3. Checks[Len(done) + 1] \in Nat
    BY <1>0, <2>2
  <2> QED BY <1>0, <1>a, <2>1, <2>2, <2>3 DEF LoopInv
<1>4. CASE CallCheck
  BY <1>0, <1>4, <1>a DEF CallCheck, LoopInv
<1>5. ASSUME NEW s \in States, Emit(s) PROVE LoopInv' /\ FlagMeansFull'
  <2>1. /\ pc = "emit" /\ emits < MaxEmits /\ emits' = emits + 1
        /\ UNCHANGED <<pc, done, checkNo, mode>>
    BY <1>5 DEF Emit
  <2> QED BY <1>0, <1>a, <2>1 DEF LoopInv
<1>6. CASE CheckReturns
  <2>1. pc = "emit" /\ pc' = "check" /\ checkNo' = checkNo + 1 /\ UNCHANGED <<done, mode>>
    BY <1>6 DEF CheckReturns
  <2>2. /\ Len(done) < Len(Checks) /\ checkNo \in Nat /\ checkNo < Checks[Len(done) + 1]
    BY <2>1 DEF LoopInv
  <2>3. Checks[Len(done) + 1] \in Nat
    BY <1>0, <2>2
  <2>4. checkNo + 1 <= Checks[Len(done) + 1] /\ checkNo + 1 \in Nat
    BY <2>2, <2>3
  <2> QED BY <1>0, <1>a, <2>1, <2>2, <2>4 DEF LoopInv
<1>7. CASE FinishSubgroup
  <2>1. pc = "check" /\ pc' = "group" /\ UNCHANGED <<checkNo, mode>>
    BY <1>7 DEF FinishSubgroup, groupVars
  <2>2. Len(done) < Len(Checks) /\ checkNo \in Nat
    BY <2>1 DEF LoopInv
  <2>3. LoopInv'
    BY <1>0, <1>7, <2>1, <2>2, FinishAppends DEF LoopInv
  <2>4. truncated => count = Cap
    BY <2>1 DEF IInv, GroupInv
  <2>5. FlagMeansFull'
    <3> SUFFICES ASSUME NEW g \in 1..Len(done'), done'[g].truncated
                 PROVE  Len(done'[g].rows) = Cap
      BY DEF FlagMeansFull
    <3>1. g = Len(done) + 1 \/ g \in 1..Len(done)
      BY <1>0, <1>7, FinishAppends
    <3>2. CASE g = Len(done) + 1
      BY <1>7, <2>4, <3>2, FinishAppends
    <3>3. CASE g \in 1..Len(done)
      BY <1>7, <3>3, FinishAppends DEF FlagMeansFull
    <3> QED BY <3>1, <3>2, <3>3
  <2> QED BY <2>3, <2>5
<1>8. CASE EndOfSubgroups
  <2>1. /\ pc' = "merge" /\ checkNo' = 0 /\ UNCHANGED <<done, mode>>
        /\ Len(done) = Len(Checks) \/ Len(done) = MaxGroups
    BY <1>8 DEF EndOfSubgroups
  <2>2. Len(done) = Len(Checks)
    <3> DEFINE d == Len(done)
               c == Len(Checks)
    <3>1. /\ d \in Nat /\ c \in Nat /\ MaxGroups \in Nat /\ d <= c /\ c <= MaxGroups
          /\ d = c \/ d = MaxGroups
      BY <1>0, <2>1, GroupsAssumption DEF LoopInv
    <3> HIDE DEF d, c
    <3>2. d = c
      BY <3>1
    <3> QED BY <3>2 DEF d, c
  <2> QED BY <1>0, <1>a, <2>1, <2>2 DEF LoopInv
<1>9. CASE MergeSubgroup
  <2>1. /\ pc = "merge" /\ checkNo < Len(done) /\ checkNo' = checkNo + 1
        /\ UNCHANGED <<pc, done, mode>>
    BY <1>9 DEF MergeSubgroup
  <2> QED BY <1>0, <1>a, <2>1 DEF LoopInv
<1>10. CASE Render
  <2>1. pc = "merge" /\ pc' = "done" /\ UNCHANGED <<done, checkNo>>
    BY <1>10 DEF Render, groupVars
  <2> QED BY <1>a, <2>1 DEF LoopInv
<1>11. CASE UNCHANGED vars
  BY <1>11, <1>a DEF vars, LoopInv
<1>12. CASE Exited
  BY <1>11, <1>12 DEF Exited
<1> QED BY <1>1, <1>2, <1>3, <1>4, <1>5, <1>6, <1>7, <1>8, <1>9, <1>10, <1>11, <1>12 DEF Next

LEMMA LoopInvariant == Spec => [](LoopInv /\ FlagMeansFull)
<1>1. Init => LoopInv /\ FlagMeansFull
  <2> SUFFICES ASSUME Init PROVE LoopInv /\ FlagMeansFull
    OBVIOUS
  <2>1. done = <<>> /\ pc = "args" /\ checkNo = 0
    BY DEF Init
  <2>2. Len(done) = 0
    BY <2>1
  <2> QED BY <2>1, <2>2, LoopTypes DEF LoopInv, FlagMeansFull
<1> QED BY <1>1, LoopStep, ReportInvariant, PTL DEF Spec

\* Every definition of the table has its subgroup in a report that is rendered,
\* the same number of them as definitions: none is skipped, none doubled.
EverySubgroupReported ==
  pc \in {"merge", "done"} /\ mode # "none" => Len(done) = Len(Checks)

\* What the loop of run_subgroups leaves behind: a subgroup for every
\* definition, and the truncated flag only on a subgroup that is full, so that
\* a row is never given up while the array had a slot for it.
THEOREM NothingGivenUpEarly == Spec => [](EverySubgroupReported /\ FlagMeansFull)
<1>1. LoopInv => EverySubgroupReported
  BY DEF LoopInv, EverySubgroupReported
<1> QED BY <1>1, LoopInvariant, PTL

\* The work left, most significant first: the phase of the program, the
\* definitions still to run, whether one is about to be started, the checks
\* to call or summaries to merge, and the rows the running check may emit.
Phase == IF pc = "args" THEN 3 ELSE IF pc = "merge" THEN 1 ELSE IF pc = "done" THEN 0 ELSE 2
GroupsLeft == Len(Checks) - Len(done)
Starting == IF pc = "group" THEN 1 ELSE 0
CallsLeft ==
  IF pc \in {"check", "emit"} THEN Checks[Len(done) + 1] - checkNo
  ELSE IF pc = "merge" THEN Len(done) - checkNo ELSE 0
EmitsLeft == IF pc = "check" THEN MaxEmits + 1 ELSE IF pc = "emit" THEN MaxEmits - emits ELSE 0

\* A step that makes the work left smaller in this lexicographic order.
Nearer ==
  \/ Phase' < Phase
  \/ Phase' = Phase /\ GroupsLeft' < GroupsLeft
  \/ Phase' = Phase /\ GroupsLeft' = GroupsLeft /\ Starting' < Starting
  \/ /\ Phase' = Phase /\ GroupsLeft' = GroupsLeft /\ Starting' = Starting
     /\ CallsLeft' < CallsLeft
  \/ /\ Phase' = Phase /\ GroupsLeft' = GroupsLeft /\ Starting' = Starting
     /\ CallsLeft' = CallsLeft /\ EmitsLeft' < EmitsLeft

\* A step that leaves the finalised subgroups as they are.
DoneKept == Len(done') >= Len(done) /\ \A g \in 1..Len(done) : done'[g] = done[g]

\* The program ends: every step it takes makes the work left smaller in a
\* well-founded order, whatever the table and however many rows the checks
\* emit.  And no later check, subgroup or merge touches a finalised subgroup.
THEOREM AuditEnds ==
  Spec => /\ [](<<Phase, GroupsLeft, Starting, CallsLeft, EmitsLeft>>
                  \in Nat \X Nat \X Nat \X Nat \X Nat)
          /\ [][Nearer /\ DoneKept]_vars
<1>0. IInv => /\ Len(Checks) \in Nat /\ Len(done) \in Nat /\ MaxEmits \in Nat /\ emits \in Nat
              /\ \A g \in 1..Len(Checks) : Checks[g] \in Nat
  BY LoopTypes, EmitsAssumption DEF IInv, TypeInv
<1>1. IInv /\ LoopInv => <<Phase, GroupsLeft, Starting, CallsLeft, EmitsLeft>>
                           \in Nat \X Nat \X Nat \X Nat \X Nat
  <2> SUFFICES ASSUME IInv, LoopInv
               PROVE  /\ Phase \in Nat /\ GroupsLeft \in Nat /\ Starting \in Nat
                      /\ CallsLeft \in Nat /\ EmitsLeft \in Nat
    OBVIOUS
  <2>1. Phase \in Nat /\ Starting \in Nat
    BY DEF Phase, Starting
  <2>2. GroupsLeft \in Nat /\ EmitsLeft \in Nat
    BY <1>0 DEF LoopInv, GroupsLeft, EmitsLeft
  <2>3. CallsLeft \in Nat
    <3>1. CASE pc \in {"check", "emit"}
      <4>1. /\ Len(done) + 1 \in 1..Len(Checks) /\ checkNo \in Nat
            /\ checkNo <= Checks[Len(done) + 1]
        BY <1>0, <3>1 DEF LoopInv
      <4>2. Checks[Len(done) + 1] \in Nat
        BY <1>0, <4>1
      <4> QED BY <3>1, <4>1, <4>2 DEF CallsLeft
    <3>2. CASE pc \notin {"check", "emit"}
      BY <1>0, <3>2 DEF LoopInv, CallsLeft
    <3> QED BY <3>1, <3>2
  <2> QED BY <2>1, <2>2, <2>3
<1>2. IInv /\ LoopInv /\ [Next]_vars => [Nearer /\ DoneKept]_vars
  <2> SUFFICES ASSUME IInv, LoopInv, Next, ~UNCHANGED vars PROVE Nearer /\ DoneKept
    OBVIOUS
  <2>1. DoneKept
    <3>1. CASE FinishSubgroup
      BY <1>0, <3>1, FinishAppends DEF DoneKept
    <3>2. CASE ~FinishSubgroup
      <4>1. done' = done
        BY <3>2 DEF Next, ParseArgs, StartSubgroup, StopAtCapacity, CallCheck, Emit,
                    CheckReturns, EndOfSubgroups, MergeSubgroup, Render, Exited, vars
      <4> QED BY <1>0, <4>1 DEF DoneKept
    <3> QED BY <3>1, <3>2
  <2>2. CASE ParseArgs \/ EndOfSubgroups \/ Render
    <3>1. \/ pc = "args" /\ pc' \in {"group", "done"}
          \/ pc = "group" /\ pc' = "merge"
          \/ pc = "merge" /\ pc' = "done"
      BY <2>2 DEF ParseArgs, EndOfSubgroups, Render
    <3>2. Phase' < Phase
      BY <3>1 DEF Phase
    <3> QED BY <2>1, <3>2 DEF Nearer
  <2>3. CASE StartSubgroup
    <3>1. pc = "group" /\ pc' = "check" /\ done' = done
      BY <2>3 DEF StartSubgroup
    <3>2. Phase' = Phase /\ GroupsLeft' = GroupsLeft /\ Starting' < Starting
      BY <3>1 DEF Phase, GroupsLeft, Starting
    <3> QED BY <2>1, <3>2 DEF Nearer
  <2>4. CASE StopAtCapacity \/ CheckReturns
    <3>1. /\ pc \in {"check", "emit"} /\ pc' = "check" /\ done' = done
      BY <2>4 DEF StopAtCapacity, CheckReturns
    <3>2. /\ Len(done) + 1 \in 1..Len(Checks) /\ checkNo \in Nat
      BY <1>0, <3>1 DEF LoopInv
    <3>3. Checks[Len(done) + 1] \in Nat
      BY <1>0, <3>2
    <3>4. checkNo < Checks[Len(done) + 1] /\ checkNo' \in {checkNo + 1, Checks[Len(done) + 1]}
      BY <2>4 DEF StopAtCapacity, CheckReturns, LoopInv
    <3>5. Checks[Len(done) + 1] - checkNo' < Checks[Len(done) + 1] - checkNo
      BY <3>2, <3>3, <3>4
    <3>6. CallsLeft' < CallsLeft
      BY <3>1, <3>5 DEF CallsLeft
    <3>7. Phase' = Phase /\ GroupsLeft' = GroupsLeft /\ Starting' = Starting
      BY <3>1 DEF Phase, GroupsLeft, Starting
    <3> QED BY <2>1, <3>6, <3>7 DEF Nearer
  <2>5. CASE CallCheck
    <3>1. pc = "check" /\ pc' = "emit" /\ emits' = 0 /\ UNCHANGED <<done, checkNo>>
      BY <2>5 DEF CallCheck
    <3>2. EmitsLeft' < EmitsLeft
      BY <1>0, <3>1 DEF EmitsLeft
    <3>3. /\ Phase' = Phase /\ GroupsLeft' = GroupsLeft /\ Starting' = Starting
          /\ CallsLeft' = CallsLeft
      BY <3>1 DEF Phase, GroupsLeft, Starting, CallsLeft
    <3> QED BY <2>1, <3>2, <3>3 DEF Nearer
  <2>6. ASSUME NEW s \in States, Emit(s) PROVE Nearer
    <3>1. pc = "emit" /\ pc' = "emit" /\ emits' = emits + 1 /\ UNCHANGED <<done, checkNo>>
      BY <2>6 DEF Emit
    <3>2. EmitsLeft' < EmitsLeft
      BY <1>0, <3>1 DEF EmitsLeft
    <3>3. /\ Phase' = Phase /\ GroupsLeft' = GroupsLeft /\ Starting' = Starting
          /\ CallsLeft' = CallsLeft
      BY <3>1 DEF Phase, GroupsLeft, Starting, CallsLeft
    <3> QED BY <3>2, <3>3 DEF Nearer
  <2>7. CASE FinishSubgroup
    <3>1. pc = "check" /\ pc' = "group" /\ Len(done') = Len(done) + 1
      BY <2>7, FinishAppends DEF FinishSubgroup
    <3>2. GroupsLeft' < GroupsLeft
      BY <1>0, <3>1 DEF GroupsLeft
    <3>3. Phase' = Phase
      BY <3>1 DEF Phase
    <3> QED BY <2>1, <3>2, <3>3 DEF Nearer
  <2>8. CASE MergeSubgroup
    <3>1. pc = "merge" /\ pc' = "merge" /\ done' = done /\ checkNo' = checkNo + 1
      BY <2>8 DEF MergeSubgroup
    <3>2. checkNo \in Nat
      BY DEF LoopInv
    <3>3. CallsLeft' < CallsLeft
      BY <1>0, <3>1, <3>2 DEF CallsLeft
    <3>4. Phase' = Phase /\ GroupsLeft' = GroupsLeft /\ Starting' = Starting
      BY <3>1 DEF Phase, GroupsLeft, Starting
    <3> QED BY <2>1, <3>3, <3>4 DEF Nearer
  <2>9. ~Exited
    BY DEF Exited
  <2>10. Nearer
    BY <2>2, <2>3, <2>4, <2>5, <2>6, <2>7, <2>8, <2>9 DEF Next
  <2> QED BY <2>1, <2>10
<1> QED BY <1>1, <1>2, ReportInvariant, LoopInvariant, PTL DEF Spec
=============================================================================
