---------------------------- MODULE BindingsProofs ----------------------------
(***************************************************************************)
(* Theorems about Bindings for any number of devices, walks and records,    *)
(* when every destination is an IEEE address: the list, its flag and the    *)
(* heap agree, nothing stale is kept, what was found is bound, the list     *)
(* keeps the promise of Members, and walks come to an end.                 *)
(***************************************************************************)
EXTENDS Bindings, SequenceTheorems, FiniteSetTheorems, TLAPS

USE BindingsAssumption, HeapAssumption

-----------------------------------------------------------------------------
(* The inductive invariant *)

OnList(c) == \E i \in DOMAIN bound : bound[i] = c

\* Devices have IEEE addresses, which is what records name.
LongInv ==
    \A c \in Cells : heap[c] # Free =>
        heap[c].short = Broadcast /\ heap[c].long \in Long

\* No callback, nothing left to do; what is left to add was found.
PassInv ==
    /\ walk = None => doomed = {} /\ todo = {} /\ snap = <<>>
    /\ \A j \in todo : Ours(records[j]) /\ <<Endpoint, records[j].address>> \in judged

\* What is to go is what was not found, and goes in the order of the list.
JudgedInv ==
    /\ \A c \in Cells : OnList(c) =>
          StillBound(heap[c], judged) \/ \E k \in doomed : snap[k] = c
    /\ \A k \in doomed : ~StillBound(heap[snap[k]], judged)
    /\ \A k, m \in doomed, i, j \in DOMAIN bound :
          k < m /\ snap[k] = bound[i] /\ snap[m] = bound[j] => i < j

\* What is compared with was collected; a walk that removes nothing has bound
\* it, or has it still to add.
FoundInv ==
    /\ \A id \in found : \E j \in DOMAIN records :
          id = <<records[j].source, records[j].address>>
    /\ clean =>
         /\ doomed = {}
         /\ \A k \in DOMAIN snap : OnList(snap[k])
         /\ \A id \in judged : id[1] = Endpoint =>
               \/ \E c \in Cells : OnList(c) /\ heap[c].long = id[2]
               \/ \E j \in todo : records[j].address = id[2]

WalkInv == BindingsInv /\ LongInv /\ PassInv /\ JudgedInv /\ FoundInv

\* HeapInv in terms of OnList.
LEMMA HeapIs ==
    ASSUME TypeOK
    PROVE  HeapInv <=>
             /\ ~corrupt
             /\ \A i, j \in DOMAIN bound : bound[i] = bound[j] => i = j
             /\ \A k \in doomed : OnList(snap[k])
             /\ \A c \in leaked : ~OnList(c)
             /\ \A c \in Cells : heap[c] # Free <=> OnList(c) \/ c \in leaked
<1>1. \A c : c \in Range(bound) <=> OnList(c)
  BY DEF Range, OnList
<1> QED
  BY <1>1 DEF HeapInv

-----------------------------------------------------------------------------
(* The list *)

LEMMA WithoutIs ==
    ASSUME bound \in Seq(Cells), NEW i \in DOMAIN bound
    PROVE  /\ Without(i) \in Seq(Cells)
           /\ DOMAIN Without(i) = 1 .. Len(bound) - 1
           /\ \A j \in DOMAIN Without(i) :
                 Without(i)[j] = IF j < i THEN bound[j] ELSE bound[j + 1]
<1> DEFINE n == Len(bound)
           s == SubSeq(bound, 1, i - 1)
           t == SubSeq(bound, i + 1, n)
<1>1. n \in Nat /\ i \in 1 .. n /\ DOMAIN bound = 1 .. n
  BY LenProperties
<1>2. \A j \in 1 .. n : bound[j] \in Cells
  BY <1>1, ElementOfSeq
<1>3. /\ s \in Seq(Cells) /\ Len(s) = i - 1
      /\ \A j \in 1 .. i - 1 : s[j] = bound[j]
  <2>1. \A j \in 1 .. i - 1 : bound[j] \in Cells
    BY <1>1, <1>2
  <2>2. /\ s \in Seq(Cells) /\ Len(s) = IF 1 <= i - 1 THEN i - 1 - 1 + 1 ELSE 0
        /\ \A j \in 1 .. i - 1 - 1 + 1 : s[j] = bound[1 + j - 1]
    BY <1>1, <2>1, SubSeqProperties
  <2> HIDE DEF s
  <2> QED
    BY <1>1, <2>2
<1>4. /\ t \in Seq(Cells) /\ Len(t) = n - i
      /\ \A j \in 1 .. n - i : t[j] = bound[i + j]
  <2>1. \A j \in i + 1 .. n : bound[j] \in Cells
    BY <1>1, <1>2
  <2>2. /\ t \in Seq(Cells) /\ Len(t) = IF i + 1 <= n THEN n - (i + 1) + 1 ELSE 0
        /\ \A j \in 1 .. n - (i + 1) + 1 : t[j] = bound[(i + 1) + j - 1]
    BY <1>1, <2>1, SubSeqProperties
  <2> HIDE DEF t, n
  <2> QED
    BY <1>1, <2>2
<1> HIDE DEF s, t
<1>5. /\ s \o t \in Seq(Cells)
      /\ Len(s \o t) = n - 1
      /\ \A j \in 1 .. n - 1 : (s \o t)[j] = IF j <= i - 1 THEN s[j] ELSE t[j - (i - 1)]
  <2>1. /\ s \o t \in Seq(Cells) /\ Len(s \o t) = Len(s) + Len(t)
        /\ \A j \in 1 .. Len(s) + Len(t) : (s \o t)[j] = IF j <= Len(s) THEN s[j] ELSE t[j - Len(s)]
    <3>1. s \in Seq(Cells) /\ t \in Seq(Cells)
      BY <1>3, <1>4
    <3> QED
      BY <3>1, ConcatProperties
  <2>2. Len(s) + Len(t) = n - 1
    BY <1>1, <1>3, <1>4
  <2> QED
    BY <1>3, <2>1, <2>2
<1>6. DOMAIN (s \o t) = 1 .. n - 1
  BY <1>5, LenProperties
<1>7. \A j \in 1 .. n - 1 : (s \o t)[j] = IF j < i THEN bound[j] ELSE bound[j + 1]
  <2> TAKE j \in 1 .. n - 1
  <2>1. CASE j < i
    BY <1>1, <1>3, <1>5, <2>1
  <2>2. CASE ~(j < i)
    <3>1. j - (i - 1) \in 1 .. n - i /\ i + (j - (i - 1)) = j + 1 /\ ~(j <= i - 1)
      BY <1>1, <2>2
    <3>2. (s \o t)[j] = t[j - (i - 1)]
      BY <1>5, <3>1
    <3>3. t[j - (i - 1)] = bound[i + (j - (i - 1))]
      BY <1>4, <3>1
    <3> QED
      BY <2>2, <3>1, <3>2, <3>3
  <2> QED
    BY <2>1, <2>2
<1>8. Without(i) = s \o t
  BY DEF Without, s, t
<1> QED
  BY <1>5, <1>6, <1>7, <1>8

\* Without its i-th entry the list has the others, in their order.
LEMMA WithoutKeeps ==
    ASSUME bound \in Seq(Cells), NEW i \in DOMAIN bound,
           \A a, b \in DOMAIN bound : bound[a] = bound[b] => a = b
    PROVE  /\ \A c : (\E a \in DOMAIN Without(i) : Without(i)[a] = c)
                        <=> OnList(c) /\ c # bound[i]
           /\ \A a, b \in DOMAIN Without(i) : Without(i)[a] = Without(i)[b] => a = b
<1>1. /\ DOMAIN bound = 1 .. Len(bound) /\ Len(bound) \in Nat
      /\ DOMAIN Without(i) = 1 .. Len(bound) - 1
      /\ \A j \in DOMAIN Without(i) :
            Without(i)[j] = IF j < i THEN bound[j] ELSE bound[j + 1]
  BY WithoutIs, LenProperties
<1>2. ASSUME NEW c, NEW a \in DOMAIN Without(i), Without(i)[a] = c
      PROVE  OnList(c) /\ c # bound[i]
  <2>1. CASE a < i
    BY <1>1, <1>2, <2>1 DEF OnList
  <2>2. CASE ~(a < i)
    <3>1. a + 1 \in DOMAIN bound /\ a + 1 # i
      BY <1>1, <2>2
    <3> QED
      BY <1>1, <1>2, <2>2, <3>1 DEF OnList
  <2> QED
    BY <2>1, <2>2
<1>3. ASSUME NEW a \in DOMAIN bound, bound[a] # bound[i]
      PROVE  \E b \in DOMAIN Without(i) : Without(i)[b] = bound[a]
  <2>1. CASE a < i
    <3>1. a \in DOMAIN Without(i)
      BY <1>1, <2>1
    <3> QED
      BY <1>1, <2>1, <3>1
  <2>2. CASE ~(a < i)
    <3>1. a - 1 \in DOMAIN Without(i) /\ ~(a - 1 < i) /\ (a - 1) + 1 = a
      BY <1>1, <1>3, <2>2
    <3> QED
      BY <1>1, <3>1
  <2> QED
    BY <2>1, <2>2
<1>4. ASSUME NEW a \in DOMAIN Without(i), NEW b \in DOMAIN Without(i),
             Without(i)[a] = Without(i)[b]
      PROVE  a = b
  <2>1. /\ (IF a < i THEN a ELSE a + 1) \in DOMAIN bound
        /\ (IF b < i THEN b ELSE b + 1) \in DOMAIN bound
    BY <1>1
  <2>2. (IF a < i THEN a ELSE a + 1) = (IF b < i THEN b ELSE b + 1)
    BY <1>1, <1>4, <2>1
  <2> QED
    BY <1>1, <2>2
<1> QED
  BY <1>2, <1>3, <1>4 DEF OnList

-----------------------------------------------------------------------------
(* The devices *)

\* With IEEE addresses only, whether an entry is still bound and whether it
\* matches another is a matter of the IEEE address.
LEMMA StillIs ==
    ASSUME NEW d, d.short = Broadcast, NEW ids
    PROVE  StillBound(d, ids) <=> <<Endpoint, d.long>> \in ids
BY DEF StillBound

LEMMA RecordIs ==
    ASSUME Short = {}, NEW r \in Record
    PROVE  /\ r.address \in Long /\ DeviceOf(r) \in Device
           /\ DeviceOf(r).short = Broadcast /\ DeviceOf(r).long = r.address
<1>1. r.address \in Long /\ r.remote \in Remotes
  BY DEF Record, Address
<1> QED
  BY <1>1 DEF DeviceOf, Device

\* The entry that removeBoundDevice erases is the one that is freed.
LEMMA FirstIsOwn ==
    ASSUME WalkInv, NEW k \in doomed, NEW i \in DOMAIN bound,
           IsFirst(k, doomed), IsFirst(i, Ends(snap[k]))
    PROVE  bound[i] = snap[k] /\ heap[bound[i]] # Free
<1> DEFINE c == snap[k]
           e == bound[i]
<1>0. TypeOK /\ HeapInv
  BY DEF WalkInv, BindingsInv
<1>1. /\ \A x, y \in DOMAIN bound : bound[x] = bound[y] => x = y
      /\ OnList(c)
      /\ \A x \in Cells : heap[x] # Free <=> OnList(x) \/ x \in leaked
  BY <1>0, HeapIs
<1>2. PICK i0 \in DOMAIN bound : bound[i0] = c
  BY <1>1 DEF OnList
<1>3. DOMAIN bound = 1 .. Len(bound) /\ Len(bound) \in Nat
      /\ \A x \in DOMAIN bound : bound[x] \in Cells
  BY <1>0, LenProperties, ElementOfSeq DEF TypeOK
<1>4. c \in Cells /\ e \in Cells /\ OnList(e)
  BY <1>2, <1>3 DEF OnList
<1>5. heap[c] # Free /\ heap[e] # Free
  BY <1>1, <1>4
<1>6. /\ heap[c].short = Broadcast /\ heap[c].long \in Long
      /\ heap[e].short = Broadcast /\ heap[e].long \in Long
  BY <1>4, <1>5 DEF WalkInv, LongInv
<1>7. i0 \in Ends(c)
  BY <1>2, <1>6 DEF Ends, Matches
<1>8. i <= i0
  BY <1>7 DEF IsFirst
<1>9. heap[e].long = heap[c].long
  <2>1. i \in Ends(c)
    BY DEF IsFirst
  <2>2. heap[e] = Free \/ Matches(heap[e], heap[c])
    BY <2>1 DEF Ends
  <2> QED
    BY <1>5, <1>6, <2>2 DEF Matches
<1>10. ~StillBound(heap[e], judged)
  BY <1>6, <1>9, StillIs DEF WalkInv, JudgedInv
<1>11. PICK m \in doomed : snap[m] = e
  BY <1>4, <1>10 DEF WalkInv, JudgedInv
<1>12. m \in Nat /\ k \in Nat
  <2>1. snap \in Seq(Cells) /\ doomed \subseteq DOMAIN snap
    BY <1>0 DEF TypeOK
  <2> QED
    BY <2>1, LenProperties
<1>13. k <= m
  BY <1>11 DEF IsFirst
<1>14. k < m => i0 < i
  BY <1>2, <1>11 DEF WalkInv, JudgedInv
<1>15. k = m
  BY <1>3, <1>8, <1>12, <1>13, <1>14
<1> QED
  BY <1>5, <1>11, <1>15

-----------------------------------------------------------------------------
(* The steps *)

LEMMA InitWalk == Init => WalkInv
<1> SUFFICES ASSUME Init PROVE WalkInv
  OBVIOUS
<1>1. <<>> \in Seq(Record) /\ <<>> \in Seq(Cells) /\ DOMAIN <<>> = {}
  BY EmptySeq
<1>2. TypeOK
  BY <1>1 DEF Init, TypeOK
<1>3. \A c : ~OnList(c)
  BY <1>1 DEF Init, OnList
<1>4. HeapInv
  BY <1>1, <1>2, <1>3, HeapIs DEF Init
<1>5. BindingsInv
  BY <1>2, <1>4 DEF Init, BindingsInv
<1>6. LongInv /\ PassInv
  BY DEF Init, LongInv, PassInv
<1>7. JudgedInv
  BY <1>1, <1>3 DEF Init, JudgedInv
<1>8. FoundInv
  BY <1>1 DEF Init, FoundInv
<1> QED
  BY <1>5, <1>6, <1>7, <1>8 DEF WalkInv

\* A step of the stack or a request leaves the list and the callback alone.
LEMMA QuietWalk ==
    ASSUME WalkInv,
           UNCHANGED <<statics, list, heap, pass, corrupt, history>>,
           table' \in Seq(Record), reqs' \in [Walks -> Nat \cup {None}]
    PROVE  WalkInv'
<1> USE DEF statics, list, pass, history
<1>1. TypeOK' /\ HeapInv' /\ (isBound <=> bound # <<>>)'
  BY DEF WalkInv, BindingsInv, TypeOK, HeapInv, Range
<1>2. LongInv' /\ PassInv'
  BY DEF WalkInv, LongInv, PassInv, Ours
<1>3. JudgedInv'
  BY DEF WalkInv, JudgedInv, OnList, StillBound
<1>4. FoundInv'
  BY DEF WalkInv, FoundInv, OnList
<1> QED
  BY <1>1, <1>2, <1>3, <1>4 DEF WalkInv, BindingsInv

LEMMA TableWalk == WalkInv /\ TableChanges => WalkInv'
<1> SUFFICES ASSUME WalkInv, TableChanges PROVE WalkInv'
  OBVIOUS
<1>1. table \in Seq(Record) /\ reqs \in [Walks -> Nat \cup {None}]
  BY DEF WalkInv, BindingsInv, TypeOK
<1>2. table' \in Seq(Record)
  <2>1. ASSUME NEW r \in Record PROVE Append(table, r) \in Seq(Record)
    BY <1>1, AppendProperties
  <2>2. ASSUME NEW i \in DOMAIN table
        PROVE  SubSeq(table, 1, i - 1) \o SubSeq(table, i + 1, Len(table)) \in Seq(Record)
    <3>1. Len(table) \in Nat /\ DOMAIN table = 1 .. Len(table)
          /\ \A j \in 1 .. Len(table) : table[j] \in Record
      BY <1>1, LenProperties, ElementOfSeq
    <3>2. SubSeq(table, 1, i - 1) \in Seq(Record)
      <4>1. \A j \in 1 .. i - 1 : table[j] \in Record
        BY <3>1
      <4> QED
        BY <3>1, <4>1, SubSeqProperties
    <3>3. SubSeq(table, i + 1, Len(table)) \in Seq(Record)
      <4>1. \A j \in i + 1 .. Len(table) : table[j] \in Record
        BY <3>1
      <4> QED
        BY <3>1, <4>1, SubSeqProperties
    <3> QED
      BY <3>2, <3>3, ConcatProperties
  <2> QED
    BY <2>1, <2>2 DEF TableChanges
<1> QED
  BY <1>1, <1>2, QuietWalk DEF TableChanges

LEMMA RequestWalk ==
    ASSUME WalkInv, NEW w \in Walks, SearchBindings(w) \/ RequestFails(w)
    PROVE  WalkInv'
<1>1. table \in Seq(Record) /\ reqs \in [Walks -> Nat \cup {None}]
  BY DEF WalkInv, BindingsInv, TypeOK
<1>2. reqs' \in [Walks -> Nat \cup {None}]
  BY <1>1 DEF SearchBindings, RequestFails
<1> QED
  BY <1>1, <1>2, QuietWalk DEF SearchBindings, RequestFails

LEMMA EmptyWalk ==
    ASSUME WalkInv, NEW w \in Walks, EmptyTable(w)
    PROVE  WalkInv'
<1> USE DEF statics, pass
<1>0. TypeOK /\ HeapInv
  BY DEF WalkInv, BindingsInv
<1>1. /\ bound' = <<>> /\ isBound' = FALSE /\ judged' = {} /\ clean' = TRUE
      /\ leaked' = leaked \cup Range(bound)
      /\ UNCHANGED <<table, statics, heap, pass, corrupt>>
      /\ walk = None
  BY DEF EmptyTable, Idle
<1>2. <<>> \in Seq(Cells) /\ DOMAIN <<>> = {}
  BY EmptySeq
<1>3. \A c : c \in Range(bound) <=> OnList(c)
  BY DEF Range, OnList
<1>4. \A c : OnList(c) => c \in Cells
  BY <1>0, ElementOfSeq, LenProperties DEF OnList, TypeOK
<1>5. reqs' \in [Walks -> Nat \cup {None}]
  BY <1>0 DEF EmptyTable, TypeOK
<1>6. TypeOK'
  BY <1>0, <1>1, <1>2, <1>3, <1>4, <1>5 DEF TypeOK
<1>7. doomed = {} /\ todo = {} /\ doomed' = {} /\ todo' = {}
  BY <1>1 DEF WalkInv, PassInv
<1>8. \A c : ~(OnList(c)')
  BY <1>1, <1>2 DEF OnList
<1>9. HeapInv'
  <2>1. Range(bound') = {}
    BY <1>1, <1>2 DEF Range
  <2>2. /\ ~corrupt
        /\ \A c \in Cells : heap[c] # Free <=> OnList(c) \/ c \in leaked
    BY <1>0, HeapIs
  <2> QED
    BY <1>1, <1>2, <1>3, <1>7, <2>1, <2>2 DEF HeapInv
<1>10. BindingsInv'
  BY <1>1, <1>6, <1>9 DEF BindingsInv
<1>11. LongInv' /\ PassInv'
  BY <1>1, <1>7 DEF WalkInv, LongInv, PassInv
<1>12. JudgedInv'
  BY <1>7, <1>8 DEF JudgedInv
<1>13. snap = snap' /\ FoundInv'
  <2>1. DOMAIN snap' = {}
    BY <1>1, <1>2 DEF WalkInv, PassInv
  <2> QED
    BY <1>1, <1>7, <2>1 DEF WalkInv, FoundInv
<1> QED
  BY <1>10, <1>11, <1>12, <1>13 DEF WalkInv

\* A chunk joins the records, after those a walk under way has collected.
LEMMA CollectIs ==
    ASSUME TypeOK, NEW w \in Walks, reqs[w] # None,
           NEW n \in Counts(reqs[w]), Collect(reqs[w], n)
    PROVE  /\ records' \in Seq(Record) /\ reqs[w] \in Nat /\ reqs[w] + n \in Nat
           /\ reqs[w] # 0 => \A j \in DOMAIN records :
                                j \in DOMAIN records' /\ records'[j] = records[j]
<1> DEFINE i == reqs[w]
           s == IF i = 0 THEN <<>> ELSE records
           t == SubSeq(table, i + 1, i + n)
<1>1. i \in Nat
  BY DEF TypeOK
<1>2. table \in Seq(Record) /\ records \in Seq(Record)
  BY DEF TypeOK
<1>3. Len(table) \in Nat /\ \A j \in 1 .. Len(table) : table[j] \in Record
  BY <1>2, LenProperties, ElementOfSeq
<1>4. n \in Nat /\ (i + n <= Len(table) \/ n = 0)
  BY <1>1, <1>3 DEF Counts
<1>5. s \in Seq(Record)
  BY <1>2, EmptySeq
<1>6. t \in Seq(Record)
  <2>1. \A j \in i + 1 .. i + n : table[j] \in Record
    BY <1>1, <1>3, <1>4
  <2> QED
    BY <1>1, <1>4, <2>1, SubSeqProperties
<1>7. records' = s \o t
  BY DEF Collect
<1> HIDE DEF s, t
<1>8. /\ records' \in Seq(Record) /\ Len(records') = Len(s) + Len(t)
      /\ \A j \in 1 .. Len(s) + Len(t) : records'[j] = IF j <= Len(s) THEN s[j] ELSE t[j - Len(s)]
  BY <1>5, <1>6, <1>7, ConcatProperties
<1>9. ASSUME reqs[w] # 0, NEW j \in DOMAIN records
      PROVE  j \in DOMAIN records' /\ records'[j] = records[j]
  <2>1. s = records /\ j \in 1 .. Len(s) /\ Len(s) \in Nat /\ Len(t) \in Nat
    BY <1>2, <1>6, <1>9, LenProperties DEF s
  <2>2. j \in 1 .. Len(s) + Len(t) /\ DOMAIN records' = 1 .. Len(s) + Len(t)
    BY <1>8, <2>1, LenProperties
  <2> QED
    BY <1>8, <2>1, <2>2
<1> QED
  BY <1>1, <1>4, <1>8, <1>9

LEMMA ChunkWalk ==
    ASSUME WalkInv, NEW w \in Walks, NextChunk(w)
    PROVE  WalkInv'
<1> USE DEF statics, list, pass, history
<1>0. TypeOK
  BY DEF WalkInv, BindingsInv
<1>1. PICK n \in Counts(reqs[w]) :
          /\ Collect(reqs[w], n)
          /\ found' = IF reqs[w] = 0 THEN {} ELSE found
          /\ reqs' = [reqs EXCEPT ![w] = @ + n]
  BY DEF NextChunk
<1>2. /\ reqs[w] # None /\ walk = None
      /\ UNCHANGED <<table, list, heap, pass, corrupt, history>>
  BY DEF NextChunk, Idle
<1>3. /\ records' \in Seq(Record) /\ reqs[w] + n \in Nat
      /\ reqs[w] # 0 => \A j \in DOMAIN records :
                           j \in DOMAIN records' /\ records'[j] = records[j]
  BY <1>0, <1>1, <1>2, CollectIs
<1>4. doomed = {} /\ todo = {} /\ snap = <<>>
  BY <1>2 DEF WalkInv, PassInv
<1>5. TypeOK'
  <2>1. reqs' \in [Walks -> Nat \cup {None}]
    BY <1>0, <1>1, <1>3 DEF TypeOK
  <2>2. found' \subseteq Identifier
    BY <1>0, <1>1 DEF TypeOK
  <2> QED
    BY <1>0, <1>2, <1>3, <1>4, <2>1, <2>2 DEF TypeOK
<1>6. HeapInv' /\ (isBound <=> bound # <<>>)'
  BY <1>2 DEF WalkInv, BindingsInv, HeapInv, Range
<1>7. LongInv' /\ PassInv'
  BY <1>2, <1>4 DEF WalkInv, LongInv, PassInv
<1>8. JudgedInv'
  BY <1>2 DEF WalkInv, JudgedInv, OnList, StillBound
<1>9. FoundInv'
  <2>1. ASSUME NEW id \in found'
        PROVE  \E j \in DOMAIN records' : id = <<records'[j].source, records'[j].address>>
    <3>1. reqs[w] # 0 /\ id \in found
      BY <1>1, <2>1
    <3>2. PICK j \in DOMAIN records : id = <<records[j].source, records[j].address>>
      BY <3>1 DEF WalkInv, FoundInv
    <3> QED
      BY <1>3, <3>1, <3>2
  <2>2. /\ clean' = clean /\ judged' = judged /\ doomed' = {} /\ todo' = {} /\ snap' = snap
        /\ bound' = bound /\ heap' = heap
    BY <1>2, <1>4
  <2>3. clean => \A id \in judged : id[1] = Endpoint =>
          \E c \in Cells : OnList(c) /\ heap[c].long = id[2]
    BY <1>4 DEF WalkInv, FoundInv
  <2> QED
    BY <1>4, <2>1, <2>2, <2>3 DEF WalkInv, FoundInv, OnList
<1> QED
  BY <1>5, <1>6, <1>7, <1>8, <1>9 DEF WalkInv, BindingsInv

LEMMA LastWalk ==
    ASSUME Short = {}, WalkInv, NEW w \in Walks, LastChunk(w)
    PROVE  WalkInv'
<1>0. TypeOK /\ HeapInv
  BY DEF WalkInv, BindingsInv
<1>1. PICK n \in Counts(reqs[w]) : Collect(reqs[w], n)
  BY DEF LastChunk
<1>2. /\ reqs[w] # None /\ walk = None
      /\ found' = (IF reqs[w] = 0 THEN {} ELSE found)
                     \cup {<<r.source, r.address>> : r \in Range(records')}
      /\ snap' = bound /\ todo' = {j \in DOMAIN records' : Ours(records'[j])}
      /\ judged' = found' /\ clean' = (doomed' = {})
      /\ UNCHANGED <<table, reqs, bound, isBound, heap, leaked>>
  BY DEF LastChunk, Idle, list
<1>3. /\ records' \in Seq(Record)
      /\ reqs[w] # 0 => \A j \in DOMAIN records :
                           j \in DOMAIN records' /\ records'[j] = records[j]
  BY <1>0, <1>1, <1>2, CollectIs
<1>4. /\ ~corrupt
      /\ \A i, j \in DOMAIN bound : bound[i] = bound[j] => i = j
      /\ \A c \in leaked : ~OnList(c)
      /\ \A c \in Cells : heap[c] # Free <=> OnList(c) \/ c \in leaked
  BY <1>0, HeapIs
<1>5. \A c \in Range(bound) : heap[c] # Free /\ c \in Cells /\ OnList(c)
  <2>1. \A i \in DOMAIN bound : bound[i] \in Cells
    BY <1>0, ElementOfSeq, LenProperties DEF TypeOK
  <2> QED
    BY <1>4, <2>1 DEF Range, OnList
<1>6. /\ doomed' = {k \in DOMAIN bound : ~StillBound(heap[bound[k]], found')}
      /\ walk' = w /\ corrupt' = corrupt
  BY <1>5 DEF LastChunk
<1>7. \A j \in DOMAIN records' :
         records'[j] \in Record /\ <<records'[j].source, records'[j].address>> \in found'
  BY <1>2, <1>3, ElementOfSeq, LenProperties DEF Range
<1>8. \A id \in found' : \E j \in DOMAIN records' :
         id = <<records'[j].source, records'[j].address>>
  <2> TAKE id \in found'
  <2>1. CASE id \in {<<r.source, r.address>> : r \in Range(records')}
    BY <2>1 DEF Range
  <2>2. CASE reqs[w] # 0 /\ id \in found
    <3>1. PICK j \in DOMAIN records : id = <<records[j].source, records[j].address>>
      BY <2>2 DEF WalkInv, FoundInv
    <3> QED
      BY <1>3, <2>2, <3>1
  <2> QED
    BY <1>2, <2>1, <2>2
<1>9. TypeOK'
  <2>1. found' \subseteq Identifier
    <3>1. ASSUME NEW id \in found' PROVE id \in Identifier
      <4>1. PICK j \in DOMAIN records' : id = <<records'[j].source, records'[j].address>>
        BY <1>8
      <4>2. records'[j].source \in Sources /\ records'[j].address \in Address
        BY <1>7 DEF Record
      <4> QED
        BY <4>1, <4>2 DEF Identifier
    <3> QED
      BY <3>1
  <2>2. doomed' \subseteq DOMAIN snap' /\ todo' \subseteq DOMAIN records'
    BY <1>2, <1>6
  <2>3. clean' \in BOOLEAN /\ judged' \subseteq Identifier
    BY <1>2, <2>1
  <2> QED
    BY <1>0, <1>2, <1>3, <1>6, <2>1, <2>2, <2>3 DEF TypeOK
<1>10. \A c : OnList(c)' <=> OnList(c)
  BY <1>2 DEF OnList
<1>11. HeapInv'
  <2>1. Range(bound)' = Range(bound)
    BY <1>2 DEF Range
  <2>2. \A k \in doomed' : snap'[k] \in Range(bound)
    BY <1>2, <1>6 DEF Range
  <2> QED
    BY <1>0, <1>2, <1>6, <2>1, <2>2 DEF HeapInv
<1>12. BindingsInv'
  BY <1>2, <1>9, <1>11 DEF WalkInv, BindingsInv
<1>13. LongInv'
  BY <1>2 DEF WalkInv, LongInv
<1>14. PassInv'
  <2>1. \A j \in todo' : Ours(records'[j]) /\ <<Endpoint, records'[j].address>> \in judged'
    BY <1>2, <1>7 DEF Ours
  <2>2. walk' # None
    BY <1>2, <1>6 DEF TypeOK
  <2> QED
    BY <2>1, <2>2 DEF PassInv, Ours
<1>15. JudgedInv'
  <2>1. \A c \in Cells : OnList(c) =>
          StillBound(heap[c], judged') \/ \E k \in doomed' : snap'[k] = c
    BY <1>2, <1>6 DEF OnList
  <2>2. \A k \in doomed' : ~StillBound(heap[snap'[k]], judged')
    BY <1>2, <1>6
  <2>3. \A k, m \in doomed', i, j \in DOMAIN bound :
          k < m /\ snap'[k] = bound[i] /\ snap'[m] = bound[j] => i < j
    BY <1>2, <1>4, <1>6
  <2> QED
    BY <1>2, <1>10, <2>1, <2>2, <2>3 DEF JudgedInv, StillBound
<1>16. FoundInv'
  <2>1. \A k \in DOMAIN snap' : OnList(snap'[k])
    BY <1>2 DEF OnList
  <2>2. ASSUME NEW id \in judged', id[1] = Endpoint
        PROVE  \E j \in todo' : records'[j].address = id[2]
    <3>1. PICK j \in DOMAIN records' : id = <<records'[j].source, records'[j].address>>
      BY <1>2, <1>8
    <3> QED
      BY <1>2, <2>2, <3>1 DEF Ours
  <2> QED
    BY <1>2, <1>8, <1>10, <2>1, <2>2 DEF FoundInv
<1> QED
  BY <1>12, <1>13, <1>14, <1>15, <1>16 DEF WalkInv

LEMMA RemoveWalk ==
    ASSUME WalkInv, Remove
    PROVE  WalkInv'
<1>0. TypeOK /\ HeapInv
  BY DEF WalkInv, BindingsInv
<1>1. PICK k \in doomed, i \in DOMAIN bound :
          /\ IsFirst(k, doomed) /\ IsFirst(i, Ends(snap[k]))
          /\ doomed' = doomed \ {k}
          /\ IF heap[bound[i]] = Free
               THEN corrupt' = TRUE /\ UNCHANGED <<list, heap, leaked>>
               ELSE /\ bound' = Without(i) /\ isBound' = (bound' # <<>>)
                    /\ heap' = [heap EXCEPT ![snap[k]] = Free]
                    /\ leaked' = IF bound[i] = snap[k] THEN leaked
                                 ELSE leaked \cup {bound[i]}
                    /\ UNCHANGED corrupt
  BY DEF Remove
<1> DEFINE c == snap[k]
<1>2. bound[i] = c /\ heap[bound[i]] # Free
  BY <1>1, FirstIsOwn
<1>3. /\ bound' = Without(i) /\ isBound' = (bound' # <<>>)
      /\ heap' = [heap EXCEPT ![c] = Free] /\ leaked' = leaked /\ corrupt' = corrupt
      /\ doomed' = doomed \ {k}
      /\ UNCHANGED <<table, reqs, found, records, walk, snap, todo, judged, clean>>
      /\ walk # None
  BY <1>1, <1>2 DEF Remove, statics
<1> HIDE DEF c
<1>4. /\ ~corrupt
      /\ \A x, y \in DOMAIN bound : bound[x] = bound[y] => x = y
      /\ \A m \in doomed : OnList(snap[m])
      /\ \A x \in leaked : ~OnList(x)
      /\ \A x \in Cells : heap[x] # Free <=> OnList(x) \/ x \in leaked
  BY <1>0, HeapIs
<1>5. bound \in Seq(Cells)
  BY <1>0 DEF TypeOK
<1>6. \A x \in DOMAIN bound : bound[x] \in Cells
  BY <1>5, ElementOfSeq, LenProperties
<1>7. c \in Cells /\ OnList(c)
  BY <1>2, <1>6 DEF OnList
<1>8. /\ \A x : OnList(x)' <=> OnList(x) /\ x # c
      /\ \A x, y \in DOMAIN bound' : bound'[x] = bound'[y] => x = y
  <2>1. /\ \A x : (\E a \in DOMAIN Without(i) : Without(i)[a] = x) <=> OnList(x) /\ x # bound[i]
        /\ \A x, y \in DOMAIN Without(i) : Without(i)[x] = Without(i)[y] => x = y
    BY <1>4, <1>5, WithoutKeeps
  <2> QED
    BY <1>2, <1>3, <2>1 DEF OnList
<1>9. \A x \in Cells : heap'[x] = IF x = c THEN Free ELSE heap[x]
  BY <1>0, <1>3 DEF TypeOK
\* The places of the doomed that are left name other cells.
<1>10. \A m \in doomed' : snap[m] # c
  <2> SUFFICES ASSUME NEW m \in doomed', snap[m] = c PROVE FALSE
    OBVIOUS
  <2>1. m \in doomed /\ m # k
    BY <1>3
  <2>2. k \in Nat /\ m \in Nat /\ i \in Nat
    <3>1. snap \in Seq(Cells) /\ doomed \subseteq DOMAIN snap
      BY <1>0 DEF TypeOK
    <3> QED
      BY <1>5, <2>1, <3>1, LenProperties
  <2>3. k < m
    BY <1>1, <2>1, <2>2 DEF IsFirst
  <2>4. i < i
    BY <1>2, <2>1, <2>3 DEF WalkInv, JudgedInv, c
  <2> QED
    BY <2>2, <2>4
<1>11. TypeOK'
  <2>1. bound' \in Seq(Cells)
    BY <1>3, <1>5, WithoutIs
  <2>2. heap' \in [Cells -> Device \cup {Free}]
    BY <1>0, <1>3 DEF TypeOK
  <2>3. isBound' \in BOOLEAN
    BY <1>3
  <2> QED
    BY <1>0, <1>3, <2>1, <2>2, <2>3 DEF TypeOK
<1>12. HeapInv'
  <2>1. \A m \in doomed' : OnList(snap[m])'
    BY <1>3, <1>4, <1>8, <1>10
  <2>2. \A x \in leaked' : ~(OnList(x)')
    BY <1>3, <1>4, <1>8
  <2>3. \A x \in Cells : heap'[x] # Free <=> OnList(x)' \/ x \in leaked'
    BY <1>3, <1>4, <1>7, <1>8, <1>9
  <2>4. \A x : x \in Range(bound') <=> OnList(x)'
    BY DEF Range, OnList
  <2> QED
    BY <1>3, <1>4, <1>8, <2>1, <2>2, <2>3, <2>4 DEF HeapInv
<1>13. BindingsInv'
  BY <1>3, <1>11, <1>12 DEF BindingsInv
<1>14. LongInv'
  BY <1>9 DEF WalkInv, LongInv
<1>15. PassInv'
  BY <1>3 DEF WalkInv, PassInv, Ours
<1>16. JudgedInv'
  <2>1. ASSUME NEW x \in Cells, OnList(x)'
        PROVE  StillBound(heap'[x], judged) \/ \E m \in doomed' : snap[m] = x
    <3>1. OnList(x) /\ x # c /\ heap'[x] = heap[x]
      BY <1>8, <1>9, <2>1
    <3>2. CASE StillBound(heap[x], judged)
      BY <3>1, <3>2
    <3>3. CASE \E m \in doomed : snap[m] = x
      BY <1>3, <3>1, <3>3 DEF c
    <3> QED
      BY <3>1, <3>2, <3>3 DEF WalkInv, JudgedInv
  <2>2. ASSUME NEW m \in doomed' PROVE ~StillBound(heap'[snap[m]], judged)
    <3>1. m \in doomed /\ snap[m] # c
      BY <1>3, <1>10
    <3>2. snap[m] \in Cells
      BY <1>4, <1>6, <3>1 DEF OnList
    <3> QED
      BY <1>9, <3>1, <3>2 DEF WalkInv, JudgedInv
  <2>3. ASSUME NEW m \in doomed', NEW n \in doomed',
               NEW a \in DOMAIN bound', NEW b \in DOMAIN bound',
               m < n, snap[m] = bound'[a], snap[n] = bound'[b]
        PROVE  a < b
    <3>1. /\ DOMAIN bound = 1 .. Len(bound) /\ Len(bound) \in Nat
          /\ DOMAIN Without(i) = 1 .. Len(bound) - 1
          /\ \A j \in DOMAIN Without(i) :
                Without(i)[j] = IF j < i THEN bound[j] ELSE bound[j + 1]
      BY <1>5, WithoutIs, LenProperties
    <3> DEFINE p == IF a < i THEN a ELSE a + 1
               q == IF b < i THEN b ELSE b + 1
    <3>2. p \in DOMAIN bound /\ q \in DOMAIN bound
      BY <1>3, <3>1
    <3>3. snap[m] = bound[p] /\ snap[n] = bound[q]
      BY <1>3, <2>3, <3>1
    <3>4. m \in doomed /\ n \in doomed
      BY <1>3
    <3> HIDE DEF p, q
    <3>5. p < q
      BY <2>3, <3>2, <3>3, <3>4 DEF WalkInv, JudgedInv
    <3> QED
      BY <1>3, <3>1, <3>5 DEF p, q
  <2> QED
    BY <1>3, <2>1, <2>2, <2>3 DEF JudgedInv, StillBound
<1>17. FoundInv'
  <2>1. ~clean'
    BY <1>3 DEF WalkInv, FoundInv
  <2> QED
    BY <1>3, <2>1 DEF WalkInv, FoundInv
<1> QED
  BY <1>13, <1>14, <1>15, <1>16, <1>17 DEF WalkInv

\* The record is skipped: it is bound already, or there is no memory for it.
LEMMA SkipWalk ==
    ASSUME WalkInv, NEW j \in todo, todo' = todo \ {j},
           UNCHANGED <<table, reqs, statics, list, heap, walk, snap, doomed,
                       corrupt, leaked, judged>>,
           clean' \in BOOLEAN,
           clean' => clean /\ \E c \in Cells : OnList(c) /\ heap[c].long = records[j].address
    PROVE  WalkInv'
<1> USE DEF statics, list
<1>1. BindingsInv'
  BY DEF WalkInv, BindingsInv, TypeOK, HeapInv, Range
<1>2. LongInv' /\ PassInv'
  BY DEF WalkInv, LongInv, PassInv, Ours
<1>3. JudgedInv'
  BY DEF WalkInv, JudgedInv, OnList, StillBound
<1>4. FoundInv'
  <2>1. ASSUME clean', NEW id \in judged, id[1] = Endpoint
        PROVE  \/ \E c \in Cells : OnList(c) /\ heap[c].long = id[2]
               \/ \E m \in todo' : records[m].address = id[2]
    <3>1. CASE \E c \in Cells : OnList(c) /\ heap[c].long = id[2]
      BY <3>1
    <3>2. CASE \E m \in todo : records[m].address = id[2]
      BY <2>1, <3>2
    <3> QED
      BY <2>1, <3>1, <3>2 DEF WalkInv, FoundInv
  <2> QED
    BY <2>1 DEF WalkInv, FoundInv, OnList
<1> QED
  BY <1>1, <1>2, <1>3, <1>4 DEF WalkInv

LEMMA AddWalk ==
    ASSUME Short = {}, WalkInv, Add
    PROVE  WalkInv'
<1>0. TypeOK /\ HeapInv
  BY DEF WalkInv, BindingsInv
<1>1. PICK j \in todo, c \in Cells :
          /\ heap[c] = Free /\ todo' = todo \ {j}
          /\ IF Exists(records[j], [heap EXCEPT ![c] = DeviceOf(records[j])])
               THEN UNCHANGED <<heap, list>>
               ELSE /\ heap' = [heap EXCEPT ![c] = DeviceOf(records[j])]
                    /\ bound' = Append(bound, c) /\ isBound' = TRUE
  BY DEF Add
<1> DEFINE r == records[j]
           filled == [heap EXCEPT ![c] = DeviceOf(r)]
<1>2. /\ UNCHANGED <<table, reqs, found, records, walk, snap, doomed, corrupt, leaked,
                     judged, clean>>
      /\ doomed = {} /\ walk # None
  BY DEF Add, statics, history
<1>3. r \in Record
  BY <1>0, ElementOfSeq, LenProperties DEF TypeOK
<1>4. /\ r.address \in Long /\ DeviceOf(r) \in Device
      /\ DeviceOf(r).short = Broadcast /\ DeviceOf(r).long = r.address
  BY <1>3, RecordIs
<1>5. /\ ~corrupt
      /\ \A x, y \in DOMAIN bound : bound[x] = bound[y] => x = y
      /\ \A x \in leaked : ~OnList(x)
      /\ \A x \in Cells : heap[x] # Free <=> OnList(x) \/ x \in leaked
  BY <1>0, HeapIs
<1>6. ~OnList(c) /\ c \notin leaked
  BY <1>1, <1>5
<1>7. heap \in [Cells -> Device \cup {Free}] /\ bound \in Seq(Cells) /\ clean \in BOOLEAN
  BY <1>0 DEF TypeOK
<1> HIDE DEF r
<1>8. \A x \in Cells : filled[x] = IF x = c THEN DeviceOf(r) ELSE heap[x]
  BY <1>7
<1>9. CASE Exists(r, filled)
  <2>1. UNCHANGED <<heap, list>>
    BY <1>1, <1>9 DEF r
  <2>2. ASSUME clean
        PROVE  \E x \in Cells : OnList(x) /\ heap[x].long = r.address
    <3>1. PICK x \in Range(snap) : filled[x] # Free /\ HasAddress(filled[x], r)
      BY <1>9 DEF Exists
    <3>2. PICK k \in DOMAIN snap : snap[k] = x
      BY DEF Range
    <3>3. x \in Cells
      BY <1>0, <3>2, ElementOfSeq, LenProperties DEF TypeOK
    <3>4. OnList(x)
      BY <2>2, <3>2 DEF WalkInv, FoundInv
    <3>5. filled[x] = heap[x]
      BY <1>6, <1>8, <3>3, <3>4
    <3>6. heap[x].long = r.address
      BY <1>4, <3>1, <3>5 DEF HasAddress
    <3> QED
      BY <3>3, <3>4, <3>6
  <2> HIDE DEF filled
  <2> QED
    BY <1>1, <1>2, <1>7, <2>1, <2>2, SkipWalk DEF r, statics
<1>10. CASE ~Exists(r, filled)
  <2>1. heap' = filled /\ bound' = Append(bound, c) /\ isBound' = TRUE /\ todo' = todo \ {j}
    BY <1>1, <1>10 DEF r
  <2>2. /\ bound' \in Seq(Cells) /\ Len(bound) \in Nat
        /\ DOMAIN bound = 1 .. Len(bound) /\ DOMAIN bound' = 1 .. Len(bound) + 1
        /\ \A i \in 1 .. Len(bound) : bound'[i] = bound[i]
        /\ bound'[Len(bound) + 1] = c
    BY <1>7, <2>1, AppendProperties, LenProperties
  <2>3. \A x : OnList(x)' <=> OnList(x) \/ x = c
    BY <2>2 DEF OnList
  <2>4. \A x, y \in DOMAIN bound' : bound'[x] = bound'[y] => x = y
    <3>1. \A x \in DOMAIN bound : bound[x] # c
      BY <1>6 DEF OnList
    <3> QED
      BY <1>5, <2>2, <3>1
  <2>5. TypeOK'
    <3>1. heap' \in [Cells -> Device \cup {Free}]
      BY <1>4, <1>7, <2>1
    <3> QED
      BY <1>0, <1>2, <2>1, <2>2, <3>1 DEF TypeOK
  <2>6. \A x \in Cells : heap'[x] = IF x = c THEN DeviceOf(r) ELSE heap[x]
    BY <1>8, <2>1
  <2> HIDE DEF filled
  <2>7. HeapInv'
    <3>1. \A x : x \in Range(bound') <=> OnList(x)'
      BY DEF Range, OnList
    <3>2. \A x \in Cells : heap'[x] # Free <=> OnList(x)' \/ x \in leaked'
      <4>1. DeviceOf(r) # Free
        BY <1>4
      <4> QED
        BY <1>2, <1>5, <2>3, <2>6, <4>1
    <3>3. leaked' \cap Range(bound') = {}
      BY <1>2, <1>5, <1>6, <2>3, <3>1
    <3> QED
      BY <1>2, <1>5, <2>4, <3>1, <3>2, <3>3 DEF HeapInv
  <2>8. BindingsInv'
    <3>1. bound' # <<>>
      BY <2>2, EmptySeq
    <3> QED
      BY <2>1, <2>5, <2>7, <3>1 DEF BindingsInv
  <2>9. LongInv'
    BY <1>4, <2>6 DEF WalkInv, LongInv
  <2>10. PassInv'
    BY <1>2, <2>1 DEF WalkInv, PassInv, Ours
  <2>11. JudgedInv'
    <3>1. ASSUME NEW x \in Cells, OnList(x)'
          PROVE  StillBound(heap'[x], judged)
      <4>1. CASE x = c
        <5>1. <<Endpoint, r.address>> \in judged
          BY DEF WalkInv, PassInv, r
        <5> QED
          BY <1>4, <2>6, <4>1, <5>1 DEF StillBound
      <4>2. CASE x # c
        BY <1>2, <2>3, <2>6, <3>1, <4>2 DEF WalkInv, JudgedInv
      <4> QED
        BY <4>1, <4>2
    <3> QED
      BY <1>2, <3>1 DEF JudgedInv, StillBound
  <2>12. FoundInv'
    <3>1. ASSUME clean, NEW id \in judged, id[1] = Endpoint
          PROVE  \/ \E x \in Cells : OnList(x)' /\ heap'[x].long = id[2]
                 \/ \E m \in todo' : records[m].address = id[2]
      <4>1. CASE \E x \in Cells : OnList(x) /\ heap[x].long = id[2]
        BY <1>6, <2>3, <2>6, <4>1
      <4>2. CASE r.address = id[2]
        BY <1>4, <2>3, <2>6, <4>2
      <4>3. CASE \E m \in todo : records[m].address = id[2] /\ m # j
        BY <2>1, <4>3
      <4>4. \/ \E x \in Cells : OnList(x) /\ heap[x].long = id[2]
            \/ \E m \in todo : records[m].address = id[2]
        BY <3>1 DEF WalkInv, FoundInv
      <4> QED
        BY <4>1, <4>2, <4>3, <4>4 DEF r
    <3>2. clean => \A k \in DOMAIN snap : OnList(snap[k])'
      BY <1>2, <2>3 DEF WalkInv, FoundInv
    <3>3. \A id \in found : \E m \in DOMAIN records :
             id = <<records[m].source, records[m].address>>
      BY DEF WalkInv, FoundInv
    <3> QED
      BY <1>2, <3>1, <3>2, <3>3 DEF FoundInv
  <2> QED
    BY <2>8, <2>9, <2>10, <2>11, <2>12 DEF WalkInv
<1> QED
  BY <1>9, <1>10

LEMMA AddFailsWalk ==
    ASSUME WalkInv, AddFails
    PROVE  WalkInv'
BY SkipWalk DEF AddFails

LEMMA FinishWalk ==
    ASSUME WalkInv, Finish
    PROVE  WalkInv'
<1> USE DEF statics, list, history
<1>0. TypeOK
  BY DEF WalkInv, BindingsInv
<1>1. /\ walk' = None /\ snap' = <<>> /\ doomed = {} /\ todo = {}
      /\ reqs' = [reqs EXCEPT ![walk] = None]
      /\ UNCHANGED <<table, statics, list, heap, doomed, todo, corrupt, history>>
  BY DEF Finish
<1>2. <<>> \in Seq(Cells) /\ DOMAIN <<>> = {}
  BY EmptySeq
<1>3. TypeOK'
  <2>1. reqs' \in [Walks -> Nat \cup {None}]
    BY <1>0, <1>1 DEF TypeOK
  <2> QED
    BY <1>0, <1>1, <1>2, <2>1 DEF TypeOK
<1>4. HeapInv' /\ (isBound <=> bound # <<>>)'
  BY <1>1 DEF WalkInv, BindingsInv, HeapInv, Range
<1>5. LongInv' /\ PassInv'
  BY <1>1 DEF WalkInv, LongInv, PassInv
<1>6. JudgedInv'
  BY <1>1 DEF WalkInv, JudgedInv, OnList, StillBound
<1>7. FoundInv'
  <2>1. /\ clean' = clean /\ judged' = judged /\ doomed' = {} /\ todo' = {}
        /\ found' = found /\ records' = records /\ bound' = bound /\ heap' = heap
    BY <1>1
  <2>2. \A k : k \notin DOMAIN snap'
    BY <1>1, <1>2
  <2> QED
    BY <1>1, <2>1, <2>2 DEF WalkInv, FoundInv, OnList
<1> QED
  BY <1>3, <1>4, <1>5, <1>6, <1>7 DEF WalkInv, BindingsInv

LEMMA NextWalk ==
    ASSUME Short = {}, WalkInv, [Next]_vars
    PROVE  WalkInv'
<1>1. CASE TableChanges
  BY <1>1, TableWalk
<1>2. ASSUME NEW w \in Walks, SearchBindings(w) \/ Answer(w)
      PROVE  WalkInv'
  BY <1>2, RequestWalk, EmptyWalk, ChunkWalk, LastWalk DEF Answer
<1>3. CASE Callback
  BY <1>3, RemoveWalk, AddWalk, AddFailsWalk, FinishWalk DEF Callback
<1>4. CASE UNCHANGED vars
  BY <1>4, QuietWalk DEF vars, WalkInv, BindingsInv, TypeOK
<1> QED
  BY <1>1, <1>2, <1>3, <1>4 DEF Next

-----------------------------------------------------------------------------
(* The theorems *)

LEMMA WalkInvariant ==
    ASSUME Short = {}
    PROVE  Spec => []WalkInv
<1>1. Init => WalkInv
  BY InitWalk
<1>2. WalkInv /\ [Next]_vars => WalkInv'
  BY NextWalk
<1> QED
  BY <1>1, <1>2, PTL DEF Spec

\* The list of bound devices, its flag and the heap agree at every step of
\* bindingTableCb: no entry is read after free and none is lost but by an
\* answer of an empty table.
THEOREM ListSound ==
    ASSUME Short = {}
    PROVE  Spec => []BindingsInv
<1>1. WalkInv => BindingsInv
  BY DEF WalkInv
<1> QED
  BY <1>1, WalkInvariant, PTL

\* Between callbacks whatever is on the list was in the table the last walk
\* collected.
THEOREM NothingStaleKept ==
    ASSUME Short = {}
    PROVE  Spec => []NothingStale
<1>1. ASSUME WalkInv PROVE NothingStale
  <2> SUFFICES ASSUME Idle, NEW c \in Range(bound)
               PROVE  /\ heap[c] # Free
                      /\ {<<Endpoint, heap[c].long>>, <<Endpoint, heap[c].short>>}
                           \cap judged # {}
    BY DEF NothingStale
  <2>1. TypeOK /\ HeapInv
    BY <1>1 DEF WalkInv, BindingsInv
  <2>2. OnList(c)
    BY DEF Range, OnList
  <2>3. c \in Cells
    BY <2>1, <2>2, ElementOfSeq, LenProperties DEF OnList, TypeOK
  <2>4. heap[c] # Free
    BY <2>1, <2>2, <2>3, HeapIs
  <2>5. doomed = {}
    BY <1>1 DEF WalkInv, PassInv, Idle
  <2>6. StillBound(heap[c], judged)
    BY <1>1, <2>2, <2>3, <2>5 DEF WalkInv, JudgedInv
  <2> QED
    BY <2>4, <2>6 DEF StillBound
<1> QED
  BY <1>1, WalkInvariant, PTL

\* After a walk that removed nothing and had memory, everything it found for
\* the endpoint is on the list.
THEOREM FoundIsBound ==
    ASSUME Short = {}
    PROVE  Spec => []AllBound
<1>1. ASSUME WalkInv PROVE AllBound
  <2> SUFFICES ASSUME Idle, clean, NEW id \in judged, id[1] = Endpoint
               PROVE  \E c \in Range(bound) : heap[c].long = id[2] \/ heap[c].short = id[2]
    BY DEF AllBound
  <2>1. todo = {}
    BY <1>1 DEF WalkInv, PassInv, Idle
  <2>2. PICK c \in Cells : OnList(c) /\ heap[c].long = id[2]
    BY <1>1, <2>1 DEF WalkInv, FoundInv
  <2>3. c \in Range(bound)
    BY <2>2 DEF OnList, Range
  <2> QED
    BY <2>2, <2>3
<1> QED
  BY <1>1, WalkInvariant, PTL

-----------------------------------------------------------------------------
(* The list keeps the promise of Members                                     *)

WantedIs == \A a : a \in Wanted <=> <<Endpoint, a>> \in judged

ListedIs == \A a : a \in Listed <=> \E c \in Cells : OnList(c) /\ heap[c].long = a

LEMMA MappedIs == WalkInv => WantedIs /\ ListedIs
<1> SUFFICES ASSUME WalkInv PROVE WantedIs /\ ListedIs
  OBVIOUS
<1>1. judged \subseteq Identifier /\ bound \in Seq(Cells)
  BY DEF WalkInv, BindingsInv, TypeOK
<1>2. \A id \in judged : id = <<id[1], id[2]>>
  BY <1>1 DEF Identifier
<1>3. WantedIs
  BY <1>2 DEF WantedIs, Wanted
<1>4. \A c : OnList(c) => c \in Cells
  BY <1>1, ElementOfSeq, LenProperties DEF OnList
<1>5. \A c : c \in Range(bound) <=> OnList(c)
  BY DEF Range, OnList
<1>6. ListedIs
  BY <1>4, <1>5 DEF ListedIs, Listed
<1> QED
  BY <1>3, <1>6

LEMMA MappedNext == WalkInv' => WantedIs' /\ ListedIs'
BY MappedIs, PTL

\* Whether an entry is wanted.
LEMMA WantedEntry ==
    ASSUME WalkInv, NEW c \in Cells, OnList(c)
    PROVE  heap[c].long \in Wanted <=> StillBound(heap[c], judged)
<1>1. heap[c] # Free
  BY HeapIs DEF WalkInv, BindingsInv
<1>2. heap[c].short = Broadcast
  BY <1>1 DEF WalkInv, LongInv
<1> QED
  BY <1>2, StillIs, MappedIs DEF WantedIs

\* With nothing left to remove, all that is on the list is wanted.
WantedIfDone == doomed = {} <=> Listed \subseteq Wanted

LEMMA AllWanted ==
    ASSUME WalkInv
    PROVE  WantedIfDone
<1>1. ListedIs
  BY MappedIs
<1>2. ASSUME doomed = {}, NEW a \in Listed PROVE a \in Wanted
  <2>1. PICK c \in Cells : OnList(c) /\ heap[c].long = a
    BY <1>1 DEF ListedIs
  <2>2. StillBound(heap[c], judged)
    BY <1>2, <2>1 DEF WalkInv, JudgedInv
  <2> QED
    BY <2>1, <2>2, WantedEntry
<1>3. ASSUME NEW k \in doomed PROVE ~(Listed \subseteq Wanted)
  <2>1. OnList(snap[k])
    BY HeapIs DEF WalkInv, BindingsInv
  <2>2. snap[k] \in Cells
    BY <2>1, ElementOfSeq, LenProperties DEF OnList, WalkInv, BindingsInv, TypeOK
  <2>3. heap[snap[k]].long \notin Wanted
    BY <2>1, <2>2, WantedEntry DEF WalkInv, JudgedInv
  <2>4. heap[snap[k]].long \in Listed
    BY <1>1, <2>1, <2>2 DEF ListedIs
  <2> QED
    BY <2>3, <2>4
<1> QED
  BY <1>2, <1>3 DEF WantedIfDone

LEMMA AllWantedNext == WalkInv' => WantedIfDone'
<1>1. WalkInv => WantedIfDone
  BY AllWanted
<1> QED
  BY <1>1, PTL

LEMMA StutterMembers ==
    ASSUME UNCHANGED <<bound, heap, walk, judged, clean>>
    PROVE  UNCHANGED Promise!mvars
BY DEF Promise!mvars, Listed, Wanted, Range

LEMMA JudgeMembers ==
    ASSUME WalkInv, WalkInv', NEW w \in Walks, LastChunk(w)
    PROVE  Promise!Judge
<1>1. /\ walk = None /\ UNCHANGED <<bound, heap>>
      /\ clean' = (doomed' = {})
  BY DEF LastChunk, Idle, list
<1>2. walk' = w
  BY DEF WalkInv, BindingsInv, HeapInv, LastChunk
<1>3. Listed' = Listed
  BY <1>1 DEF Listed, Range
<1>4. Wanted' \subseteq Address
  BY DEF WalkInv, BindingsInv, TypeOK, Identifier, Wanted
<1>5. clean' = (Listed \subseteq Wanted')
  BY <1>1, <1>3, AllWantedNext DEF WantedIfDone
<1> QED
  BY <1>1, <1>2, <1>3, <1>4, <1>5 DEF Promise!Judge

LEMMA ClearMembers ==
    ASSUME WalkInv, NEW w \in Walks, EmptyTable(w)
    PROVE  Promise!Clear
<1>1. /\ walk = None /\ walk' = walk
      /\ bound' = <<>> /\ judged' = {} /\ clean' = TRUE
  BY DEF EmptyTable, Idle, pass
<1>2. Range(<<>>) = {}
  BY EmptySeq DEF Range
<1>3. Listed' = {} /\ Wanted' = {}
  BY <1>1, <1>2 DEF Listed, Wanted, Range
<1> QED
  BY <1>1, <1>3 DEF Promise!Clear

\* A removal takes one entry off; another may have the same address.
LEMMA ForgetMembers ==
    ASSUME WalkInv, WalkInv', Remove
    PROVE  Promise!Forget \/ UNCHANGED Promise!mvars
<1>0. TypeOK /\ HeapInv
  BY DEF WalkInv, BindingsInv
<1>1. PICK k \in doomed, i \in DOMAIN bound :
          /\ IsFirst(k, doomed) /\ IsFirst(i, Ends(snap[k]))
          /\ IF heap[bound[i]] = Free
               THEN corrupt' = TRUE /\ UNCHANGED <<list, heap, leaked>>
               ELSE /\ bound' = Without(i) /\ isBound' = (bound' # <<>>)
                    /\ heap' = [heap EXCEPT ![snap[k]] = Free]
  BY DEF Remove
<1> DEFINE c == snap[k]
           a == heap[c].long
<1>2. bound[i] = c /\ heap[bound[i]] # Free
  BY <1>1, FirstIsOwn
<1>3. bound' = Without(i) /\ heap' = [heap EXCEPT ![c] = Free]
  BY <1>1, <1>2
<1>4. bound \in Seq(Cells) /\ heap \in [Cells -> Device \cup {Free}]
  BY <1>0 DEF TypeOK
<1>5. c \in Cells /\ OnList(c)
  BY <1>2, <1>4, ElementOfSeq, LenProperties DEF OnList
<1>6. \A x : OnList(x)' <=> OnList(x) /\ x # c
  <2>1. \A x : (\E b \in DOMAIN Without(i) : Without(i)[b] = x)
                 <=> OnList(x) /\ x # bound[i]
    BY <1>0, <1>4, WithoutKeeps, HeapIs
  <2> QED
    BY <1>2, <1>3, <2>1 DEF OnList
<1>7. \A x \in Cells : x # c => heap'[x] = heap[x]
  BY <1>3, <1>4
<1>8. a \in Listed /\ a \notin Wanted
  <2>1. ~StillBound(heap[c], judged)
    BY DEF WalkInv, JudgedInv
  <2> QED
    BY <1>5, <2>1, MappedIs, WantedEntry DEF ListedIs
<1>9. ListedIs /\ ListedIs'
  BY MappedIs, MappedNext
<1> HIDE DEF c, a
<1>10. Listed' = Listed \/ Listed' = Listed \ {a}
  <2>1. \A x : x \in Listed' <=> \E y \in Cells : OnList(y)' /\ heap'[y].long = x
    BY <1>9 DEF ListedIs
  <2>2. \A x : x \in Listed <=> \E y \in Cells : OnList(y) /\ heap[y].long = x
    BY <1>9 DEF ListedIs
  <2>3. \A x : x \in Listed' => x \in Listed
    BY <1>6, <1>7, <2>1, <2>2
  <2>4. \A x : x \in Listed /\ x # a => x \in Listed'
    BY <1>6, <1>7, <2>1, <2>2 DEF a
  <2> QED
    BY <2>3, <2>4
<1>11. /\ walk # None /\ UNCHANGED <<walk, clean, judged>>
  BY DEF Remove
<1>12. Wanted' = Wanted
  BY <1>11 DEF Wanted
<1> QED
  BY <1>8, <1>10, <1>11, <1>12 DEF Promise!Forget, Promise!mvars

LEMMA LearnMembers ==
    ASSUME Short = {}, WalkInv, WalkInv', Add
    PROVE  Promise!Learn \/ UNCHANGED Promise!mvars
<1>0. TypeOK /\ HeapInv
  BY DEF WalkInv, BindingsInv
<1>1. PICK j \in todo, c \in Cells :
          /\ heap[c] = Free
          /\ IF Exists(records[j], [heap EXCEPT ![c] = DeviceOf(records[j])])
               THEN UNCHANGED <<heap, list>>
               ELSE /\ heap' = [heap EXCEPT ![c] = DeviceOf(records[j])]
                    /\ bound' = Append(bound, c) /\ isBound' = TRUE
  BY DEF Add
<1>2. /\ walk # None /\ doomed = {} /\ UNCHANGED <<walk, clean, judged>>
  BY DEF Add, history
<1> DEFINE r == records[j]
           a == r.address
<1>3. CASE UNCHANGED <<heap, list>>
  BY <1>2, <1>3, StutterMembers DEF list
<1>4. CASE /\ heap' = [heap EXCEPT ![c] = DeviceOf(r)]
           /\ bound' = Append(bound, c)
  <2>1. r \in Record
    BY <1>0, ElementOfSeq, LenProperties DEF TypeOK
  <2>2. DeviceOf(r).long = a
    BY <2>1, RecordIs
  <2>3. a \in Wanted
    BY MappedIs DEF WalkInv, PassInv, WantedIs
  <2>4. ~OnList(c)
    BY <1>0, <1>1, HeapIs
  <2>5. heap \in [Cells -> Device \cup {Free}] /\ bound \in Seq(Cells)
    BY <1>0 DEF TypeOK
  <2>6. \A x : OnList(x)' <=> OnList(x) \/ x = c
    <3>1. /\ Len(bound) \in Nat
          /\ DOMAIN bound = 1 .. Len(bound) /\ DOMAIN bound' = 1 .. Len(bound) + 1
          /\ \A i \in 1 .. Len(bound) : bound'[i] = bound[i]
          /\ bound'[Len(bound) + 1] = c
      BY <1>4, <2>5, AppendProperties, LenProperties
    <3> QED
      BY <3>1 DEF OnList
  <2> HIDE DEF r, a
  <2>7. \A x \in Cells : heap'[x] = IF x = c THEN DeviceOf(r) ELSE heap[x]
    BY <1>4, <2>5
  <2>8. /\ \A x : x \in Listed' <=> \E y \in Cells : OnList(y)' /\ heap'[y].long = x
        /\ \A x : x \in Listed <=> \E y \in Cells : OnList(y) /\ heap[y].long = x
    BY MappedIs, MappedNext DEF ListedIs
  <2>9. \A x : x \in Listed' => x \in Listed \/ x = a
    BY <2>2, <2>6, <2>7, <2>8
  <2>10. a \in Listed'
    BY <2>2, <2>6, <2>7, <2>8
  <2>11. \A x : x \in Listed => x \in Listed'
    BY <2>4, <2>6, <2>7, <2>8
  <2>12. Listed' = Listed \cup {a}
    BY <2>9, <2>10, <2>11
  <2>13. Listed \subseteq Wanted /\ Wanted' = Wanted
    BY <1>2, AllWanted DEF WantedIfDone, Wanted
  <2> QED
    BY <1>2, <2>3, <2>12, <2>13 DEF Promise!Learn, Promise!Judged
<1> QED
  BY <1>1, <1>3, <1>4

LEMMA EndMembers ==
    ASSUME WalkInv, AddFails \/ Finish
    PROVE  Promise!RunOut \/ Promise!End
<1>1. /\ walk # None /\ doomed = {} /\ UNCHANGED <<bound, heap, judged>>
  BY DEF AddFails, Finish, history, list
<1>2. Listed' = Listed /\ Wanted' = Wanted
  BY <1>1 DEF Listed, Wanted, Range
<1>3. Listed \subseteq Wanted
  BY <1>1, AllWanted DEF WantedIfDone
<1>4. CASE AddFails
  BY <1>1, <1>2, <1>3, <1>4 DEF AddFails, Promise!RunOut, Promise!Judged
<1>5. CASE Finish
  <2>1. todo = {} /\ walk' = None /\ clean' = clean
    BY <1>5 DEF Finish, history
  <2>2. ASSUME clean, NEW a \in Wanted PROVE a \in Listed
    <3>1. <<Endpoint, a>> \in judged
      BY MappedIs DEF WantedIs
    <3>2. PICK c \in Cells : OnList(c) /\ heap[c].long = a
      BY <2>1, <2>2, <3>1 DEF WalkInv, FoundInv
    <3> QED
      BY <3>2, MappedIs DEF ListedIs
  <2>3. clean => Listed = Wanted
    BY <1>3, <2>2
  <2> QED
    BY <1>1, <1>2, <1>3, <2>1, <2>3 DEF Promise!End, Promise!Judged
<1> QED
  BY <1>4, <1>5

LEMMA StepMembers ==
    ASSUME Short = {}, WalkInv, WalkInv', [Next]_vars
    PROVE  [Promise!Next]_(Promise!mvars)
<1>1. CASE TableChanges
  BY <1>1, StutterMembers DEF TableChanges, list, pass, history
<1>2. ASSUME NEW w \in Walks, SearchBindings(w) \/ RequestFails(w) \/ NextChunk(w)
      PROVE  UNCHANGED Promise!mvars
  BY <1>2, StutterMembers
  DEF SearchBindings, RequestFails, NextChunk, list, pass, history
<1>3. ASSUME NEW w \in Walks, EmptyTable(w) \/ LastChunk(w)
      PROVE  Promise!Next
  BY <1>3, ClearMembers, JudgeMembers DEF Promise!Next
<1>4. CASE Callback
  BY <1>4, ForgetMembers, LearnMembers, EndMembers DEF Callback, Promise!Next
<1>5. CASE UNCHANGED vars
  BY <1>5, StutterMembers DEF vars, list, pass, history
<1> QED
  BY <1>1, <1>2, <1>3, <1>4, <1>5 DEF Next, Answer

LEMMA InitMembers == Init => Promise!Init
<1> SUFFICES ASSUME Init PROVE Promise!Init
  OBVIOUS
<1>1. Range(<<>>) = {}
  BY EmptySeq DEF Range
<1> QED
  BY <1>1 DEF Init, Promise!Init, Listed, Wanted

\* The list implements Members: a wanted device is never off it, an unwanted one
\* goes before the first new one comes, and only found ones come.
THEOREM ListKeepsPromise ==
    ASSUME Short = {}
    PROVE  Spec => KeepsMembers
<1>1. Init => Promise!Init
  BY InitMembers
<1>2. WalkInv /\ WalkInv' /\ [Next]_vars => [Promise!Next]_(Promise!mvars)
  BY StepMembers
<1> QED
  BY <1>1, <1>2, WalkInvariant, PTL DEF Spec, KeepsMembers, Promise!Spec

-----------------------------------------------------------------------------
(* Walks come to an end                                                      *)

\* A set of natural numbers has a least one.
LEMMA Least ==
    ASSUME NEW T \in SUBSET Nat, T # {}
    PROVE  \E x \in T : IsFirst(x, T)
<1> DEFINE R == OpToRel(<, Nat)
<1>1. IsWellFoundedOn(R, Nat)
  BY NatLessThanWellFounded
<1>2. \A x, y \in Nat : <<y, x>> \in R <=> y < x
  BY DEF OpToRel
<1> HIDE DEF R
<1>3. PICK x \in T : \A y \in T : ~ (<<y, x>> \in R)
  BY <1>1, WFMin
<1>4. ASSUME NEW y \in T PROVE x <= y
  <2>1. ~ (<<y, x>> \in R) /\ x \in Nat /\ y \in Nat
    BY <1>3
  <2>2. ~ (y < x)
    BY <1>2, <2>1
  <2> QED
    BY <2>1, <2>2
<1> QED
  BY <1>4 DEF IsFirst

\* What the callback has left is finite.
LEMMA LeftIs ==
    ASSUME TypeOK
    PROVE  /\ doomed \in SUBSET Nat /\ todo \in SUBSET Nat
           /\ IsFiniteSet(doomed) /\ Cardinality(doomed) \in Nat
           /\ IsFiniteSet(todo) /\ Cardinality(todo) \in Nat
<1>1. /\ Len(snap) \in Nat /\ doomed \in SUBSET (1 .. Len(snap))
      /\ Len(records) \in Nat /\ todo \in SUBSET (1 .. Len(records))
  BY LenProperties DEF TypeOK
<1>2. IsFiniteSet(1 .. Len(snap)) /\ IsFiniteSet(1 .. Len(records))
  BY <1>1, FS_Interval
<1>3. IsFiniteSet(doomed) /\ IsFiniteSet(todo)
  BY <1>1, <1>2, FS_Subset
<1> QED
  BY <1>1, <1>3, FS_CardinalityType

\* A step of the callback has one thing less to do.
LEMMA CallbackLess ==
    ASSUME TypeOK, Callback
    PROVE  PassLeft' < PassLeft
<1>1. CASE Remove
  <2>1. PICK k \in doomed : doomed' = doomed \ {k}
    BY <1>1 DEF Remove
  <2>2. walk' = walk /\ todo' = todo
    BY <1>1 DEF Remove
  <2>3. Cardinality(doomed') = Cardinality(doomed) - 1
    BY <2>1, LeftIs, FS_RemoveElement
  <2> QED
    BY <2>2, <2>3, LeftIs DEF PassLeft
<1>2. CASE Add \/ AddFails
  <2>1. PICK j \in todo : todo' = todo \ {j}
    BY <1>2 DEF Add, AddFails
  <2>2. walk' = walk /\ doomed' = doomed
    BY <1>2 DEF Add, AddFails
  <2>3. Cardinality(todo') = Cardinality(todo) - 1
    BY <2>1, LeftIs, FS_RemoveElement
  <2> QED
    BY <2>2, <2>3, LeftIs DEF PassLeft
<1>3. CASE Finish
  BY <1>3, LeftIs DEF Finish, PassLeft
<1> QED
  BY <1>1, <1>2, <1>3 DEF Callback

\* And leaves the other walks alone.
LEMMA CallbackAlone ==
    ASSUME TypeOK, Callback
    PROVE  Asking' = Asking /\ \A v \in Asking : Ahead(v)' = Ahead(v)
<1>1. CASE Remove \/ Add \/ AddFails
  BY <1>1 DEF Remove, Add, AddFails, Asking, Ahead
<1>2. CASE Finish
  <2>1. /\ walk \in Walks /\ walk' = None /\ table' = table
        /\ reqs' = [reqs EXCEPT ![walk] = None] /\ reqs \in [Walks -> Nat \cup {None}]
    BY <1>2 DEF Finish, TypeOK
  <2>2. Asking' = Asking
    BY <2>1 DEF Asking
  <2>3. \A v \in Asking : reqs'[v] = reqs[v]
    BY <2>1 DEF Asking
  <2> QED
    BY <2>1, <2>2, <2>3 DEF Ahead
<1> QED
  BY <1>1, <1>2 DEF Callback

\* An answer is its walk's last, or moves its request towards the end of the
\* table.
LEMMA AnswerNearer ==
    ASSUME TypeOK, NEW w \in Walks, Answer(w), ~corrupt'
    PROVE  \/ w \in Asking /\ Asking' = Asking \ {w}
           \/ /\ Asking' = Asking
              /\ \A v \in Asking : IF v = w THEN Ahead(v)' < Ahead(v)
                                            ELSE Ahead(v)' = Ahead(v)
<1>1. reqs \in [Walks -> Nat \cup {None}] /\ walk = None /\ reqs[w] # None
  BY DEF TypeOK, Answer, RequestFails, EmptyTable, NextChunk, LastChunk, Idle
<1>2. w \in Asking
  BY <1>1 DEF Asking
<1>3. CASE RequestFails(w) \/ EmptyTable(w)
  <2>1. walk' = None /\ reqs' = [reqs EXCEPT ![w] = None]
    BY <1>1, <1>3 DEF RequestFails, EmptyTable, pass
  <2> QED
    BY <1>1, <1>2, <2>1 DEF Asking
<1>4. CASE LastChunk(w)
  <2>1. reqs' = reqs /\ walk' = w
    BY <1>4 DEF LastChunk
  <2> QED
    BY <1>1, <1>2, <2>1 DEF Asking
<1>5. CASE NextChunk(w)
  <2>1. PICK n \in Counts(reqs[w]) :
               reqs[w] + n < Len(table) /\ reqs' = [reqs EXCEPT ![w] = @ + n]
    BY <1>5 DEF NextChunk
  <2>2. reqs[w] \in Nat /\ Len(table) \in Nat
    BY <1>1, LenProperties DEF TypeOK
  <2>3. n \in Nat \ {0}
    BY <2>1, <2>2 DEF Counts
  <2>4. walk' = None /\ table' = table
    BY <1>1, <1>5 DEF NextChunk, pass
  <2>5. /\ reqs'[w] = reqs[w] + n /\ reqs'[w] \in Nat
        /\ \A v \in Walks \ {w} : reqs'[v] = reqs[v]
    BY <1>1, <2>1, <2>2, <2>3
  <2>6. Asking' = Asking
    BY <1>1, <2>2, <2>4, <2>5 DEF Asking
  <2>7. Ahead(w)' < Ahead(w)
    <3>1. PICK r \in Nat : r = reqs'[w]
      BY <2>5
    <3> QED
      BY <2>1, <2>2, <2>3, <2>4, <2>5, <3>1 DEF Ahead
  <2>8. \A v \in Asking \ {w} : Ahead(v)' = Ahead(v)
    BY <2>4, <2>5 DEF Ahead, Asking
  <2> QED
    BY <2>6, <2>7, <2>8
<1> QED
  BY <1>3, <1>4, <1>5 DEF Answer

\* Every step of the callback leaves it less to do, every answer brings its walk
\* nearer to its last, and no other walk is set back: walks end unless the table
\* changes for ever.
THEOREM WalksDwindle ==
    ASSUME Short = {}
    PROVE  Spec => WalksAdvance
<1> DEFINE Advance ==
      /\ Callback => /\ PassLeft' < PassLeft /\ Asking' = Asking
                     /\ \A v \in Asking : Ahead(v)' = Ahead(v)
      /\ \A w \in Walks : Answer(w) =>
            \/ w \in Asking /\ Asking' = Asking \ {w}
            \/ /\ Asking' = Asking
               /\ \A v \in Asking : IF v = w THEN Ahead(v)' < Ahead(v)
                                             ELSE Ahead(v)' = Ahead(v)
<1>1. BindingsInv /\ BindingsInv' => Advance
  BY CallbackLess, CallbackAlone, AnswerNearer DEF BindingsInv, HeapInv
<1>2. BindingsInv /\ BindingsInv' /\ [Next]_vars => [Advance]_vars
  BY <1>1
<1> QED
  BY <1>2, ListSound, PTL DEF Spec, WalksAdvance

\* The callback is never stuck, and never frees the memory of an entry it has not
\* erased: removeBoundDevice always finds one.
THEOREM CallbackGoesOn ==
    ASSUME Short = {}
    PROVE  Spec => []NeverStuck
<1>1. ASSUME WalkInv, walk # None PROVE NeverStuck
  <2>1. TypeOK /\ HeapInv /\ LongInv
    BY <1>1 DEF WalkInv, BindingsInv
  <2>2. CASE doomed = {}
    <3>1. todo # {} => \E j \in todo : IsFirst(j, todo)
      BY <2>1, LeftIs, Least
    <3> QED
      BY <2>2, <3>1 DEF NeverStuck
  <2>3. CASE doomed # {}
    <3>1. PICK k \in doomed : IsFirst(k, doomed)
      BY <2>1, <2>3, LeftIs, Least
    <3>2. OnList(snap[k])
      BY <2>1, HeapIs
    <3>3. PICK i \in DOMAIN bound : bound[i] = snap[k]
      BY <3>2 DEF OnList
    <3>4. snap[k] \in Cells /\ DOMAIN bound \in SUBSET Nat
      BY <2>1, <3>3, ElementOfSeq, LenProperties DEF TypeOK
    <3>5. heap[snap[k]] # Free
      BY <2>1, <3>2, <3>4, HeapIs
    <3>6. i \in Ends(snap[k])
      BY <2>1, <3>3, <3>4, <3>5 DEF Ends, Matches, LongInv
    <3>7. Ends(snap[k]) \in SUBSET Nat /\ Ends(snap[k]) # {}
      BY <3>4, <3>6 DEF Ends
    <3>8. PICK m \in Ends(snap[k]) : IsFirst(m, Ends(snap[k]))
      BY <3>7, Least
    <3>9. m \in DOMAIN bound
      BY <3>8 DEF Ends
    <3>10. heap[bound[m]] # Free
      BY <1>1, <3>1, <3>8, <3>9, FirstIsOwn
    <3> QED
      BY <2>3, <3>1, <3>8, <3>9, <3>10 DEF NeverStuck
  <2> QED
    BY <2>2, <2>3
<1>2. WalkInv => NeverStuck
  BY <1>1 DEF NeverStuck
<1> QED
  BY <1>2, WalkInvariant, PTL
=============================================================================
