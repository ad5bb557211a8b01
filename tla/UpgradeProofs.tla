--------------------------- MODULE UpgradeProofs ---------------------------
(* Theorems about installing and upgrading, for every number of rows, every *)
(* set of historical rows and whatever an earlier version has left.         *)
EXTENDS UpgradeHandover, TLAPS, WellFoundedInduction

-----------------------------------------------------------------------------
(* The invariant *)

\* The queue rows that o left.
Rows(o) == IF o.version = "fresh" THEN {} ELSE Historical

\* Whether the rows of o are in d.
Copied(d, o) == d.legacy_v136_migrated \/ o.version = "1.3.7"

\* The sequence is beyond every row.
Numbered(d) == \A i \in Ids : Exists(d, i) => i < d.nextId

NoPlain(d) == \A i \in Ids : d.queue[i].state # "PLAIN"

\* Ids without a row have no receipt either.
Unused(d) == \A i \in Ids : ~Exists(d, i) => d.queue[i] = Absent /\ d.receipt[i] = "NONE"

NoNull(d) == \A k \in Keys : d.config[k] # Null

\* Before the rows are held: nothing but what o left, as o left it.
Waiting(d, o) ==
  /\ \A i \in Ids : ~d.queue[i].approval
  /\ \A i \in Ids : Exists(d, i) => i \in Rows(o) /\ Copied(d, o)
  /\ \A i \in Rows(o) : Copied(d, o) => Exists(d, i) /\ d.queue[i].applied = o.applied[i]
  /\ \A i \in Historical : d.receipt[i] = IF i \in Rows(o) /\ Copied(d, o) THEN o.status[i] ELSE "NONE"

HeldReceipt(status) == IF status = "PENDING" THEN "UNCERTAIN" ELSE status

\* What becomes of row i of o, until it is approved.
FinalRow(o, i) ==
  [state |-> HeldState(o.status[i], o.applied[i]), applied |-> o.applied[i],
   approval |-> ~o.applied[i]]

\* After that: only approved rows have changed, and only those that wait.
Held(d, o, ap) ==
  /\ \A i \in Ids : d.queue[i].approval => i \in Rows(o)
  /\ \A i \in Rows(o) :
       /\ Exists(d, i)
       /\ i \notin ap => d.queue[i] = FinalRow(o, i) /\ d.receipt[i] = HeldReceipt(o.status[i])
       /\ i \in ap => ~o.applied[i] /\ o.status[i] = "NONE"

\* The markers say what has been done.
Marked(d, o, ap) ==
  /\ d.legacy_v136_migrated => NoNull(d)
  /\ d.delivery_lifecycle_v2_migrated =>
       d.legacy_v136_migrated /\ Numbered(d) /\ NoPlain(d) /\ Held(d, o, ap)
  /\ ~d.delivery_lifecycle_v2_migrated => Waiting(d, o)

LootKept(d, o) == o.version # "fresh" /\ Copied(d, o) => o.loot \cap CustomLoot \subseteq d.loot

Consistent(d, o, ap) == d \in Database /\ Marked(d, o, ap) /\ Unused(d) /\ LootKept(d, o)

\* What an execution by hand that has reached statement n has done.
Reached(n, d) ==
  /\ n > 2 => NoNull(d)
  /\ n > 5 => d.legacy_v136_migrated
  /\ n > 6 => Numbered(d)
  /\ n > 7 => NoPlain(d)

\* The inductive invariant.
Upgraded ==
  /\ TypeOK
  /\ Consistent(db, old, approved)
  /\ manual # 0 => Reached(manual, db)
  /\ (running \/ ready \/ request = "committed") => db.delivery_lifecycle_v2_migrated
  /\ ~db.delivery_lifecycle_v2_migrated => approved = {}
  /\ lost = 0

-----------------------------------------------------------------------------
(* Types *)

\* A finite set of row ids has a number above it: the sequence never hands out
\* an id in use after setval.
LEMMA AboveIsFree ==
  ASSUME NEW ids \in SUBSET Ids
  PROVE  Above(ids) \in Nat /\ \A i \in ids : i < Above(ids)
<1>1. CASE ids = {}
  BY <1>1 DEF Above
<1>2. CASE ids # {}
  <2> DEFINE gaps == {MaxId - i : i \in ids}
             less == {p \in Nat \X Nat : p[1] < p[2]}
  <2>1. gaps \subseteq Nat /\ gaps # {}
    <3>1. \A i \in ids : MaxId - i \in Nat
      BY IdsAssumption DEF Ids
    <3> QED BY <1>2, <3>1
  <2>2. IsWellFoundedOn(less, Nat)
    BY NatLessThanWellFounded DEF OpToRel
  <2>3. PICK g \in gaps : \A h \in gaps : ~(<<h, g>> \in less)
    <3> HIDE DEF gaps, less
    <3> QED BY <2>1, <2>2, WFMin
  <2>4. PICK m \in ids : g = MaxId - m
    BY <2>3
  <2>5. \A i \in ids : i <= m
    <3> SUFFICES ASSUME NEW i \in ids PROVE i <= m OBVIOUS
    <3>1. ~(<<MaxId - i, MaxId - m>> \in less)
      BY <2>3, <2>4
    <3>2. MaxId - i \in Nat /\ MaxId - m \in Nat
      BY IdsAssumption DEF Ids
    <3>3. ~(MaxId - i < MaxId - m)
      BY <3>1, <3>2
    <3> QED BY <3>3, IdsAssumption DEF Ids
  <2>6. \E x \in ids : \A i \in ids : i <= x
    BY <2>5
  <2>7. Above(ids) = 1 + CHOOSE x \in ids : \A i \in ids : i <= x
    BY <1>2 DEF Above
  <2> DEFINE top == CHOOSE x \in ids : \A i \in ids : i <= x
  <2>8. top \in ids /\ \A i \in ids : i <= top
    BY <2>6
  <2>9. top \in Nat /\ \A i \in ids : i \in Nat
    <3>1. \A i \in ids : i \in Nat
      BY DEF Ids
    <3> HIDE DEF top
    <3> QED BY <2>8, <3>1
  <2> QED BY <2>7, <2>8, <2>9
<1> QED BY <1>1, <1>2

\* A record of Database is well typed field by field, and back.
LEMMA DatabaseFields ==
  ASSUME NEW d \in Database
  PROVE  /\ d.tables \in BOOLEAN /\ d.queue \in [Ids -> Row] /\ d.receipt \in [Ids -> ReceiptStatus]
         /\ d.nextId \in Nat /\ d.config \in [Keys -> Nat \cup {Null}] /\ d.loot \in SUBSET Loot
         /\ d.legacy_v136_migrated \in BOOLEAN /\ d.delivery_lifecycle_v2_migrated \in BOOLEAN
BY DEF Database

-----------------------------------------------------------------------------
(* The statements of the script *)

\* A statement that leaves queue, receipts, sequence and markers alone, takes
\* no setting away and keeps the loot of the administrator.
LEMMA Furnishing ==
  ASSUME NEW o, NEW ap, NEW d, NEW e \in Database, Consistent(d, o, ap),
         e.queue = d.queue, e.receipt = d.receipt, e.nextId = d.nextId,
         e.legacy_v136_migrated = d.legacy_v136_migrated,
         e.delivery_lifecycle_v2_migrated = d.delivery_lifecycle_v2_migrated,
         NoNull(d) => NoNull(e), d.loot \cap CustomLoot \subseteq e.loot
  PROVE  Consistent(e, o, ap)
<1>1. \A i : Exists(e, i) <=> Exists(d, i)
  BY DEF Exists
<1>2. Copied(e, o) <=> Copied(d, o)
  BY DEF Copied
<1>3. Marked(e, o, ap)
  <2>1. (Numbered(e) <=> Numbered(d)) /\ (NoPlain(e) <=> NoPlain(d))
    BY <1>1 DEF Numbered, NoPlain
  <2>2. Held(e, o, ap) <=> Held(d, o, ap)
    BY <1>1 DEF Held
  <2>3. Waiting(e, o) <=> Waiting(d, o)
    BY <1>1, <1>2 DEF Waiting
  <2> QED BY <2>1, <2>2, <2>3 DEF Marked, Consistent
<1>4. LootKept(e, o)
  BY <1>2 DEF LootKept, Consistent
<1>5. Unused(e)
  BY <1>1 DEF Unused, Consistent
<1> QED BY <1>3, <1>4, <1>5 DEF Consistent

\* Creating the tables loses nothing and gives the script a place to work on.
LEMMA CreateTablesStep ==
  ASSUME NEW o, NEW ap, NEW d, Consistent(d, o, ap)
  PROVE  Consistent(CreateTables(d), o, ap) /\ Reached(2, CreateTables(d))
<1> DEFINE e == CreateTables(d)
<1>1. d \in Database
  BY DEF Consistent
<1>2. /\ e.queue = d.queue /\ e.receipt = d.receipt /\ e.nextId = d.nextId /\ e.config = d.config
      /\ e.loot = d.loot /\ e.legacy_v136_migrated = d.legacy_v136_migrated
      /\ e.delivery_lifecycle_v2_migrated = d.delivery_lifecycle_v2_migrated
      /\ e \in Database
  BY <1>1 DEF CreateTables, Database
<1>3. NoNull(d) => NoNull(e)
  BY <1>2 DEF NoNull
<1> HIDE DEF e
<1>4. Consistent(e, o, ap)
  BY <1>2, <1>3, Furnishing
<1>5. Reached(2, e)
  BY DEF Reached
<1> QED BY <1>4, <1>5 DEF e

\* Default settings fill what is missing and replace nothing.
LEMMA InsertDefaultsStep ==
  ASSUME NEW o, NEW ap, NEW d, Consistent(d, o, ap), Reached(2, d)
  PROVE  Consistent(InsertDefaults(d), o, ap) /\ Reached(3, InsertDefaults(d))
<1> DEFINE e == InsertDefaults(d)
<1>1. d \in Database
  BY DEF Consistent
<1>2. Default \in [Keys -> Nat]
  BY DEF Default
<1> DEFINE c == [k \in Keys |-> IF d.config[k] = Null THEN Default[k] ELSE d.config[k]]
<1>3. c \in [Keys -> Nat \cup {Null}]
  BY <1>1, <1>2 DEF Database
<1>4. \A k \in Keys : c[k] # Null
  BY <1>2, NullAssumption
<1>5. e = [d EXCEPT !.config = c]
  BY DEF InsertDefaults
<1> HIDE DEF c, e
<1>6. /\ e.queue = d.queue /\ e.receipt = d.receipt /\ e.nextId = d.nextId /\ e.config = c
      /\ e.loot = d.loot /\ e.legacy_v136_migrated = d.legacy_v136_migrated
      /\ e.delivery_lifecycle_v2_migrated = d.delivery_lifecycle_v2_migrated
      /\ e \in Database
  BY <1>1, <1>3, <1>5 DEF Database
<1>7. NoNull(e)
  BY <1>4, <1>6 DEF NoNull
<1>8. Consistent(e, o, ap)
  BY <1>6, <1>7, Furnishing
<1>9. Reached(3, e)
  BY <1>7 DEF Reached
<1> QED BY <1>8, <1>9 DEF e

\* Corrections touch the loot only.
LEMMA CorrectPoolsStep ==
  ASSUME NEW o, NEW ap, NEW d, Consistent(d, o, ap), Reached(3, d)
  PROVE  Consistent(CorrectPools(d), o, ap) /\ Reached(4, CorrectPools(d))
<1> DEFINE e == CorrectPools(d)
           moved == {<<c.to, c.item>> : c \in {x \in Corrections : <<x.from, x.item>> \in d.loot}}
           l == IF Collides(d) THEN d.loot ELSE (d.loot \ OldLoot) \cup moved
<1>1. d \in Database
  BY DEF Consistent
<1>2. moved \subseteq Loot
  BY DEF Loot, Generated
<1>3. l \subseteq Loot /\ d.loot \cap CustomLoot \subseteq l
  BY <1>1, <1>2, CustomLootAssumption DEF Database
<1>4. e = [d EXCEPT !.loot = l]
  <2>1. CASE Collides(d)
    <3>1. d = [d EXCEPT !.loot = d.loot]
      BY <1>1 DEF Database
    <3> QED BY <2>1, <3>1 DEF CorrectPools
  <2>2. CASE ~Collides(d)
    BY <2>2 DEF CorrectPools
  <2> QED BY <2>1, <2>2
<1> HIDE DEF e, l
<1>5. /\ e.queue = d.queue /\ e.receipt = d.receipt /\ e.nextId = d.nextId /\ e.config = d.config
      /\ e.loot = l /\ e.legacy_v136_migrated = d.legacy_v136_migrated
      /\ e.delivery_lifecycle_v2_migrated = d.delivery_lifecycle_v2_migrated
      /\ e \in Database
  BY <1>1, <1>3, <1>4 DEF Database
<1>6. NoNull(d) => NoNull(e)
  BY <1>5 DEF NoNull
<1>7. Consistent(e, o, ap)
  BY <1>3, <1>5, <1>6, Furnishing
<1>8. Reached(4, e)
  BY <1>6 DEF Reached
<1> QED BY <1>7, <1>8 DEF e

\* So do the generated inserts.
LEMMA InsertGeneratedStep ==
  ASSUME NEW o, NEW ap, NEW d, Consistent(d, o, ap), Reached(4, d)
  PROVE  Consistent(InsertGenerated(d), o, ap) /\ Reached(5, InsertGenerated(d))
<1> DEFINE e == InsertGenerated(d)
<1>1. d \in Database
  BY DEF Consistent
<1>2. d.loot \cup Generated \in SUBSET Loot
  BY <1>1 DEF Database, Loot
<1>3. /\ e.queue = d.queue /\ e.receipt = d.receipt /\ e.nextId = d.nextId /\ e.config = d.config
      /\ e.loot = d.loot \cup Generated /\ e.legacy_v136_migrated = d.legacy_v136_migrated
      /\ e.delivery_lifecycle_v2_migrated = d.delivery_lifecycle_v2_migrated
      /\ e \in Database
  BY <1>1, <1>2 DEF InsertGenerated, Database
<1>4. NoNull(d) => NoNull(e)
  BY <1>3 DEF NoNull
<1> HIDE DEF e
<1>5. Consistent(e, o, ap)
  BY <1>3, <1>4, Furnishing
<1>6. Reached(5, e)
  BY <1>4 DEF Reached
<1> QED BY <1>5, <1>6 DEF e

\* What Filled makes of a database that lacks the rows of o.
LEMMA FilledFields ==
  ASSUME NEW o \in Old, NEW d \in Database
  PROVE  /\ Filled(d, o) \in Database
         /\ \A i \in Ids : Filled(d, o).queue[i] =
              IF i \in Historical /\ ~Exists(d, i) THEN Plain(o.applied[i]) ELSE d.queue[i]
         /\ \A i \in Ids : Filled(d, o).receipt[i] =
              IF i \in Historical /\ d.receipt[i] = "NONE" THEN o.status[i] ELSE d.receipt[i]
         /\ Filled(d, o).config = d.config /\ Filled(d, o).loot = d.loot
         /\ Filled(d, o).nextId = d.nextId
         /\ Filled(d, o).legacy_v136_migrated = d.legacy_v136_migrated
         /\ Filled(d, o).delivery_lifecycle_v2_migrated = d.delivery_lifecycle_v2_migrated
<1> DEFINE q == [i \in Ids |-> IF i \in Historical /\ ~Exists(d, i)
                               THEN Plain(o.applied[i]) ELSE d.queue[i]]
           r == [i \in Ids |-> IF i \in Historical /\ d.receipt[i] = "NONE"
                               THEN o.status[i] ELSE d.receipt[i]]
<1>1. \A i \in Historical : Plain(o.applied[i]) \in Row
  BY DEF Old, Plain, Absent, Row
<1>2. q \in [Ids -> Row]
  BY <1>1 DEF Database
<1>3. r \in [Ids -> ReceiptStatus]
  BY DEF Database, Old
<1>4. Filled(d, o) = [d EXCEPT !.queue = q, !.receipt = r]
  BY DEF Filled
<1>5. /\ \A i \in Ids : q[i] = IF i \in Historical /\ ~Exists(d, i)
                               THEN Plain(o.applied[i]) ELSE d.queue[i]
      /\ \A i \in Ids : r[i] = IF i \in Historical /\ d.receipt[i] = "NONE"
                               THEN o.status[i] ELSE d.receipt[i]
  OBVIOUS
<1> HIDE DEF q, r
<1>6. Filled(d, o).queue = q /\ Filled(d, o).receipt = r
  BY <1>4 DEF Database
<1>7. /\ Filled(d, o) \in Database
      /\ Filled(d, o).config = d.config /\ Filled(d, o).loot = d.loot
      /\ Filled(d, o).nextId = d.nextId
      /\ Filled(d, o).legacy_v136_migrated = d.legacy_v136_migrated
      /\ Filled(d, o).delivery_lifecycle_v2_migrated = d.delivery_lifecycle_v2_migrated
  BY <1>2, <1>3, <1>4 DEF Database
<1> QED BY <1>5, <1>6, <1>7

\* A row that is filled in exists, and is as o left it.
LEMMA PlainFields ==
  ASSUME NEW b \in BOOLEAN
  PROVE  Plain(b).state = "PLAIN" /\ Plain(b).applied = b /\ Plain(b).approval = FALSE
BY DEF Plain, Absent

\* Where nothing of o has been copied, filling in leaves what o left.
LEMMA FillingWaits ==
  ASSUME NEW o \in Old, NEW d \in Database, NEW e \in Database,
         Waiting(d, o), Unused(d), ~Copied(d, o), Rows(o) = Historical, Copied(e, o),
         e.queue = Filled(d, o).queue, e.receipt = Filled(d, o).receipt
  PROVE  Waiting(e, o) /\ Unused(e)
<1>1. \A i \in Ids : ~Exists(d, i) /\ ~d.queue[i].approval
  BY DEF Waiting
<1>2. \A i \in Historical : i \in Ids /\ o.applied[i] \in BOOLEAN
  BY IdsAssumption DEF Old
<1>3. \A i \in Historical : e.queue[i] = Plain(o.applied[i])
  BY <1>1, <1>2, FilledFields
<1>4. \A i \in Ids \ Historical : e.queue[i] = d.queue[i]
  BY FilledFields
<1>5. \A i \in Historical : e.receipt[i] = o.status[i]
  <2> SUFFICES ASSUME NEW i \in Historical PROVE e.receipt[i] = o.status[i] OBVIOUS
  <2>1. d.receipt[i] = "NONE"
    BY DEF Waiting
  <2> QED BY <2>1, <1>2, FilledFields
<1>6. \A i \in Historical : /\ Exists(e, i) /\ e.queue[i].applied = o.applied[i]
                            /\ ~e.queue[i].approval
  BY <1>2, <1>3, PlainFields DEF Exists
<1>7. \A i \in Ids \ Historical : ~Exists(e, i) /\ ~e.queue[i].approval
  BY <1>1, <1>4 DEF Exists
<1>8. \A i \in Ids \ Historical : e.receipt[i] = d.receipt[i]
  BY FilledFields
<1>9. Unused(e)
  BY <1>1, <1>4, <1>6, <1>8 DEF Unused
<1> QED BY <1>5, <1>6, <1>7, <1>9 DEF Waiting

\* What a database holds for an earlier version is either already copied, or
\* not there at all.
LEMMA MarkingWaits ==
  ASSUME NEW o \in Old, NEW d \in Database, NEW e \in Database, Waiting(d, o),
         o.version # "1.3.6", Copied(e, o), e.queue = d.queue, e.receipt = d.receipt
  PROVE  Waiting(e, o)
<1>1. \A i : Exists(e, i) <=> Exists(d, i)
  BY DEF Exists
<1>2. CASE o.version = "1.3.7"
  BY <1>1, <1>2 DEF Waiting, Copied
<1>3. CASE o.version = "fresh"
  BY <1>1, <1>3 DEF Waiting, Rows
<1> QED BY <1>2, <1>3 DEF Old

\* Every row of version 1.3.6 is there after the copy, under its old id.
LEMMA CopyLegacyStep ==
  ASSUME NEW o \in Old, NEW ap, NEW d, Consistent(d, o, ap), Reached(5, d)
  PROVE  Consistent(CopyLegacy(d, o), o, ap) /\ Reached(6, CopyLegacy(d, o))
<1>1. d \in Database /\ NoNull(d)
  BY DEF Consistent, Reached
<1>2. CASE d.legacy_v136_migrated
  BY <1>1, <1>2 DEF CopyLegacy, Reached
<1>3. CASE ~d.legacy_v136_migrated
  <2> DEFINE e == CopyLegacy(d, o)
             c == [k \in Keys |-> IF o.config[k] = Null THEN d.config[k] ELSE o.config[k]]
             f == Filled(d, o)
  <2>1. ~d.delivery_lifecycle_v2_migrated /\ Waiting(d, o) /\ Unused(d)
    BY <1>1, <1>3, DatabaseFields DEF Consistent, Marked
  <2>2. /\ e \in Database /\ NoNull(e) /\ e.legacy_v136_migrated
        /\ ~e.delivery_lifecycle_v2_migrated /\ Waiting(e, o) /\ Unused(e) /\ LootKept(e, o)
    <3>1. CASE o.version = "1.3.6"
      <4>1. /\ f \in Database /\ f.config = d.config /\ f.loot = d.loot
            /\ f.delivery_lifecycle_v2_migrated = d.delivery_lifecycle_v2_migrated
        BY <1>1, FilledFields
      <4>2. c \in [Keys -> Nat \cup {Null}]
        BY <1>1 DEF Old, Database
      <4>3. \A k \in Keys : c[k] # Null
        BY <1>1 DEF NoNull
      <4>4. e = [[f EXCEPT !.config = c, !.loot = @ \cup o.loot] EXCEPT !.legacy_v136_migrated = TRUE]
        BY <1>3, <3>1 DEF CopyLegacy
      <4>5. f.loot \cup o.loot \in SUBSET Loot
        BY <4>1 DEF Old, Database
      <4> HIDE DEF c, e, f
      <4>6. /\ e \in Database /\ e.config = c /\ e.legacy_v136_migrated
            /\ e.loot = f.loot \cup o.loot /\ e.queue = f.queue /\ e.receipt = f.receipt
            /\ e.delivery_lifecycle_v2_migrated = f.delivery_lifecycle_v2_migrated
        BY <4>1, <4>2, <4>4, <4>5 DEF Database
      <4>7. NoNull(e)
        BY <4>3, <4>6 DEF NoNull
      <4>8. ~Copied(d, o) /\ Copied(e, o) /\ Rows(o) = Historical
        BY <1>3, <3>1, <4>6 DEF Copied, Rows
      <4>9. Waiting(e, o) /\ Unused(e)
        BY <1>1, <2>1, <4>6, <4>8, FillingWaits DEF f
      <4>10. LootKept(e, o)
        BY <4>6 DEF LootKept
      <4> QED BY <2>1, <4>1, <4>6, <4>7, <4>9, <4>10
    <3>2. CASE o.version # "1.3.6"
      <4>1. e = [d EXCEPT !.legacy_v136_migrated = TRUE]
        BY <1>3, <3>2 DEF CopyLegacy
      <4> HIDE DEF e
      <4>2. /\ e \in Database /\ e.config = d.config /\ e.legacy_v136_migrated
            /\ e.loot = d.loot /\ e.queue = d.queue /\ e.receipt = d.receipt
            /\ e.delivery_lifecycle_v2_migrated = d.delivery_lifecycle_v2_migrated
        BY <1>1, <4>1 DEF Database
      <4>3. NoNull(e) /\ Copied(e, o)
        BY <1>1, <4>2 DEF NoNull, Copied
      <4>4. Waiting(e, o)
        BY <1>1, <2>1, <3>2, <4>2, <4>3, MarkingWaits
      <4>6. Unused(e)
        BY <2>1, <4>2 DEF Unused, Exists
      <4>5. LootKept(e, o)
        BY <3>2, <4>2 DEF LootKept, Consistent, Copied, Old
      <4> QED BY <2>1, <4>2, <4>3, <4>4, <4>5, <4>6
    <3> QED BY <3>1, <3>2
  <2> HIDE DEF e
  <2>3. Consistent(e, o, ap) /\ Reached(6, e)
    BY <2>2 DEF Consistent, Marked, Reached
  <2> QED BY <2>3 DEF e
<1> QED BY <1>2, <1>3

\* A change of rows that keeps which rows there are, and what o left of them.
LEMMA WaitingOn ==
  ASSUME NEW o, NEW d, NEW e, Waiting(d, o),
         e.receipt = d.receipt, e.legacy_v136_migrated = d.legacy_v136_migrated,
         \A i \in Ids : /\ Exists(e, i) <=> Exists(d, i)
                        /\ e.queue[i].applied = d.queue[i].applied
                        /\ e.queue[i].approval = d.queue[i].approval,
         Rows(o) \subseteq Ids
  PROVE  Waiting(e, o)
<1>1. Copied(e, o) <=> Copied(d, o)
  BY DEF Copied
<1> QED BY <1>1 DEF Waiting

\* Historical rows have ids of the table.
LEMMA RowsAreIds == ASSUME NEW o PROVE Rows(o) \subseteq Ids
BY IdsAssumption DEF Rows

\* After it the ids from the sequence on are free.
LEMMA SetSequenceStep ==
  ASSUME NEW o, NEW ap, NEW d, Consistent(d, o, ap), Reached(6, d)
  PROVE  Consistent(SetSequence(d), o, ap) /\ Reached(7, SetSequence(d))
<1> DEFINE e == SetSequence(d)
           ids == {i \in Ids : Exists(d, i)}
<1>1. d \in Database /\ NoNull(d) /\ d.legacy_v136_migrated
  BY DEF Consistent, Reached
<1>2. Above(ids) \in Nat /\ \A i \in ids : i < Above(ids)
  BY AboveIsFree
<1>3. /\ e \in Database /\ e.nextId = Above(ids) /\ e.queue = d.queue /\ e.receipt = d.receipt
      /\ e.config = d.config /\ e.loot = d.loot
      /\ e.legacy_v136_migrated = d.legacy_v136_migrated
      /\ e.delivery_lifecycle_v2_migrated = d.delivery_lifecycle_v2_migrated
  BY <1>1, <1>2 DEF SetSequence, Database
<1>4. \A i : Exists(e, i) <=> Exists(d, i)
  BY <1>3 DEF Exists
<1>5. Numbered(e)
  BY <1>2, <1>3, <1>4 DEF Numbered
<1> HIDE DEF e
<1>6. NoNull(e) /\ (NoPlain(d) => NoPlain(e)) /\ (Held(d, o, ap) => Held(e, o, ap))
  BY <1>1, <1>3, <1>4 DEF NoNull, NoPlain, Held
<1>7. Waiting(d, o) => Waiting(e, o)
  BY <1>3, <1>4, RowsAreIds, WaitingOn
<1>8. LootKept(e, o) /\ Unused(e)
  BY <1>3, <1>4 DEF LootKept, Copied, Consistent, Unused
<1>9. Marked(e, o, ap)
  BY <1>1, <1>3, <1>5, <1>6, <1>7 DEF Marked, Consistent
<1>10. Consistent(e, o, ap) /\ Reached(7, e)
  BY <1>1, <1>3, <1>5, <1>6, <1>8, <1>9 DEF Consistent, Reached
<1> QED BY <1>10 DEF e

\* New columns give every row a state and hold none yet.
LEMMA AddLifecycleColumnsStep ==
  ASSUME NEW o, NEW ap, NEW d, Consistent(d, o, ap), Reached(7, d)
  PROVE  Consistent(AddLifecycleColumns(d), o, ap) /\ Reached(8, AddLifecycleColumns(d))
<1> DEFINE e == AddLifecycleColumns(d)
           q == [i \in Ids |-> IF d.queue[i].state = "PLAIN"
                               THEN [d.queue[i] EXCEPT !.state = "READY"] ELSE d.queue[i]]
<1>1. d \in Database /\ NoNull(d) /\ d.legacy_v136_migrated /\ Numbered(d)
  BY DEF Consistent, Reached
<1>2. \A i \in Ids : d.queue[i] \in Row
  BY <1>1, DatabaseFields
<1>3. \A i \in Ids : [d.queue[i] EXCEPT !.state = "READY"] \in Row
  BY <1>2 DEF Row, States
<1>4. q \in [Ids -> Row]
  BY <1>2, <1>3
<1>5. e = [d EXCEPT !.queue = q]
  BY DEF AddLifecycleColumns
<1>6. \A i \in Ids : /\ q[i].state # "PLAIN"
                     /\ q[i].state = "ABSENT" <=> d.queue[i].state = "ABSENT"
                     /\ q[i].applied = d.queue[i].applied
                     /\ q[i].approval = d.queue[i].approval
                     /\ d.queue[i].state # "PLAIN" => q[i] = d.queue[i]
  BY <1>2 DEF Row
<1> HIDE DEF e, q
<1>7. /\ e \in Database /\ e.nextId = d.nextId /\ e.queue = q /\ e.receipt = d.receipt
      /\ e.config = d.config /\ e.loot = d.loot
      /\ e.legacy_v136_migrated = d.legacy_v136_migrated
      /\ e.delivery_lifecycle_v2_migrated = d.delivery_lifecycle_v2_migrated
  BY <1>1, <1>4, <1>5 DEF Database
<1>8. \A i \in Ids : Exists(e, i) <=> Exists(d, i)
  BY <1>6, <1>7 DEF Exists
<1>9. NoNull(e) /\ NoPlain(e) /\ Numbered(e)
  BY <1>1, <1>6, <1>7, <1>8 DEF NoNull, NoPlain, Numbered
<1>10. NoPlain(d) /\ Held(d, o, ap) => Held(e, o, ap)
  BY <1>6, <1>7, <1>8, RowsAreIds DEF Held, NoPlain
<1>11. Waiting(d, o) => Waiting(e, o)
  BY <1>6, <1>7, <1>8, RowsAreIds, WaitingOn
<1>12. LootKept(e, o) /\ Unused(e)
  <2>1. \A i \in Ids : ~Exists(d, i) => q[i] = d.queue[i]
    BY <1>6 DEF Exists
  <2> QED BY <1>7, <1>8, <2>1 DEF LootKept, Copied, Consistent, Unused
<1>13. Marked(e, o, ap)
  BY <1>1, <1>7, <1>9, <1>10, <1>11 DEF Marked, Consistent
<1>14. Consistent(e, o, ap) /\ Reached(8, e)
  BY <1>1, <1>7, <1>9, <1>12, <1>13 DEF Consistent, Reached
<1> QED BY <1>14 DEF e

\* What becomes of a row that exists.
LEMMA HeldRowFields ==
  ASSUME NEW r \in Row, NEW s, r.state # "ABSENT"
  PROVE  HeldRow(s, r) = [state |-> HeldState(s, r.applied), applied |-> r.applied,
                          approval |-> ~r.applied]
<1>1. r = [state |-> r.state, applied |-> r.applied, approval |-> r.approval]
  BY DEF Row
<1>2. HeldRow(s, r) = [r EXCEPT !.state = HeldState(s, r.applied), !.approval = ~r.applied]
  BY DEF HeldRow
<1> HIDE DEF HeldState
<1> QED BY <1>1, <1>2

\* A historical row is never put into a state the daemon takes up at once.
LEMMA HeldStateTypes ==
  ASSUME NEW s, NEW b \in BOOLEAN
  PROVE  HeldState(s, b) \in States \ {"READY", "RETRY_WAIT", "DELIVERING"}
BY DEF HeldState, States

\* Rows are held when no reward of the new version has been queued yet, so
\* nothing but the rows of o is held, and nothing of o is approved.
LEMMA HoldHistoryStep ==
  ASSUME NEW o \in Old, NEW ap, NEW d, Consistent(d, o, ap), Reached(8, d),
         ~d.delivery_lifecycle_v2_migrated => ap = {}
  PROVE  Consistent(HoldHistory(d), o, ap) /\ Reached(9, HoldHistory(d))
         /\ HoldHistory(d).delivery_lifecycle_v2_migrated
<1>1. d \in Database /\ NoNull(d) /\ d.legacy_v136_migrated /\ Numbered(d) /\ NoPlain(d)
  BY DEF Consistent, Reached
<1>2. CASE d.delivery_lifecycle_v2_migrated
  BY <1>1, <1>2 DEF HoldHistory, Reached
<1>3. CASE ~d.delivery_lifecycle_v2_migrated
  <2> DEFINE e == HoldHistory(d)
             q == [i \in Ids |-> HeldRow(d.receipt[i], d.queue[i])]
             r == [i \in Ids |-> IF d.receipt[i] = "PENDING" THEN "UNCERTAIN" ELSE d.receipt[i]]
  <2>1. Waiting(d, o) /\ ap = {} /\ Copied(d, o)
    BY <1>1, <1>3 DEF Consistent, Marked, Copied
  <2>2. \A i \in Ids : d.queue[i] \in Row /\ d.receipt[i] \in ReceiptStatus
    BY <1>1, DatabaseFields
  <2>3. \A i \in Ids : ~Exists(d, i) => q[i] = d.queue[i]
    BY DEF HeldRow, Exists
  <2>4. \A i \in Ids : Exists(d, i) =>
          q[i] = [state |-> HeldState(d.receipt[i], d.queue[i].applied),
                  applied |-> d.queue[i].applied, approval |-> ~d.queue[i].applied]
    BY <2>2, HeldRowFields DEF Exists
  <2>5. \A i \in Ids : q[i] \in Row
    <3> SUFFICES ASSUME NEW i \in Ids PROVE q[i] \in Row OBVIOUS
    <3>1. d.queue[i].applied \in BOOLEAN
      BY <2>2 DEF Row
    <3>2. HeldState(d.receipt[i], d.queue[i].applied) \in States
      BY <3>1, HeldStateTypes
    <3> HIDE DEF q
    <3>3. CASE ~Exists(d, i)
      BY <2>2, <2>3, <3>3
    <3>4. CASE Exists(d, i)
      <4> DEFINE s == HeldState(d.receipt[i], d.queue[i].applied)
                 a == d.queue[i].applied
      <4>1. q[i] = [state |-> s, applied |-> a, approval |-> ~a]
        BY <2>4, <3>4
      <4>2. s \in States /\ a \in BOOLEAN
        BY <3>1, <3>2
      <4> HIDE DEF s, a
      <4> QED BY <4>1, <4>2 DEF Row
    <3> QED BY <3>3, <3>4
  <2>6. q \in [Ids -> Row]
    BY <2>5
  <2>7. r \in [Ids -> ReceiptStatus] /\ \A i \in Ids : r[i] = HeldReceipt(d.receipt[i])
    BY <2>2 DEF ReceiptStatus, HeldReceipt
  <2>8. e = [d EXCEPT !.queue = q, !.receipt = r, !.delivery_lifecycle_v2_migrated = TRUE]
    BY <1>3 DEF HoldHistory
  <2> HIDE DEF e, q, r
  <2>9. /\ e \in Database /\ e.nextId = d.nextId /\ e.queue = q /\ e.receipt = r
        /\ e.config = d.config /\ e.loot = d.loot
        /\ e.legacy_v136_migrated = d.legacy_v136_migrated
        /\ e.delivery_lifecycle_v2_migrated
    BY <1>1, <2>6, <2>7, <2>8 DEF Database
  <2>10. \A i \in Ids : Exists(d, i) => q[i].state \in States
    <3> SUFFICES ASSUME NEW i \in Ids, Exists(d, i) PROVE q[i].state \in States OBVIOUS
    <3>1. d.queue[i].applied \in BOOLEAN
      BY <2>2 DEF Row
    <3> DEFINE s == HeldState(d.receipt[i], d.queue[i].applied)
               a == d.queue[i].applied
    <3>2. q[i] = [state |-> s, applied |-> a, approval |-> ~a]
      BY <2>4
    <3>3. s \in States
      BY <3>1, HeldStateTypes
    <3> HIDE DEF s, a
    <3> QED BY <3>2, <3>3
  <2>11. \A i \in Ids : (Exists(e, i) <=> Exists(d, i)) /\ q[i].state # "PLAIN"
    BY <1>1, <2>3, <2>9, <2>10 DEF Exists, NoPlain, States
  <2>12. NoNull(e) /\ NoPlain(e) /\ Numbered(e)
    BY <1>1, <2>9, <2>11 DEF NoNull, NoPlain, Numbered
  <2>13. ASSUME NEW i \in Rows(o)
         PROVE  Exists(e, i) /\ e.queue[i] = FinalRow(o, i) /\ e.receipt[i] = HeldReceipt(o.status[i])
    <3>1. i \in Ids /\ i \in Historical
      BY IdsAssumption DEF Rows
    <3>2. Exists(d, i) /\ d.queue[i].applied = o.applied[i] /\ d.receipt[i] = o.status[i]
      BY <2>1, <3>1 DEF Waiting
    <3> QED BY <2>4, <2>7, <2>9, <2>11, <3>1, <3>2 DEF FinalRow
  <2>14. \A i \in Ids : e.queue[i].approval => i \in Rows(o)
    BY <2>1, <2>3, <2>9 DEF Waiting
  <2>15. Held(e, o, ap)
    BY <2>1, <2>13, <2>14 DEF Held
  <2>16. LootKept(e, o) /\ Unused(e)
    <3>1. \A i \in Ids : ~Exists(d, i) => r[i] = "NONE"
      BY <2>7 DEF Consistent, Unused, HeldReceipt
    <3> QED BY <2>3, <2>9, <2>11, <3>1 DEF LootKept, Copied, Consistent, Unused
  <2>17. Consistent(e, o, ap) /\ Reached(9, e)
    BY <1>1, <2>9, <2>12, <2>15, <2>16 DEF Consistent, Marked, Reached
  <2> QED BY <2>9, <2>17 DEF e
<1> QED BY <1>2, <1>3

\* Only HoldHistory writes the marker of the lifecycle migration.
LEMMA MarkerStays ==
  ASSUME NEW o \in Old, NEW d \in Database
  PROVE  \A e \in {CreateTables(d), InsertDefaults(d), CorrectPools(d), InsertGenerated(d),
                   CopyLegacy(d, o), SetSequence(d), AddLifecycleColumns(d)} :
           e.delivery_lifecycle_v2_migrated = d.delivery_lifecycle_v2_migrated
<1>1. CreateTables(d).delivery_lifecycle_v2_migrated = d.delivery_lifecycle_v2_migrated
  BY DEF Database, CreateTables
<1>2. InsertDefaults(d).delivery_lifecycle_v2_migrated = d.delivery_lifecycle_v2_migrated
  BY DEF Database, InsertDefaults
<1>3. CorrectPools(d).delivery_lifecycle_v2_migrated = d.delivery_lifecycle_v2_migrated
  BY DEF Database, CorrectPools
<1>4. InsertGenerated(d).delivery_lifecycle_v2_migrated = d.delivery_lifecycle_v2_migrated
  BY DEF Database, InsertGenerated
<1>5. CopyLegacy(d, o).delivery_lifecycle_v2_migrated = d.delivery_lifecycle_v2_migrated
  <2>1. /\ Filled(d, o).delivery_lifecycle_v2_migrated = d.delivery_lifecycle_v2_migrated
        /\ Filled(d, o) \in Database
    BY FilledFields
  <2> QED BY <2>1 DEF Database, CopyLegacy
<1>6. SetSequence(d).delivery_lifecycle_v2_migrated = d.delivery_lifecycle_v2_migrated
  BY DEF Database, SetSequence
<1>7. AddLifecycleColumns(d).delivery_lifecycle_v2_migrated = d.delivery_lifecycle_v2_migrated
  BY DEF Database, AddLifecycleColumns
<1> QED BY <1>1, <1>2, <1>3, <1>4, <1>5, <1>6, <1>7

\* One statement of an execution by hand.
LEMMA StatementStep ==
  ASSUME NEW o \in Old, NEW ap, NEW d, NEW n \in 1 .. Last, Consistent(d, o, ap), Reached(n, d),
         ~d.delivery_lifecycle_v2_migrated => ap = {}
  PROVE  /\ Consistent(Statement(n, d, o), o, ap)
         /\ n # Last => Reached(n + 1, Statement(n, d, o))
         /\ n = Last \/ d.delivery_lifecycle_v2_migrated =>
              Statement(n, d, o).delivery_lifecycle_v2_migrated
<1> d \in Database
  BY DEF Consistent
<1>1. n \in {1, 2, 3, 4, 5, 6, 7, 8}
  BY DEF Last
<1>2. CASE n = 1
  BY <1>2, CreateTablesStep, MarkerStays DEF Statement, Last
<1>3. CASE n = 2
  BY <1>3, InsertDefaultsStep, MarkerStays DEF Statement, Last
<1>4. CASE n = 3
  BY <1>4, CorrectPoolsStep, MarkerStays DEF Statement, Last
<1>5. CASE n = 4
  BY <1>5, InsertGeneratedStep, MarkerStays DEF Statement, Last
<1>6. CASE n = 5
  BY <1>6, CopyLegacyStep, MarkerStays DEF Statement, Last
<1>7. CASE n = 6
  BY <1>7, SetSequenceStep, MarkerStays DEF Statement, Last
<1>8. CASE n = 7
  BY <1>8, AddLifecycleColumnsStep, MarkerStays DEF Statement, Last
<1>9. CASE n = 8
  BY <1>9, HoldHistoryStep DEF Statement, Last
<1> QED BY <1>1, <1>2, <1>3, <1>4, <1>5, <1>6, <1>7, <1>8, <1>9

\* The whole script, from any database on.
LEMMA ScriptSteps ==
  ASSUME NEW o \in Old, NEW ap, NEW d, Consistent(d, o, ap),
         ~d.delivery_lifecycle_v2_migrated => ap = {}
  PROVE  /\ Consistent(Script(d, o), o, ap) /\ Reached(9, Script(d, o))
         /\ Script(d, o).delivery_lifecycle_v2_migrated
<1> DEFINE d1 == CreateTables(d)
           d2 == InsertDefaults(d1)
           d3 == CorrectPools(d2)
           d4 == InsertGenerated(d3)
           d5 == CopyLegacy(d4, o)
           d6 == SetSequence(d5)
           d7 == AddLifecycleColumns(d6)
<1>1. Script(d, o) = HoldHistory(d7)
  BY DEF Script
<1>2. Consistent(d1, o, ap) /\ Reached(2, d1)
  BY CreateTablesStep
<1>3. Consistent(d2, o, ap) /\ Reached(3, d2)
  <2> HIDE DEF d1
  <2> QED BY <1>2, InsertDefaultsStep
<1>4. Consistent(d3, o, ap) /\ Reached(4, d3)
  <2> HIDE DEF d2
  <2> QED BY <1>3, CorrectPoolsStep
<1>5. Consistent(d4, o, ap) /\ Reached(5, d4)
  <2> HIDE DEF d3
  <2> QED BY <1>4, InsertGeneratedStep
<1>6. Consistent(d5, o, ap) /\ Reached(6, d5)
  <2> HIDE DEF d4
  <2> QED BY <1>5, CopyLegacyStep
<1>7. Consistent(d6, o, ap) /\ Reached(7, d6)
  <2> HIDE DEF d5
  <2> QED BY <1>6, SetSequenceStep
<1>8. Consistent(d7, o, ap) /\ Reached(8, d7)
  <2> HIDE DEF d6
  <2> QED BY <1>7, AddLifecycleColumnsStep
<1>9. d7.delivery_lifecycle_v2_migrated = d.delivery_lifecycle_v2_migrated
  <2> HIDE DEF d1, d2, d3, d4, d5, d6, d7
  <2>1. {d, d1, d2, d3, d4, d5, d6} \subseteq Database
    BY <1>2, <1>3, <1>4, <1>5, <1>6, <1>7 DEF Consistent
  <2>2. d1.delivery_lifecycle_v2_migrated = d.delivery_lifecycle_v2_migrated
    BY <2>1, MarkerStays DEF d1
  <2>3. d2.delivery_lifecycle_v2_migrated = d1.delivery_lifecycle_v2_migrated
    BY <2>1, MarkerStays DEF d2
  <2>4. d3.delivery_lifecycle_v2_migrated = d2.delivery_lifecycle_v2_migrated
    BY <2>1, MarkerStays DEF d3
  <2>5. d4.delivery_lifecycle_v2_migrated = d3.delivery_lifecycle_v2_migrated
    BY <2>1, MarkerStays DEF d4
  <2>6. d5.delivery_lifecycle_v2_migrated = d4.delivery_lifecycle_v2_migrated
    BY <2>1, MarkerStays DEF d5
  <2>7. d6.delivery_lifecycle_v2_migrated = d5.delivery_lifecycle_v2_migrated
    BY <2>1, MarkerStays DEF d6
  <2>8. d7.delivery_lifecycle_v2_migrated = d6.delivery_lifecycle_v2_migrated
    BY <2>1, MarkerStays DEF d7
  <2> QED BY <2>2, <2>3, <2>4, <2>5, <2>6, <2>7, <2>8
<1> HIDE DEF d7
<1> QED BY <1>1, <1>8, <1>9, HoldHistoryStep

-----------------------------------------------------------------------------
(* The beginning *)

\* A server without the addon is a database.
LEMMA EmptyTypes == Empty \in Database
<1>1. Absent \in Row
  BY DEF Absent, Row
<1> QED BY <1>1 DEF Empty, Database, ReceiptStatus

\* What an earlier version leaves is consistent: rows of version 1.3.7 are
\* there, rows of version 1.3.6 are not yet.
LEMMA BeforeIsConsistent ==
  ASSUME NEW o \in Old
  PROVE  Consistent(Before(o), o, {}) /\ ~Before(o).delivery_lifecycle_v2_migrated
<1> DEFINE e == Before(o)
           f == Filled(Empty, o)
<1>1. /\ \A i \in Ids : Empty.queue[i] = Absent /\ ~Exists(Empty, i) /\ Empty.receipt[i] = "NONE"
      /\ ~Empty.legacy_v136_migrated /\ ~Empty.delivery_lifecycle_v2_migrated
      /\ Absent.state = "ABSENT" /\ ~Absent.approval
  BY DEF Empty, Exists, Absent
<1>2. Historical \subseteq Ids
  BY IdsAssumption
<1>3. CASE o.version # "1.3.7"
  <2>1. e = Empty /\ ~Copied(e, o)
    BY <1>1, <1>3 DEF Before, Copied
  <2>2. Waiting(e, o)
    BY <1>1, <1>2, <2>1 DEF Waiting
  <2>3. LootKept(e, o)
    BY <2>1 DEF LootKept
  <2>4. Unused(e)
    BY <1>1, <2>1 DEF Unused
  <2> QED BY <1>1, <2>1, <2>2, <2>3, <2>4, EmptyTypes DEF Consistent, Marked
<1>4. CASE o.version = "1.3.7"
  <2>1. /\ f \in Database /\ ~f.legacy_v136_migrated /\ ~f.delivery_lifecycle_v2_migrated
        /\ \A i \in Historical : f.queue[i] = Plain(o.applied[i]) /\ f.receipt[i] = o.status[i]
        /\ \A i \in Ids \ Historical : f.queue[i] = Absent /\ f.receipt[i] = "NONE"
    BY <1>1, <1>2, EmptyTypes, FilledFields
  <2>2. Above(Historical) \in Nat
    BY <1>2, AboveIsFree
  <2>3. o.config \in [Keys -> Nat \cup {Null}] /\ o.loot \in SUBSET Loot
    BY DEF Old
  <2>4. e = [f EXCEPT !.tables = TRUE, !.nextId = Above(Historical), !.config = o.config, !.loot = o.loot]
    BY <1>4 DEF Before
  <2> HIDE DEF e, f
  <2>5. /\ e \in Database /\ e.queue = f.queue /\ e.receipt = f.receipt /\ e.loot = o.loot
        /\ ~e.legacy_v136_migrated /\ ~e.delivery_lifecycle_v2_migrated
    BY <2>1, <2>2, <2>3, <2>4 DEF Database
  <2>6. \A i \in Historical : o.applied[i] \in BOOLEAN
    BY DEF Old
  <2>7. \A i \in Historical : /\ Exists(e, i) /\ e.queue[i].applied = o.applied[i]
                              /\ ~e.queue[i].approval
    BY <2>1, <2>5, <2>6, PlainFields DEF Exists
  <2>8. \A i \in Ids \ Historical : ~Exists(e, i) /\ ~e.queue[i].approval
    BY <1>1, <2>1, <2>5 DEF Exists
  <2>9. Rows(o) = Historical /\ Copied(e, o)
    BY <1>4 DEF Rows, Copied
  <2>10. Waiting(e, o)
    BY <2>1, <2>5, <2>7, <2>8, <2>9 DEF Waiting
  <2>11. LootKept(e, o)
    BY <2>5 DEF LootKept
  <2>12. Unused(e)
    BY <2>1, <2>5, <2>7 DEF Unused
  <2> QED BY <2>5, <2>10, <2>11, <2>12 DEF Consistent, Marked, e
<1> QED BY <1>3, <1>4

\* What an earlier version left satisfies the invariant.
LEMMA InitUpgraded == Init => Upgraded
<1> SUFFICES ASSUME Init PROVE Upgraded OBVIOUS
<1>1. old \in Old
  BY UpgradeAssumption DEF Init
<1>2. Consistent(db, old, approved) /\ ~db.delivery_lifecycle_v2_migrated
  BY <1>1, BeforeIsConsistent DEF Init
<1>3. Opened \in Page
  BY DEF Opened, Page, Form, Blank, Default
<1>4. /\ manual \in 0 .. Last /\ unheeded \in 0 .. MaxUnheeded
      /\ request \in {"none", "sent", "committed", "failed"}
  BY UpgradeAssumption DEF Init, Last
<1>5. db \in Database /\ ready \in BOOLEAN /\ running \in BOOLEAN
  <2>1. db \in Database
    BY <1>2 DEF Consistent
  <2>2. ready \in BOOLEAN
    BY DEF Init
  <2>3. running \in BOOLEAN
    BY DEF Init
  <2> QED BY <2>1, <2>2, <2>3
<1>6. page \in Page /\ approved \subseteq Ids /\ lost \in Nat
  BY <1>3 DEF Init
<1>7. TypeOK
  BY <1>1, <1>4, <1>5, <1>6 DEF TypeOK
<1> QED BY <1>2, <1>7 DEF Init, Upgraded

-----------------------------------------------------------------------------
(* Execution *)

\* A statement executed by hand relies on those before it.
LEMMA ManualStepUpgraded == Upgraded /\ ManualStep => Upgraded'
<1> SUFFICES ASSUME Upgraded, ManualStep PROVE Upgraded' OBVIOUS
<1>1. manual \in 1 .. Last /\ old \in Old
  BY DEF Upgraded, TypeOK, ManualStep, Last
<1>2. /\ Consistent(db', old, approved)
      /\ manual # Last => Reached(manual + 1, db')
      /\ manual = Last \/ db.delivery_lifecycle_v2_migrated => db'.delivery_lifecycle_v2_migrated
  BY <1>1, StatementStep DEF Upgraded, ManualStep
<1>3. /\ old' = old /\ request' = request /\ unheeded' = unheeded /\ running' = running
      /\ approved' = approved /\ lost' = lost /\ page' = page
      /\ manual' = IF manual = Last THEN 0 ELSE manual + 1
      /\ ready' = (manual = Last)
  BY DEF ManualStep, servers
<1>4. manual' \in 0 .. Last
  BY <1>1, <1>3 DEF Last
<1>5. db' \in Database
  BY <1>2 DEF Consistent
<1>6. TypeOK'
  BY <1>3, <1>4, <1>5 DEF Upgraded, TypeOK
<1>7. manual' # 0 => Reached(manual', db')
  BY <1>2, <1>3
<1> QED BY <1>2, <1>3, <1>6, <1>7 DEF Upgraded

\* A script in one transaction is the composition of its statements.
LEMMA ScriptCommitsUpgraded == Upgraded /\ ScriptCommits => Upgraded'
<1> SUFFICES ASSUME Upgraded, ScriptCommits PROVE Upgraded' OBVIOUS
<1>1. old \in Old /\ db' = Script(db, old)
  BY DEF Upgraded, TypeOK, ScriptCommits
<1>2. Consistent(db', old, approved) /\ Reached(9, db') /\ db'.delivery_lifecycle_v2_migrated
  BY <1>1, ScriptSteps DEF Upgraded
<1>3. /\ old' = old /\ manual' = manual /\ ready' = ready /\ running' = running
      /\ approved' = approved /\ lost' = lost /\ page' = page
  BY DEF ScriptCommits, servers
<1>4. request' \in {"none", "sent", "committed", "failed"} /\ unheeded' \in 0 .. MaxUnheeded
  BY UpgradeAssumption DEF ScriptCommits, Upgraded, TypeOK
<1>5. db' \in Database
  BY <1>2 DEF Consistent
<1>6. TypeOK'
  BY <1>3, <1>4, <1>5 DEF Upgraded, TypeOK
<1>7. Reached(manual, db')
  <2>1. manual \in 0 .. Last
    BY DEF Upgraded, TypeOK
  <2> QED BY <1>2, <2>1 DEF Reached
<1> QED BY <1>2, <1>3, <1>6, <1>7 DEF Upgraded

\* The steps that leave the database alone.
LEMMA OtherStepsUpgraded ==
  ASSUME Upgraded,
         \/ ManualStart \/ ManualAbort
         \/ handleInitializeSchema \/ ScriptFails \/ initSucceeds \/ initFails \/ initTimesOut
         \/ Start \/ Stop
  PROVE  Upgraded'
<1>1. /\ db' = db /\ old' = old /\ approved' = approved /\ lost' = lost
      /\ manual' \in {0, 1, manual} /\ (manual' # manual => manual' = 0 \/ Reached(manual', db))
  <2>1. Reached(1, db)
    BY DEF Reached
  <2> QED BY <2>1 DEF ManualStart, ManualAbort, handleInitializeSchema, ScriptFails, initSucceeds,
                      initFails, initTimesOut, Start, Stop, servers, execution
<1>2. request' \in {"none", "sent", "committed", "failed"} /\ unheeded' \in 0 .. MaxUnheeded
  BY UpgradeAssumption DEF Upgraded, TypeOK, ManualStart, ManualAbort, handleInitializeSchema, ScriptFails,
     initSucceeds, initFails, initTimesOut, Start, Stop, servers, execution
<1>3. page' \in Page
  BY DEF Upgraded, TypeOK, Page, Keys, ManualStart, ManualAbort, handleInitializeSchema, ScriptFails,
     initSucceeds, initFails, initTimesOut, Start, Stop, servers, execution
<1>4. ready' \in BOOLEAN /\ running' \in BOOLEAN
  BY DEF Upgraded, TypeOK, ManualStart, ManualAbort, handleInitializeSchema, ScriptFails,
     initSucceeds, initFails, initTimesOut, Start, Stop, servers, execution
<1>5. running' \/ ready' \/ request' = "committed" => running \/ ready \/ request = "committed"
  BY DEF Upgraded, TypeOK, ManualStart, ManualAbort, handleInitializeSchema, ScriptFails,
     initSucceeds, initFails, initTimesOut, Start, Stop, servers, execution
<1>6. manual' \in 0 .. Last
  BY <1>1 DEF Upgraded, TypeOK, Last
<1>7. TypeOK'
  BY <1>1, <1>2, <1>3, <1>4, <1>6 DEF Upgraded, TypeOK
<1> QED BY <1>1, <1>5, <1>7 DEF Upgraded

-----------------------------------------------------------------------------
(* The settings page *)

\* What the form shows is a number, whatever the database holds.
LEMMA ShownTypes ==
  ASSUME NEW k \in Keys, NEW v \in Nat \cup {Null}
  PROVE  Shown(k, v) \in Nat
BY DEF Shown, Default

\* Writing a setting disturbs neither rows nor markers.
LEMMA SavingUpgraded ==
  ASSUME Upgraded, NEW k \in Keys, NEW v \in Nat, db' = [db EXCEPT !.config[k] = v],
         page' \in Page, UNCHANGED <<old, execution, servers>>
  PROVE  Upgraded'
<1>1. db \in Database /\ old \in Old
  BY DEF Upgraded, TypeOK
<1> DEFINE c == [db.config EXCEPT ![k] = v]
<1>2. c \in [Keys -> Nat \cup {Null}] /\ (NoNull(db) => \A j \in Keys : c[j] # Null)
  BY <1>1, NullAssumption DEF Database, NoNull
<1>3. db' = [db EXCEPT !.config = c]
  BY <1>1 DEF Database
<1> HIDE DEF c
<1>4. /\ db' \in Database /\ db'.config = c /\ db'.queue = db.queue /\ db'.receipt = db.receipt
      /\ db'.nextId = db.nextId /\ db'.loot = db.loot
      /\ db'.legacy_v136_migrated = db.legacy_v136_migrated
      /\ db'.delivery_lifecycle_v2_migrated = db.delivery_lifecycle_v2_migrated
  BY <1>1, <1>2, <1>3 DEF Database
<1>5. NoNull(db) => NoNull(db')
  BY <1>2, <1>4 DEF NoNull
<1>6. Consistent(db', old, approved)
  BY <1>4, <1>5, Furnishing DEF Upgraded
<1>7. Reached(manual, db) => Reached(manual, db')
  BY <1>4, <1>5 DEF Reached, Numbered, NoPlain, Exists
<1>8. TypeOK'
  BY <1>4 DEF Upgraded, TypeOK, execution, servers
<1> QED BY <1>4, <1>6, <1>7, <1>8 DEF Upgraded, execution, servers

\* Reading settings, and deciding to save them, touches the page only.
LEMMA PageStepsUpgraded ==
  ASSUME Upgraded, page' \in Page, UNCHANGED <<db, old, execution, servers>>
  PROVE  Upgraded'
<1>1. TypeOK'
  BY DEF Upgraded, TypeOK, execution, servers
<1> QED BY <1>1 DEF Upgraded, execution, servers

\* The settings page changes settings only.
LEMMA SettingsUpgraded == Upgraded /\ Settings => Upgraded'
<1> SUFFICES ASSUME Upgraded, Settings PROVE Upgraded' OBVIOUS
<1>1. /\ page \in Page /\ ready \in BOOLEAN
      /\ "airdrop_multipliers" \in Keys /\ "airdrop_economy" \in Keys
      /\ db.config["airdrop_multipliers"] \in Nat \cup {Null}
      /\ db.config["airdrop_economy"] \in Nat \cup {Null}
  BY DatabaseFields DEF Upgraded, TypeOK, Keys
<1>2. /\ Shown("airdrop_multipliers", db.config["airdrop_multipliers"]) \in Nat
      /\ Shown("airdrop_economy", db.config["airdrop_economy"]) \in Nat
  BY <1>1, ShownTypes
<1>3. Blank \in Form
  BY DEF Blank, Form, Default
<1>4. Opened \in Page /\ [Opened EXCEPT !.load = "airdrop_multipliers"] \in Page
  BY <1>1, <1>3 DEF Opened, Page
<1>5. CASE openPage
  <2>1. page' \in Page
    BY <1>4, <1>5 DEF openPage
  <2> QED BY <1>5, <2>1, PageStepsUpgraded DEF openPage
<1>6. CASE loadMultipliers
  <2> DEFINE v == Shown("airdrop_multipliers", db.config["airdrop_multipliers"])
  <2>1. [page.form EXCEPT !["airdrop_multipliers"] = v] \in Form
    BY <1>1, <1>2 DEF Form, Page
  <2>2. page' = [page EXCEPT !.form = [page.form EXCEPT !["airdrop_multipliers"] = v],
                             !.load = "airdrop_economy", !.current = ready]
    BY <1>1, <1>6 DEF loadMultipliers, Page
  <2>3. page' \in Page
    BY <1>1, <2>1, <2>2 DEF Page
  <2> QED BY <1>6, <2>3, PageStepsUpgraded DEF loadMultipliers
<1>7. CASE loadEconomy
  <2> DEFINE v == Shown("airdrop_economy", db.config["airdrop_economy"])
  <2>1. [page.form EXCEPT !["airdrop_economy"] = v] \in Form
    BY <1>1, <1>2 DEF Form, Page
  <2>2. page' = [page EXCEPT !.form = [page.form EXCEPT !["airdrop_economy"] = v], !.load = "none"]
    BY <1>1, <1>7 DEF loadEconomy, Page
  <2>3. page' \in Page
    BY <1>1, <2>1, <2>2 DEF Page
  <2> QED BY <1>7, <2>3, PageStepsUpgraded DEF loadEconomy
<1>8. CASE loadFails
  <2>1. page' \in Page
    BY <1>1, <1>8 DEF loadFails, Page
  <2> QED BY <1>8, <2>1, PageStepsUpgraded DEF loadFails
<1>9. CASE handleSaveAllSettings
  <2>1. page' \in Page
    BY <1>1, <1>9 DEF handleSaveAllSettings, Page
  <2> QED BY <1>9, <2>1, PageStepsUpgraded DEF handleSaveAllSettings
<1>10. CASE saveFails
  <2>1. page' \in Page
    BY <1>1, <1>3, <1>10 DEF saveFails, Page
  <2> QED BY <1>10, <2>1, PageStepsUpgraded DEF saveFails
<1>11. page.payload["airdrop_economy"] \in Nat /\ page.payload["airdrop_multipliers"] \in Nat
  BY <1>1 DEF Page, Form
<1>12. CASE saveEconomy
  <2>1. page' \in Page
    BY <1>1, <1>12 DEF saveEconomy, Page
  <2>2. db' = [db EXCEPT !.config["airdrop_economy"] = page.payload["airdrop_economy"]]
    BY <1>12 DEF saveEconomy
  <2> QED BY <1>1, <1>11, <1>12, <2>1, <2>2, SavingUpgraded DEF saveEconomy
<1>13. CASE saveMultipliers
  <2>1. page' \in Page
    BY <1>1, <1>3, <1>13 DEF saveMultipliers, Page
  <2>2. db' = [db EXCEPT !.config["airdrop_multipliers"] = page.payload["airdrop_multipliers"]]
    BY <1>13 DEF saveMultipliers
  <2> QED BY <1>1, <1>11, <1>13, <2>1, <2>2, SavingUpgraded DEF saveMultipliers
<1> QED BY <1>5, <1>6, <1>7, <1>8, <1>9, <1>10, <1>12, <1>13 DEF Settings

-----------------------------------------------------------------------------
(* The servers *)

\* A change of one row of a database whose rows have been held.  The others
\* stay as they are; what may become of the row is for the caller to say.
LEMMA RowStep ==
  ASSUME NEW o \in Old, NEW ap, NEW bp, NEW d \in Database, NEW e \in Database, NEW i \in Ids,
         Consistent(d, o, ap), d.delivery_lifecycle_v2_migrated,
         \A j \in Ids \ {i} : e.queue[j] = d.queue[j] /\ e.receipt[j] = d.receipt[j],
         e.config = d.config, e.loot = d.loot,
         e.legacy_v136_migrated = d.legacy_v136_migrated,
         e.delivery_lifecycle_v2_migrated = d.delivery_lifecycle_v2_migrated,
         e.queue[i].state \notin {"ABSENT", "PLAIN"}, ~e.queue[i].approval,
         i \in Rows(o) => i \in bp /\ ~o.applied[i] /\ o.status[i] = "NONE",
         ap \subseteq bp, bp \subseteq ap \cup {i},
         i < e.nextId, d.nextId <= e.nextId
  PROVE  Consistent(e, o, bp)
<1>1. \A j \in Ids \ {i} : Exists(e, j) <=> Exists(d, j)
  BY DEF Exists
<1>2. Exists(e, i)
  BY DEF Exists
<1>3. Held(d, o, ap) /\ Numbered(d) /\ NoPlain(d) /\ NoNull(d) /\ d.legacy_v136_migrated
  BY DEF Consistent, Marked
<1>4. Held(e, o, bp)
  BY <1>1, <1>2, <1>3, RowsAreIds DEF Held
<1>5. Numbered(e)
  <2> SUFFICES ASSUME NEW j \in Ids, Exists(e, j) PROVE j < e.nextId BY DEF Numbered
  <2>1. CASE j = i
    BY <2>1
  <2>2. CASE j # i
    <3>1. j < d.nextId /\ j \in Nat /\ d.nextId \in Nat /\ e.nextId \in Nat
      BY <1>1, <1>3, <2>2, DatabaseFields DEF Numbered, Ids
    <3> QED BY <3>1
  <2> QED BY <2>1, <2>2
<1>6. NoPlain(e)
  BY <1>3 DEF NoPlain
<1>7. NoNull(e)
  BY <1>3 DEF NoNull
<1>8. LootKept(e, o) /\ Unused(e)
  BY <1>1, <1>2 DEF LootKept, Copied, Consistent, Unused
<1> QED BY <1>3, <1>4, <1>5, <1>6, <1>7, <1>8 DEF Consistent, Marked

\* What the caller need not say: Upgraded asks nothing else of a step that
\* changes rows after the lifecycle migration.
LEMMA RowStepUpgraded ==
  ASSUME Upgraded, db.delivery_lifecycle_v2_migrated, db'.delivery_lifecycle_v2_migrated,
         db' \in Database, Consistent(db', old, approved'), approved' \subseteq Ids, lost' = 0,
         UNCHANGED <<old, execution, running, page>>
  PROVE  Upgraded'
<1>1. TypeOK'
  BY DEF Upgraded, TypeOK, execution
<1>2. Reached(manual, db')
  BY DEF Consistent, Marked, Reached
<1> QED BY <1>1, <1>2 DEF Upgraded, execution

\* No reward of the new version finds its id taken.
LEMMA queueRewardUpgraded == Upgraded /\ queueReward => Upgraded' /\ lost' = 0
<1> SUFFICES ASSUME Upgraded, queueReward PROVE Upgraded' /\ lost' = 0 OBVIOUS
<1> DEFINE i == db.nextId
           r == [Absent EXCEPT !.state = "READY"]
<1>1. /\ db \in Database /\ old \in Old /\ Consistent(db, old, approved) /\ i \in Ids
      /\ db.delivery_lifecycle_v2_migrated /\ Numbered(db) /\ Held(db, old, approved)
      /\ approved \subseteq Ids /\ lost = 0
  BY DEF Upgraded, TypeOK, queueReward, Consistent, Marked
<1>2. i \in Nat /\ ~Exists(db, i)
  BY <1>1 DEF Numbered, Ids
<1>3. /\ db' = [db EXCEPT !.nextId = @ + 1, !.queue[i] = r]
      /\ lost' = lost /\ approved' = approved /\ UNCHANGED <<old, execution, running, page>>
  BY <1>2 DEF queueReward
<1>4. r \in Row /\ r.state = "READY" /\ ~r.approval
  BY DEF Absent, Row, States
<1> DEFINE q == [db.queue EXCEPT ![i] = r]
<1>5. q \in [Ids -> Row] /\ q[i] = r /\ \A j \in Ids \ {i} : q[j] = db.queue[j]
  BY <1>1, <1>4, DatabaseFields
<1>6. db' = [db EXCEPT !.nextId = i + 1, !.queue = q]
  BY <1>1, <1>3 DEF Database
<1> HIDE DEF q, r
<1>7. /\ db' \in Database /\ db'.queue = q /\ db'.nextId = i + 1 /\ db'.receipt = db.receipt
      /\ db'.config = db.config /\ db'.loot = db.loot
      /\ db'.legacy_v136_migrated = db.legacy_v136_migrated
      /\ db'.delivery_lifecycle_v2_migrated = db.delivery_lifecycle_v2_migrated
  <2> DEFINE n == i + 1
  <2>1. n \in Nat
    BY <1>2
  <2> HIDE DEF n, i
  <2>2. db' = [db EXCEPT !.nextId = n, !.queue = q]
    BY <1>6 DEF n
  <2>3. /\ db' \in Database /\ db'.queue = q /\ db'.nextId = n /\ db'.receipt = db.receipt
        /\ db'.config = db.config /\ db'.loot = db.loot
        /\ db'.legacy_v136_migrated = db.legacy_v136_migrated
        /\ db'.delivery_lifecycle_v2_migrated = db.delivery_lifecycle_v2_migrated
    BY <1>1, <1>5, <2>1, <2>2 DEF Database
  <2> QED BY <2>3 DEF n
<1>8. i \notin Rows(old)
  BY <1>1, <1>2 DEF Held
<1>9. i < db'.nextId /\ db.nextId <= db'.nextId
  BY <1>2, <1>7
<1> HIDE DEF i
<1>10. Consistent(db', old, approved)
  BY <1>1, <1>4, <1>5, <1>7, <1>8, <1>9, RowStep
<1> QED BY <1>1, <1>3, <1>7, <1>10, RowStepUpgraded

\* A row that o left and nobody has approved is never offered to a daemon.
LEMMA FinalRowWaits ==
  ASSUME NEW o \in Old, NEW i \in Rows(o)
  PROVE  ~Dispatchable(FinalRow(o, i))
<1>1. o.applied[i] \in BOOLEAN
  BY DEF Old, Rows
<1> QED BY <1>1 DEF Dispatchable, FinalRow

\* Deliveries take up new or approved rows only.
LEMMA deliverUpgraded == ASSUME Upgraded, NEW i \in Ids, deliver(i) PROVE Upgraded'
<1>1. /\ db \in Database /\ old \in Old /\ Consistent(db, old, approved)
      /\ db.delivery_lifecycle_v2_migrated /\ Numbered(db) /\ Held(db, old, approved)
      /\ approved \subseteq Ids /\ lost = 0
  BY DEF Upgraded, TypeOK, deliver, Consistent, Marked
<1>2. i \in Rows(old) => i \in approved /\ ~old.applied[i] /\ old.status[i] = "NONE"
  BY <1>1, FinalRowWaits DEF Held, deliver
<1>3. db.queue[i] \in Row /\ ~db.queue[i].approval /\ Exists(db, i)
  BY <1>1, DatabaseFields DEF deliver, Dispatchable, Exists
<1>4. i < db.nextId /\ db.nextId <= db.nextId
  BY <1>1, <1>3, DatabaseFields DEF Numbered
<1>5. PICK r \in Row, s \in {"SUCCESS", "PENDING"} :
        /\ r.state \notin {"ABSENT", "PLAIN"} /\ ~r.approval
        /\ db' = [db EXCEPT !.queue = [db.queue EXCEPT ![i] = r],
                            !.receipt = [db.receipt EXCEPT ![i] = s]]
  <2> DEFINE r1 == [db.queue[i] EXCEPT !.state = "DELIVERED", !.applied = TRUE]
             r2 == [db.queue[i] EXCEPT !.state = "DELIVERING"]
  <2>1. /\ r1 \in Row /\ r1.state = "DELIVERED" /\ r1.approval = db.queue[i].approval
        /\ r2 \in Row /\ r2.state = "DELIVERING" /\ r2.approval = db.queue[i].approval
    BY <1>3 DEF Row, States
  <2>2. \/ db' = [db EXCEPT !.queue = [db.queue EXCEPT ![i] = r1],
                            !.receipt = [db.receipt EXCEPT ![i] = "SUCCESS"]]
        \/ db' = [db EXCEPT !.queue = [db.queue EXCEPT ![i] = r2],
                            !.receipt = [db.receipt EXCEPT ![i] = "PENDING"]]
    BY <1>1 DEF deliver, Database
  <2> HIDE DEF r1, r2
  <2> QED BY <1>3, <2>1, <2>2
<1> DEFINE q == [db.queue EXCEPT ![i] = r]
           c == [db.receipt EXCEPT ![i] = s]
<1>6. /\ q \in [Ids -> Row] /\ q[i] = r /\ \A j \in Ids \ {i} : q[j] = db.queue[j]
      /\ c \in [Ids -> ReceiptStatus] /\ \A j \in Ids \ {i} : c[j] = db.receipt[j]
  BY <1>1, DatabaseFields DEF ReceiptStatus
<1>7. db' = [db EXCEPT !.queue = q, !.receipt = c]
  BY <1>5
<1> HIDE DEF q, c
<1>8. /\ db' \in Database /\ db'.queue = q /\ db'.nextId = db.nextId /\ db'.receipt = c
      /\ db'.config = db.config /\ db'.loot = db.loot
      /\ db'.legacy_v136_migrated = db.legacy_v136_migrated
      /\ db'.delivery_lifecycle_v2_migrated = db.delivery_lifecycle_v2_migrated
  BY <1>1, <1>6, <1>7 DEF Database
<1>9. Consistent(db', old, approved)
  <2>1. /\ db'.queue[i].state \notin {"ABSENT", "PLAIN"} /\ ~db'.queue[i].approval
        /\ \A j \in Ids \ {i} : db'.queue[j] = db.queue[j] /\ db'.receipt[j] = db.receipt[j]
        /\ i < db'.nextId /\ db.nextId <= db'.nextId
    BY <1>4, <1>5, <1>6, <1>8
  <2>2. approved \subseteq approved /\ approved \subseteq approved \cup {i}
    OBVIOUS
  <2> QED BY <1>1, <1>2, <1>8, <2>1, <2>2, RowStep
<1>10. approved' = approved /\ lost' = lost /\ UNCHANGED <<old, execution, running, page>>
  BY DEF deliver, servers
<1> QED BY <1>1, <1>8, <1>9, <1>10, RowStepUpgraded

\* A row that waits for approval has no receipt, so that nothing is known of it.
LEMMA approveUpgraded ==
  ASSUME Upgraded, NEW i \in Ids, approveHistoricalDelivery(i) PROVE Upgraded'
<1> DEFINE bp == approved \cup {i}
<1>1. /\ db \in Database /\ old \in Old /\ Consistent(db, old, approved)
      /\ approved \subseteq Ids /\ lost = 0
      /\ db.queue[i].state = "WAITING_FOR_PLAYER" /\ db.queue[i].approval
  BY DEF Upgraded, TypeOK, approveHistoricalDelivery
<1>2. db.delivery_lifecycle_v2_migrated /\ Numbered(db) /\ Held(db, old, approved)
  BY <1>1 DEF Consistent, Marked, Waiting
<1>3. i \in Rows(old) /\ i \in Historical
  BY <1>1, <1>2 DEF Held, Rows
<1>4. ~old.applied[i] /\ old.status[i] = "NONE"
  <2>1. CASE i \in approved
    BY <1>2, <1>3, <2>1 DEF Held
  <2>2. CASE i \notin approved
    <3>1. db.queue[i] = FinalRow(old, i)
      BY <1>2, <1>3, <2>2 DEF Held
    <3>2. HeldState(old.status[i], old.applied[i]) = "WAITING_FOR_PLAYER"
      BY <1>1, <3>1 DEF FinalRow
    <3>3. old.status[i] \in ReceiptStatus /\ old.applied[i] \in BOOLEAN
      BY <1>1, <1>3 DEF Old
    <3> QED BY <3>2, <3>3 DEF HeldState, ReceiptStatus
  <2> QED BY <2>1, <2>2
<1>5. i < db.nextId /\ db.nextId <= db.nextId
  BY <1>1, <1>2, DatabaseFields DEF Numbered, Exists
<1> DEFINE r == [db.queue[i] EXCEPT !.approval = FALSE]
           q == [db.queue EXCEPT ![i] = r]
<1>6. r \in Row /\ r.state = "WAITING_FOR_PLAYER" /\ ~r.approval
  <2>1. db.queue[i] \in Row
    BY <1>1, DatabaseFields
  <2>2. r \in Row /\ r.state = db.queue[i].state
    BY <2>1 DEF Row
  <2>3. r.approval = FALSE
    BY <2>1 DEF Row
  <2> QED BY <1>1, <2>2, <2>3
<1> HIDE DEF r
<1>7. q \in [Ids -> Row] /\ q[i] = r /\ \A j \in Ids \ {i} : q[j] = db.queue[j]
  BY <1>1, <1>6, DatabaseFields
<1>8. db' = [db EXCEPT !.queue = q]
  BY <1>1 DEF approveHistoricalDelivery, Database, r
<1> HIDE DEF q
<1>9. /\ db' \in Database /\ db'.queue = q /\ db'.nextId = db.nextId /\ db'.receipt = db.receipt
      /\ db'.config = db.config /\ db'.loot = db.loot
      /\ db'.legacy_v136_migrated = db.legacy_v136_migrated
      /\ db'.delivery_lifecycle_v2_migrated = db.delivery_lifecycle_v2_migrated
  BY <1>1, <1>7, <1>8 DEF Database
<1>10. approved \subseteq bp /\ bp \subseteq approved \cup {i} /\ i \in bp
  OBVIOUS
<1> HIDE DEF bp
<1>11. Consistent(db', old, bp)
  BY <1>1, <1>2, <1>4, <1>5, <1>6, <1>7, <1>9, <1>10, RowStep
<1>12. approved' = bp /\ lost' = lost /\ UNCHANGED <<old, execution, running, page>>
  BY DEF approveHistoricalDelivery, bp
<1> QED BY <1>1, <1>2, <1>9, <1>10, <1>11, <1>12, RowStepUpgraded

-----------------------------------------------------------------------------
(* The theorems *)

\* Every action keeps the invariant.
LEMMA NextUpgraded == Upgraded /\ [Next]_vars => Upgraded'
<1> SUFFICES ASSUME Upgraded, [Next]_vars PROVE Upgraded' OBVIOUS
<1>1. CASE ByHand
  BY <1>1, ManualStepUpgraded, OtherStepsUpgraded DEF ByHand
<1>2. CASE Console
  BY <1>2, ScriptCommitsUpgraded, OtherStepsUpgraded DEF Console
<1>3. CASE Settings
  BY <1>3, SettingsUpgraded
<1>4. CASE Servers
  BY <1>4, OtherStepsUpgraded, queueRewardUpgraded, deliverUpgraded, approveUpgraded DEF Servers
<1>5. CASE UNCHANGED vars
  <2>1. TypeOK'
    BY <1>5 DEF Upgraded, TypeOK, vars
  <2> QED BY <1>5, <2>1 DEF Upgraded, vars
<1> QED BY <1>1, <1>2, <1>3, <1>4, <1>5 DEF Next

\* The invariant holds throughout, however often the script is executed.
LEMMA AlwaysUpgraded == Spec => []Upgraded
<1> QED BY InitUpgraded, NextUpgraded, PTL DEF Spec

\* Type correctness of database, page, executions and servers.
THEOREM UpgradeTypeCorrect == Spec => []TypeOK
<1>1. Upgraded => TypeOK
  BY DEF Upgraded
<1> QED BY <1>1, AlwaysUpgraded, PTL

\* However the script is executed, interrupted and executed again, a daemon
\* may claim a reward from before the upgrade only if it has been approved, and
\* no reward of the new version needs approval.
THEOREM HistoricalRewardsHeld == Spec => []HistoricalHeld
<1>1. Upgraded => HistoricalHeld
  <2> SUFFICES ASSUME Upgraded PROVE HistoricalHeld OBVIOUS
  <2>1. old \in Old /\ Consistent(db, old, approved) /\ HistoricalRows = Rows(old)
    BY DEF Upgraded, TypeOK, HistoricalRows, Rows
  <2>2. \A i \in Ids : db.queue[i].approval => i \in HistoricalRows
    BY <2>1 DEF Consistent, Marked, Waiting, Held
  <2>3. ASSUME running, NEW i \in HistoricalRows, Dispatchable(db.queue[i])
        PROVE  i \in approved
    BY <2>1, <2>3, FinalRowWaits DEF Upgraded, Consistent, Marked, Held
  <2> QED BY <2>2, <2>3 DEF HistoricalHeld
<1> QED BY <1>1, AlwaysUpgraded, PTL

\* When the servers run, rows and receipts of an earlier version and the
\* administrator's loot are there and say what they said.
THEOREM HistoryIsKept == Spec => []HistoryKept
<1>1. Upgraded => HistoryKept
  <2> SUFFICES ASSUME Upgraded, running PROVE HistoryKept BY DEF HistoryKept
  <2>1. old \in Old /\ Consistent(db, old, approved) /\ HistoricalRows = Rows(old)
    BY DEF Upgraded, TypeOK, HistoricalRows, Rows
  <2>2. Held(db, old, approved) /\ Copied(db, old)
    BY <2>1 DEF Upgraded, Consistent, Marked, Copied
  <2>3. old.version # "fresh" => old.loot \cap CustomLoot \subseteq db.loot
    BY <2>1, <2>2 DEF Consistent, LootKept
  <2>4. ASSUME NEW i \in HistoricalRows
        PROVE  /\ Exists(db, i)
               /\ old.applied[i] => db.queue[i].applied
               /\ old.status[i] = "SUCCESS" =>
                    db.receipt[i] = "SUCCESS" /\ db.queue[i].state = "DELIVERED"
               /\ old.status[i] \in {"PENDING", "UNCERTAIN"} =>
                    db.receipt[i] = "UNCERTAIN" /\ db.queue[i].state = "UNCERTAIN"
    <3>1. Exists(db, i)
      BY <2>1, <2>2 DEF Held
    <3>2. CASE i \in approved
      BY <2>1, <2>2, <3>1, <3>2 DEF Held
    <3>3. CASE i \notin approved
      <4>1. db.queue[i] = FinalRow(old, i) /\ db.receipt[i] = HeldReceipt(old.status[i])
        BY <2>1, <2>2, <3>3 DEF Held
      <4>2. db.queue[i].applied = old.applied[i]
        BY <4>1 DEF FinalRow
      <4>3. db.queue[i].state = HeldState(old.status[i], old.applied[i])
        BY <4>1 DEF FinalRow
      <4> QED BY <3>1, <4>1, <4>2, <4>3 DEF HeldReceipt, HeldState
    <3> QED BY <3>2, <3>3
  <2> QED BY <2>3, <2>4 DEF HistoryKept
<1> QED BY <1>1, AlwaysUpgraded, PTL

\* No reward of the new version is dropped because its id is taken.
THEOREM NoRewardDropped == Spec => []RewardsQueued
<1>1. Upgraded => RewardsQueued
  BY DEF Upgraded, RewardsQueued
<1> QED BY <1>1, AlwaysUpgraded, PTL

\* A statement leaves a migrated database's rows and settings alone.
LEMMA StatementHarmless ==
  ASSUME NEW o, NEW ap, NEW d, Consistent(d, o, ap), d.delivery_lifecycle_v2_migrated,
         NEW e \in {CreateTables(d), InsertDefaults(d), CorrectPools(d), InsertGenerated(d),
                    CopyLegacy(d, o), SetSequence(d), AddLifecycleColumns(d), HoldHistory(d)}
  PROVE  /\ e.queue = d.queue /\ e.receipt = d.receipt /\ e.config = d.config
         /\ e.delivery_lifecycle_v2_migrated
<1>1. d \in Database /\ NoNull(d) /\ NoPlain(d) /\ d.legacy_v136_migrated
  BY DEF Consistent, Marked
<1>2. CASE e \in {CreateTables(d), CorrectPools(d), InsertGenerated(d), SetSequence(d)}
  BY <1>1, <1>2 DEF Database, CreateTables, CorrectPools, InsertGenerated, SetSequence
<1>3. CASE e \in {CopyLegacy(d, o), HoldHistory(d)}
  BY <1>1, <1>3 DEF CopyLegacy, HoldHistory
<1>4. CASE e = InsertDefaults(d)
  <2> DEFINE c == [k \in Keys |-> IF d.config[k] = Null THEN Default[k] ELSE d.config[k]]
  <2>1. c = d.config
    BY <1>1 DEF NoNull, Database
  <2>2. e = [d EXCEPT !.config = c]
    BY <1>4 DEF InsertDefaults
  <2> HIDE DEF c
  <2> QED BY <1>1, <2>1, <2>2 DEF Database
<1>5. CASE e = AddLifecycleColumns(d)
  <2> DEFINE q == [i \in Ids |-> IF d.queue[i].state = "PLAIN"
                                 THEN [d.queue[i] EXCEPT !.state = "READY"] ELSE d.queue[i]]
  <2>1. q = d.queue
    <3>1. \A i \in Ids : q[i] = d.queue[i]
      BY <1>1 DEF NoPlain
    <3> QED BY <1>1, <3>1, DatabaseFields
  <2>2. e = [d EXCEPT !.queue = q]
    BY <1>5 DEF AddLifecycleColumns
  <2> HIDE DEF q
  <2> QED BY <1>1, <2>1, <2>2 DEF Database
<1> QED BY <1>2, <1>3, <1>4, <1>5

\* Once the database has been migrated, no statement changes queue, receipts or
\* settings.
LEMMA ScriptHarmless ==
  ASSUME NEW o \in Old, NEW ap, NEW d, Consistent(d, o, ap), d.delivery_lifecycle_v2_migrated
  PROVE  LET e == Script(d, o)
         IN  e.queue = d.queue /\ e.receipt = d.receipt /\ e.config = d.config
<1> DEFINE Same(e) == /\ e.queue = d.queue /\ e.receipt = d.receipt /\ e.config = d.config
                      /\ e.delivery_lifecycle_v2_migrated
           d1 == CreateTables(d)
           d2 == InsertDefaults(d1)
           d3 == CorrectPools(d2)
           d4 == InsertGenerated(d3)
           d5 == CopyLegacy(d4, o)
           d6 == SetSequence(d5)
           d7 == AddLifecycleColumns(d6)
           d8 == HoldHistory(d7)
<1>1. Consistent(d1, o, ap) /\ Reached(2, d1) /\ Same(d1)
  BY CreateTablesStep, StatementHarmless
<1>2. Consistent(d2, o, ap) /\ Reached(3, d2) /\ Same(d2)
  <2> HIDE DEF d1
  <2> QED BY <1>1, InsertDefaultsStep, StatementHarmless
<1>3. Consistent(d3, o, ap) /\ Reached(4, d3) /\ Same(d3)
  <2> HIDE DEF d2
  <2> QED BY <1>2, CorrectPoolsStep, StatementHarmless
<1>4. Consistent(d4, o, ap) /\ Reached(5, d4) /\ Same(d4)
  <2> HIDE DEF d3
  <2> QED BY <1>3, InsertGeneratedStep, StatementHarmless
<1>5. Consistent(d5, o, ap) /\ Reached(6, d5) /\ Same(d5)
  <2> HIDE DEF d4
  <2> QED BY <1>4, CopyLegacyStep, StatementHarmless
<1>6. Consistent(d6, o, ap) /\ Reached(7, d6) /\ Same(d6)
  <2> HIDE DEF d5
  <2> QED BY <1>5, SetSequenceStep, StatementHarmless
<1>7. Consistent(d7, o, ap) /\ Same(d7)
  <2> HIDE DEF d6
  <2> QED BY <1>6, AddLifecycleColumnsStep, StatementHarmless
<1>8. Same(d8)
  <2> HIDE DEF d7
  <2> QED BY <1>7, StatementHarmless
<1>9. Script(d, o) = d8
  BY DEF Script
<1> HIDE DEF d8
<1> QED BY <1>8, <1>9

\* Once it has migrated a database, the script may be executed again, in part
\* or belatedly, without touching queue, receipts or settings.
THEOREM RerunTouchesNothing == Spec => RerunHarmless
<1> DEFINE Harmless == db.legacy_v136_migrated /\ db.delivery_lifecycle_v2_migrated
                         /\ (ManualStep \/ ScriptCommits)
                       => db'.queue = db.queue /\ db'.receipt = db.receipt /\ db'.config = db.config
<1>1. Upgraded /\ [Next]_vars => [Harmless]_vars
  <2> SUFFICES ASSUME Upgraded, db.delivery_lifecycle_v2_migrated, ManualStep \/ ScriptCommits
               PROVE  db'.queue = db.queue /\ db'.receipt = db.receipt /\ db'.config = db.config
    OBVIOUS
  <2>1. old \in Old /\ Consistent(db, old, approved)
    BY DEF Upgraded, TypeOK
  <2>2. CASE ScriptCommits
    BY <2>1, <2>2, ScriptHarmless DEF ScriptCommits
  <2>3. CASE ManualStep
    <3>1. manual \in {1, 2, 3, 4, 5, 6, 7, 8}
      BY <2>3 DEF ManualStep, Upgraded, TypeOK, Last
    <3>2. Statement(manual, db, old) \in
            {CreateTables(db), InsertDefaults(db), CorrectPools(db), InsertGenerated(db),
             CopyLegacy(db, old), SetSequence(db), AddLifecycleColumns(db), HoldHistory(db)}
      BY <3>1 DEF Statement
    <3>3. db' = Statement(manual, db, old)
      BY <2>3 DEF ManualStep
    <3> QED BY <2>1, <3>2, <3>3, StatementHarmless
  <2> QED BY <2>2, <2>3
<1> QED BY <1>1, AlwaysUpgraded, PTL DEF Spec, RerunHarmless

\* Delivery expects every flag with every status.
LEMMA MigratedMember ==
  ASSUME NEW B, B = BOOLEAN, NEW S, S = ReceiptStatus, NEW a \in B, NEW s \in S, NEW m \in B
  PROVE  [row |-> D!MigratedRow(a, s), receipt |-> D!MigratedReceipt(s, m)] \in D!Migrated
<1>1. D!Migrated = {[row |-> D!MigratedRow(x, y), receipt |-> D!MigratedReceipt(y, z)] :
                      x \in B, y \in S, z \in B}
  BY DEF D!Migrated, ReceiptStatus
<1>2. [row |-> D!MigratedRow(a, s), receipt |-> D!MigratedReceipt(s, m)]
        \in {[row |-> D!MigratedRow(x, y), receipt |-> D!MigratedReceipt(y, z)] :
               x \in B, y \in S, z \in B}
  OBVIOUS
<1> QED BY <1>1, <1>2

\* The rows of Delivery are equal when their fields are.
LEMMA SameRow ==
  ASSUME NEW x \in D!Row, NEW y \in D!Row,
         x.state = y.state, x.applied = y.applied, x.approval = y.approval,
         x.resolution = y.resolution, x.lease = y.lease, x.due = y.due, x.attempts = y.attempts
  PROVE  x = y
BY DEF D!Row, D!States, D!ClaimableStates

\* What Delivery calls a migrated row, column by column.
LEMMA MigratedRowFields ==
  ASSUME NEW a \in BOOLEAN, NEW s \in ReceiptStatus
  PROVE  LET r == D!MigratedRow(a, s)
         IN  /\ r \in D!Row
             /\ r.state = HeldState(s, a) /\ r.applied = a /\ r.approval = ~a
             /\ r.resolution = "none" /\ r.lease = "none" /\ r.due = TRUE /\ r.attempts = 0
<1>1. D!MigratedRow(a, s) \in D!Row
  BY DEF D!MigratedRow, D!Absent, D!NewRow, D!Row, D!States, D!ClaimableStates, ReceiptStatus
<1>2. D!MigratedRow(a, s).state = HeldState(s, a)
  BY DEF D!MigratedRow, D!Absent, D!NewRow, HeldState, ReceiptStatus
<1>3. LET r == D!MigratedRow(a, s)
      IN  /\ r.applied = a /\ r.approval = ~a
          /\ r.resolution = "none" /\ r.lease = "none" /\ r.due = TRUE /\ r.attempts = 0
  BY DEF D!MigratedRow, D!Absent, D!NewRow, ReceiptStatus
<1> QED BY <1>1, <1>2, <1>3

\* What Delivery calls no row, column by column.
LEMMA AbsentFields ==
  /\ D!Absent \in D!Row
  /\ D!Absent.state = "ABSENT" /\ ~D!Absent.applied /\ ~D!Absent.approval
  /\ D!Absent.resolution = "none" /\ D!Absent.lease = "none"
  /\ D!Absent.due = TRUE /\ D!Absent.attempts = 0
BY DEF D!Absent, D!NewRow, D!Row, D!States, D!ClaimableStates

\* What the script may leave of a row is a row of Delivery.
LEMMA DeliveryRowFields ==
  ASSUME NEW i \in Ids,
         db.queue[i].state \in {"ABSENT", "DELIVERED", "UNCERTAIN", "LEGACY_REVIEW",
                                "WAITING_FOR_PLAYER"},
         db.queue[i].applied \in BOOLEAN, db.queue[i].approval \in BOOLEAN
  PROVE  LET r == DeliveryRow(i)
         IN  /\ r \in D!Row
             /\ r.state = db.queue[i].state
             /\ r.applied = db.queue[i].applied /\ r.approval = db.queue[i].approval
             /\ r.resolution = "none" /\ r.lease = "none" /\ r.due = TRUE /\ r.attempts = 0
BY DEF DeliveryRow, D!Row, D!States, D!ClaimableStates

\* What a completed upgrade leaves is an initial state of Delivery.
THEOREM UpgradeHandsOver == Spec => []HandsOver
<1>1. Upgraded => HandsOver
  <2> SUFFICES ASSUME Upgraded, old.version # "fresh", ready, approved = {},
                      \A i \in Ids \ Historical : ~Exists(db, i)
               PROVE  D!Init
    BY DEF HandsOver
  <2>1. /\ db \in Database /\ old \in Old /\ Held(db, old, {}) /\ Unused(db)
        /\ Rows(old) = Historical
    BY DEF Upgraded, TypeOK, Consistent, Marked, Rows
  <2>2. Historical \subseteq Ids /\ Absent = [state |-> "ABSENT", applied |-> FALSE, approval |-> FALSE]
    BY IdsAssumption DEF Absent
  <2>3. \A i \in Historical : old.applied[i] \in BOOLEAN /\ old.status[i] \in ReceiptStatus
    BY <2>1 DEF Old
  <2> DEFINE left == [i \in Historical |->
                        [row |-> D!MigratedRow(old.applied[i], old.status[i]),
                         receipt |-> D!MigratedReceipt(old.status[i], TRUE)]]
  <2>4. left \in [Historical -> D!Migrated]
    <3>1. \A i \in Historical : left[i] \in D!Migrated
      BY <2>3, TRUE \in BOOLEAN, MigratedMember
    <3> QED BY <3>1
  <2>5. ASSUME NEW i \in Historical
        PROVE  DeliveryRow(i) = left[i].row /\ DeliveryReceipt(i) = left[i].receipt
    <3>1. db.queue[i] = FinalRow(old, i) /\ db.receipt[i] = HeldReceipt(old.status[i])
      BY <2>1 DEF Held
    <3>2. /\ db.queue[i].state = HeldState(old.status[i], old.applied[i])
          /\ db.queue[i].applied = old.applied[i] /\ db.queue[i].approval = ~old.applied[i]
      BY <3>1 DEF FinalRow
    <3>3. DeliveryRow(i) = D!MigratedRow(old.applied[i], old.status[i])
      <4>1. i \in Ids /\ old.applied[i] \in BOOLEAN /\ old.status[i] \in ReceiptStatus
        BY <2>2, <2>3
      <4>2. HeldState(old.status[i], old.applied[i]) \in
              {"DELIVERED", "UNCERTAIN", "LEGACY_REVIEW", "WAITING_FOR_PLAYER"}
        BY <4>1 DEF HeldState, ReceiptStatus
      <4>3. /\ DeliveryRow(i) \in D!Row
            /\ DeliveryRow(i).state = HeldState(old.status[i], old.applied[i])
            /\ DeliveryRow(i).applied = old.applied[i] /\ DeliveryRow(i).approval = ~old.applied[i]
            /\ DeliveryRow(i).resolution = "none" /\ DeliveryRow(i).lease = "none"
            /\ DeliveryRow(i).due = TRUE /\ DeliveryRow(i).attempts = 0
        BY <4>1, <4>2, <3>2, DeliveryRowFields
      <4> DEFINE m == D!MigratedRow(old.applied[i], old.status[i])
      <4>4. /\ m \in D!Row /\ m.state = HeldState(old.status[i], old.applied[i])
            /\ m.applied = old.applied[i] /\ m.approval = ~old.applied[i]
            /\ m.resolution = "none" /\ m.lease = "none" /\ m.due = TRUE /\ m.attempts = 0
        BY <4>1, MigratedRowFields
      <4> HIDE DEF m
      <4>5. DeliveryRow(i) = m
        BY <4>3, <4>4, SameRow
      <4> QED BY <4>5 DEF m
    <3>4. DeliveryReceipt(i) = D!MigratedReceipt(old.status[i], TRUE)
      BY <3>1, <2>3 DEF DeliveryReceipt, D!MigratedReceipt, D!NoReceipt, HeldReceipt, ReceiptStatus
    <3> QED BY <3>3, <3>4
  <2>6. ASSUME NEW i \in Ids \ Historical
        PROVE  DeliveryRow(i) = D!Absent /\ DeliveryReceipt(i) = D!NoReceipt
    <3>1. db.queue[i] = Absent /\ db.receipt[i] = "NONE"
      BY <2>1 DEF Unused
    <3>2. DeliveryRow(i) = D!Absent
      <4>1. db.queue[i].state = "ABSENT" /\ ~db.queue[i].applied /\ ~db.queue[i].approval
            /\ db.queue[i].applied \in BOOLEAN /\ db.queue[i].approval \in BOOLEAN
        BY <2>2, <3>1
      <4>2. /\ DeliveryRow(i) \in D!Row /\ DeliveryRow(i).state = "ABSENT"
            /\ DeliveryRow(i).applied = FALSE /\ DeliveryRow(i).approval = FALSE
            /\ DeliveryRow(i).resolution = "none" /\ DeliveryRow(i).lease = "none"
            /\ DeliveryRow(i).due = TRUE /\ DeliveryRow(i).attempts = 0
        BY <4>1, DeliveryRowFields
      <4>3. D!Absent.applied = FALSE /\ D!Absent.approval = FALSE
        BY AbsentFields DEF D!Row
      <4> QED BY <4>2, <4>3, AbsentFields, SameRow
    <3> QED BY <3>1, <3>2 DEF DeliveryReceipt, D!NoReceipt
  <2>7. /\ [i \in Ids |-> DeliveryRow(i)] =
             [i \in Ids |-> IF i \in Historical THEN left[i].row ELSE D!Absent]
        /\ [i \in Ids |-> DeliveryReceipt(i)] =
             [i \in Ids |-> IF i \in Historical THEN left[i].receipt ELSE D!NoReceipt]
    BY <2>5, <2>6
  <2> HIDE DEF left
  <2>8. \E was \in [Historical -> D!Migrated] :
          /\ [i \in Ids |-> DeliveryRow(i)] =
               [i \in Ids |-> IF i \in Historical THEN was[i].row ELSE D!Absent]
          /\ [i \in Ids |-> DeliveryReceipt(i)] =
               [i \in Ids |-> IF i \in Historical THEN was[i].receipt ELSE D!NoReceipt]
    BY <2>4, <2>7
  <2>9. [w \in {} |-> "none"] = [w \in {} |-> D!Idle]
    OBVIOUS
  <2> QED BY <2>8, <2>9 DEF D!Init
<1> QED BY <1>1, AlwaysUpgraded, PTL

-----------------------------------------------------------------------------
(* What the steps do to loot and settings *)

\* Only the script, as a whole or by statements, changes loot and markers, and
\* besides it only a save from the page changes a setting.
LEMMA FurnitureSteps ==
  ASSUME Upgraded, [Next]_vars, ~ManualStep, ~ScriptCommits
  PROVE  /\ db'.loot = db.loot /\ old' = old /\ manual' \in {0, 1, manual}
         /\ db'.legacy_v136_migrated = db.legacy_v136_migrated
         /\ db'.delivery_lifecycle_v2_migrated = db.delivery_lifecycle_v2_migrated
         /\ saveEconomy \/ saveMultipliers \/ db'.config = db.config
<1>1. db \in Database
  BY DEF Upgraded, TypeOK
<1>2. CASE saveEconomy \/ saveMultipliers
  BY <1>1, <1>2 DEF saveEconomy, saveMultipliers, Database, execution
<1>3. CASE queueReward \/ \E i \in Ids : deliver(i) \/ approveHistoricalDelivery(i)
  BY <1>1, <1>3 DEF queueReward, deliver, approveHistoricalDelivery, Database, execution, servers
<1>4. CASE UNCHANGED <<db, old>> /\ manual' \in {0, 1, manual}
  BY <1>4
<1>5. CASE ByHand \/ Console
  <2>1. UNCHANGED <<db, old>> /\ manual' \in {0, 1, manual}
    BY <1>5 DEF ByHand, Console, execution, servers, ManualStart, ManualAbort,
                handleInitializeSchema, ScriptFails, initSucceeds, initFails, initTimesOut
  <2> QED BY <1>4, <2>1
<1>6. CASE Settings
  <2>1. saveEconomy \/ saveMultipliers \/ (UNCHANGED <<db, old>> /\ manual' = manual)
    BY <1>6 DEF Settings, execution, openPage, loadMultipliers, loadEconomy, loadFails,
                handleSaveAllSettings, saveFails
  <2> QED BY <1>2, <1>4, <2>1
<1>7. CASE Servers
  <2>1. CASE Start \/ Stop
    BY <1>4, <2>1 DEF Start, Stop, execution
  <2> QED BY <1>3, <1>7, <2>1 DEF Servers
<1>8. CASE UNCHANGED vars
  BY <1>4, <1>8 DEF vars, execution
<1> QED BY <1>5, <1>6, <1>7, <1>8 DEF Next

-----------------------------------------------------------------------------
(* Each item keeps to one pool *)

\* No item is in two pools.
Tidy(loot) == \A a, b \in loot : a[2] = b[2] => a = b

\* What a server with version o of the addon has before the first execution.
LeftLoot(o) == IF o.version = "fresh" THEN {} ELSE o.loot

\* The administrator of version 1.3.7 had no item in two pools, and had added
\* none of the generated items to a pool of his own choice.
TidyOlds ==
  \A o \in Olds : o.version = "1.3.7" => Tidy(o.loot) /\ Tidy((o.loot \ OldLoot) \cup Generated)

\* The corrections have been made, and nothing but generated items added since.
Corrected(d, o) == d.loot \subseteq (LeftLoot(o) \ OldLoot) \cup Generated

\* Version 1.3.6 is excepted: its loot is copied after the corrections.
Pooled ==
  old.version # "1.3.6" =>
    /\ db.loot = LeftLoot(old) \/ Corrected(db, old)
    /\ manual > 3 \/ db.delivery_lifecycle_v2_migrated => Corrected(db, old)

\* The corrections find no item in both pools, and correct what is left.
LEMMA PoolsCorrected ==
  ASSUME TidyOlds, NEW o \in Olds, o.version # "1.3.6", NEW d \in Database,
         d.loot = LeftLoot(o) \/ Corrected(d, o)
  PROVE  Corrected(CorrectPools(d), o)
<1>1. \A c \in Corrections : <<c.from, c.item>> \in OldLoot /\ <<c.to, c.item>> \in Generated
                             /\ c.from # c.to
  BY DEF Corrections, OldLoot, Generated
<1>2. OldLoot \cap Generated = {}
  BY DEF Corrections, OldLoot, Generated
<1>3. ~Collides(d)
  <2>1. CASE d.loot = LeftLoot(o) /\ o.version = "1.3.7"
    <3>1. Tidy(d.loot)
      BY <2>1 DEF TidyOlds, LeftLoot
    <3>2. ASSUME NEW c \in Corrections, <<c.from, c.item>> \in d.loot, <<c.to, c.item>> \in d.loot
          PROVE  FALSE
      BY <1>1, <3>1, <3>2 DEF Tidy
    <3> QED BY <3>2 DEF Collides
  <2>2. CASE d.loot = LeftLoot(o) /\ o.version = "fresh"
    BY <2>2 DEF LeftLoot, Collides
  <2>3. CASE Corrected(d, o)
    BY <1>1, <1>2, <2>3 DEF Corrected, Collides
  <2> QED BY <2>1, <2>2, <2>3, UpgradeAssumption DEF Old
<1> DEFINE moved == {<<c.to, c.item>> : c \in {x \in Corrections : <<x.from, x.item>> \in d.loot}}
<1>4. CorrectPools(d).loot = (d.loot \ OldLoot) \cup moved
  BY <1>3 DEF CorrectPools, Database
<1>5. moved \subseteq Generated
  BY <1>1
<1> HIDE DEF moved
<1> QED BY <1>4, <1>5 DEF Corrected

\* No other statement changes a loot that is not that of version 1.3.6, but
\* for the generated inserts.
LEMMA LootStays ==
  ASSUME NEW o \in Old, o.version # "1.3.6", NEW d \in Database
  PROVE  /\ \A e \in {CreateTables(d), InsertDefaults(d), CopyLegacy(d, o), SetSequence(d),
                      AddLifecycleColumns(d), HoldHistory(d)} : e.loot = d.loot
         /\ Corrected(d, o) => Corrected(InsertGenerated(d), o)
<1>1. CreateTables(d).loot = d.loot /\ InsertDefaults(d).loot = d.loot /\ SetSequence(d).loot = d.loot
  BY DEF Database, CreateTables, InsertDefaults, SetSequence
<1>2. AddLifecycleColumns(d).loot = d.loot /\ HoldHistory(d).loot = d.loot
  BY DEF Database, AddLifecycleColumns, HoldHistory
<1>3. CopyLegacy(d, o).loot = d.loot
  BY DEF Database, CopyLegacy
<1>4. InsertGenerated(d).loot = d.loot \cup Generated
  BY DEF Database, InsertGenerated
<1> QED BY <1>1, <1>2, <1>3, <1>4 DEF Corrected

\* What the whole script makes of the loot.
LEMMA ScriptPools ==
  ASSUME TidyOlds, NEW o \in Olds, o.version # "1.3.6", NEW ap, NEW d, Consistent(d, o, ap),
         d.loot = LeftLoot(o) \/ Corrected(d, o)
  PROVE  Corrected(Script(d, o), o)
<1>o. o \in Old
  BY UpgradeAssumption
<1> DEFINE d1 == CreateTables(d)
           d2 == InsertDefaults(d1)
           d3 == CorrectPools(d2)
           d4 == InsertGenerated(d3)
           d5 == CopyLegacy(d4, o)
           d6 == SetSequence(d5)
           d7 == AddLifecycleColumns(d6)
           d8 == HoldHistory(d7)
<1>0. d \in Database
  BY DEF Consistent
<1>1. Consistent(d1, o, ap) /\ Reached(2, d1) /\ d1 \in Database /\ d1.loot = d.loot
  BY <1>o, <1>0, CreateTablesStep, LootStays DEF Consistent
<1>2. Consistent(d2, o, ap) /\ Reached(3, d2) /\ d2 \in Database /\ d2.loot = d.loot
  <2> HIDE DEF d1
  <2> QED BY <1>o, <1>1, InsertDefaultsStep, LootStays DEF Consistent
<1>3. Consistent(d3, o, ap) /\ Reached(4, d3) /\ d3 \in Database /\ Corrected(d3, o)
  <2> HIDE DEF d2
  <2>1. d2.loot = LeftLoot(o) \/ Corrected(d2, o)
    BY <1>2 DEF Corrected
  <2> QED BY <1>2, <2>1, CorrectPoolsStep, PoolsCorrected DEF Consistent
<1>4. Consistent(d4, o, ap) /\ Reached(5, d4) /\ d4 \in Database /\ Corrected(d4, o)
  <2> HIDE DEF d3
  <2> QED BY <1>o, <1>3, InsertGeneratedStep, LootStays DEF Consistent
<1>5. Consistent(d5, o, ap) /\ Reached(6, d5) /\ d5 \in Database /\ d5.loot = d4.loot
  <2> HIDE DEF d4
  <2> QED BY <1>o, <1>4, CopyLegacyStep, LootStays DEF Consistent
<1>6. Consistent(d6, o, ap) /\ Reached(7, d6) /\ d6 \in Database /\ d6.loot = d5.loot
  <2> HIDE DEF d5
  <2> QED BY <1>o, <1>5, SetSequenceStep, LootStays DEF Consistent
<1>7. Consistent(d7, o, ap) /\ d7 \in Database /\ d7.loot = d6.loot
  <2> HIDE DEF d6
  <2> QED BY <1>o, <1>6, AddLifecycleColumnsStep, LootStays DEF Consistent
<1>8. d8.loot = d7.loot
  <2> HIDE DEF d7
  <2> QED BY <1>o, <1>7, LootStays
<1>9. Script(d, o) = d8
  BY DEF Script
<1> HIDE DEF d4, d5, d6, d7, d8
<1> QED BY <1>4, <1>5, <1>6, <1>7, <1>8, <1>9 DEF Corrected

\* The earlier version's loot stays as it is until it is corrected.
LEMMA NextPooled ==
  ASSUME TidyOlds, Upgraded, old \in Olds, Pooled, [Next]_vars
  PROVE  Pooled'
<1>0. SUFFICES ASSUME old.version # "1.3.6", old' = old
               PROVE  /\ db'.loot = LeftLoot(old) \/ Corrected(db', old)
                      /\ manual' > 3 \/ db'.delivery_lifecycle_v2_migrated => Corrected(db', old)
  <2>1. old' = old
    BY FurnitureSteps DEF ManualStep, ScriptCommits
  <2> QED BY <2>1 DEF Pooled, Corrected
<1>1. /\ old \in Old /\ db \in Database /\ Consistent(db, old, approved)
      /\ db.loot = LeftLoot(old) \/ Corrected(db, old)
      /\ manual > 3 \/ db.delivery_lifecycle_v2_migrated => Corrected(db, old)
      /\ manual \in 0 .. Last
  BY <1>0 DEF Upgraded, TypeOK, Pooled
<1>2. CASE ManualStep
  <2>1. /\ manual \in {1, 2, 3, 4, 5, 6, 7, 8} /\ db' = Statement(manual, db, old)
        /\ manual' = IF manual = Last THEN 0 ELSE manual + 1
    BY <1>1, <1>2 DEF ManualStep, Last
  <2>2. CASE manual \in {1, 2, 5, 6, 7, 8}
    <3>1. db' \in {CreateTables(db), InsertDefaults(db), CopyLegacy(db, old), SetSequence(db),
                   AddLifecycleColumns(db), HoldHistory(db)}
      BY <2>1, <2>2 DEF Statement
    <3>2. db'.loot = db.loot
      BY <1>0, <1>1, <3>1, LootStays
    <3>3. manual = 8 \/ db'.delivery_lifecycle_v2_migrated = db.delivery_lifecycle_v2_migrated
      BY <1>1, <2>1, <2>2, MarkerStays DEF Statement
    <3>4. manual' > 3 => manual > 3
      BY <2>1, <2>2 DEF Last
    <3>5. (Corrected(db', old) <=> Corrected(db, old))
      BY <3>2 DEF Corrected
    <3>6. manual = 8 => manual > 3
      OBVIOUS
    <3> QED BY <1>1, <3>2, <3>3, <3>4, <3>5, <3>6
  <2>3. CASE manual = 3
    <3>1. db' = CorrectPools(db)
      BY <2>1, <2>3 DEF Statement
    <3> QED BY <1>0, <1>1, <3>1, PoolsCorrected
  <2>4. CASE manual = 4
    <3>1. db' = InsertGenerated(db) /\ Corrected(db, old)
      BY <1>1, <2>1, <2>4 DEF Statement
    <3> QED BY <1>0, <1>1, <3>1, LootStays
  <2> QED BY <2>1, <2>2, <2>3, <2>4
<1>3. CASE ScriptCommits
  BY <1>0, <1>1, <1>3, ScriptPools DEF ScriptCommits
<1>4. CASE ~ManualStep /\ ~ScriptCommits
  <2>1. /\ db'.loot = db.loot /\ manual' \in {0, 1, manual}
        /\ db'.delivery_lifecycle_v2_migrated = db.delivery_lifecycle_v2_migrated
    BY <1>4, FurnitureSteps
  <2>2. manual' > 3 => manual > 3
    BY <2>1
  <2>3. (Corrected(db', old) <=> Corrected(db, old))
    BY <2>1 DEF Corrected
  <2> QED BY <1>1, <2>1, <2>2, <2>3
<1> QED BY <1>2, <1>3, <1>4

\* If the administrator had every item in one pool, so has the upgraded server:
\* its chance is that of one pool (setup_playtime_airdrops.sql:75-112).
THEOREM OnePoolEach == TidyOlds /\ Spec => []OnePool
<1> DEFINE Inv == Upgraded /\ old \in Olds /\ Pooled
<1>1. Init => Inv
  <2> SUFFICES ASSUME Init PROVE old \in Olds /\ Pooled
    BY InitUpgraded
  <2>1. old \in Olds /\ db = Before(old) /\ manual = 0 /\ old \in Old
    BY UpgradeAssumption DEF Init
  <2>2. CASE old.version = "fresh"
    <3>1. db.loot = {} /\ ~db.delivery_lifecycle_v2_migrated
      BY <2>1, <2>2 DEF Before, Empty
    <3> QED BY <2>1, <2>2, <3>1 DEF Pooled, LeftLoot
  <2>3. CASE old.version = "1.3.7"
    <3> DEFINE f == Filled(Empty, old)
    <3>1. f \in Database
      BY <2>1, EmptyTypes, FilledFields
    <3>2. db = [f EXCEPT !.tables = TRUE, !.nextId = Above(Historical), !.config = old.config,
                         !.loot = old.loot]
      BY <2>1, <2>3 DEF Before
    <3> HIDE DEF f
    <3>3. db.loot = old.loot
      BY <3>1, <3>2 DEF Database
    <3>4. ~db.delivery_lifecycle_v2_migrated
      BY <2>1, BeforeIsConsistent
    <3> QED BY <2>1, <2>3, <3>3, <3>4 DEF Pooled, LeftLoot
  <2>4. CASE old.version = "1.3.6"
    BY <2>1, <2>4 DEF Pooled
  <2> QED BY <2>1, <2>2, <2>3, <2>4 DEF Old
<1>2. ASSUME TidyOlds PROVE Inv /\ [Next]_vars => Inv'
  <2> SUFFICES ASSUME Inv, [Next]_vars PROVE Inv'
    OBVIOUS
  <2>1. old' = old
    BY FurnitureSteps DEF ManualStep, ScriptCommits
  <2> QED BY <1>2, <2>1, NextUpgraded, NextPooled
<1>3. ASSUME TidyOlds PROVE Inv => OnePool
  <2> SUFFICES ASSUME Inv, running, old.version # "1.3.6"
               PROVE  \A a, b \in db.loot : a[2] = b[2] => a = b
    BY DEF OnePool
  <2>1. Corrected(db, old) /\ old \in Old
    BY DEF Upgraded, TypeOK, Pooled
  <2>2. CASE old.version = "1.3.7"
    BY <1>3, <2>1, <2>2 DEF Corrected, LeftLoot, TidyOlds, Tidy
  <2>3. CASE old.version = "fresh"
    <3>1. db.loot \subseteq Generated
      BY <2>1, <2>3 DEF Corrected, LeftLoot
    <3>2. Tidy(Generated)
      BY DEF Tidy, Generated, Corrections
    <3> QED BY <3>1, <3>2 DEF Tidy
  <2> QED BY <2>1, <2>2, <2>3 DEF Old
<1> HIDE DEF Inv
<1>4. ASSUME TidyOlds PROVE Spec => []OnePool
  BY <1>1, <1>2, <1>3, <1>4, PTL DEF Spec
<1> QED BY <1>4

-----------------------------------------------------------------------------
(* Settings are those of the earlier version *)

\* The setting k that o leaves, and what the page may make of it.
Left(o, k) == IF o.version = "fresh" \/ o.config[k] = Null THEN Default[k] ELSE o.config[k]
Kept(o, k) == {Left(o, k), Shown(k, Left(o, k))}

\* The row of config that there is before the first execution.
Given(o, k) == IF o.version = "1.3.7" THEN o.config[k] ELSE Null

\* Until the settings of o have been copied, there is nothing but its own rows
\* and defaults where it has none.
Configured(d, o) ==
  \A k \in Keys : IF d.legacy_v136_migrated THEN d.config[k] \in Kept(o, k)
                  ELSE \/ d.config[k] = Given(o, k)
                       \/ Given(o, k) = Null /\ d.config[k] = Default[k]

\* A form that is current has been loaded since the upgrade, and what is about
\* to be saved was read from such a form.
Careful(p, d, o) ==
  /\ p.current => /\ d.legacy_v136_migrated
                  /\ p.form["airdrop_multipliers"] \in Kept(o, "airdrop_multipliers")
                  /\ p.load = "none" => p.form["airdrop_economy"] \in Kept(o, "airdrop_economy")
  /\ p.save # "none" => d.legacy_v136_migrated /\ \A k \in Keys : p.payload[k] \in Kept(o, k)

\* What is kept is a number, and shown as itself.
LEMMA KeptShown ==
  ASSUME NEW o \in Old, NEW k \in Keys
  PROVE  /\ Left(o, k) \in Kept(o, k) /\ Null \notin Kept(o, k) /\ Kept(o, k) \subseteq Nat
         /\ \A v \in Kept(o, k) : Shown(k, v) \in Kept(o, k)
<1>1. Left(o, k) \in Nat /\ Left(o, k) # Null
  BY NullAssumption DEF Left, Default, Old
<1>2. \A v \in Nat : v # Null
  BY NullAssumption
<1>3. \A v \in Nat : /\ Shown(k, v) \in Nat
                     /\ v # 0 => Shown(k, v) = v
                     /\ Shown(k, v) # 0
  BY <1>2 DEF Shown
<1> QED BY <1>1, <1>2, <1>3 DEF Kept

\* The statements keep to the settings of the earlier version.
LEMMA StatementSettings ==
  ASSUME NEW o \in Old, NEW d \in Database, Configured(d, o),
         d.legacy_v136_migrated => NoNull(d)
  PROVE  /\ \A e \in {CreateTables(d), InsertDefaults(d), CorrectPools(d), InsertGenerated(d),
                      SetSequence(d), AddLifecycleColumns(d), HoldHistory(d)} :
              Configured(e, o) /\ e.legacy_v136_migrated = d.legacy_v136_migrated
         /\ NoNull(d) => /\ Configured(CopyLegacy(d, o), o)
                         /\ CopyLegacy(d, o).legacy_v136_migrated
<1>1. ASSUME NEW e \in {CreateTables(d), CorrectPools(d), InsertGenerated(d), SetSequence(d),
                        AddLifecycleColumns(d), HoldHistory(d)}
      PROVE  Configured(e, o) /\ e.legacy_v136_migrated = d.legacy_v136_migrated
  <2>1. e.config = d.config /\ e.legacy_v136_migrated = d.legacy_v136_migrated
    BY DEF Database, CreateTables, CorrectPools, InsertGenerated, SetSequence, AddLifecycleColumns,
           HoldHistory
  <2> QED BY <2>1 DEF Configured
<1>2. /\ Configured(InsertDefaults(d), o)
      /\ InsertDefaults(d).legacy_v136_migrated = d.legacy_v136_migrated
  <2> DEFINE e == InsertDefaults(d)
  <2>1. /\ e.legacy_v136_migrated = d.legacy_v136_migrated
        /\ \A k \in Keys : e.config[k] = IF d.config[k] = Null THEN Default[k] ELSE d.config[k]
    BY DEF InsertDefaults, Database
  <2> HIDE DEF e
  <2>2. Configured(e, o)
    <3>1. CASE d.legacy_v136_migrated
      BY <2>1, <3>1 DEF Configured, NoNull
    <3>2. CASE ~d.legacy_v136_migrated
      BY <2>1, <3>2 DEF Configured
    <3> QED BY <3>1, <3>2
  <2> QED BY <2>1, <2>2 DEF e
<1>3. ASSUME NoNull(d)
      PROVE  Configured(CopyLegacy(d, o), o) /\ CopyLegacy(d, o).legacy_v136_migrated
  <2> DEFINE e == CopyLegacy(d, o)
  <2>1. CASE d.legacy_v136_migrated
    BY <2>1 DEF CopyLegacy
  <2>2. CASE ~d.legacy_v136_migrated
    <3>1. e.legacy_v136_migrated
      <4>1. Filled(d, o) \in Database
        BY FilledFields
      <4> QED BY <2>2, <4>1 DEF CopyLegacy, Database
    <3>2. ASSUME NEW k \in Keys PROVE e.config[k] = Left(o, k)
      <4>1. d.config[k] # Null
        BY <1>3 DEF NoNull
      <4>2. d.config[k] = Given(o, k) \/ (Given(o, k) = Null /\ d.config[k] = Default[k])
        BY <2>2 DEF Configured
      <4>3. CASE o.version = "1.3.6"
        <5> DEFINE c == [j \in Keys |-> IF o.config[j] = Null THEN d.config[j] ELSE o.config[j]]
                   f == Filled(d, o)
        <5>1. f \in Database
          BY FilledFields
        <5>2. e = [[f EXCEPT !.config = c, !.loot = @ \cup o.loot] EXCEPT !.legacy_v136_migrated = TRUE]
          BY <2>2, <4>3 DEF CopyLegacy
        <5>3. c[k] = IF o.config[k] = Null THEN d.config[k] ELSE o.config[k]
          OBVIOUS
        <5> HIDE DEF c, f, e
        <5>4. e.config = c
          BY <5>1, <5>2 DEF Database
        <5> QED BY <4>1, <4>2, <4>3, <5>3, <5>4 DEF Given, Left
      <4>4. CASE o.version # "1.3.6"
        <5>1. e.config = d.config
          BY <2>2, <4>4 DEF CopyLegacy, Database
        <5> QED BY <4>1, <4>2, <4>4, <5>1 DEF Given, Left, Old
      <4> QED BY <4>3, <4>4
    <3> HIDE DEF e
    <3> QED BY <3>1, <3>2, KeptShown DEF Configured, e
  <2> QED BY <2>1, <2>2
<1> QED BY <1>1, <1>2, <1>3

\* So does the whole script.
LEMMA ScriptSettings ==
  ASSUME NEW o \in Old, NEW ap, NEW d, Consistent(d, o, ap), Configured(d, o)
  PROVE  Configured(Script(d, o), o) /\ Script(d, o).legacy_v136_migrated
<1> DEFINE Good(e) == Consistent(e, o, ap) /\ Configured(e, o)
           d1 == CreateTables(d)
           d2 == InsertDefaults(d1)
           d3 == CorrectPools(d2)
           d4 == InsertGenerated(d3)
           d5 == CopyLegacy(d4, o)
           d6 == SetSequence(d5)
           d7 == AddLifecycleColumns(d6)
           d8 == HoldHistory(d7)
<1>0. \A e : Good(e) => e \in Database /\ (e.legacy_v136_migrated => NoNull(e))
  BY DEF Consistent, Marked
<1>1. Good(d1) /\ Reached(2, d1)
  BY <1>0, CreateTablesStep, StatementSettings
<1>2. Good(d2) /\ Reached(3, d2)
  <2> HIDE DEF d1
  <2> QED BY <1>0, <1>1, InsertDefaultsStep, StatementSettings
<1>3. Good(d3) /\ Reached(4, d3)
  <2> HIDE DEF d2
  <2> QED BY <1>0, <1>2, CorrectPoolsStep, StatementSettings
<1>4. Good(d4) /\ Reached(5, d4)
  <2> HIDE DEF d3
  <2> QED BY <1>0, <1>3, InsertGeneratedStep, StatementSettings
<1>5. Good(d5) /\ Reached(6, d5) /\ d5.legacy_v136_migrated
  <2> HIDE DEF d4
  <2>1. NoNull(d4)
    BY <1>4 DEF Reached
  <2> QED BY <1>0, <1>4, <2>1, CopyLegacyStep, StatementSettings
<1>6. Good(d6) /\ Reached(7, d6) /\ d6.legacy_v136_migrated
  <2> HIDE DEF d5
  <2> QED BY <1>0, <1>5, SetSequenceStep, StatementSettings
<1>7. Good(d7) /\ d7.legacy_v136_migrated
  <2> HIDE DEF d6
  <2> QED BY <1>0, <1>6, AddLifecycleColumnsStep, StatementSettings
<1>8. Configured(d8, o) /\ d8.legacy_v136_migrated
  <2> HIDE DEF d7
  <2> QED BY <1>0, <1>7, StatementSettings
<1>9. Script(d, o) = d8
  BY DEF Script
<1> HIDE DEF d8
<1> QED BY <1>8, <1>9

\* No step takes the marker of the copy away, and the page is careful whatever
\* happens to the database as long as the copy has been made.
LEMMA NextConfigured ==
  ASSUME Upgraded, Configured(db, old), Careful(page, db, old), [Next]_vars
  PROVE  /\ Configured(db', old) /\ old' = old
         /\ db.legacy_v136_migrated => db'.legacy_v136_migrated
<1>1. /\ old \in Old /\ db \in Database /\ Consistent(db, old, approved)
      /\ db.legacy_v136_migrated => NoNull(db)
  BY DEF Upgraded, TypeOK, Consistent, Marked
<1>2. CASE ManualStep
  <2>1. /\ manual \in {1, 2, 3, 4, 5, 6, 7, 8} /\ db' = Statement(manual, db, old) /\ old' = old
        /\ Reached(manual, db)
    BY <1>2 DEF ManualStep, Upgraded, TypeOK, Last
  <2>2. CASE manual = 5
    <3>1. db' = CopyLegacy(db, old) /\ NoNull(db)
      BY <2>1, <2>2 DEF Statement, Reached
    <3> QED BY <1>1, <2>1, <3>1, StatementSettings
  <2>3. CASE manual # 5
    <3>1. db' \in {CreateTables(db), InsertDefaults(db), CorrectPools(db), InsertGenerated(db),
                   SetSequence(db), AddLifecycleColumns(db), HoldHistory(db)}
      BY <2>1, <2>3 DEF Statement
    <3> QED BY <1>1, <2>1, <3>1, StatementSettings
  <2> QED BY <2>2, <2>3
<1>3. CASE ScriptCommits
  BY <1>1, <1>3, ScriptSettings DEF ScriptCommits
<1>4. CASE ~ManualStep /\ ~ScriptCommits
  <2>1. /\ db'.legacy_v136_migrated = db.legacy_v136_migrated /\ old' = old
        /\ saveEconomy \/ saveMultipliers \/ db'.config = db.config
    BY <1>4, FurnitureSteps
  <2>2. CASE db'.config = db.config
    BY <2>1, <2>2 DEF Configured
  <2>3. CASE saveEconomy \/ saveMultipliers
    <3>1. PICK j \in Keys : db' = [db EXCEPT !.config[j] = page.payload[j]] /\ page.save # "none"
      BY <2>3 DEF saveEconomy, saveMultipliers, Keys
    <3>2. db.legacy_v136_migrated /\ page.payload[j] \in Kept(old, j)
      BY <3>1 DEF Careful
    <3>3. \A k \in Keys : db'.config[k] = IF k = j THEN page.payload[j] ELSE db.config[k]
      BY <1>1, <3>1 DEF Database
    <3> QED BY <2>1, <3>2, <3>3 DEF Configured
  <2> QED BY <2>1, <2>2, <2>3
<1> QED BY <1>2, <1>3, <1>4

\* The page reads a form only from settings that have been copied, and is saved
\* only from a form that is current.
LEMMA NextCareful ==
  ASSUME CarefulSave, Upgraded, Configured(db, old), Careful(page, db, old), [Next]_vars
  PROVE  Careful(page', db', old)
<1> DEFINE m == "airdrop_multipliers"
           e == "airdrop_economy"
<1>1. /\ old \in Old /\ db \in Database /\ page \in Page /\ m \in Keys /\ e \in Keys
      /\ Keys = {m, e} /\ m # e
  BY DEF Upgraded, TypeOK, Keys
<1>2. db.legacy_v136_migrated => db'.legacy_v136_migrated
  BY NextConfigured
<1>3. CASE page' = page
  BY <1>2, <1>3 DEF Careful
<1>4. CASE page' = [page EXCEPT !.current = FALSE]
  BY <1>1, <1>2, <1>4 DEF Careful, Page
<1>5. CASE initSucceeds
  <2>1. /\ page'.load = m /\ page'.form = page.form /\ page'.save = page.save
        /\ page'.payload = page.payload /\ page'.current = page.current
    BY <1>1, <1>5 DEF initSucceeds, Page
  <2> QED BY <1>1, <1>2, <2>1 DEF Careful
<1>6. CASE openPage
  BY <1>6 DEF openPage, Opened, Careful
<1>7. CASE loadMultipliers
  <2>1. /\ page'.load = e /\ page'.form[m] = Shown(m, db.config[m]) /\ page'.save = page.save
        /\ page'.payload = page.payload /\ page'.current = ready
    BY <1>1, <1>7 DEF loadMultipliers, Page, Form
  <2>2. ready => db.legacy_v136_migrated
    BY DEF Upgraded, Consistent, Marked
  <2>3. ready => page'.form[m] \in Kept(old, m)
    BY <1>1, <2>1, <2>2, KeptShown DEF Configured
  <2> QED BY <1>1, <1>2, <2>1, <2>2, <2>3 DEF Careful
<1>8. CASE loadEconomy
  <2>1. /\ page'.load = "none" /\ page'.form[e] = Shown(e, db.config[e])
        /\ page'.form[m] = page.form[m] /\ page'.save = page.save
        /\ page'.payload = page.payload /\ page'.current = page.current
    BY <1>1, <1>8 DEF loadEconomy, Page, Form
  <2>2. page.current => page'.form[e] \in Kept(old, e)
    BY <1>1, <2>1, KeptShown DEF Configured, Careful
  <2> QED BY <1>1, <1>2, <2>1, <2>2 DEF Careful
<1>9. CASE loadFails
  <2>1. ~page'.current /\ page'.save = page.save /\ page'.payload = page.payload
    BY <1>1, <1>9 DEF loadFails, Page
  <2> QED BY <1>2, <2>1 DEF Careful
<1>10. CASE handleSaveAllSettings
  <2>1. /\ page.current /\ page.load = "none" /\ page'.payload = page.form
        /\ page'.form = page.form /\ page'.current = page.current /\ page'.load = page.load
    BY <1>1, <1>10 DEF handleSaveAllSettings, Page
  <2> QED BY <1>1, <1>2, <2>1 DEF Careful
<1>11. CASE saveEconomy
  <2>1. /\ page.save # "none" /\ page'.payload = page.payload /\ page'.form = page.form
        /\ page'.current = page.current /\ page'.load = page.load
    BY <1>1, <1>11 DEF saveEconomy, Page
  <2> QED BY <1>2, <2>1 DEF Careful
<1>12. CASE saveMultipliers \/ saveFails
  <2>1. /\ page'.save = "none" /\ page'.form = page.form
        /\ page'.current = page.current /\ page'.load = page.load
    BY <1>1, <1>12 DEF saveMultipliers, saveFails, Page
  <2> QED BY <1>2, <2>1 DEF Careful
<1>13. CASE ByHand
  BY <1>3, <1>4, <1>13 DEF ByHand, ManualStart, ManualStep, ManualAbort
<1>14. CASE Console
  BY <1>3, <1>4, <1>5, <1>14 DEF Console, handleInitializeSchema, ScriptCommits, ScriptFails,
                                 initFails, initTimesOut
<1>15. CASE Settings
  BY <1>6, <1>7, <1>8, <1>9, <1>10, <1>11, <1>12, <1>15 DEF Settings
<1>16. CASE Servers
  BY <1>3, <1>16 DEF Servers, Start, Stop, queueReward, deliver, approveHistoricalDelivery, servers
<1>17. CASE UNCHANGED vars
  BY <1>3, <1>17 DEF vars
<1> QED BY <1>13, <1>14, <1>15, <1>16, <1>17 DEF Next

\* If settings are saved only after they have been loaded, the script and the
\* page leave those of the earlier version as they were, but for zeros: through
\* interrupted scripts, belated ones, loads that stop half-way and saves.
THEOREM SettingsSurvive == CarefulSave /\ Spec => []SettingsKept
<1> DEFINE Inv == Upgraded /\ Configured(db, old) /\ Careful(page, db, old)
<1>1. Init => Inv
  <2> SUFFICES ASSUME Init PROVE Configured(db, old) /\ Careful(page, db, old)
    BY InitUpgraded
  <2>1. old \in Old /\ db = Before(old)
    BY UpgradeAssumption DEF Init
  <2>2. Careful(page, db, old)
    BY DEF Init, Opened, Careful
  <2>3. CASE old.version # "1.3.7"
    <3>1. ~db.legacy_v136_migrated /\ \A k \in Keys : db.config[k] = Null
      BY <2>1, <2>3 DEF Before, Empty
    <3> QED BY <2>2, <2>3, <3>1 DEF Configured, Given
  <2>4. CASE old.version = "1.3.7"
    <3> DEFINE f == Filled(Empty, old)
    <3>1. f \in Database /\ f.legacy_v136_migrated = Empty.legacy_v136_migrated
      BY <2>1, EmptyTypes, FilledFields
    <3>2. db = [f EXCEPT !.tables = TRUE, !.nextId = Above(Historical), !.config = old.config,
                         !.loot = old.loot]
      BY <2>1, <2>4 DEF Before
    <3>3. ~Empty.legacy_v136_migrated
      BY DEF Empty
    <3> HIDE DEF f
    <3>4. db.config = old.config /\ ~db.legacy_v136_migrated
      BY <3>1, <3>2, <3>3 DEF Database
    <3> QED BY <2>2, <2>4, <3>4 DEF Configured, Given
  <2> QED BY <2>3, <2>4
<1>2. ASSUME CarefulSave PROVE Inv /\ [Next]_vars => Inv'
  <2> SUFFICES ASSUME Inv, [Next]_vars PROVE Inv'
    OBVIOUS
  <2>1. Configured(db', old) /\ old' = old
    BY NextConfigured
  <2>2. Careful(page', db', old)
    BY <1>2, NextCareful
  <2> QED BY <2>1, <2>2, NextUpgraded
<1>3. Inv => SettingsKept
  <2>1. \A k \in Keys : Inherited(k) = Left(old, k)
    BY DEF Inherited, Left
  <2> QED BY <2>1 DEF SettingsKept, Configured, Kept
<1> HIDE DEF Inv
<1>4. ASSUME CarefulSave PROVE Spec => []SettingsKept
  BY <1>1, <1>2, <1>3, <1>4, PTL DEF Spec
<1> QED BY <1>4
=============================================================================
