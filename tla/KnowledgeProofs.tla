----------------------------- MODULE KnowledgeProofs ---------------------------
(* Proofs about Knowledge for every set of items, projects, labels and writers, any *)
(* number of edits under way at once and any number of versions.                    *)
EXTENDS Knowledge, SequenceTheorems, TLAPS

--------------------------------------------------------------------------------
(* How rows change: what a transaction does to a row that exists is to age it, and to  *)
(* an item at most to add one row.                                                     *)

\* A row after another transaction: its life cycle may advance, what it says may not.
Aged(old, new) ==
    /\ new \in Row
    /\ new.class = old.class /\ new.producer = old.producer /\ new.labels = old.labels
    /\ new.text = old.text /\ new.base = old.base
    /\ new.state = "accepted" => old.state = "accepted"
    /\ old.deleted => new.deleted

AgedSeq(s, t) == t \in Seq(Row) /\ Len(t) = Len(s) /\ \A v \in 1..Len(s) : Aged(s[v], t[v])

\* A row as the writers' rules leave it: reviewed before it is accepted, and what came from
\* a migration an observation still.
Sound(row) ==
    /\ row.state = "accepted" => row.producer \notin {"model", "migration"}
    /\ row.producer = "migration" => row.class = "observation"

(* The four ways a row is rewritten. *)
LEMMA AgedByState ==
    ASSUME NEW old \in Row, NEW s \in AcceptanceState, s = "accepted" => old.state = "accepted"
    PROVE  Aged(old, [old EXCEPT !.state = s])
  BY DEF Aged, Row

LEMMA AgedByDeletion ==
    ASSUME NEW old \in Row
    PROVE  /\ Aged(old, [old EXCEPT !.state = "deleted", !.deleted = TRUE])
           /\ [old EXCEPT !.state = "deleted", !.deleted = TRUE].deleted
  BY DEF Aged, Row, AcceptanceState

LEMMA AgedByDispute ==
    ASSUME NEW old \in Row
    PROVE  Aged(old, Dispute(old)) /\ Aged(old, old)
  BY DEF Aged, Row, Dispute, AcceptanceState

(* Aging keeps a row sound, and shows as no change of what it says. *)
LEMMA AgedIsSound ==
    ASSUME NEW old \in Row, NEW new, Aged(old, new), Sound(old)
    PROVE  Sound(new)
  BY DEF Aged, Sound

LEMMA AgedSaysTheSame ==
    ASSUME NEW old \in Row, NEW new, Aged(old, new)
    PROVE  [new EXCEPT !.state = "deleted", !.deleted = TRUE] =
           [old EXCEPT !.state = "deleted", !.deleted = TRUE]
  BY DEF Aged, Row

(* Rewriting one row of an item, or none. *)
LEMMA SeqKept ==
    ASSUME NEW s \in Seq(Row)
    PROVE  AgedSeq(s, s)
  BY AgedByDispute, ElementOfSeq DEF AgedSeq

LEMMA SeqRewritten ==
    ASSUME NEW s \in Seq(Row), NEW n, NEW x, n \in 1..Len(s) => Aged(s[n], x)
    PROVE  AgedSeq(s, [s EXCEPT ![n] = x])
  <1>1. CASE n \in 1..Len(s)
    <2>1. x \in Row
      BY <1>1 DEF Aged
    <2>2. /\ [s EXCEPT ![n] = x] \in Seq(Row)
          /\ Len([s EXCEPT ![n] = x]) = Len(s)
          /\ \A j \in 1..Len(s) : [s EXCEPT ![n] = x][j] = IF j = n THEN x ELSE s[j]
      BY <1>1, <2>1, ExceptSeq
    <2>3. \A j \in 1..Len(s) : Aged(s[j], s[j])
      BY AgedByDispute, ElementOfSeq
    <2>4. QED
      BY <1>1, <2>2, <2>3 DEF AgedSeq
  <1>2. CASE n \notin 1..Len(s)
    <2>1. [s EXCEPT ![n] = x] = s
      BY <1>2, LenProperties
    <2>2. QED
      BY <2>1, SeqKept
  <1>3. QED
    BY <1>1, <1>2

LEMMA SeqMapped ==
    ASSUME NEW s \in Seq(Row), NEW t, DOMAIN t = DOMAIN s, t = [v \in DOMAIN s |-> t[v]],
           \A v \in DOMAIN s : Aged(s[v], t[v])
    PROVE  AgedSeq(s, t)
  <1>1. DOMAIN s = 1..Len(s) /\ Len(s) \in Nat
    BY LenProperties
  <1>2. t \in [1..Len(s) -> Row]
    BY <1>1 DEF Aged
  <1>3. t \in Seq(Row) /\ Len(t) = Len(s)
    BY <1>1, <1>2
  <1>4. QED
    BY <1>1, <1>3 DEF AgedSeq

--------------------------------------------------------------------------------
(* The inductive invariant. *)

(* An edit under way was made from the version its row names and follows the writers'   *)
(* rules, whatever has been committed since.                                            *)
EditsAreSound ==
    \A e \in edits : e.base < MaxVersions /\ e.row.base = e.base /\ Sound(e.row)

(* So do the rows, each made from the one before it. *)
RowsAreSound ==
    \A i \in Items : \A v \in 1..Len(rows[i]) : Sound(rows[i][v]) /\ rows[i][v].base = v - 1

(* A tombstone is for a row that carries the mark. *)
TombstonesAreMarked ==
    \A r \in tombstones : r[2] \in 1..Len(rows[r[1]]) /\ RowOf(r).deleted

KnowledgeInv == EditsAreSound /\ RowsAreSound /\ TombstonesAreMarked

\* What a transaction does to the rows of an item: they age, and those it adds are sound.
GrownSeq(s, t) ==
    /\ Len(t) \in Len(s)..MaxVersions
    /\ \A v \in 1..Len(s) : Aged(s[v], t[v])
    /\ \A v \in (Len(s) + 1)..Len(t) : Sound(t[v]) /\ t[v].base = v - 1

Grows ==
    /\ rows' \in [Items -> Seq(Row)]
    /\ \A i \in Items : GrownSeq(rows[i], rows'[i])

--------------------------------------------------------------------------------
(* What is read of a state. *)

LEMMA RowsOf ==
    ASSUME TypeOK, NEW i \in Items
    PROVE  /\ rows[i] \in Seq(Row)
           /\ Len(rows[i]) \in 0..MaxVersions
           /\ DOMAIN rows[i] = 1..Len(rows[i])
           /\ \A v \in 1..Len(rows[i]) : rows[i][v] \in Row
           /\ rows[i] # <<>> => Len(rows[i]) >= 1 /\ rows[i][Latest(i)] \in Row
  <1>1. rows[i] \in Seq(Row) /\ Len(rows[i]) <= MaxVersions
    BY DEF TypeOK
  <1>2. /\ Len(rows[i]) \in Nat /\ DOMAIN rows[i] = 1..Len(rows[i])
        /\ \A v \in 1..Len(rows[i]) : rows[i][v] \in Row
        /\ rows[i] # <<>> => Len(rows[i]) \in Nat \ {0}
    BY <1>1, LenProperties, ElementOfSeq, EmptySeq
  <1>3. QED
    BY <1>1, <1>2, KnowledgeAssumption DEF Latest

LEMMA RefIs ==
    ASSUME TypeOK, NEW r \in Refs, Exists(r)
    PROVE  /\ r[1] \in Items /\ r[2] \in 1..Len(rows[r[1]]) /\ r = <<r[1], r[2]>>
           /\ r[2] \in Versions /\ RowOf(r) \in Row
  <1>1. r[1] \in Items /\ r[2] \in Versions /\ r = <<r[1], r[2]>>
    BY DEF Refs
  <1>2. QED
    BY <1>1, RowsOf DEF Exists, RowOf

(* The rows stay as they are. *)
LEMMA GrowsNot ==
    ASSUME TypeOK, rows' = rows
    PROVE  Grows
  <1>1. \A i \in Items : Len(rows[i]) \in Len(rows[i])..MaxVersions
    BY RowsOf
  <1>2. \A i \in Items : \A v \in 1..Len(rows[i]) : Aged(rows[i][v], rows[i][v])
    BY RowsOf, AgedByDispute
  <1>3. \A i \in Items : (Len(rows[i]) + 1)..Len(rows[i]) = {}
    BY RowsOf
  <1>4. QED
    BY <1>1, <1>2, <1>3 DEF Grows, GrownSeq, TypeOK

(* Every item ages and none gains a row. *)
LEMMA GrowsOlder ==
    ASSUME TypeOK, NEW f, rows' = f, f \in [Items -> Seq(Row)],
           \A i \in Items : AgedSeq(rows[i], f[i])
    PROVE  Grows
  <1>1. \A i \in Items : Len(f[i]) = Len(rows[i]) /\ Len(f[i]) \in Len(rows[i])..MaxVersions
    BY RowsOf DEF AgedSeq
  <1>2. \A i \in Items : \A v \in 1..Len(rows[i]) : Aged(rows[i][v], f[i][v])
    BY DEF AgedSeq
  <1>3. \A i \in Items : (Len(rows[i]) + 1)..Len(f[i]) = {}
    BY <1>1, RowsOf
  <1>4. QED
    BY <1>1, <1>2, <1>3 DEF Grows, GrownSeq

(* Aging and growing keep what the invariant says of the rows. *)
LEMMA GrowsSoundly ==
    ASSUME TypeOK, RowsAreSound, Grows
    PROVE  RowsAreSound'
  <1> SUFFICES ASSUME NEW i \in Items, NEW v \in 1..Len(rows'[i])
               PROVE  Sound(rows'[i][v]) /\ rows'[i][v].base = v - 1
    BY DEF RowsAreSound, Sound
  <1>1. Len(rows[i]) \in Nat /\ Len(rows'[i]) \in Nat /\ Len(rows[i]) <= Len(rows'[i])
    BY RowsOf DEF Grows, GrownSeq
  <1>2. CASE v \in 1..Len(rows[i])
    <2>1. rows[i][v] \in Row /\ Aged(rows[i][v], rows'[i][v])
      BY <1>2, RowsOf DEF Grows, GrownSeq
    <2>2. Sound(rows'[i][v])
      BY <1>2, <2>1, AgedIsSound DEF RowsAreSound
    <2>3. QED
      BY <1>2, <2>1, <2>2 DEF RowsAreSound, Aged
  <1>3. CASE v \in (Len(rows[i]) + 1)..Len(rows'[i])
    BY <1>3 DEF Grows, GrownSeq
  <1>4. QED
    BY <1>1, <1>2, <1>3

LEMMA GrowsMarked ==
    ASSUME TypeOK, TombstonesAreMarked, Grows, NEW r \in tombstones
    PROVE  r[2] \in 1..Len(rows'[r[1]]) /\ rows'[r[1]][r[2]].deleted
  <1>1. r[1] \in Items /\ r[2] \in 1..Len(rows[r[1]]) /\ rows[r[1]][r[2]].deleted
    BY DEF TypeOK, Refs, TombstonesAreMarked, RowOf
  <1>2. Aged(rows[r[1]][r[2]], rows'[r[1]][r[2]]) /\ Len(rows'[r[1]]) \in Len(rows[r[1]])..MaxVersions
    BY <1>1 DEF Grows, GrownSeq
  <1>3. QED
    BY <1>1, <1>2, RowsOf DEF Aged

--------------------------------------------------------------------------------
(* What each transaction does to the rows and to the edits under way. *)

(* The first row of an item. *)
LEMMA ItemCreated ==
    ASSUME TypeOK, NEW i \in Items, NEW row \in Row, Sound(row), row.base = 0,
           rows[i] = <<>>, rows' = [rows EXCEPT ![i] = <<row>>]
    PROVE  Grows
  <1>1. <<row>> \in Seq(Row) /\ Len(<<row>>) = 1 /\ <<row>>[1] = row /\ Len(rows[i]) = 0
    BY EmptySeq
  <1>2. /\ rows' \in [Items -> Seq(Row)] /\ rows'[i] = <<row>>
        /\ \A j \in Items : j # i => rows'[j] = rows[j]
    BY <1>1 DEF TypeOK
  <1>3. ASSUME NEW j \in Items
        PROVE  /\ Len(rows'[j]) \in Len(rows[j])..MaxVersions
               /\ \A v \in 1..Len(rows[j]) : Aged(rows[j][v], rows'[j][v])
               /\ \A v \in (Len(rows[j]) + 1)..Len(rows'[j]) :
                    Sound(rows'[j][v]) /\ rows'[j][v].base = v - 1
    <2>1. CASE j = i
      BY <2>1, <1>1, <1>2, KnowledgeAssumption
    <2>2. CASE j # i
      <3>1. rows'[j] = rows[j] /\ Len(rows[j]) \in 0..MaxVersions
        BY <2>2, <1>2, RowsOf
      <3>2. \A v \in 1..Len(rows[j]) : Aged(rows[j][v], rows[j][v])
        BY RowsOf, AgedByDispute
      <3>3. QED
        BY <3>1, <3>2
    <2>3. QED
      BY <2>1, <2>2
  <1>4. QED
    BY <1>2, <1>3 DEF Grows, GrownSeq

(* What a mapped legacy memory is: an unreviewed observation. *)
LEMMA MappedIsSound ==
    ASSUME NEW kind, NEW ls \in SUBSET Labels
    PROVE  MapRecord(kind, ls) \in Row /\ Sound(MapRecord(kind, ls)) /\ MapRecord(kind, ls).base = 0
  BY KnowledgeAssumption DEF MapRecord, KindToClass, Row, Sound, KnowledgeClass, AcceptanceState,
     Producers, Versions

LEMMA CreatesGrow ==
    ASSUME TypeOK, NEW i \in Items, NEW ls \in Audiences,
           \/ \E p \in Writers : CreateItem(i, p, ls)
           \/ \E kind \in MemoryKinds, t \in BOOLEAN : Migrate(i, kind, t, ls)
    PROVE  Grows /\ UNCHANGED <<edits, links, tombstones, invalidated>>
  <1>0. ls \in SUBSET Labels
    BY KnowledgeAssumption
  <1>1. ASSUME NEW p \in Writers, CreateItem(i, p, ls)
        PROVE  Grows /\ UNCHANGED <<edits, links, tombstones, invalidated>>
    <2> DEFINE row == [class |-> FirstClass[i], state |-> "unreviewed", producer |-> p, labels |-> ls,
                       deleted |-> FALSE, text |-> 1, base |-> 0]
    <2>1. row \in Row
      BY <1>0, KnowledgeAssumption DEF Row, AcceptanceState, Versions
    <2>2. row.base = 0 /\ Sound(row)
      BY KnowledgeAssumption DEF Sound
    <2>3. QED
      BY <1>1, <2>1, <2>2, ItemCreated DEF CreateItem
  <1>2. ASSUME NEW kind \in MemoryKinds, NEW t \in BOOLEAN, Migrate(i, kind, t, ls)
        PROVE  Grows /\ UNCHANGED <<edits, links, tombstones, invalidated>>
    BY <1>0, <1>2, MappedIsSound, ItemCreated DEF Migrate
  <1>3. QED
    BY <1>1, <1>2

(* The read of an edit: it takes down the latest version and a sound row. *)
LEMMA EditNoted ==
    ASSUME TypeOK, KnowledgeInv, NEW i \in Items, NEW row \in Row, NEW old \in 0..MaxVersions,
           row.base = Latest(i), row.producer = "migration" => row.class = "observation",
           Read(i, row, old)
    PROVE  TypeOK' /\ KnowledgeInv' /\ Grows
  <1>1. Latest(i) \in Versions /\ Latest(i) < MaxVersions
    BY RowsOf DEF Read, Latest, Versions
  <1>2. Sound(row)
    BY DEF Sound, Read, Writable, ReviewableClass
  <1>3. [item |-> i, base |-> Latest(i), row |-> row, supersedes |-> old] \in Edit
    BY <1>1 DEF Edit
  <1>4. PICK e \in Edit : /\ e.base = Latest(i) /\ e.row = row
                          /\ edits' = edits \cup {e}
    BY <1>3 DEF Read
  <1>5. EditsAreSound'
    BY <1>1, <1>2, <1>4 DEF EditsAreSound, KnowledgeInv, Sound
  <1>6. UNCHANGED <<rows, links, tombstones, invalidated>>
    BY DEF Read
  <1>7. TypeOK'
    BY <1>4, <1>6 DEF TypeOK
  <1>8. RowsAreSound' /\ TombstonesAreMarked'
    BY <1>6 DEF KnowledgeInv, RowsAreSound, TombstonesAreMarked, RowOf, Sound
  <1>9. QED
    BY <1>5, <1>6, <1>7, <1>8, GrowsNot DEF KnowledgeInv

(* The three kinds of edit. *)
LEMMA EditsRead ==
    ASSUME TypeOK, KnowledgeInv, NEW i \in Items, NEW ls \in Audiences,
           NEW s \in {"unreviewed", "accepted"}, NewVersion(i, s, ls)
    PROVE  TypeOK' /\ KnowledgeInv' /\ Grows
  <1> DEFINE latest == rows[i][Latest(i)]
             row == [latest EXCEPT !.state = s, !.labels = ls, !.deleted = FALSE,
                                   !.text = Latest(i) + 1, !.base = Latest(i)]
  <1>1. rows[i] # <<>> /\ Latest(i) < MaxVersions /\ Read(i, row, 0)
    BY DEF NewVersion, Read
  <1>2. latest \in Row /\ Latest(i) \in 1..Len(rows[i]) /\ Latest(i) \in Nat /\ Latest(i) >= 1
    BY <1>1, RowsOf DEF Latest
  <1>3. latest.producer = "migration" => latest.class = "observation"
    BY <1>2 DEF KnowledgeInv, RowsAreSound, Sound
  <1>4. row \in Row
    <2>1. /\ Latest(i) + 1 \in Versions /\ Latest(i) \in 0..MaxVersions
          /\ ls \in SUBSET Labels /\ s \in AcceptanceState
      BY <1>1, <1>2, KnowledgeAssumption DEF Versions, AcceptanceState
    <2>2. QED
      BY <1>2, <2>1 DEF Row
  <1>5. row.base = Latest(i) /\ row.producer = latest.producer /\ row.class = latest.class
    BY <1>2 DEF Row
  <1>6. 0 \in 0..MaxVersions
    BY KnowledgeAssumption
  <1> HIDE DEF row
  <1>7. QED
    BY <1>1, <1>3, <1>4, <1>5, <1>6, EditNoted

LEMMA PromotedIsClass ==
    ASSUME NEW c \in KnowledgeClass PROVE Promoted(c) \in KnowledgeClass
  BY DEF Promoted, KnowledgeClass

LEMMA ReviewsRead ==
    ASSUME TypeOK, KnowledgeInv, NEW r \in Refs, AcceptFact(r) \/ Supersede(r)
    PROVE  TypeOK' /\ KnowledgeInv' /\ Grows
  <1>1. Exists(r)
    BY DEF AcceptFact, Supersede
  <1>2. r[1] \in Items /\ r[2] \in Versions /\ r[2] \in 0..MaxVersions /\ RowOf(r) \in Row
    BY <1>1, RefIs DEF Versions
  <1>3. Latest(r[1]) < MaxVersions /\ Latest(r[1]) \in 0..MaxVersions
    BY <1>2, RowsOf DEF AcceptFact, Supersede, Read, Latest
  <1>4. Promoted(RowOf(r).class) \in KnowledgeClass
    BY <1>2, PromotedIsClass DEF Row
  <1>5. CASE AcceptFact(r)
    <2> DEFINE row == [RowOf(r) EXCEPT !.class = Promoted(@), !.state = "accepted",
                                       !.producer = "reviewer", !.deleted = FALSE, !.base = Latest(r[1])]
    <2>1. row \in Row /\ row.base = Latest(r[1]) /\ row.producer = "reviewer"
      BY <1>2, <1>3, <1>4 DEF Row, AcceptanceState, Producers
    <2>2. Read(r[1], row, 0)
      BY <1>5 DEF AcceptFact
    <2>3. 0 \in 0..MaxVersions
      BY KnowledgeAssumption
    <2> HIDE DEF row
    <2>4. QED
      BY <1>2, <2>1, <2>2, <2>3, EditNoted
  <1>6. CASE Supersede(r)
    <2> DEFINE row == [RowOf(r) EXCEPT !.class = Promoted(@), !.state = "accepted",
                                       !.producer = "reviewer", !.deleted = FALSE,
                                       !.text = Latest(r[1]) + 1, !.base = Latest(r[1])]
    <2>0. Latest(r[1]) + 1 \in Versions
      BY <1>3, KnowledgeAssumption DEF Versions
    <2>1. row \in Row /\ row.base = Latest(r[1]) /\ row.producer = "reviewer"
      BY <1>2, <1>3, <1>4, <2>0 DEF Row, AcceptanceState, Producers
    <2>2. Read(r[1], row, r[2])
      BY <1>6 DEF Supersede
    <2>3. QED
      BY <1>2, <2>1, <2>2, EditNoted
  <1>7. QED
    BY <1>5, <1>6

(* An item that only aged has grown. *)
LEMMA AgedHasGrown ==
    ASSUME TypeOK, NEW i \in Items, NEW t, AgedSeq(rows[i], t)
    PROVE  GrownSeq(rows[i], t)
  <1>1. Len(rows[i]) \in 0..MaxVersions /\ Len(t) = Len(rows[i])
    BY RowsOf DEF AgedSeq
  <1>2. QED
    BY <1>1 DEF AgedSeq, GrownSeq

(* The invalidation of the summaries of an item touches other items only, and ages them. *)
LEMMA DisputesOthers ==
    ASSUME TypeOK, NEW i \in Items, NEW rs \in [Items -> Seq(Row)],
           \A s \in Items \ {i} : rs[s] = rows[s]
    PROVE  /\ Disputed(rs, i) \in [Items -> Seq(Row)]
           /\ Disputed(rs, i)[i] = rs[i]
           /\ \A s \in Items \ {i} : AgedSeq(rows[s], Disputed(rs, i)[s])
  <1>1. i \notin Dependents(i)
    BY DEF Dependents
  <1>2. ASSUME NEW s \in Items \ {i} PROVE AgedSeq(rows[s], Disputed(rs, i)[s])
    <2>1. rows[s] \in Seq(Row)
      BY RowsOf
    <2>2. CASE s \in Dependents(i)
      <3>1. \A n \in 1..Len(rows[s]) : Aged(rows[s][n], [rows[s][n] EXCEPT !.state = "disputed"])
        BY RowsOf, AgedByState DEF AcceptanceState
      <3>2. AgedSeq(rows[s], [rows[s] EXCEPT ![Latest(s)] = [rows[s][Latest(s)] EXCEPT !.state = "disputed"]])
        BY <2>1, <3>1, SeqRewritten
      <3>3. Disputed(rs, i)[s] =
              [rows[s] EXCEPT ![Latest(s)] = [rows[s][Latest(s)] EXCEPT !.state = "disputed"]]
        BY <2>2 DEF Disputed
      <3>4. QED
        BY <3>2, <3>3
    <2>3. CASE s \notin Dependents(i)
      <3>1. Disputed(rs, i)[s] = rows[s]
        BY <2>3 DEF Disputed
      <3>2. QED
        BY <2>1, <3>1, SeqKept
    <2>4. QED
      BY <2>2, <2>3
  <1>3. Disputed(rs, i)[i] = rs[i]
    BY <1>1 DEF Disputed
  <1>4. \A s \in Items : Disputed(rs, i)[s] \in Seq(Row)
    BY <1>2, <1>3 DEF AgedSeq
  <1>5. Disputed(rs, i) \in [Items -> Seq(Row)]
    BY <1>4 DEF Disputed
  <1>6. QED
    BY <1>2, <1>3, <1>5

(* The insert of an edit adds its row behind the ones it has. *)
LEMMA InsertGrows ==
    ASSUME TypeOK, KnowledgeInv, NEW e \in edits, Insertable(e)
    PROVE  Versioned(e) \in Seq(Row) /\ GrownSeq(rows[e.item], Versioned(e))
  <1> DEFINE i == e.item
             t == IF e.supersedes = 0 THEN rows[i]
                  ELSE [rows[i] EXCEPT ![e.supersedes] = [rows[i][e.supersedes] EXCEPT !.state = "superseded"]]
  <1>1. i \in Items /\ e.row \in Row /\ e.base \in Nat
    BY DEF TypeOK, Edit, Versions
  <1>2. e.base = Len(rows[i]) /\ e.base < MaxVersions /\ e.row.base = e.base /\ Sound(e.row)
    BY DEF Insertable, Latest, KnowledgeInv, EditsAreSound
  <1>3. AgedSeq(rows[i], t)
    <2>1. rows[i] \in Seq(Row)
      BY <1>1, RowsOf
    <2>2. \A n \in 1..Len(rows[i]) : Aged(rows[i][n], [rows[i][n] EXCEPT !.state = "superseded"])
      BY <1>1, RowsOf, AgedByState DEF AcceptanceState
    <2>3. QED
      BY <2>1, <2>2, SeqKept, SeqRewritten
  <1>4. Versioned(e) = Append(t, e.row)
    BY DEF Versioned
  <1>5. t \in Seq(Row) /\ Len(t) = Len(rows[i]) /\ \A v \in 1..Len(rows[i]) : Aged(rows[i][v], t[v])
    BY <1>3 DEF AgedSeq
  <1> HIDE DEF t
  <1>6. /\ Versioned(e) \in Seq(Row) /\ Len(Versioned(e)) = Len(rows[i]) + 1
        /\ \A v \in 1..Len(rows[i]) : Versioned(e)[v] = t[v]
        /\ Versioned(e)[Len(rows[i]) + 1] = e.row
    BY <1>1, <1>2, <1>4, <1>5
  <1>7. Len(rows[i]) \in Nat /\ MaxVersions \in Nat
    BY <1>1, <1>2, KnowledgeAssumption
  <1>8. /\ Len(Versioned(e)) \in Len(rows[i])..MaxVersions
        /\ (Len(rows[i]) + 1)..Len(Versioned(e)) = {Len(rows[i]) + 1}
    BY <1>2, <1>6, <1>7
  <1>9. QED
    BY <1>2, <1>5, <1>6, <1>7, <1>8 DEF GrownSeq

LEMMA CommitGrows ==
    ASSUME TypeOK, KnowledgeInv, NEW e \in edits, Commit(e)
    PROVE  Grows
  <1> DEFINE i == e.item
             inserted == [rows EXCEPT ![i] = Versioned(e)]
  <1>1. Insertable(e) /\ rows' = IF e.supersedes = 0 THEN inserted ELSE Disputed(inserted, i)
    BY DEF Commit
  <1>2. i \in Items
    BY DEF TypeOK, Edit
  <1>3. Versioned(e) \in Seq(Row) /\ GrownSeq(rows[i], Versioned(e))
    BY <1>1, InsertGrows
  <1>4. /\ inserted \in [Items -> Seq(Row)] /\ inserted[i] = Versioned(e)
        /\ \A s \in Items \ {i} : inserted[s] = rows[s]
    BY <1>2, <1>3 DEF TypeOK
  <1>5. \A s \in Items \ {i} : AgedSeq(rows[s], inserted[s])
    BY <1>4, RowsOf, SeqKept
  <1>6. /\ rows' \in [Items -> Seq(Row)] /\ rows'[i] = Versioned(e)
        /\ \A s \in Items \ {i} : AgedSeq(rows[s], rows'[s])
    <2> HIDE DEF inserted
    <2>1. QED
      BY <1>1, <1>2, <1>4, <1>5, DisputesOthers
  <1>7. \A s \in Items \ {i} : GrownSeq(rows[s], rows'[s])
    BY <1>6, AgedHasGrown
  <1>8. QED
    BY <1>3, <1>6, <1>7 DEF Grows

LEMMA ContradictionGrows ==
    ASSUME TypeOK, NEW a \in Refs, NEW b \in Refs, RecordContradiction(a, b)
    PROVE  Grows
  <1>1. ASSUME NEW i \in Items PROVE AgedSeq(rows[i], rows'[i])
    <2>1. rows'[i] = [v \in DOMAIN rows[i] |->
                        IF <<i, v>> \in {a, b} THEN Dispute(rows[i][v]) ELSE rows[i][v]]
      BY DEF RecordContradiction
    <2>2. \A v \in DOMAIN rows[i] : rows[i][v] \in Row
      BY RowsOf
    <2>3. \A v \in DOMAIN rows[i] : rows'[i][v] \in {Dispute(rows[i][v]), rows[i][v]}
      BY <2>1
    <2>4. \A v \in DOMAIN rows[i] : Aged(rows[i][v], rows'[i][v])
      BY <2>2, <2>3, AgedByDispute
    <2>5. DOMAIN rows'[i] = DOMAIN rows[i] /\ rows'[i] = [v \in DOMAIN rows[i] |-> rows'[i][v]]
      BY <2>1
    <2>6. QED
      BY <2>4, <2>5, RowsOf, SeqMapped
  <1>2. rows' \in [Items -> Seq(Row)]
    <2>1. \A i \in Items : rows'[i] \in Seq(Row)
      BY <1>1 DEF AgedSeq
    <2>2. rows' = [i \in Items |-> rows'[i]]
      BY DEF RecordContradiction
    <2>3. QED
      BY <2>1, <2>2
  <1>3. QED
    BY <1>1, <1>2, AgedHasGrown DEF Grows

LEMMA TombstoneGrows ==
    ASSUME TypeOK, NEW r \in Refs, Tombstone(r)
    PROVE  Grows /\ r[2] \in 1..Len(rows'[r[1]]) /\ rows'[r[1]][r[2]].deleted
  <1> DEFINE i == r[1]
             x == [RowOf(r) EXCEPT !.state = "deleted", !.deleted = TRUE]
             t == [rows[i] EXCEPT ![r[2]] = x]
             marked == [rows EXCEPT ![i][r[2]].state = "deleted", ![i][r[2]].deleted = TRUE]
  <1>1. i \in Items /\ r[2] \in 1..Len(rows[i]) /\ RowOf(r) \in Row /\ RowOf(r) = rows[i][r[2]]
    BY RefIs DEF Tombstone, RowOf
  <1>2. rows' = Disputed(marked, i)
    BY DEF Tombstone
  <1>3. Aged(rows[i][r[2]], x) /\ x.deleted
    BY <1>1, AgedByDeletion
  <1>4. AgedSeq(rows[i], t) /\ t[r[2]] = x
    BY <1>1, <1>3, RowsOf, SeqRewritten
  <1>5. marked = [rows EXCEPT ![i] = t]
    BY <1>1, RowsOf DEF TypeOK, RowOf
  <1>6. t \in Seq(Row)
    BY <1>4 DEF AgedSeq
  <1> HIDE DEF t, x, marked
  <1>7. /\ marked \in [Items -> Seq(Row)] /\ marked[i] = t
        /\ \A s \in Items \ {i} : marked[s] = rows[s]
    BY <1>1, <1>5, <1>6 DEF TypeOK
  <1>8. /\ rows' \in [Items -> Seq(Row)] /\ rows'[i] = t
        /\ \A s \in Items \ {i} : AgedSeq(rows[s], rows'[s])
    BY <1>1, <1>2, <1>7, DisputesOthers
  <1>9. \A s \in Items : GrownSeq(rows[s], rows'[s])
    BY <1>1, <1>4, <1>8, AgedHasGrown
  <1>10. Len(rows'[i]) = Len(rows[i]) /\ rows'[i][r[2]].deleted
    BY <1>3, <1>4, <1>8 DEF AgedSeq
  <1>11. QED
    BY <1>1, <1>8, <1>9, <1>10 DEF Grows

--------------------------------------------------------------------------------
(* The invariant, transaction by transaction. *)

LEMMA TypeInit == Init => TypeOK /\ KnowledgeInv
  <1> SUFFICES ASSUME Init PROVE TypeOK /\ KnowledgeInv
    OBVIOUS
  <1>1. <<>> \in Seq(Row) /\ Len(<<>>) = 0
    BY EmptySeq
  <1>2. QED
    BY <1>1, KnowledgeAssumption
    DEF Init, TypeOK, KnowledgeInv, EditsAreSound, RowsAreSound, TombstonesAreMarked

(* Where rows grow and the other variables keep their types, the types are kept; where  *)
(* edits only go, and every new tombstone is for a marked row, so is the invariant.      *)
LEMMA GrowsTyped ==
    ASSUME TypeOK, Grows, edits' \subseteq Edit,
           links' \subseteq [from : Refs, to : Refs, relation : Relations],
           tombstones' \subseteq Refs, invalidated' \subseteq Refs
    PROVE  TypeOK'
  <1>1. \A i \in Items : Len(rows'[i]) <= MaxVersions
    BY RowsOf, KnowledgeAssumption DEF Grows, GrownSeq
  <1>2. QED
    BY <1>1 DEF Grows, TypeOK

LEMMA GrowsKeeps ==
    ASSUME TypeOK, KnowledgeInv, Grows, edits' \subseteq edits,
           \A r \in tombstones' \ tombstones : r[2] \in 1..Len(rows'[r[1]]) /\ rows'[r[1]][r[2]].deleted
    PROVE  KnowledgeInv'
  <1>1. EditsAreSound'
    BY DEF KnowledgeInv, EditsAreSound, Sound
  <1>2. RowsAreSound'
    BY GrowsSoundly DEF KnowledgeInv
  <1>3. \A r \in tombstones' : r[2] \in 1..Len(rows'[r[1]]) /\ rows'[r[1]][r[2]].deleted
    BY GrowsMarked DEF KnowledgeInv
  <1>4. TombstonesAreMarked'
    BY <1>3 DEF TombstonesAreMarked, RowOf
  <1>5. QED
    BY <1>1, <1>2, <1>4 DEF KnowledgeInv

(* Every step: the types, the invariant, and rows that only grow. *)
LEMMA KnowledgeStep ==
    ASSUME TypeOK, KnowledgeInv, [Next]_vars
    PROVE  TypeOK' /\ KnowledgeInv' /\ Grows
  <1> USE DEF TypeOK
  <1>0. CASE UNCHANGED vars
    <2>1. rows' = rows /\ edits' = edits /\ UNCHANGED <<links, tombstones, invalidated>>
      BY <1>0 DEF vars
    <2>2. QED
      BY <2>1, GrowsNot, GrowsTyped, GrowsKeeps
  <1>1. ASSUME NEW i \in Items, NEW ls \in Audiences,
               \/ \E p \in Writers : CreateItem(i, p, ls)
               \/ \E kind \in MemoryKinds, t \in BOOLEAN : Migrate(i, kind, t, ls)
        PROVE  TypeOK' /\ KnowledgeInv' /\ Grows
    <2>1. Grows /\ UNCHANGED <<edits, links, tombstones, invalidated>>
      BY <1>1, CreatesGrow
    <2>2. QED
      BY <2>1, GrowsTyped, GrowsKeeps
  <1>2. ASSUME NEW i \in Items, NEW ls \in Audiences, NEW s \in {"unreviewed", "accepted"},
               NewVersion(i, s, ls)
        PROVE  TypeOK' /\ KnowledgeInv' /\ Grows
    BY <1>2, EditsRead
  <1>3. ASSUME NEW r \in Refs, AcceptFact(r) \/ Supersede(r)
        PROVE  TypeOK' /\ KnowledgeInv' /\ Grows
    BY <1>3, ReviewsRead
  <1>4. ASSUME NEW r \in Refs, Tombstone(r)
        PROVE  TypeOK' /\ KnowledgeInv' /\ Grows
    <2>1. Grows /\ r[2] \in 1..Len(rows'[r[1]]) /\ rows'[r[1]][r[2]].deleted
      BY <1>4, TombstoneGrows
    <2>2. tombstones' = tombstones \cup {r} /\ edits' = edits /\ links' = links
      BY <1>4 DEF Tombstone
    <2>3. \A s \in Dependents(r[1]) : <<s, Latest(s)>> \in Refs
      BY RowsOf DEF Dependents, Refs, Latest, Versions
    <2>4. invalidated' \subseteq Refs
      BY <1>4, <2>3 DEF Tombstone
    <2>5. QED
      BY <2>1, <2>2, <2>4, GrowsTyped, GrowsKeeps
  <1>5. ASSUME NEW e \in edits, Commit(e)
        PROVE  TypeOK' /\ KnowledgeInv' /\ Grows
    <2>1. Grows
      BY <1>5, CommitGrows
    <2>2. edits' \subseteq edits /\ UNCHANGED <<tombstones, invalidated>>
      BY <1>5 DEF Commit
    <2>3. e.item \in Items /\ e.base \in Versions /\ e.base < MaxVersions /\ e.supersedes \in 0..MaxVersions
      BY DEF Edit, KnowledgeInv, EditsAreSound
    <2>4. e.base + 1 \in Versions /\ (e.supersedes # 0 => e.supersedes \in Versions)
      BY <2>3, KnowledgeAssumption DEF Versions
    <2>5. links' \subseteq [from : Refs, to : Refs, relation : Relations]
      BY <1>5, <2>3, <2>4 DEF Commit, Refs, Relations
    <2>6. QED
      BY <2>1, <2>2, <2>5, GrowsTyped, GrowsKeeps
  <1>6. ASSUME NEW e \in edits, RollBack(e)
        PROVE  TypeOK' /\ KnowledgeInv' /\ Grows
    <2>1. edits' \subseteq edits /\ UNCHANGED <<rows, links, tombstones, invalidated>>
      BY <1>6 DEF RollBack
    <2>2. QED
      BY <2>1, GrowsNot, GrowsTyped, GrowsKeeps
  <1>7. ASSUME NEW a \in Refs, NEW b \in Refs, AddLink(a, b, "summarizes")
        PROVE  TypeOK' /\ KnowledgeInv' /\ Grows
    <2>1. UNCHANGED <<rows, edits, tombstones, invalidated>>
      BY <1>7 DEF AddLink
    <2>2. links' \subseteq [from : Refs, to : Refs, relation : Relations]
      BY <1>7 DEF AddLink, Relations
    <2>3. QED
      BY <2>1, <2>2, GrowsNot, GrowsTyped, GrowsKeeps
  <1>8. ASSUME NEW a \in Refs, NEW b \in Refs, RecordContradiction(a, b)
        PROVE  TypeOK' /\ KnowledgeInv' /\ Grows
    <2>1. Grows /\ UNCHANGED <<edits, tombstones, invalidated>>
      BY <1>8, ContradictionGrows DEF RecordContradiction
    <2>2. links' \subseteq [from : Refs, to : Refs, relation : Relations]
      BY <1>8 DEF RecordContradiction, Relations
    <2>3. QED
      BY <2>1, <2>2, GrowsTyped, GrowsKeeps
  <1>9. QED
    BY <1>0, <1>1, <1>2, <1>3, <1>4, <1>5, <1>6, <1>7, <1>8 DEF Next

--------------------------------------------------------------------------------
(* The theorems. *)

(* The inductive invariant holds in every state of the repository, and with it the types. *)
THEOREM KnowledgeInvariant == Spec => [](TypeOK /\ KnowledgeInv)
  <1>1. TypeOK /\ KnowledgeInv /\ [Next]_vars => (TypeOK /\ KnowledgeInv)'
    BY KnowledgeStep
  <1>2. QED
    BY <1>1, TypeInit, PTL DEF Spec

(* tombstone against edits and retrieval: whatever is under way when a version is       *)
(* deleted, no query of any project and any labels is answered with it afterwards.      *)
THEOREM DeletedIsHidden == Spec => []TombstonedStaysHidden
  <1>1. TypeOK /\ KnowledgeInv => TombstonedStaysHidden
    <2> SUFFICES ASSUME TypeOK, KnowledgeInv, NEW p \in Projects, NEW have \in SUBSET Labels,
                        NEW superseded \in BOOLEAN, NEW receipt \in Retrieve(p, have, superseded)
                 PROVE  receipt.selected \cap tombstones = {}
      BY DEF TombstonedStaysHidden
    <2>1. receipt.selected \subseteq ListVisible(p, have, superseded)
      BY DEF Retrieve, PermittedCandidates
    <2>2. \A r \in ListVisible(p, have, superseded) : ~RowOf(r).deleted
      BY DEF ListVisible
    <2>3. QED
      BY <2>1, <2>2 DEF KnowledgeInv, TombstonesAreMarked
  <1>2. QED
    BY <1>1, KnowledgeInvariant, PTL

(* new_version, accept_fact and supersede against each other: every version was made    *)
(* from the one before it.                                                              *)
THEOREM EditsInTurn == Spec => []EditsSeeTheLatest
  <1>1. TypeOK /\ KnowledgeInv => EditsSeeTheLatest
    BY RowsOf DEF EditsSeeTheLatest, KnowledgeInv, RowsAreSound
  <1>2. QED
    BY <1>1, KnowledgeInvariant, PTL

(* create_item, the migration and the reviewers: nothing a model or a migration         *)
(* produced is accepted.                                                                *)
THEOREM AcceptanceIsReviewed == Spec => []AcceptedWasReviewed
  <1>1. TypeOK /\ KnowledgeInv => AcceptedWasReviewed
    BY RowsOf DEF AcceptedWasReviewed, KnowledgeInv, RowsAreSound, Sound
  <1>2. QED
    BY <1>1, KnowledgeInvariant, PTL

(* Every transaction of the repository: a version that exists says what it said, and    *)
(* none becomes accepted after it was written.                                          *)
THEOREM VersionsAreFinal == Spec => NoSilentOverwrite
  <1> DEFINE Kept ==
        \A r \in Refs : Exists(r) =>
          /\ Exists(r)'
          /\ [RowOf(r)' EXCEPT !.state = "deleted", !.deleted = TRUE] =
             [RowOf(r) EXCEPT !.state = "deleted", !.deleted = TRUE]
          /\ RowOf(r)'.state = "accepted" => RowOf(r).state = "accepted"
  <1>1. TypeOK /\ KnowledgeInv /\ [Next]_vars => [Kept]_vars
    <2> SUFFICES ASSUME TypeOK, KnowledgeInv, Next, NEW r \in Refs, Exists(r)
                 PROVE  /\ Exists(r)'
                        /\ [RowOf(r)' EXCEPT !.state = "deleted", !.deleted = TRUE] =
                           [RowOf(r) EXCEPT !.state = "deleted", !.deleted = TRUE]
                        /\ RowOf(r)'.state = "accepted" => RowOf(r).state = "accepted"
      OBVIOUS
    <2>1. Grows
      BY KnowledgeStep
    <2>2. r[1] \in Items /\ r[2] \in 1..Len(rows[r[1]]) /\ RowOf(r) \in Row
      BY RefIs
    <2>3. /\ Aged(rows[r[1]][r[2]], rows'[r[1]][r[2]])
          /\ rows'[r[1]] \in Seq(Row) /\ Len(rows'[r[1]]) \in Len(rows[r[1]])..MaxVersions
      BY <2>1, <2>2 DEF Grows, GrownSeq
    <2>4. r[2] \in DOMAIN rows'[r[1]]
      BY <2>2, <2>3, RowsOf, LenProperties
    <2>5. RowOf(r)' = rows'[r[1]][r[2]] /\ RowOf(r) = rows[r[1]][r[2]]
      BY DEF RowOf
    <2>6. [RowOf(r)' EXCEPT !.state = "deleted", !.deleted = TRUE] =
          [RowOf(r) EXCEPT !.state = "deleted", !.deleted = TRUE]
      BY <2>2, <2>3, <2>5, AgedSaysTheSame
    <2>7. QED
      BY <2>3, <2>4, <2>5, <2>6 DEF Exists, Aged
  <1>2. QED
    BY <1>1, KnowledgeInvariant, PTL DEF Spec, NoSilentOverwrite

================================================================================
