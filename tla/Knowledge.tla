------------------------------- MODULE Knowledge -------------------------------
(***************************************************************************)
(* Versioned project knowledge (src/swarm/knowledge): items and their       *)
(* versions, review, links, tombstones with the invalidation of summaries,  *)
(* and permission-first retrieval.                                          *)
(*                                                                         *)
(* Every call is a database transaction.  An edit reads the latest version  *)
(* and inserts the next one; other transactions may commit in between, and  *)
(* the unique index on item and version refuses the second of two equal     *)
(* inserts.  The other writes read nothing they later depend on and are     *)
(* single steps.  A text is named after the version that introduced it.     *)
(* Topics, scores and expiry select among what may be served and are left   *)
(* to the caller; a bundle is any choice within the item limit.             *)
(***************************************************************************)
EXTENDS Naturals, Sequences, FiniteSets

CONSTANTS Items, Projects,
          ProjectOf,    \* project of an item
          FirstClass,   \* class of an item's first version
          Labels,       \* permission labels
          Audiences,    \* label sets items are written with
          Writers,      \* producer types that create items; only map_record writes "migration"
          MaxItems,     \* items a bundle holds
          MaxVersions,  \* bound: versions of an item
          Edited,       \* bound: items that get more than one version
          MaxLinks,     \* bound: links
          MaxEdits      \* bound: edits under way at once

KnowledgeClass == {"source", "observation", "hypothesis", "accepted_fact", "procedure", "summary"}
Producers == {"model", "reviewer", "system", "migration"}

ASSUME KnowledgeAssumption ==
    /\ ProjectOf \in [Items -> Projects]
    /\ FirstClass \in [Items -> KnowledgeClass]
    /\ Audiences \subseteq SUBSET Labels /\ Writers \subseteq Producers \ {"migration"}
    /\ MaxItems \in Nat /\ MaxVersions \in Nat \ {0} /\ MaxLinks \in Nat

VARIABLES rows,        \* versions of an item, in order
          edits,       \* edits between their read and their insert
          links,
          tombstones,  \* versions that were deleted
          invalidated  \* the retriever's invalidation log, summaries only

vars == <<rows, edits, links, tombstones, invalidated>>

AcceptanceState == {"unreviewed", "accepted", "disputed", "superseded", "deleted"}
Relations == {"summarizes", "contradicts", "supersedes"}
Versions == 1..MaxVersions
Refs == Items \X Versions
MemoryKinds == {"durable_fact", "transient_context", "decision", "outcome", "model_obs"}

\* deleted stands for deleted_at; base is the version an edit was made from (0 for none).
Row == [class : KnowledgeClass, state : AcceptanceState, producer : Producers,
        labels : SUBSET Labels, deleted : BOOLEAN, text : Versions, base : 0..MaxVersions]
Edit == [item : Items, base : Versions, row : Row, supersedes : 0..MaxVersions]

TypeOK ==
    /\ rows \in [Items -> Seq(Row)] /\ \A i \in Items : Len(rows[i]) <= MaxVersions
    /\ edits \subseteq Edit
    /\ links \subseteq [from : Refs, to : Refs, relation : Relations]
    /\ tombstones \subseteq Refs
    /\ invalidated \subseteq Refs

Init ==
    /\ rows = [i \in Items |-> <<>>]
    /\ edits = {} /\ links = {} /\ tombstones = {} /\ invalidated = {}

Latest(i) == Len(rows[i])
Exists(r) == r[2] \in DOMAIN rows[r[1]]
RowOf(r) == rows[r[1]][r[2]]

\* create_item's rules on who may write what.
ReviewableClass == {"accepted_fact", "procedure", "source"}
Writable(row) ==
    /\ row.producer = "model" => row.class \in {"observation", "hypothesis", "summary", "source"}
    /\ row.state = "accepted" => row.class \in ReviewableClass /\ row.producer # "model"

CreateItem(i, p, ls) ==
    LET row == [class |-> FirstClass[i], state |-> "unreviewed", producer |-> p, labels |-> ls,
                deleted |-> FALSE, text |-> 1, base |-> 0]
    IN  /\ rows[i] = <<>>
        /\ Writable(row)
        /\ rows' = [rows EXCEPT ![i] = <<row>>]
        /\ UNCHANGED <<edits, links, tombstones, invalidated>>

\* A mapping that believes what a legacy memory claims to be.
KindToClassTrusting(kind) == IF kind = "durable_fact" THEN "accepted_fact" ELSE "observation"

\* map_record: whatever a legacy memory claims to be, it comes in as an unreviewed
\* observation.
KindToClass(kind) == "observation"

MapRecord(kind, ls) ==
    [class |-> KindToClass(kind), state |-> "unreviewed",
     producer |-> IF kind = "model_obs" THEN "model" ELSE "migration", labels |-> ls,
     deleted |-> FALSE, text |-> 1, base |-> 0]

\* The migration of one record; a transient one only when asked for, and what create_item
\* refuses is quarantined.
Migrate(i, kind, transientToo, ls) ==
    /\ rows[i] = <<>>
    /\ kind = "transient_context" => transientToo
    /\ Writable(MapRecord(kind, ls))
    /\ rows' = [rows EXCEPT ![i] = <<MapRecord(kind, ls)>>]
    /\ UNCHANGED <<edits, links, tombstones, invalidated>>

\* new_version reads the latest row; a deleted one admits no edit.
Read(i, row, old) ==
    /\ i \in Edited /\ rows[i] # <<>>
    /\ Latest(i) < MaxVersions /\ Cardinality(edits) < MaxEdits
    /\ rows[i][Latest(i)].state # "deleted"
    /\ Writable(row)
    /\ edits' = edits \cup {[item |-> i, base |-> Latest(i), row |-> row, supersedes |-> old]}
    /\ UNCHANGED <<rows, links, tombstones, invalidated>>

\* An edit with a new text; what its writer leaves out it inherits.
NewVersion(i, s, ls) ==
    /\ rows[i] # <<>>
    /\ LET latest == rows[i][Latest(i)] IN
       Read(i, [latest EXCEPT !.state = s, !.labels = ls, !.deleted = FALSE,
                              !.text = Latest(i) + 1, !.base = Latest(i)], 0)

Promoted(class) == IF class \in {"observation", "hypothesis"} THEN "accepted_fact" ELSE class

\* accept_fact takes the text of the version under review, whatever became of it.
AcceptFact(r) ==
    /\ Exists(r)
    /\ RowOf(r).class # "summary"
    /\ Read(r[1], [RowOf(r) EXCEPT !.class = Promoted(@), !.state = "accepted", !.producer = "reviewer",
                                   !.deleted = FALSE, !.base = Latest(r[1])], 0)

Supersede(r) ==
    /\ Exists(r)
    /\ RowOf(r).state # "deleted"
    /\ Read(r[1], [RowOf(r) EXCEPT !.class = Promoted(@), !.state = "accepted", !.producer = "reviewer",
                                   !.deleted = FALSE, !.text = Latest(r[1]) + 1,
                                   !.base = Latest(r[1])], r[2])

--------------------------------------------------------------------------------
(* Invalidation: the latest version of every summary linked to an item is disputed.    *)

Dependents(i) ==
    {s \in Items \ {i} : /\ \E l \in links : /\ l.relation = "summarizes"
                                             /\ {l.from[1], l.to[1]} = {i, s}
                         /\ rows[s] # <<>>
                         /\ rows[s][Latest(s)].class = "summary"
                         /\ ~rows[s][Latest(s)].deleted}

Disputed(rs, i) == [s \in Items |->
    IF s \in Dependents(i) THEN [rs[s] EXCEPT ![Latest(s)].state = "disputed"] ELSE rs[s]]

\* Without the unique index any edit inserts; without a new row it would write in place.
InsertableAlways(e) == TRUE
VersionedInPlace(e) == [rows[e.item] EXCEPT ![Latest(e.item)] = e.row]

Insertable(e) == e.base = Latest(e.item)

Versioned(e) ==
    Append(IF e.supersedes = 0 THEN rows[e.item]
           ELSE [rows[e.item] EXCEPT ![e.supersedes].state = "superseded"], e.row)

\* The insert and commit of an edit.  A superseding one first marks the old version, then
\* links the new one to it and disputes the summaries; its events reach no retriever.
Commit(e) ==
    LET i == e.item
        inserted == [rows EXCEPT ![i] = Versioned(e)]
    IN  /\ Insertable(e)
        /\ edits' = edits \ {e}
        /\ rows' = IF e.supersedes = 0 THEN inserted ELSE Disputed(inserted, i)
        /\ links' = links \cup
             (IF e.supersedes = 0 THEN {}
              ELSE {[from |-> <<i, e.base + 1>>, to |-> <<i, e.supersedes>>, relation |-> "supersedes"]})
        /\ UNCHANGED <<tombstones, invalidated>>

\* The version exists by now: the unique index refuses the insert and the edit rolls back.
RollBack(e) ==
    /\ ~Insertable(e)
    /\ edits' = edits \ {e}
    /\ UNCHANGED <<rows, links, tombstones, invalidated>>

AddLink(a, b, relation) ==
    /\ Exists(a) /\ Exists(b) /\ a # b
    /\ ProjectOf[a[1]] = ProjectOf[b[1]]
    /\ Cardinality(links) < MaxLinks
    /\ links' = links \cup {[from |-> a, to |-> b, relation |-> relation]}
    /\ UNCHANGED <<rows, edits, tombstones, invalidated>>

Dispute(row) == [row EXCEPT !.state = IF @ = "accepted" THEN "disputed" ELSE @]

RecordContradiction(a, b) ==
    /\ Exists(a) /\ Exists(b) /\ a # b
    /\ ProjectOf[a[1]] = ProjectOf[b[1]]
    /\ Cardinality(links) < MaxLinks
    /\ links' = links \cup {[from |-> a, to |-> b, relation |-> "contradicts"]}
    /\ rows' = [i \in Items |-> [v \in DOMAIN rows[i] |->
                  IF <<i, v>> \in {a, b} THEN Dispute(rows[i][v]) ELSE rows[i][v]]]
    /\ UNCHANGED <<edits, tombstones, invalidated>>

\* The row is marked, the tombstone written (once: it is unique) and the dependents
\* invalidated, in the caller's log as well.
Tombstone(r) ==
    /\ Exists(r) /\ r \notin tombstones
    /\ rows' = Disputed([rows EXCEPT ![r[1]][r[2]].state = "deleted",
                                     ![r[1]][r[2]].deleted = TRUE], r[1])
    /\ tombstones' = tombstones \cup {r}
    /\ invalidated' = invalidated \cup {<<s, Latest(s)>> : s \in Dependents(r[1])} \cup {r}
    /\ UNCHANGED <<edits, links>>

--------------------------------------------------------------------------------
(* Retrieval: the project and label filter of list_visible, then the life cycle. *)

\* A filter that trusts the state of a row.
ListVisibleByState(p, have, superseded) ==
    {r \in Refs : /\ Exists(r)
                  /\ ProjectOf[r[1]] = p
                  /\ RowOf(r).state # "deleted"
                  /\ superseded \/ RowOf(r).state # "superseded"
                  /\ RowOf(r).labels = {} \/ RowOf(r).labels \cap have # {}}

ListVisible(p, have, superseded) ==
    {r \in Refs : /\ Exists(r)
                  /\ ProjectOf[r[1]] = p
                  /\ ~RowOf(r).deleted
                  /\ RowOf(r).state # "deleted"
                  /\ superseded \/ RowOf(r).state # "superseded"
                  /\ RowOf(r).labels = {} \/ RowOf(r).labels \cap have # {}}

PermittedCandidates(p, have, superseded) ==
    {r \in ListVisible(p, have, superseded) : RowOf(r).class = "summary" => r \notin invalidated}

ListLinks(p, relation) == {l \in links : ProjectOf[l.from[1]] = p /\ l.relation = relation}

\* Contradictions are told item by item, whichever versions they were recorded for.
ConflictSets(p, candidates) ==
    {pair \in {{l.from[1], l.to[1]} : l \in ListLinks(p, "contradicts")} :
        Cardinality(pair) = 2 /\ pair \subseteq {r[1] : r \in candidates}}

\* The receipts a query may be answered with: the ranking chooses within the item limit,
\* the conflicts are those among all the candidates.
Retrieve(p, have, superseded) ==
    LET candidates == PermittedCandidates(p, have, superseded) IN
    [selected : {b \in SUBSET candidates : Cardinality(b) <= MaxItems},
     conflicts : {ConflictSets(p, candidates)}]

--------------------------------------------------------------------------------
Next ==
    \/ \E i \in Items, ls \in Audiences :
         \/ \E p \in Writers : CreateItem(i, p, ls)
         \/ \E kind \in MemoryKinds, t \in BOOLEAN : Migrate(i, kind, t, ls)
         \/ \E s \in {"unreviewed", "accepted"} : NewVersion(i, s, ls)
    \/ \E r \in Refs : AcceptFact(r) \/ Supersede(r) \/ Tombstone(r)
    \/ \E e \in edits : Commit(e) \/ RollBack(e)
    \/ \E a, b \in Refs : AddLink(a, b, "summarizes") \/ RecordContradiction(a, b)

Spec == Init /\ [][Next]_vars

--------------------------------------------------------------------------------
(* A deleted version is never served again, in any mode, to anyone: not even when an   *)
(* edit that read it before the deletion commits after it and rewrites its state.      *)
TombstonedStaysHidden ==
    \A p \in Projects, have \in SUBSET Labels, superseded \in BOOLEAN :
        \A receipt \in Retrieve(p, have, superseded) : receipt.selected \cap tombstones = {}

(* Edits are made on the version before them: of two edits of one version the second   *)
(* is refused, so no writer's text is replaced by one who never saw it.                *)
EditsSeeTheLatest == \A i \in Items : \A v \in DOMAIN rows[i] : rows[i][v].base = v - 1

(* What a model or a migration produced is never accepted as it is: only a reviewer's   *)
(* version is, however many edits lie between, and legacy facts earn no exception.     *)
AcceptedWasReviewed ==
    \A i \in Items : \A v \in DOMAIN rows[i] :
        rows[i][v].state = "accepted" => rows[i][v].producer \notin {"model", "migration"}

(* "Edits create a new version - never silent overwrite": what a version says, who      *)
(* produced it and who may read it never change, and no version becomes accepted after *)
(* it was written.                                                                     *)
NoSilentOverwrite ==
    [][\A r \in Refs : Exists(r) =>
          /\ Exists(r)'
          /\ [RowOf(r)' EXCEPT !.state = "deleted", !.deleted = TRUE] =
             [RowOf(r) EXCEPT !.state = "deleted", !.deleted = TRUE]
          /\ RowOf(r)'.state = "accepted" => RowOf(r).state = "accepted"]_vars
================================================================================
