------------------------------ MODULE Catalog ------------------------------
(***************************************************************************)
(* Categories, their groups and the artists' picks: the administrator's    *)
(* handlers (AdminService.create/update/deleteCategory and ...Group) and   *)
(* the category part of ArtistsService.updateMe.                           *)
(*                                                                         *)
(* An administrator's handler looks, in a few reads, and then writes; the  *)
(* constraints of the database have the last word: unique names and slugs, *)
(* a group for every category (migration 005 makes the column NOT NULL     *)
(* under a key ON DELETE SET NULL), at most MaxPicks rows per artist by a  *)
(* trigger.  The slug is the one slugify makes of the name; sort order,    *)
(* bucket, the names of groups and the audit entry that follows are left   *)
(* out.                                                                    *)
(***************************************************************************)
EXTENDS Naturals, FiniteSets

CONSTANTS
    Categories, Groups,   \* the ids of rows that may exist
    Names, Slugify,       \* what a category may be called, and the slug of each name
    Editors,              \* slots for administrators' handlers
    Pickers,              \* slots for updateMe of one artist
    MaxPicks,             \* 4 in the code
    NoCategory

ASSUME CatalogAssumption == MaxPicks \in Nat \ {0} /\ DOMAIN Slugify = Names

VARIABLES
    group,      \* the groups that exist
    category,   \* per id its [name, group], or NoCategory
    picks,      \* artist_categories of the artist, committed
    editor,     \* administrators' handlers in progress
    picker      \* updateMe in progress

catalogVars == <<group, category, picks, editor, picker>>

NoEdit == [pc |-> "idle", call |-> "none", id |-> NoCategory, row |-> NoCategory]
NoPick == [pc |-> "idle", want |-> {}, seen |-> {}, gone |-> {}, patch |-> FALSE]

Listed == {c \in Categories : category[c] # NoCategory}
Rows == [name : Names, group : Groups]
EditorDone(e) == editor' = [editor EXCEPT ![e] = NoEdit]

\* Another row holds the name or the slug.
Clashes(id, row) ==
    \E c \in Listed \ {id} : category[c].name = row.name \/ Slugify[category[c].name] = Slugify[row.name]

-----------------------------------------------------------------------------
(* Administrators                                                          *)

\* The group is there and nobody has the name or the slug.
LookForCreate(e) ==
    /\ editor[e] = NoEdit
    /\ \E c \in Categories \ (Listed \cup {editor[f].id : f \in Editors}), row \in Rows :
        /\ row.group \in group
        /\ ~Clashes(c, row)
        /\ editor' = [editor EXCEPT ![e] = [pc |-> "write", call |-> "create", id |-> c, row |-> row]]
    /\ UNCHANGED <<group, category, picks, picker>>

\* What the request does not name is taken from the row just read.  A new
\* name with the slug the row already has is refused as well: the query is
\* slug = s OR (name = n AND id <> me).
LookForUpdate(e) ==
    /\ editor[e] = NoEdit
    /\ \E c \in Listed, row \in Rows :
        /\ row.group \in group \cup {category[c].group}
        /\ row.name # category[c].name =>
               ~Clashes(c, row) /\ Slugify[row.name] # Slugify[category[c].name]
        /\ editor' = [editor EXCEPT ![e] = [pc |-> "write", call |-> "update", id |-> c, row |-> row]]
    /\ UNCHANGED <<group, category, picks, picker>>

\* Refused while any artist has it, by a count that is not locked.
LookForDelete(e) ==
    /\ editor[e] = NoEdit
    /\ \E c \in Listed :
        /\ c \notin picks
        /\ editor' = [editor EXCEPT ![e] = [pc |-> "write", call |-> "delete", id |-> c, row |-> NoCategory]]
    /\ UNCHANGED <<group, category, picks, picker>>

LookForGroup(e) ==
    /\ editor[e] = NoEdit
    /\ \/ \E g \in Groups \ group :
            editor' = [editor EXCEPT ![e] = [pc |-> "write", call |-> "createGroup", id |-> g, row |-> NoCategory]]
       \/ \E g \in group :
            /\ \A c \in Listed : category[c].group # g
            /\ editor' = [editor EXCEPT ![e] = [pc |-> "write", call |-> "deleteGroup", id |-> g, row |-> NoCategory]]
    /\ UNCHANGED <<group, category, picks, picker>>

\* An insert or an update, or the refusal of an index or of the foreign key;
\* an update of a row that is gone changes nothing.
WriteCategory(e) ==
    /\ editor[e].pc = "write" /\ editor[e].call \in {"create", "update"}
    /\ LET id == editor[e].id
           row == editor[e].row
       IN  category' = IF \/ Clashes(id, row) \/ row.group \notin group
                          \/ editor[e].call = "update" /\ id \notin Listed
                       THEN category
                       ELSE [category EXCEPT ![id] = row]
    /\ EditorDone(e)
    /\ UNCHANGED <<group, picks, picker>>

\* The delete cascades to the picks, and waits for those who hold them.
DeleteCategory(e) ==
    /\ editor[e].pc = "write" /\ editor[e].call = "delete"
    /\ \A p \in Pickers : editor[e].id \notin picker[p].gone /\ (picker[p].pc = "commit" => editor[e].id \notin picker[p].want)
    /\ category' = [category EXCEPT ![editor[e].id] = NoCategory]
    /\ picks' = picks \ {editor[e].id}
    /\ EditorDone(e)
    /\ UNCHANGED <<group, picker>>

\* (mutant: without the constraint of migration 005, or the check before it)
MayDropAny(g) == TRUE

\* SET NULL on a column that is NOT NULL: refused while a category has it.
MayDrop(g) == \A c \in Listed : category[c].group # g

WriteGroup(e) ==
    /\ editor[e].pc = "write"
    /\ \/ editor[e].call = "createGroup" /\ group' = group \cup {editor[e].id}
       \/ editor[e].call = "deleteGroup" /\ group' = IF MayDrop(editor[e].id) THEN group \ {editor[e].id} ELSE group
    /\ EditorDone(e)
    /\ UNCHANGED <<category, picks, picker>>

-----------------------------------------------------------------------------
(* An artist's picks, a full replace in one transaction                    *)

\* The ids all exist.  With other fields in the request the profile row is
\* updated first, and holds back the next transaction that does so.
BeginPick(p) ==
    /\ picker[p] = NoPick
    /\ \E want \in SUBSET Listed \ {{}}, patch \in BOOLEAN :
        /\ Cardinality(want) <= MaxPicks
        /\ patch => \A q \in Pickers : ~picker[q].patch
        /\ picker' = [picker EXCEPT ![p] =
                        [pc |-> "delete", want |-> want, seen |-> picks, gone |-> {}, patch |-> patch]]
    /\ UNCHANGED <<group, category, picks, editor>>

\* The rows the statement saw and another transaction holds are waited for.
DeletePicks(p) ==
    /\ picker[p].pc = "delete"
    /\ \A q \in Pickers \ {p} : picker[q].gone \cap picker[p].seen = {}
    /\ picker' = [picker EXCEPT ![p].pc = "insert", ![p].gone = picker[p].seen \cap picks]
    /\ UNCHANGED <<group, category, picks, editor>>

\* What this transaction and the trigger in it can see of the rows.
Seen(p) == picks \ picker[p].gone

\* A row another transaction has inserted, or holds, is waited for.
InsertPicks(p) ==
    /\ picker[p].pc = "insert"
    /\ \A q \in Pickers \ {p} :
        /\ picker[q].pc = "commit" => picker[q].want \cap picker[p].want = {}
        /\ picker[q].gone \cap picker[p].want = {}
    /\ picker[p].want \subseteq Listed
    /\ Seen(p) \cap picker[p].want = {}
    /\ Cardinality(Seen(p)) + Cardinality(picker[p].want) <= MaxPicks
    /\ picker' = [picker EXCEPT ![p].pc = "commit"]
    /\ UNCHANGED <<group, category, picks, editor>>

CommitPicks(p) ==
    /\ picker[p].pc = "commit"
    /\ picks' = Seen(p) \cup picker[p].want
    /\ picker' = [picker EXCEPT ![p] = NoPick]
    /\ UNCHANGED <<group, category, editor>>

\* A foreign key, the primary key or the trigger refuses, a deadlock is
\* broken, the connection is lost.
RollBackPicks(p) ==
    /\ picker[p].pc \in {"delete", "insert", "commit"}
    /\ picker' = [picker EXCEPT ![p] = NoPick]
    /\ UNCHANGED <<group, category, picks, editor>>

-----------------------------------------------------------------------------
CatalogInit ==
    /\ group = Groups
    /\ category = [c \in Categories |-> NoCategory]
    /\ picks = {}
    /\ editor = [e \in Editors |-> NoEdit]
    /\ picker = [p \in Pickers |-> NoPick]

CatalogNext ==
    \/ \E e \in Editors :
        \/ LookForCreate(e) \/ LookForUpdate(e) \/ LookForDelete(e) \/ LookForGroup(e)
        \/ WriteCategory(e) \/ DeleteCategory(e) \/ WriteGroup(e)
    \/ \E p \in Pickers :
        BeginPick(p) \/ DeletePicks(p) \/ InsertPicks(p) \/ CommitPicks(p) \/ RollBackPicks(p)

CatalogSpec == CatalogInit /\ [][CatalogNext]_catalogVars

-----------------------------------------------------------------------------
CatalogTypeOK ==
    /\ group \subseteq Groups
    /\ category \in [Categories -> Rows \cup {NoCategory}]
    /\ picks \subseteq Categories
    /\ \A e \in Editors : editor[e].id \in Categories \cup Groups \cup {NoCategory}
    /\ \A p \in Pickers : picker[p].want \cup picker[p].seen \cup picker[p].gone \subseteq Categories

\* The picker of categories, which lists them by group (getCategories),
\* leaves none out, and no two have one name or slug, however the
\* administrators' checks and writes interleave.
PickerIsComplete ==
    \A c \in Listed : category[c].group \in group /\ ~Clashes(c, category[c])
=============================================================================
