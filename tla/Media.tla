------------------------------- MODULE Media --------------------------------
(***************************************************************************)
(* One user's gallery: MediaService.presign, confirm, setPrimary, remove   *)
(* and syncThumbnail, with the bucket the files live in.                   *)
(*                                                                         *)
(* confirm derives the cap, the position and the primary flag under an     *)
(* advisory lock and inserts in the same transaction.  setPrimary and      *)
(* remove take no lock: they read the row, write, and write the profile's  *)
(* thumbnail after everything else.  The partial unique index on           *)
(* (user_id) where is_primary decides between two of them.                 *)
(***************************************************************************)
EXTENDS Naturals, FiniteSets

CONSTANTS
    Keys,            \* objects a client may upload
    MediaRows,       \* rows that may come to exist
    MediaRequests,   \* slots for concurrent handlers
    MaxMediaItems,   \* MAX_MEDIA_ITEMS
    MaxSort,         \* bound on the positions handed out
    NoMedia

\* "no row" is none of the values it stands beside.
ASSUME MediaAssumption ==
    /\ MaxMediaItems \in Nat \ {0} /\ MaxSort \in Nat /\ NoMedia \notin Keys \cup MediaRows
    /\ NoMedia \notin [key : Keys, primary : BOOLEAN, sort : 0..MaxSort]

VARIABLES
    kind,      \* what a key was presigned for, "none" before
    stored,    \* keys with an object in the bucket
    media,     \* [key, primary, sort] of each row, NoMedia when there is none
    thumbnail, \* the key thumbnail_url points at, or NoMedia
    mediaReq,  \* handlers in progress
    mediaRaced \* a setPrimary or a remove has overlapped another handler, or died

mediaVars == <<kind, stored, media, thumbnail, mediaReq, mediaRaced>>

NoMediaReq == [pc |-> "idle", row |-> NoMedia, key |-> NoMedia, primary |-> FALSE, count |-> 0, sort |-> 0]

Gallery == {w \in MediaRows : media[w] # NoMedia}
Photos == {w \in Gallery : kind[media[w].key] = "photo"}
Primary == {w \in Gallery : media[w].primary}

MediaAt(h, pc) == mediaReq[h].pc = pc
MediaGoto(h, pc) == mediaReq' = [mediaReq EXCEPT ![h].pc = pc]
MediaDone(h) == mediaReq' = [mediaReq EXCEPT ![h] = NoMediaReq]

Unlocked == {"swap", "delete", "object", "next", "promote", "sync"}   \* of setPrimary and remove

\* A handler starts; the races this module does not decide are remembered.
MediaStart(h, req) ==
    /\ MediaAt(h, "idle")
    /\ mediaReq' = [mediaReq EXCEPT ![h] = req]
    /\ mediaRaced' = (mediaRaced \/ \E g \in MediaRequests \ {h} :
                          ~MediaAt(g, "idle") /\ {mediaReq[g].pc, req.pc} \cap Unlocked # {})

-----------------------------------------------------------------------------
\* The type goes with the key: presign checks size, duration and extension,
\* confirm takes the same type and size again.
Presign(k) ==
    /\ kind[k] = "none"
    /\ \E type \in {"photo", "video"} : kind' = [kind EXCEPT ![k] = type]
    /\ UNCHANGED <<stored, media, thumbnail, mediaReq, mediaRaced>>

Upload(k) ==
    /\ kind[k] # "none"
    /\ stored' = stored \cup {k}
    /\ UNCHANGED <<kind, media, thumbnail, mediaReq, mediaRaced>>

\* assertObjectExists: the object is there, once, before the transaction.
ConfirmHead(h, k) ==
    /\ k \in stored
    /\ MediaStart(h, [NoMediaReq EXCEPT !.pc = "lock", !.key = k])
    /\ UNCHANGED <<kind, stored, media, thumbnail>>

\* (mutant: a transaction, and no advisory lock)
NoLock == TRUE

\* pg_advisory_xact_lock, until the insert commits.
LockFree == \A g \in MediaRequests : ~MediaAt(g, "insert")

NextSort ==
    IF Gallery = {} THEN 0
    ELSE 1 + CHOOSE s \in {media[w].sort : w \in Gallery} : \A w \in Gallery : media[w].sort <= s

ConfirmCount(h) ==
    /\ MediaAt(h, "lock")
    /\ LockFree
    /\ \/ Cardinality(Gallery) >= MaxMediaItems /\ MediaDone(h)
       \/ /\ Cardinality(Gallery) < MaxMediaItems
          /\ NextSort <= MaxSort
          /\ mediaReq' = [mediaReq EXCEPT ![h] = [@ EXCEPT
                 !.pc = "insert", !.count = Cardinality(Gallery), !.sort = NextSort]]
    /\ UNCHANGED <<kind, stored, media, thumbnail, mediaRaced>>

\* Primary by the count, and the thumbnail in the same transaction.
ConfirmInsert(h) ==
    /\ MediaAt(h, "insert")
    /\ LET k == mediaReq[h].key
           first == mediaReq[h].count = 0 /\ kind[k] = "photo"
       IN  /\ \E w \in MediaRows \ Gallery :
                  media' = [media EXCEPT ![w] = [key |-> k, primary |-> first, sort |-> mediaReq[h].sort]]
           /\ thumbnail' = IF first THEN k ELSE thumbnail
    /\ MediaDone(h)
    /\ UNCHANGED <<kind, stored, mediaRaced>>

-----------------------------------------------------------------------------
SetPrimary(h, w) ==
    /\ w \in Photos
    /\ MediaStart(h, [NoMediaReq EXCEPT !.pc = "swap", !.row = w, !.key = media[w].key])
    /\ UNCHANGED <<kind, stored, media, thumbnail>>

\* The transaction: the old primary is cleared and the new one set, if its
\* row is still there.  Two at once may meet at the index: the second waits,
\* clears what is primary no more and its own flag is refused.
SwapPrimary(h) ==
    /\ MediaAt(h, "swap")
    /\ \/ /\ media' = [w \in MediaRows |->
                 IF media[w] = NoMedia THEN NoMedia ELSE [media[w] EXCEPT !.primary = w = mediaReq[h].row]]
          /\ MediaGoto(h, "sync")
       \/ /\ \E g \in MediaRequests \ {h} : mediaReq[g].pc \in {"swap", "sync"}
          /\ Primary # {}
          /\ MediaDone(h)
          /\ UNCHANGED media
    /\ UNCHANGED <<kind, stored, thumbnail, mediaRaced>>

\* (mutant: the profile keeps the picture it had)
LeaveThumbnail(h) ==
    /\ MediaAt(h, "sync")
    /\ MediaDone(h)
    /\ UNCHANGED <<kind, stored, media, thumbnail, mediaRaced>>

SyncThumbnail(h) ==
    /\ MediaAt(h, "sync")
    /\ thumbnail' = mediaReq[h].key
    /\ MediaDone(h)
    /\ UNCHANGED <<kind, stored, media, mediaRaced>>

-----------------------------------------------------------------------------
RemoveMedia(h, w) ==
    /\ w \in Gallery
    /\ MediaStart(h, [NoMediaReq EXCEPT !.pc = "delete", !.row = w, !.key = media[w].key,
                                        !.primary = media[w].primary])
    /\ UNCHANGED <<kind, stored, media, thumbnail>>

DeleteRow(h) ==
    /\ MediaAt(h, "delete")
    /\ media' = [media EXCEPT ![mediaReq[h].row] = NoMedia]
    /\ MediaGoto(h, "object")
    /\ UNCHANGED <<kind, stored, thumbnail, mediaRaced>>

\* DeleteObject: a failure is logged and the object stays.
DeleteObject(h) ==
    /\ MediaAt(h, "object")
    /\ stored' \in {stored, stored \ {mediaReq[h].key}}
    /\ IF mediaReq[h].primary THEN MediaGoto(h, "next") ELSE MediaDone(h)
    /\ UNCHANGED <<kind, media, thumbnail, mediaRaced>>

\* The first photo left, or no thumbnail.  "primary" is as it was read.
NextPhoto(h) ==
    /\ MediaAt(h, "next")
    /\ mediaReq' = [mediaReq EXCEPT ![h] =
           IF Photos = {} THEN [NoMediaReq EXCEPT !.pc = "sync"]
           ELSE LET w == CHOOSE w \in Photos : \A x \in Photos : media[w].sort <= media[x].sort
                IN  [NoMediaReq EXCEPT !.pc = "promote", !.row = w, !.key = media[w].key]]
    /\ UNCHANGED <<kind, stored, media, thumbnail, mediaRaced>>

\* By id: a row gone meanwhile is no row, another primary is a 500.
PromotePhoto(h) ==
    /\ MediaAt(h, "promote")
    /\ LET w == mediaReq[h].row
       IN  IF media[w] # NoMedia /\ Primary \ {w} # {}
           THEN MediaDone(h) /\ UNCHANGED media
           ELSE /\ media' = [media EXCEPT ![w] = IF @ = NoMedia THEN @ ELSE [@ EXCEPT !.primary = TRUE]]
                /\ MediaGoto(h, "sync")
    /\ UNCHANGED <<kind, stored, thumbnail, mediaRaced>>

\* The process dies; inside confirm's transaction nothing is left behind.
MediaDies(h) ==
    /\ ~MediaAt(h, "idle")
    /\ MediaDone(h)
    /\ mediaRaced' = (mediaRaced \/ mediaReq[h].pc \in Unlocked)
    /\ UNCHANGED <<kind, stored, media, thumbnail>>

-----------------------------------------------------------------------------
MediaInit ==
    /\ kind = [k \in Keys |-> "none"]
    /\ stored = {}
    /\ media = [w \in MediaRows |-> NoMedia]
    /\ thumbnail = NoMedia
    /\ mediaReq = [h \in MediaRequests |-> NoMediaReq]
    /\ mediaRaced = FALSE

MediaNext ==
    \/ \E k \in Keys : Presign(k) \/ Upload(k)
    \/ \E h \in MediaRequests :
           \/ \E k \in Keys : ConfirmHead(h, k)
           \/ \E w \in MediaRows : SetPrimary(h, w) \/ RemoveMedia(h, w)
           \/ ConfirmCount(h) \/ ConfirmInsert(h) \/ SwapPrimary(h) \/ SyncThumbnail(h)
           \/ DeleteRow(h) \/ DeleteObject(h) \/ NextPhoto(h) \/ PromotePhoto(h) \/ MediaDies(h)

MediaSpec == MediaInit /\ [][MediaNext]_mediaVars

-----------------------------------------------------------------------------
MediaTypeOK ==
    /\ kind \in [Keys -> {"none", "photo", "video"}]
    /\ stored \subseteq {k \in Keys : kind[k] # "none"}
    /\ \A w \in Gallery : media[w].key \in Keys /\ media[w].primary \in BOOLEAN /\ media[w].sort \in Nat
    /\ thumbnail \in Keys \cup {NoMedia}
    /\ \A h \in MediaRequests : mediaReq[h].pc \in Unlocked \cup {"idle", "lock", "insert"}
    /\ mediaRaced \in BOOLEAN

SlotsAreKept ==
    /\ Cardinality(Gallery) <= MaxMediaItems
    /\ Cardinality(Primary) <= 1
    /\ \A w, x \in Gallery : w # x => media[w].sort # media[x].sort

ThumbnailTrue ==
    ~mediaRaced /\ (\A h \in MediaRequests : mediaReq[h].pc \notin Unlocked) =>
        IF Primary = {} THEN thumbnail = NoMedia
        ELSE \A w \in Primary : thumbnail = media[w].key /\ w \in Photos

\* Uploads confirmed side by side exceed no cap, share no position and make
\* no second primary (confirm, the three dangers of lines 139 to 147); and
\* when setPrimary and remove have each run on their own and to the end, the
\* profile shows its primary photo, and nothing when there is none, whatever
\* was uploaded, promoted, removed or left behind in the bucket.
GalleryInOrder == SlotsAreKept /\ ThumbnailTrue
=============================================================================
