----------------------------- MODULE Directory -----------------------------
(***************************************************************************)
(* The artist directory: who may read how much of a profile, and which     *)
(* profiles a search finds (ArtistsService.search and findOne with         *)
(* artist-visibility.ts; the artist's own edits and page; account status). *)
(*                                                                         *)
(* A request first resolves its viewer's tier and then reads the rows,     *)
(* with anything in between.  A profile is its name and price, which only  *)
(* payers are shown, and `bio`, which stands for all that everyone is      *)
(* shown and may filter on (bio, city, country, categories, availability,  *)
(* verification).  The order and the paging of the answer are left out.    *)
(***************************************************************************)
EXTENDS Naturals, FiniteSets

CONSTANTS
    Artists, Bookers,  \* the users who read the directory, with a guest and an admin
    Texts,             \* what a name or a bio may say
    Amounts,           \* prices, and the bounds a search may ask for
    BandEdges,         \* the boundaries of PRICE_BANDS
    Unset              \* a NULL column, an absent filter

\* NULL is neither a number nor the band of one.
ASSUME DirectoryAssumption ==
    /\ Amounts \subseteq Nat /\ BandEdges \subseteq Nat /\ IsFiniteSet(BandEdges)
    /\ Unset \notin Nat /\ \A band \in SUBSET BandEdges : Unset # band

VARIABLES
    profile,   \* per artist [name, bio, price, active]
    payers,    \* users with a running subscription
    ask        \* the request in progress

directoryVars == <<profile, payers, ask>>

Tiers == {"guest", "registered", "subscribed"}
Viewers == Artists \cup Bookers \cup {"guest", "admin"}
Queries == [q : Texts \cup {Unset}, minPrice : Amounts \cup {Unset}, maxPrice : Amounts \cup {Unset}]

NoAsk == [pc |-> "idle", tier |-> "none", page |-> Unset]

-----------------------------------------------------------------------------
(* Who sees what                                                           *)

\* resolveViewerTier: an admin and the owner of the profile are not asked
\* for a subscription.
ViewerTier(viewer, owner) ==
    CASE viewer = "guest" -> "guest"
      [] viewer = "admin" \/ viewer = owner \/ viewer \in payers -> "subscribed"
      [] OTHER -> "registered"

\* priceBand: the number of the band the price falls in, lower bound included.
Band(price) == IF price = Unset THEN Unset ELSE {e \in BandEdges : e <= price}

\* profileColumnsFor and shapeArtistProfile.
Card(row, tier) ==
    IF tier = "subscribed" THEN [bio |-> row.bio, name |-> row.name, price |-> row.price]
    ELSE [bio |-> row.bio, price |-> Band(row.price)]

-----------------------------------------------------------------------------
(* The filters of a search                                                 *)

\* (mutant: the floor is applied as it was asked for)
ExactFloor(value) == value

\* The largest boundary at or below the request, 0 below the first.
SnapFloor(value) ==
    IF \E e \in BandEdges : e <= value
    THEN CHOOSE e \in BandEdges : e <= value /\ \A f \in BandEdges : f <= value => f <= e
    ELSE 0

\* The smallest boundary at or above the request; above the last, no filter.
SnapCeiling(value) ==
    IF \E e \in BandEdges : value <= e
    THEN CHOOSE e \in BandEdges : value <= e /\ \A f \in BandEdges : value <= f => e <= f
    ELSE Unset

\* The name is matched for payers only.
TextMatches(row, q, tier) == q = Unset \/ row.bio = q \/ (tier = "subscribed" /\ row.name = q)

\* A NULL price fails every comparison.
PriceMatches(row, query, tier) ==
    LET low == IF tier = "subscribed" \/ query.minPrice = Unset THEN query.minPrice ELSE SnapFloor(query.minPrice)
        high == IF tier = "subscribed" \/ query.maxPrice = Unset THEN query.maxPrice ELSE SnapCeiling(query.maxPrice)
    IN  /\ low # Unset => row.price # Unset /\ row.price >= low
        /\ high # Unset => row.price # Unset /\ row.price <= high

Found(query, tier) ==
    {a \in Artists : /\ profile[a].active
                     /\ TextMatches(profile[a], query.q, tier)
                     /\ PriceMatches(profile[a], query, tier)}

-----------------------------------------------------------------------------
(* Requests                                                                *)

\* The list has no owner; the page of an artist, who must be there, has one.
ResolveTier(viewer, page) ==
    /\ ask = NoAsk
    /\ page # Unset => profile[page].active
    /\ ask' = [pc |-> "read", tier |-> ViewerTier(viewer, page), page |-> page]
    /\ UNCHANGED <<profile, payers>>

\* The rows are read and shaped, or the artist has left meanwhile: 404.
AnswerAsk ==
    /\ ask.pc = "read"
    /\ ask' = NoAsk
    /\ UNCHANGED <<profile, payers>>

\* What the request does not name keeps its value.
UpdateMe(a) ==
    /\ \E n \in Texts \cup {profile[a].name}, t \in Texts \cup {profile[a].bio},
          p \in Amounts \cup {profile[a].price} :
            profile' = [profile EXCEPT ![a].name = n, ![a].bio = t, ![a].price = p]
    /\ UNCHANGED <<payers, ask>>

\* Activation, suspension, deletion of the account.
SetStatus(a) ==
    /\ profile' = [profile EXCEPT ![a].active = ~@]
    /\ UNCHANGED <<payers, ask>>

\* A subscription starts, or its time runs out.
SubscriptionTurns(u) ==
    /\ payers' = IF u \in payers THEN payers \ {u} ELSE payers \cup {u}
    /\ UNCHANGED <<profile, ask>>

DirectoryInit ==
    /\ profile = [a \in Artists |-> [name |-> Unset, bio |-> Unset, price |-> Unset, active |-> FALSE]]
    /\ payers = {}
    /\ ask = NoAsk

DirectoryNext ==
    \/ \E viewer \in Viewers, page \in Artists \cup {Unset} : ResolveTier(viewer, page)
    \/ AnswerAsk
    \/ \E a \in Artists : UpdateMe(a) \/ SetStatus(a)
    \/ \E u \in Bookers : SubscriptionTurns(u)

DirectorySpec == DirectoryInit /\ [][DirectoryNext]_directoryVars

-----------------------------------------------------------------------------
DirectoryTypeOK ==
    /\ profile \in [Artists -> [name : Texts \cup {Unset}, bio : Texts \cup {Unset},
                             price : Amounts \cup {Unset}, active : BOOLEAN]]
    /\ payers \subseteq Bookers
    /\ ask \in [pc : {"idle", "read"}, tier : Tiers \cup {"none"}, page : Artists \cup {Unset}]

\* Somebody who does not pay, whatever he asks, tells two listed artists
\* with the same card apart by one thing only: a ceiling that is snapped to
\* exactly the price of the one it lets through.  No floor, no name and no
\* other ceiling separates two prices of one band, although the bounds are
\* compared with the exact price (ArtistsService.search, lines 96 to 110).
OnlyTheEdgeSeparates ==
    ask.pc = "read" /\ ask.page = Unset /\ ask.tier # "subscribed" =>
        \A query \in Queries : \A a, b \in {x \in Artists : profile[x].active} :
            /\ Card(profile[a], ask.tier) = Card(profile[b], ask.tier)
            /\ a \in Found(query, ask.tier) /\ b \notin Found(query, ask.tier)
            => query.maxPrice # Unset /\ profile[a].price = SnapCeiling(query.maxPrice)

\* What the comment on the snapping promises: two listed artists with the
\* same card are found together or not at all ("a non-paying viewer can only
\* ever filter at the same granularity they can see", artist-visibility.ts
\* lines 113 and 114).  It does not hold: a price on a boundary is shown with
\* the band above it, and a ceiling on that boundary lets it alone through.
SameCardSameAnswer ==
    ask.pc = "read" /\ ask.page = Unset /\ ask.tier # "subscribed" =>
        \A query \in Queries : \A a, b \in {x \in Artists : profile[x].active} :
            Card(profile[a], ask.tier) = Card(profile[b], ask.tier) =>
                (a \in Found(query, ask.tier) <=> b \in Found(query, ask.tier))
=============================================================================
