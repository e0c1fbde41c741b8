--------------------------- MODULE ClobReads_proofs ---------------------------
(***************************************************************************)
(* Machine-checked theorems about what the client reads: PositionPages,    *)
(* for every inventory, page size, offset limit and number of changes;     *)
(* FeeSchedules, for every number of markets, readers and publications.    *)
(***************************************************************************)
EXTENDS PositionPages, FeeSchedules, FunctionTheorems, FiniteSetTheorems, TLAPS

-----------------------------------------------------------------------------
(* The inductive invariant: every page but the last was full and new, so   *)
(* offset counts what has been collected.                                  *)

ListIsOne == \E S \in SUBSET Entries : inventory \in Lists[S]

PagesInv ==
    /\ ListIsOne
    /\ identities \subseteq Entries
    /\ offset \in Nat
    /\ traversal = "reading" => Cardinality(identities) = offset
    /\ traversal = "done" => Len(inventory) <= Cardinality(identities)

-----------------------------------------------------------------------------
(* Lists without repetition, and their segments.                           *)

LEMMA ListFacts ==
  ASSUME ListIsOne
  PROVE  /\ inventory \in Seq(Entries)
         /\ Len(inventory) \in Nat
         /\ DOMAIN inventory = 1 .. Len(inventory)
         /\ \A i, j \in 1 .. Len(inventory) : inventory[i] = inventory[j] => i = j
<1>1. PICK S \in SUBSET Entries : inventory \in Lists[S]
  BY DEF ListIsOne
<1>2. Cardinality(S) \in Nat
  BY PagesAssumption, FS_Subset, FS_CardinalityType
<1>3. inventory \in [1 .. Cardinality(S) -> S]
  BY <1>1 DEF Lists
<1>4. inventory \in Seq(S) /\ Len(inventory) = Cardinality(S)
  BY <1>2, <1>3
<1>5. \A i, j \in DOMAIN inventory : inventory[i] = inventory[j] => i = j
  BY <1>1 DEF Lists
<1> QED BY <1>2, <1>3, <1>4, <1>5

(* A segment of such a list has as many entries as places.                 *)
LEMMA SegmentSize ==
  ASSUME ListIsOne, NEW I \in SUBSET (1 .. Len(inventory))
  PROVE  LET T == {inventory[i] : i \in I}
         IN  /\ IsFiniteSet(T)
             /\ Cardinality(T) = Cardinality(I)
             /\ T \subseteq Entries
<1> DEFINE T == {inventory[i] : i \in I}
           f == [i \in I |-> inventory[i]]
<1>1. IsFiniteSet(1 .. Len(inventory))
  BY ListFacts, FS_Interval
<1>2. IsFiniteSet(I)
  BY <1>1, FS_Subset
<1>3. f \in [I -> T]
  OBVIOUS
<1>4. f \in Injection(I, T)
  BY <1>3, ListFacts DEF Injection, IsInjective
<1>5. f \in Surjection(I, T)
  BY <1>3 DEF Surjection
<1>6. IsFiniteSet(T) /\ Cardinality(T) = Cardinality(I)
  BY <1>2, <1>4, <1>5, FS_Surjection
<1>7. \A i \in I : inventory[i] \in Entries
  BY ListFacts
<1> QED BY <1>6, <1>7

LEMMA ListedSize ==
  ASSUME ListIsOne
  PROVE  IsFiniteSet(Listed) /\ Cardinality(Listed) = Len(inventory)
<1>1. Cardinality(1 .. Len(inventory)) = Len(inventory)
  BY ListFacts, FS_Interval
<1> QED BY <1>1, SegmentSize, ListFacts DEF Listed

(* A page is full, or it is short and reaches the end of the list.         *)
LEMMA PageSize ==
  ASSUME ListIsOne, offset \in Nat
  PROVE  /\ IsFiniteSet(Page)
         /\ Page \subseteq Entries
         /\ Cardinality(Page) \in Nat
         /\ Cardinality(Page) <= PageLimit
         /\ Cardinality(Page) < PageLimit => Len(inventory) <= offset + Cardinality(Page)
<1>1. PageLimit \in Nat \ {0} /\ Len(inventory) \in Nat
  BY PagesAssumption, ListFacts
<1>2. PageEnd \in Nat /\ PageEnd <= Len(inventory) /\ PageEnd <= offset + PageLimit
      /\ (PageEnd = offset + PageLimit \/ PageEnd = Len(inventory))
  BY <1>1 DEF PageEnd
<1>3. offset + 1 .. PageEnd \in SUBSET (1 .. Len(inventory))
  BY <1>1, <1>2
<1>4. /\ IsFiniteSet(Page)
      /\ Cardinality(Page) = Cardinality(offset + 1 .. PageEnd)
      /\ Page \subseteq Entries
  BY <1>3, SegmentSize DEF Page
<1>5. Cardinality(offset + 1 .. PageEnd) = IF offset + 1 > PageEnd THEN 0 ELSE PageEnd - offset
  <2>1. Cardinality(offset + 1 .. PageEnd) =
          IF offset + 1 > PageEnd THEN 0 ELSE PageEnd - (offset + 1) + 1
    BY <1>2, FS_Interval
  <2> QED BY <2>1, <1>2
<1> QED BY <1>1, <1>2, <1>4, <1>5

(* A new page adds its size to what has been collected.                    *)
LEMMA NewPageAdds ==
  ASSUME PagesInv, ~Repeats
  PROVE  Cardinality(identities \cup Page) = Cardinality(identities) + Cardinality(Page)
<1>1. IsFiniteSet(identities)
  BY PagesAssumption, FS_Subset DEF PagesInv
<1>2. IsFiniteSet(Page) /\ Cardinality(Page) \in Nat
  BY PageSize DEF PagesInv
<1>3. identities \cap Page = {}
  BY DEF Repeats
<1>4. Cardinality({}) = 0 /\ Cardinality(identities) \in Nat
  BY <1>1, FS_EmptySet, FS_CardinalityType
<1>5. Cardinality(identities \cup Page) =
        Cardinality(identities) + Cardinality(Page) - Cardinality(identities \cap Page)
  BY <1>1, <1>2, FS_Union
<1>6. Cardinality(identities \cap Page) = 0
  BY <1>3, <1>4
<1> QED BY <1>2, <1>4, <1>5, <1>6

-----------------------------------------------------------------------------
(* The steps.                                                              *)

LEMMA PagesInit_Inv == PagesInit => PagesInv
BY FS_EmptySet DEF PagesInit, PagesInv, ListIsOne

LEMMA ReadPageKeepsInv ==
  ASSUME PagesInv, ReadPage
  PROVE  PagesInv'
<1>1. /\ inventory' = inventory
      /\ identities' = identities \cup Page
      /\ Cardinality(identities) = offset
      /\ Cardinality(identities') = offset + Cardinality(Page)
  BY NewPageAdds DEF ReadPage, PagesInv
<1>2. ListIsOne' /\ identities' \subseteq Entries
  BY <1>1, PageSize DEF PagesInv, ListIsOne
<1>3. Cardinality(Page) \in Nat /\ Cardinality(Page) <= PageLimit /\ PageLimit \in Nat
  BY PageSize, PagesAssumption DEF PagesInv
<1>4. CASE LastPage /\ traversal' = "done" /\ offset' = offset
  <2>1. Len(inventory') <= Cardinality(identities')
    BY <1>1, <1>4, PageSize DEF LastPage, PagesInv
  <2> QED BY <1>2, <1>4, <2>1 DEF PagesInv
<1>5. CASE ~LastPage /\ offset' = offset + PageLimit /\ traversal' = traversal
  <2>1. Cardinality(Page) = PageLimit
    BY <1>3, <1>5 DEF LastPage
  <2>2. offset' = Cardinality(identities') /\ offset' \in Nat
    BY <1>1, <1>3, <1>5, <2>1 DEF PagesInv
  <2>3. traversal' = "reading"
    BY <1>5 DEF ReadPage
  <2> QED BY <1>2, <2>2, <2>3 DEF PagesInv
<1>6. CASE traversal' = "failed" /\ offset' = offset
  BY <1>2, <1>6 DEF PagesInv
<1> QED BY <1>4, <1>5, <1>6 DEF ReadPage

(* The invariant, whatever the venue changes between two pages.            *)
THEOREM PagesInductive == PagesSpec => []PagesInv
<1>1. PagesInv /\ [PagesNext]_pagevars => PagesInv'
  <2> SUFFICES ASSUME PagesInv, [PagesNext]_pagevars PROVE PagesInv'
    OBVIOUS
  <2>1. CASE ReadPage
    BY <2>1, ReadPageKeepsInv
  <2>2. CASE PageRefused
    BY <2>2 DEF PageRefused, PagesInv, ListIsOne
  <2>3. CASE InventoryChanges
    BY <2>3 DEF InventoryChanges, PagesInv, ListIsOne
  <2>4. CASE UNCHANGED pagevars
    BY <2>4 DEF pagevars, PagesInv, ListIsOne
  <2> QED BY <2>1, <2>2, <2>3, <2>4 DEF PagesNext
<1> QED BY <1>1, PagesInit_Inv, PTL DEF PagesSpec

(* A traversal that succeeds misses at most as many held positions as it   *)
(* returns closed ones; without closings it returns exactly what is held.  *)
THEOREM TraversalsCover == PagesSpec => []NothingHeldIsMissed
<1>1. PagesInv => NothingHeldIsMissed
  <2> SUFFICES ASSUME PagesInv, traversal = "done"
               PROVE  Cardinality(Listed \ identities) <= Cardinality(identities \ Listed)
    BY DEF NothingHeldIsMissed
  <2>1. IsFiniteSet(identities) /\ IsFiniteSet(Listed)
    BY PagesAssumption, FS_Subset, ListedSize DEF PagesInv
  <2>2. /\ Cardinality(Listed) <= Cardinality(identities)
        /\ Cardinality(Listed) \in Nat /\ Cardinality(identities) \in Nat
    BY <2>1, ListedSize, FS_CardinalityType DEF PagesInv
  <2>3. Cardinality(Listed \ identities) = Cardinality(Listed) - Cardinality(Listed \cap identities)
    BY <2>1, FS_Difference
  <2>4. Cardinality(identities \ Listed) = Cardinality(identities) - Cardinality(identities \cap Listed)
    BY <2>1, FS_Difference
  <2>5. Cardinality(identities \cap Listed) \in Nat
    BY <2>1, FS_Intersection, FS_CardinalityType
  <2>6. Listed \cap identities = identities \cap Listed
    OBVIOUS
  <2>7. Cardinality(Listed \ identities) = Cardinality(Listed) - Cardinality(identities \cap Listed)
    BY <2>3, <2>6
  <2> QED BY <2>2, <2>4, <2>5, <2>7
<1> QED BY <1>1, PagesInductive, PTL

-----------------------------------------------------------------------------
(* Fee schedules.                                                          *)

(* The inductive invariant.                                                *)

(* What a call knows in its place belongs to one market.                   *)
Resolving(t) == [at |-> "resolving", token |-> t]
Detailing(t, m) == [at |-> "detailing", token |-> t, market |-> m]
Storing(t, m, s) == [at |-> "storing", token |-> t, market |-> m, schedule |-> s]
Returned(t, s) == [at |-> "returned", token |-> t, schedule |-> s]

CallSound(c, pub) ==
    \/ c = Idle
    \/ \E t \in Tokens : c = Resolving(t)
    \/ \E m \in Markets : \E t \in TokensOf[m] :
          \/ c = Detailing(t, m)
          \/ \E s \in pub[m] : c = Storing(t, m, s) \/ c = Returned(t, s)

(* The tokens of a market are cached together, with one schedule of it.    *)
MarketSound(cache, m, pub) ==
    TokensOf[m] \cap DOMAIN cache # {} =>
        /\ TokensOf[m] \subseteq DOMAIN cache
        /\ \E s \in pub[m] : \A t \in TokensOf[m] : cache[t] = s

CacheSound(cache, pub) ==
    /\ \A t \in DOMAIN cache : \E m \in Markets : t \in TokensOf[m]
    /\ \A m \in Markets : MarketSound(cache, m, pub)

VenueSound ==
    /\ DOMAIN current = Markets
    /\ DOMAIN published = Markets
    /\ \A m \in Markets : current[m] \in published[m]

FeesInv ==
    /\ VenueSound
    /\ CacheSound(schedules, published)
    /\ DOMAIN reader = Readers
    /\ \A r \in Readers : CallSound(reader[r], published)

-----------------------------------------------------------------------------

LEMMA PlacesDiffer ==
  /\ Idle.at = "idle"
  /\ \A t : Resolving(t).at = "resolving"
  /\ \A t, m : Detailing(t, m).at = "detailing"
  /\ \A t, m, s : Storing(t, m, s).at = "storing"
  /\ \A t, s : Returned(t, s).at = "returned"
BY DEF Idle, Resolving, Detailing, Storing, Returned

(* A reader that moves to a sound call leaves every reader in one.         *)
LEMMA MoveSound ==
  ASSUME FeesInv, NEW r \in Readers, NEW c, CallSound(c, published), Move(r, c)
  PROVE  /\ DOMAIN reader' = Readers
         /\ \A q \in Readers : CallSound(reader'[q], published)
<1>1. reader' = [reader EXCEPT ![r] = c]
  BY DEF Move
<1>2. \A q \in Readers : reader'[q] = IF q = r THEN c ELSE reader[q]
  BY <1>1 DEF FeesInv
<1> QED BY <1>1, <1>2 DEF FeesInv

(* A cached token carries a schedule of its market.                        *)
LEMMA HitSound ==
  ASSUME FeesInv, NEW t \in Cached
  PROVE  CallSound(Returned(t, schedules[t]), published)
<1>1. PICK m \in Markets : t \in TokensOf[m]
  BY DEF FeesInv, CacheSound, Cached
<1>2. PICK s \in published[m] : \A u \in TokensOf[m] : schedules[u] = s
  BY <1>1 DEF FeesInv, CacheSound, MarketSound, Cached
<1> QED BY <1>1, <1>2 DEF CallSound

LEMMA PublishedGrows ==
  ASSUME NEW c, NEW pub, NEW more, CallSound(c, pub),
         \A m \in Markets : pub[m] \subseteq more[m]
  PROVE  CallSound(c, more)
BY DEF CallSound

LEMMA FeesInit_Inv == FeesInit => FeesInv
<1> SUFFICES ASSUME FeesInit PROVE FeesInv
  OBVIOUS
<1>1. VenueSound
  BY DEF FeesInit, VenueSound
<1>2. DOMAIN schedules = {}
  BY DEF FeesInit
<1>3. CacheSound(schedules, published)
  BY <1>2 DEF CacheSound, MarketSound
<1> QED BY <1>1, <1>3 DEF FeesInit, FeesInv, CallSound

LEMMA StoreKeepsCache ==
  ASSUME FeesInv, NEW r \in Readers, Store(r)
  PROVE  /\ CacheSound(schedules', published)
         /\ CallSound(Returned(reader[r].token, reader[r].schedule), published)
<1>1. PICK m \in Markets : \E t \in TokensOf[m] : \E s \in published[m] :
          reader[r] = Storing(t, m, s)
  BY DEF Store, FeesInv, CallSound, Idle, Resolving, Detailing, Returned
<1>2. PICK t \in TokensOf[m], s \in published[m] : reader[r] = Storing(t, m, s)
  BY <1>1
<1>3. reader[r].market = m /\ reader[r].schedule = s /\ reader[r].token = t
  BY <1>2 DEF Storing
<1>4. schedules' = [u \in Cached \cup TokensOf[m] |->
                       IF u \in TokensOf[m] THEN s ELSE schedules[u]]
  BY <1>3 DEF Store
<1>5. DOMAIN schedules' = Cached \cup TokensOf[m]
  BY <1>4
<1>6. MarketSound(schedules', m, published)
  BY <1>4, <1>5 DEF MarketSound
<1>7. ASSUME NEW n \in Markets, n # m PROVE MarketSound(schedules', n, published)
  <2>1. TokensOf[n] \cap TokensOf[m] = {}
    BY <1>7, FeesAssumption
  <2>2. \A u \in TokensOf[n] : u \in Cached => schedules'[u] = schedules[u]
    BY <2>1, <1>4
  <2>3. MarketSound(schedules, n, published)
    BY DEF FeesInv, CacheSound
  <2> QED BY <2>1, <2>2, <2>3, <1>5 DEF MarketSound, Cached
<1>8. \A u \in DOMAIN schedules' : \E n \in Markets : u \in TokensOf[n]
  BY <1>5 DEF FeesInv, CacheSound, Cached
<1>9. CacheSound(schedules', published)
  BY <1>6, <1>7, <1>8 DEF CacheSound
<1> QED BY <1>3, <1>9 DEF CallSound

LEMMA PublishKeepsInv ==
  ASSUME FeesInv, NEW m \in Markets, Publish(m)
  PROVE  FeesInv'
<1>1. PICK s \in Schedules :
          /\ current' = [current EXCEPT ![m] = s]
          /\ published' = [published EXCEPT ![m] = @ \cup {s}]
  BY DEF Publish
<1>2. schedules' = schedules /\ reader' = reader
  BY DEF Publish
<1>3. \A n \in Markets : published[n] \subseteq published'[n]
  BY <1>1 DEF FeesInv, VenueSound
<1>4. VenueSound'
  BY <1>1 DEF FeesInv, VenueSound
<1>5. CacheSound(schedules', published')
  BY <1>2, <1>3 DEF FeesInv, CacheSound, MarketSound
<1>6. \A r \in Readers : CallSound(reader'[r], published')
  BY <1>2, <1>3, PublishedGrows DEF FeesInv
<1> QED BY <1>2, <1>4, <1>5, <1>6 DEF FeesInv

LEMMA ReadKeepsInv ==
  ASSUME FeesInv, NEW r \in Readers,
         \/ StartRead(r) \/ MarketAnswered(r) \/ DetailsAnswered(r)
         \/ Store(r) \/ ReadFails(r)
  PROVE  FeesInv'
<1>1. published' = published /\ current' = current
  BY DEF StartRead, MarketAnswered, DetailsAnswered, Store, ReadFails
<1>2. VenueSound'
  BY <1>1 DEF FeesInv, VenueSound
<1>3. SUFFICES CacheSound(schedules', published) /\ \E c : CallSound(c, published) /\ Move(r, c)
  BY <1>1, <1>2, MoveSound DEF FeesInv
<1>4. CASE StartRead(r)
  <2>1. PICK t \in Tokens : Move(r, IF t \in Cached THEN Returned(t, schedules[t])
                                                    ELSE Resolving(t))
    BY <1>4 DEF StartRead, Returned, Resolving
  <2>2. CallSound(Resolving(t), published)
    BY DEF CallSound
  <2>3. CacheSound(schedules', published)
    BY <1>4 DEF StartRead, FeesInv
  <2> QED BY <2>1, <2>2, <2>3, HitSound
<1>5. CASE MarketAnswered(r)
  <2>1. PICK m \in Markets :
            Move(r, IF reader[r].token \in TokensOf[m]
                    THEN Detailing(reader[r].token, m) ELSE Idle)
    BY <1>5 DEF MarketAnswered, Detailing
  <2>2. CacheSound(schedules', published)
    BY <1>5 DEF MarketAnswered, FeesInv
  <2> QED BY <2>1, <2>2 DEF CallSound
<1>6. CASE DetailsAnswered(r)
  <2>1. PICK m \in Markets, T \in TokenLists :
            Move(r, IF SameMarket(r, m, T)
                    THEN Storing(reader[r].token, m, current[m]) ELSE Idle)
    BY <1>6 DEF DetailsAnswered, Storing
  <2>2. CacheSound(schedules', published)
    BY <1>6 DEF DetailsAnswered, FeesInv
  <2>3. reader[r].at = "detailing" /\ CallSound(reader[r], published)
    BY <1>6 DEF DetailsAnswered, FeesInv
  <2>4. reader[r].token \in TokensOf[reader[r].market]
    <3>1. PICK n \in Markets : \E t \in TokensOf[n] : reader[r] = Detailing(t, n)
      BY <2>3, PlacesDiffer DEF CallSound
    <3>2. PICK t \in TokensOf[n] : reader[r] = Detailing(t, n)
      BY <3>1
    <3>3. reader[r].token = t /\ reader[r].market = n
      BY <3>2 DEF Detailing
    <3> QED BY <3>3
  <2>5. SameMarket(r, m, T) => CallSound(Storing(reader[r].token, m, current[m]), published)
    BY <2>4 DEF SameMarket, CallSound, FeesInv, VenueSound
  <2> QED BY <2>1, <2>2, <2>5 DEF CallSound
<1>7. CASE Store(r)
  <2>1. Move(r, Returned(reader[r].token, reader[r].schedule))
    BY <1>7 DEF Store, Returned
  <2> QED BY <1>7, <2>1, StoreKeepsCache
<1>8. CASE ReadFails(r)
  BY <1>8 DEF ReadFails, FeesInv, CallSound
<1> QED BY <1>4, <1>5, <1>6, <1>7, <1>8

(* The invariant of the fee cache, for every interleaving of its readers.  *)
THEOREM FeesInductive == FeesSpec => []FeesInv
<1>1. FeesInv /\ [FeesNext]_feevars => FeesInv'
  <2> SUFFICES ASSUME FeesInv, [FeesNext]_feevars PROVE FeesInv'
    OBVIOUS
  <2>1. CASE UNCHANGED feevars
    BY <2>1 DEF feevars, FeesInv, VenueSound
  <2>2. CASE \E r \in Readers :
            StartRead(r) \/ MarketAnswered(r) \/ DetailsAnswered(r) \/ Store(r) \/ ReadFails(r)
    BY <2>2, ReadKeepsInv
  <2>3. CASE \E m \in Markets : Publish(m)
    BY <2>3, PublishKeepsInv
  <2> QED BY <2>1, <2>2, <2>3 DEF FeesNext
<1> QED BY <1>1, FeesInit_Inv, PTL DEF FeesSpec

(* The two tokens of a market never disagree about its fees, and nothing   *)
(* is cached or returned for a token that its market did not publish.      *)
THEOREM TokensAgree == FeesSpec => []SchedulesAreTheMarkets
<1>1. FeesInv => SchedulesAreTheMarkets
  <2> SUFFICES ASSUME FeesInv PROVE SchedulesAreTheMarkets
    OBVIOUS
  <2>1. \A m \in Markets : MarketSound(schedules, m, published)
    BY DEF FeesInv, CacheSound
  <2>2. ASSUME NEW r \in Readers, reader[r].at = "returned"
        PROVE  \E m \in Markets : reader[r].token \in TokensOf[m]
                                   /\ reader[r].schedule \in published[m]
    <3>1. CallSound(reader[r], published)
      BY DEF FeesInv
    <3>2. PICK m \in Markets : \E t \in TokensOf[m], s \in published[m] :
              reader[r] = Returned(t, s)
      BY <2>2, <3>1, PlacesDiffer DEF CallSound
    <3>3. PICK t \in TokensOf[m], s \in published[m] : reader[r] = Returned(t, s)
      BY <3>2
    <3>4. reader[r].token = t /\ reader[r].schedule = s
      BY <3>3 DEF Returned
    <3> QED BY <3>4
  <2> QED BY <2>1, <2>2 DEF SchedulesAreTheMarkets, MarketSound, Cached
<1> QED BY <1>1, FeesInductive, PTL

=============================================================================
