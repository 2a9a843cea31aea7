--------------------------- MODULE ProviderProofs ---------------------------
(***************************************************************************)
(* What the provider's side guarantees for any inventories, texts and      *)
(* limits.  InventoryPaging: what the steps of a call keep true of the     *)
(* items, the catalog and the report; from it InventoryWhole, and that     *)
(* InventoryPaging implements InventoryContract.  ProviderRequest: what is *)
(* known of one request at each of its steps.  Credential: the texts a     *)
(* token is taken from and had back from.                                  *)
(***************************************************************************)
EXTENDS ProviderParts, FiniteSetTheorems, SequenceTheorems, TLAPS

\* The shape of the state, and how far a call is: the total is known once the
\* first page has been received, and reached once the pages are.
StageFits ==
    /\ honest \in BOOLEAN
    /\ items \in Seq(Listed)
    /\ total = NoTotal => items = <<>>
    /\ phase = "page" => (total = NoTotal <=> pages = 0)
    /\ phase = "awaitPage" => pages >= 1 /\ (total = NoTotal <=> pages = 1)
    /\ phase \in {"catalog", "awaitCatalog", "join"} => total = Len(items)
    /\ phase \in {"page", "awaitPage"} => fetches = 0
    /\ phase = "catalog" => fetches <= 1
    /\ phase = "awaitCatalog" => fetches >= 1
    /\ phase # "done" => ~ Reported

\* What an honest server answered is the beginning of an inventory the company
\* had during the call.
Begins(v) ==
    /\ refreshedAt = Versions[v].stamp
    /\ total = Len(Versions[v].items)
    /\ items = SubSeq(Versions[v].items, 1, Len(items))

HonestFits == honest /\ total # NoTotal => \E v \in 1 .. version : Begins(v)

\* What is joined is a catalog the company had during the call, with one place
\* for an environment.
CatalogFits ==
    phase = "join" =>
        /\ Indexable(catalog)
        /\ \E c \in 1 .. catalogVersion : catalog = Catalogs[c]

PInv ==
    /\ TypeOK
    /\ StageFits
    /\ NamesDiffer(items)
    /\ PagesAreContiguous
    /\ HonestFits
    /\ CatalogFits
    /\ NeverPartial

-----------------------------------------------------------------------------
(* Reports.                                                                *)

\* A report has one entry for each component.
LEMMA OneEntryEach ==
    ASSUME NEW list \in Seq(Listed), NEW places, NamesDiffer(list)
    PROVE  Cardinality(Joined(list, places)) = Len(list)
<1>. DEFINE n == Len(list)
            Found(i) == {place \in {places[k] : k \in DOMAIN places} :
                             place.env \in list[i].envs}
            Entry(i) == [slug |-> list[i].name, installations |-> Found(i)]
            f == [i \in 1 .. n |-> Entry(i)]
<1>1. n \in Nat /\ DOMAIN list = 1 .. n
  BY LenProperties
<1>2. Joined(list, places) = {Entry(i) : i \in 1 .. n}
  BY <1>1 DEF Joined
<1>3. \A i, j \in 1 .. n : Entry(i) = Entry(j) => i = j
  <2>. SUFFICES ASSUME NEW i \in 1 .. n, NEW j \in 1 .. n, Entry(i) = Entry(j)
                PROVE  i = j
    OBVIOUS
  <2>1. Entry(i).slug = list[i].name /\ Entry(j).slug = list[j].name
    OBVIOUS
  <2>2. list[i].name = list[j].name
    BY <2>1
  <2>. QED  BY <1>1, <2>2 DEF NamesDiffer
<1>. HIDE DEF Entry
<1>4. f \in Bijection(1 .. n, {Entry(i) : i \in 1 .. n})
  BY <1>3 DEF Bijection, Injection, Surjection, IsInjective
<1>5. IsFiniteSet(1 .. n) /\ Cardinality(1 .. n) = n
  BY <1>1, FS_Interval
<1>. HIDE DEF f, n
<1>6. ExistsBijection(1 .. n, {Entry(i) : i \in 1 .. n})
  BY <1>4 DEF ExistsBijection
<1>7. Cardinality({Entry(i) : i \in 1 .. n}) = n
  BY <1>5, <1>6, FS_Bijection
<1>. QED  BY <1>2, <1>7 DEF n

\* Each environment of an indexable catalog has one place in it.
LEMMA OnePlaceEach ==
    ASSUME NEW places \in Seq(Placed), NEW envs, Indexable(places),
           envs \subseteq {places[k].env : k \in DOMAIN places}
    PROVE  LET found == {place \in {places[k] : k \in DOMAIN places} :
                             place.env \in envs}
           IN  /\ {place.env : place \in found} = envs
               /\ Cardinality(found) = Cardinality(envs)
<1>. DEFINE all == {places[k] : k \in DOMAIN places}
            found == {place \in all : place.env \in envs}
            f == [place \in found |-> place.env]
<1>1. {place.env : place \in found} = envs
  OBVIOUS
<1>2. \A p, q \in found : p.env = q.env => p = q
  BY DEF Indexable
<1>3. IsFiniteSet(all)
  <2>1. IsFiniteSet(DOMAIN places)
    BY LenProperties, FS_Interval
  <2>2. places \in Surjection(DOMAIN places, all)
    BY LenProperties DEF Surjection
  <2>. QED  BY <2>1, <2>2, FS_Surjection
<1>4. IsFiniteSet(found)
  BY <1>3, FS_Subset
<1>5. f \in Bijection(found, envs)
  BY <1>1, <1>2 DEF Bijection, Injection, Surjection, IsInjective
<1>. HIDE DEF f, found
<1>6. ExistsBijection(found, envs)
  BY <1>5 DEF ExistsBijection
<1>7. Cardinality(envs) = Cardinality(found)
  BY <1>4, <1>6, FS_Bijection
<1>. QED  BY <1>1, <1>7 DEF found

\* The join of items of different names with a catalog that knows their
\* installations leaves nothing out.
LEMMA JoinIsWhole ==
    ASSUME NEW list \in Seq(Listed), NEW places \in Seq(Placed),
           NamesDiffer(list), Indexable(places), Known(list, places)
    PROVE  /\ Cardinality(Joined(list, places)) = Len(list)
           /\ \A i \in DOMAIN list :
                 \E entry \in Joined(list, places) :
                    /\ entry.slug = list[i].name
                    /\ {place.env : place \in entry.installations} = list[i].envs
                    /\ Cardinality(entry.installations) = Cardinality(list[i].envs)
<1>1. ASSUME NEW i \in DOMAIN list
      PROVE  \E entry \in Joined(list, places) :
                /\ entry.slug = list[i].name
                /\ {place.env : place \in entry.installations} = list[i].envs
                /\ Cardinality(entry.installations) = Cardinality(list[i].envs)
  <2>. DEFINE found == {place \in {places[k] : k \in DOMAIN places} :
                            place.env \in list[i].envs}
              entry == [slug |-> list[i].name, installations |-> found]
  <2>1. entry \in Joined(list, places)
    BY DEF Joined
  <2>2. list[i].envs \subseteq {places[k].env : k \in DOMAIN places}
    BY DEF Known
  <2>3. /\ {place.env : place \in found} = list[i].envs
        /\ Cardinality(found) = Cardinality(list[i].envs)
    BY <2>2, OnePlaceEach
  <2>4. entry.slug = list[i].name /\ entry.installations = found
    OBVIOUS
  <2>. HIDE DEF found, entry
  <2>5. /\ {place.env : place \in entry.installations} = list[i].envs
        /\ Cardinality(entry.installations) = Cardinality(list[i].envs)
    BY <2>3, <2>4
  <2>. QED  BY <2>1, <2>4, <2>5
<1>. QED  BY <1>1, OneEntryEach

-----------------------------------------------------------------------------
(* Steps.                                                                  *)

LEMMA Limits ==
    /\ PageSize \in Nat \ {0} /\ BodySizes \subseteq Nat
    /\ MaxItems \in Nat /\ MaxPages \in Nat
    /\ MaxResponseBody \in Nat /\ MaxBody \in Nat
BY LimitsAssumption

LEMMA VersionsShape ==
    /\ Len(Versions) \in Nat \ {0} /\ DOMAIN Versions = 1 .. Len(Versions)
    /\ Len(Catalogs) \in Nat \ {0} /\ DOMAIN Catalogs = 1 .. Len(Catalogs)
    /\ \A v \in DOMAIN Versions : /\ Versions[v].items \in Seq(Listed)
                                  /\ Versions[v].stamp \in STRING
    /\ \A c \in DOMAIN Catalogs : Catalogs[c] \in Seq(Placed)
<1>1. /\ Len(Versions) \in Nat \ {0} /\ DOMAIN Versions = 1 .. Len(Versions)
      /\ Len(Catalogs) \in Nat \ {0} /\ DOMAIN Catalogs = 1 .. Len(Catalogs)
  BY VersionsAssumption, LenProperties, EmptySeq
<1>2. \A v \in DOMAIN Versions :
         Versions[v] \in [stamp : STRING, items : Seq(Listed)]
  BY <1>1, VersionsAssumption, ElementOfSeq
<1>3. \A c \in DOMAIN Catalogs : Catalogs[c] \in Seq(Placed)
  BY <1>1, VersionsAssumption, ElementOfSeq
<1>. QED  BY <1>1, <1>2, <1>3

LEMMA Initially == Init => PInv
<1>. SUFFICES ASSUME Init PROVE PInv
  OBVIOUS
<1>. USE DEF Init, ContractInit
<1>1. TypeOK
  BY VersionsShape, Limits DEF TypeOK, Phases, NoTotal
<1>2. items = <<>> /\ items \in Seq(Listed) /\ Len(items) = 0 /\ DOMAIN items = {}
  BY EmptySeq, LenProperties
<1>3. StageFits
  BY <1>2 DEF StageFits, NoTotal, Reported
<1>4. NamesDiffer(items) /\ PagesAreContiguous
  BY <1>2, Limits DEF NamesDiffer, PagesAreContiguous, NoTotal
<1>5. HonestFits /\ CatalogFits /\ NeverPartial
  BY DEF HonestFits, CatalogFits, NeverPartial, Reported, NoTotal
<1>. QED  BY <1>1, <1>3, <1>4, <1>5 DEF PInv

\* A step that reports nothing, and leaves the items and what is known of them
\* alone.
Rests ==
    /\ UNCHANGED <<honest, report, total, refreshedAt, items>>
    /\ version' \in version .. Len(Versions)

LEMMA ItemsRest ==
    ASSUME PInv, Rests
    PROVE  /\ items' \in Seq(Listed) /\ NamesDiffer(items)'
           /\ HonestFits' /\ NeverPartial'
           /\ Len(items) \in Nat
<1>1. version \in 1 .. Len(Versions)
  BY VersionsShape DEF PInv, TypeOK
<1>2. items' \in Seq(Listed) /\ NamesDiffer(items)' /\ Len(items) \in Nat
  BY LenProperties DEF PInv, StageFits, NamesDiffer, Rests
<1>3. HonestFits'
  <2>. SUFFICES ASSUME honest, total # NoTotal
                PROVE  \E v \in 1 .. version' : Begins(v)'
    BY DEF HonestFits, Rests
  <2>1. PICK v \in 1 .. version : Begins(v)
    BY DEF PInv, HonestFits
  <2>2. v \in 1 .. version' /\ Begins(v)'
    BY <1>1, <2>1, VersionsShape DEF Rests, Begins
  <2>. QED  BY <2>2
<1>4. NeverPartial'
  BY DEF PInv, NeverPartial, Reported, Rests
<1>. QED  BY <1>2, <1>3, <1>4

LEMMA FailKeeps ==
    ASSUME PInv, NEW code, FailWith(code)
    PROVE  PInv'
<1>. USE DEF FailWith, server, paging, joining
<1>1. Rests
  BY VersionsShape DEF Rests, PInv, TypeOK
<1>2. TypeOK'
  BY DEF PInv, TypeOK, Phases
<1>3. StageFits' /\ PagesAreContiguous' /\ CatalogFits'
  BY DEF PInv, StageFits, PagesAreContiguous, CatalogFits
<1>. QED  BY <1>1, <1>2, <1>3, ItemsRest DEF PInv

LEMMA RequestPageKeeps == PInv /\ RequestPage => PInv'
<1>. SUFFICES ASSUME PInv, RequestPage PROVE PInv'
  OBVIOUS
<1>. USE DEF RequestPage, server, joining
<1>1. Rests
  BY VersionsShape DEF Rests, PInv, TypeOK
<1>2. TypeOK'
  BY Limits DEF PInv, TypeOK, Phases
<1>3. StageFits'
  BY Limits DEF PInv, TypeOK, StageFits, NoTotal, Reported
<1>4. PagesAreContiguous' /\ CatalogFits'
  BY DEF PInv, PagesAreContiguous, CatalogFits
<1>. QED  BY <1>1, <1>2, <1>3, <1>4, ItemsRest DEF PInv

-----------------------------------------------------------------------------
(* Pages.                                                                  *)

\* A page of an honest server is a part of the current inventory, from the
\* offset on, and is empty only at its end.
LEMMA HonestPageIsPart ==
    ASSUME PInv, NEW page \in HonestPages
    PROVE  LET current == Versions[version].items
           IN  \E last \in Nat :
                  /\ page.total = Len(current)
                  /\ page.stamp = Versions[version].stamp
                  /\ page.items = SubSeq(current, offset + 1, last)
                  /\ page.size \in BodySizes
                  /\ last <= offset + PageSize /\ last <= Len(current)
                  /\ last > offset \/ last = Len(current)
<1>. DEFINE current == Versions[version].items
            most == IF offset + PageSize < Len(current)
                    THEN offset + PageSize ELSE Len(current)
            ends == IF offset + 1 <= most THEN offset + 1 .. most ELSE {most}
<1>1. version \in 1 .. Len(Versions) /\ offset \in Nat
  BY VersionsShape DEF PInv, TypeOK
<1>2. Len(current) \in Nat
  BY <1>1, VersionsShape, LenProperties
<1>3. \A last \in ends : /\ last \in Nat
                         /\ last <= offset + PageSize /\ last <= Len(current)
                         /\ last > offset \/ last = Len(current)
  <2>1. most \in Nat /\ most <= offset + PageSize /\ most <= Len(current)
        /\ (offset + 1 <= most \/ most = Len(current))
    BY <1>1, <1>2, Limits
  <2>. HIDE DEF most, current
  <2>2. CASE offset + 1 <= most
    BY <1>1, <1>2, <2>1, <2>2, Limits
  <2>3. CASE ~ (offset + 1 <= most)
    BY <1>1, <1>2, <2>1, <2>3, Limits
  <2>. QED  BY <2>2, <2>3
<1>4. PICK last \in ends, size \in BodySizes :
            page = [total |-> Len(current), stamp |-> Versions[version].stamp,
                    items |-> SubSeq(current, offset + 1, last), size |-> size]
  BY DEF HonestPages
<1>. HIDE DEF ends, current
<1>5. /\ page.total = Len(current)
      /\ page.stamp = Versions[version].stamp
      /\ page.items = SubSeq(current, offset + 1, last)
      /\ page.size \in BodySizes
  BY <1>4
<1>. QED  BY <1>3, <1>5 DEF current

\* What the server answers with, honest or not.
LEMMA PageShape ==
    ASSUME PInv, NEW page \in AnswerPages
    PROVE  /\ page.items \in Seq(Listed) /\ Len(page.items) \in Nat
           /\ page.total \in Nat /\ page.size \in Nat
<1>1. version \in 1 .. Len(Versions) /\ offset \in Nat
  BY VersionsShape DEF PInv, TypeOK
<1>2. CASE honest
  <2>. DEFINE current == Versions[version].items
  <2>1. current \in Seq(Listed) /\ Len(current) \in Nat
    BY <1>1, VersionsShape, LenProperties
  <2>2. PICK last \in Nat :
              /\ page.total = Len(current) /\ page.size \in BodySizes
              /\ page.items = SubSeq(current, offset + 1, last)
              /\ last <= Len(current)
    BY <1>2, HonestPageIsPart DEF AnswerPages
  <2>3. \A i \in offset + 1 .. last : current[i] \in Listed
    BY <1>1, <2>1, <2>2, ElementOfSeq
  <2>4. SubSeq(current, offset + 1, last) \in Seq(Listed)
    BY <1>1, <2>3, SubSeqProperties
  <2>. HIDE DEF current
  <2>5. page.items \in Seq(Listed) /\ page.total \in Nat /\ page.size \in Nat
    BY <2>1, <2>2, <2>4, Limits
  <2>. QED  BY <2>5, LenProperties
<1>3. CASE ~ honest
  <2>1. page \in ForgedPages
    BY <1>3 DEF AnswerPages
  <2>2. PICK n \in Nat : page.items \in [1 .. n -> Forged]
    BY <2>1, Limits DEF ForgedPages
  <2>3. page.items \in Seq(Listed)
    BY <2>2 DEF Listed
  <2>4. page.total \in 0 .. MaxItems + 1 /\ page.size \in BodySizes
    BY <2>1 DEF ForgedPages
  <2>5. page.total \in Nat
    BY <2>4, Limits
  <2>6. page.size \in Nat
    BY <2>4, Limits
  <2>. QED  BY <2>3, <2>5, <2>6, LenProperties
<1>. QED  BY <1>2, <1>3

\* A page of an honest server that has the stamp of the first one continues
\* the inventory the first one began.
LEMMA HonestPageContinues ==
    ASSUME PInv, NEW page \in AnswerPages, honest, phase = "awaitPage",
           SameStamp(page), SameTotal(page)
    PROVE  LET current == Versions[version].items
           IN  /\ page.stamp = Versions[version].stamp
               /\ page.total = Len(current)
               /\ \E last \in Len(items) .. Len(current) :
                     /\ items = SubSeq(current, 1, Len(items))
                     /\ page.items = SubSeq(current, Len(items) + 1, last)
                     /\ Len(page.items) = last - Len(items)
                     /\ items \o page.items = SubSeq(current, 1, last)
                     /\ last - Len(items) <= PageSize
                     /\ last = Len(items) => last = Len(current)
<1>. DEFINE current == Versions[version].items
            n == Len(items)
<1>1. version \in 1 .. Len(Versions) /\ n \in Nat /\ offset = n
  BY VersionsShape, LenProperties DEF PInv, TypeOK, StageFits, PagesAreContiguous
<1>2. current \in Seq(Listed) /\ Len(current) \in Nat
  BY <1>1, VersionsShape, LenProperties
<1>3. page \in HonestPages
  BY DEF AnswerPages
<1>4. page.stamp = Versions[version].stamp /\ page.total = Len(current)
  BY <1>3 DEF HonestPages
<1>5. items = SubSeq(current, 1, n) /\ n <= Len(current)
      /\ (n = Len(current) => n = 0)
  <2>1. CASE pages = 1
    <3>1. items = <<>> /\ n = 0
      BY <2>1, EmptySeq DEF PInv, StageFits
    <3>. QED  BY <1>2, <3>1, SubSeqEmpty
  <2>2. CASE pages # 1
    <3>1. total # NoTotal /\ page.stamp = refreshedAt /\ total = page.total
      BY <2>2 DEF PInv, StageFits, SameStamp, SameTotal
    <3>2. PICK v \in 1 .. version : Begins(v)
      BY <3>1 DEF PInv, HonestFits
    <3>3. Versions[v].items = current
      <4>1. v \in DOMAIN Versions /\ version \in DOMAIN Versions
        BY <1>1, <3>2, VersionsShape
      <4>2. Versions[v].stamp = Versions[version].stamp
        BY <1>4, <3>1, <3>2 DEF Begins
      <4>. QED  BY <4>1, <4>2, VersionsAssumption
    <3>4. n <= total /\ total # n
      BY <3>1 DEF PInv, PagesAreContiguous
    <3>. QED  BY <1>1, <1>2, <3>2, <3>3, <3>4 DEF Begins
  <2>. QED  BY <2>1, <2>2
<1>6. PICK last \in n .. Len(current) :
            /\ page.items = SubSeq(current, n + 1, last)
            /\ last - n <= PageSize
            /\ last = n => last = Len(current)
  <2>1. PICK last \in Nat :
              /\ page.items = SubSeq(current, n + 1, last)
              /\ last <= n + PageSize /\ last <= Len(current)
              /\ last > n \/ last = Len(current)
    BY <1>1, <1>3, HonestPageIsPart
  <2>2. last \in n .. Len(current) /\ last - n <= PageSize
    BY <1>1, <1>2, <1>5, <2>1, Limits
  <2>. QED  BY <1>1, <1>2, <2>1, <2>2
<1>7. Len(page.items) = last - n
  <2>1. \A i \in n + 1 .. last : current[i] \in Listed
    BY <1>1, <1>2, ElementOfSeq
  <2>2. Len(SubSeq(current, n + 1, last)) = IF n + 1 <= last THEN last - (n + 1) + 1 ELSE 0
    BY <1>1, <1>2, <2>1, SubSeqProperties
  <2>. QED  BY <1>1, <1>2, <1>6, <2>2
<1>8. items \o page.items = SubSeq(current, 1, last)
  BY <1>1, <1>2, <1>5, <1>6, ConcatAdjacentSubSeq
<1>. QED  BY <1>4, <1>5, <1>6, <1>7, <1>8

LEMMA ReceivePageKeeps ==
    ASSUME PInv, NEW page \in AnswerPages, ReceivePage(page)
    PROVE  PInv'
<1>. USE DEF ReceivePage, server, joining, Acceptable
<1>. DEFINE n == Len(items)
            m == Len(page.items)
<1>1. /\ items \in Seq(Listed) /\ n \in Nat
      /\ page.items \in Seq(Listed) /\ m \in Nat
      /\ page.total \in Nat /\ page.size \in Nat
  BY PageShape, LenProperties DEF PInv, StageFits
<1>2. items' \in Seq(Listed) /\ Len(items') = n + m
  BY <1>1, ConcatProperties
<1>3. n + m <= MaxItems /\ n + m <= page.total /\ page.total <= MaxItems
  BY DEF WithinTotal, SameTotal
<1>4. LastPage(page) <=> n + m = page.total
  BY DEF LastPage
<1>5. total' \in 0 .. MaxItems /\ total' # NoTotal
  BY <1>1, <1>3, Limits DEF NoTotal
<1>6. TypeOK'
  <2>1. body' \in 0 .. MaxBody
    BY <1>1, Limits DEF PInv, TypeOK, WithinBytes
  <2>2. offset' \in Nat
    BY <1>1 DEF PInv, TypeOK, NextOffset
  <2>3. phase' \in Phases /\ phase' # "done" /\ phase # "done"
    BY DEF Phases
  <2>. QED  BY <1>5, <2>1, <2>2, <2>3 DEF PInv, TypeOK
<1>7. StageFits'
  <2>1. pages' = pages /\ pages >= 1 /\ pages # 0 /\ honest' \in BOOLEAN /\ ~ Reported'
    BY Limits DEF PInv, TypeOK, StageFits, Reported
  <2>2. fetches' = 0 /\ (phase' = "catalog" => total' = Len(items'))
    BY <1>2, <1>4 DEF PInv, StageFits
  <2>3. phase' \in {"page", "catalog"}
    OBVIOUS
  <2>. QED  BY <1>2, <1>5, <2>1, <2>2, <2>3 DEF StageFits
<1>8. NamesDiffer(items)'
  BY DEF NewNames
<1>9. PagesAreContiguous'
  BY <1>2, <1>3, <1>4 DEF PagesAreContiguous, NextOffset
<1>10. HonestFits'
  <2>. SUFFICES ASSUME honest PROVE \E v \in 1 .. version' : Begins(v)'
    BY DEF HonestFits
  <2>1. version \in 1 .. Len(Versions)
    BY VersionsShape DEF PInv, TypeOK
  <2>2. PICK last \in Len(items) .. Len(Versions[version].items) :
              /\ page.stamp = Versions[version].stamp
              /\ page.total = Len(Versions[version].items)
              /\ m = last - n
              /\ items \o page.items = SubSeq(Versions[version].items, 1, last)
    BY HonestPageContinues
  <2>3. last = Len(items')
    BY <1>1, <1>2, <2>2
  <2>4. Begins(version)'
    BY <2>2, <2>3 DEF Begins
  <2>. QED  BY <2>1, <2>4
<1>11. CatalogFits' /\ NeverPartial'
  BY DEF PInv, StageFits, CatalogFits, NeverPartial, Reported
<1>. QED  BY <1>6, <1>7, <1>8, <1>9, <1>10, <1>11 DEF PInv

-----------------------------------------------------------------------------
(* The catalog, and the join.                                              *)

LEMMA CatalogKeeps == PInv /\ (RequestCatalog \/ ReceiveCatalog) => PInv'
<1>. SUFFICES ASSUME PInv, RequestCatalog \/ ReceiveCatalog PROVE PInv'
  OBVIOUS
<1>. USE DEF server, paging
<1>. DEFINE listed == Catalogs[catalogVersion]
<1>1. CASE ReceiveCatalog /\ ~ Indexable(listed)
  BY <1>1, FailKeeps DEF ReceiveCatalog
<1>2. CASE RequestCatalog \/ (ReceiveCatalog /\ Indexable(listed))
  <2>1. Rests
    BY <1>2, VersionsShape DEF Rests, PInv, TypeOK, RequestCatalog, ReceiveCatalog
  <2>2. TypeOK'
    BY <1>2 DEF PInv, TypeOK, StageFits, Phases, RequestCatalog, ReceiveCatalog
  <2>3. StageFits'
    BY <1>2 DEF PInv, TypeOK, StageFits, Reported, NeedsRefresh,
                RequestCatalog, ReceiveCatalog
  <2>4. PagesAreContiguous'
    BY <1>2 DEF PInv, PagesAreContiguous, RequestCatalog, ReceiveCatalog
  <2>5. CatalogFits'
    <3>1. catalogVersion \in 1 .. catalogVersion
      BY VersionsShape DEF PInv, TypeOK
    <3>2. CASE RequestCatalog
      BY <3>2 DEF CatalogFits, RequestCatalog
    <3>3. CASE ReceiveCatalog /\ Indexable(listed)
      BY <3>1, <3>3 DEF CatalogFits, ReceiveCatalog
    <3>. QED  BY <1>2, <3>2, <3>3
  <2>. QED  BY <2>1, <2>2, <2>3, <2>4, <2>5, ItemsRest DEF PInv
<1>. QED  BY <1>1, <1>2

\* What is joined is one catalog of the company.
LEMMA JoinsACatalog ==
    ASSUME PInv, phase = "join"
    PROVE  \E c \in 1 .. catalogVersion :
              c \in DOMAIN Catalogs /\ catalog = Catalogs[c] /\ catalog \in Seq(Placed)
<1>1. PICK c \in 1 .. catalogVersion : catalog = Catalogs[c]
  BY DEF PInv, CatalogFits
<1>2. c \in DOMAIN Catalogs
  BY <1>1, VersionsShape DEF PInv, TypeOK
<1>. QED  BY <1>1, <1>2, VersionsShape

LEMMA JoinCatalogKeeps == PInv /\ JoinCatalog => PInv'
<1>. SUFFICES ASSUME PInv, JoinCatalog PROVE PInv'
  OBVIOUS
<1>. USE DEF JoinCatalog, server, paging, joining
<1>1. items \in Seq(Listed) /\ total = Len(items)
  BY DEF PInv, StageFits
<1>2. catalog \in Seq(Placed) /\ Indexable(catalog)
  BY JoinsACatalog DEF PInv, CatalogFits
<1>3. NeverPartial'
  <2>1. NamesDiffer(items) /\ Known(items, catalog)
    BY DEF PInv
  <2>. QED  BY <1>1, <1>2, <2>1, JoinIsWhole DEF NeverPartial
<1>4. TypeOK'
  BY DEF PInv, TypeOK, Phases
<1>5. StageFits' /\ NamesDiffer(items)' /\ PagesAreContiguous' /\ CatalogFits'
  BY DEF PInv, StageFits, NamesDiffer, PagesAreContiguous, CatalogFits
<1>6. HonestFits'
  BY DEF PInv, HonestFits, Begins
<1>. QED  BY <1>3, <1>4, <1>5, <1>6 DEF PInv

LEMMA CompanyKeeps == PInv /\ CompanyChanges => PInv'
<1>. SUFFICES ASSUME PInv, CompanyChanges PROVE PInv'
  OBVIOUS
<1>. USE DEF CompanyChanges, Refresh, paging, joining
<1>1. version \in Nat /\ catalogVersion \in Nat
  BY VersionsShape DEF PInv, TypeOK
<1>2. Rests
  BY <1>1 DEF Rests
<1>3. TypeOK'
  BY <1>1, VersionsShape DEF PInv, TypeOK
<1>4. StageFits' /\ PagesAreContiguous'
  BY DEF PInv, StageFits, PagesAreContiguous, Reported
<1>5. CatalogFits'
  <2>. SUFFICES ASSUME phase = "join"
                PROVE  \E c \in 1 .. catalogVersion' : catalog = Catalogs[c]
    BY DEF PInv, CatalogFits
  <2>1. PICK c \in 1 .. catalogVersion : catalog = Catalogs[c]
    BY DEF PInv, CatalogFits
  <2>2. c \in 1 .. catalogVersion'
    BY <1>1, <2>1
  <2>. QED  BY <2>1, <2>2
<1>. QED  BY <1>2, <1>3, <1>4, <1>5, ItemsRest DEF PInv

-----------------------------------------------------------------------------

LEMMA Keeps == PInv /\ [Next]_vars => PInv'
<1>. SUFFICES ASSUME PInv, [Next]_vars PROVE PInv'
  OBVIOUS
<1>1. CASE RequestPage
  BY <1>1, RequestPageKeeps
<1>2. CASE TooManyPages \/ PagingTimeout \/ UnknownEnvironment \/ RequestFails
  BY <1>2, FailKeeps DEF TooManyPages, PagingTimeout, UnknownEnvironment, RequestFails
<1>3. CASE AnswerPage
  BY <1>3, ReceivePageKeeps, FailKeeps DEF AnswerPage, RefusePage
<1>4. CASE RequestCatalog \/ ReceiveCatalog
  BY <1>4, CatalogKeeps
<1>5. CASE JoinCatalog
  BY <1>5, JoinCatalogKeeps
<1>6. CASE CompanyChanges
  BY <1>6, CompanyKeeps
<1>7. CASE UNCHANGED vars
  <2>. USE DEF vars, server, paging, joining
  <2>1. TypeOK' /\ StageFits' /\ NamesDiffer(items)'
    BY <1>7 DEF PInv, TypeOK, StageFits, NamesDiffer, Reported
  <2>2. PagesAreContiguous' /\ CatalogFits'
    BY <1>7 DEF PInv, PagesAreContiguous, CatalogFits
  <2>3. HonestFits' /\ NeverPartial'
    BY <1>7 DEF PInv, HonestFits, Begins, NeverPartial, Reported
  <2>. QED  BY <2>1, <2>2, <2>3 DEF PInv
<1>. QED
  BY <1>1, <1>2, <1>3, <1>4, <1>5, <1>6, <1>7 DEF Next, Client

LEMMA Invariance == Spec => []PInv
BY Initially, Keeps, PTL DEF Spec

\* An honest page is never refused: it continues what was received, names what
\* has not been named, and stays within the total and the limits.
LEMMA HonestIsAccepted == PInv => HonestNeverRefused
<1>. SUFFICES ASSUME PInv, honest, phase = "awaitPage",
                     pages = 1 \/ refreshedAt = Versions[version].stamp,
                     Len(Versions[version].items) <= MaxItems,
                     NEW page \in HonestPages, WithinBytes(page)
              PROVE  Acceptable(page) /\ ~ Stalls(page)
  BY DEF HonestNeverRefused
<1>. DEFINE current == Versions[version].items
            n == Len(items)
<1>1. version \in 1 .. Len(Versions) /\ n \in Nat
  BY VersionsShape, LenProperties DEF PInv, TypeOK, StageFits
<1>2. current \in Seq(Listed) /\ Len(current) \in Nat /\ NamesDiffer(current)
  BY <1>1, VersionsShape, VersionsAssumption, LenProperties
<1>3. page \in AnswerPages
  BY DEF AnswerPages
<1>4. page.total = Len(current) /\ page.stamp = Versions[version].stamp
  BY HonestPageIsPart
<1>5. SameStamp(page)
  BY <1>4 DEF SameStamp
<1>6. SameTotal(page)
  <2>1. CASE pages = 1
    BY <1>4, <2>1 DEF PInv, StageFits, SameTotal
  <2>2. CASE pages # 1
    <3>1. total # NoTotal
      BY <2>2 DEF PInv, StageFits
    <3>2. PICK v \in 1 .. version : Begins(v)
      BY <3>1 DEF PInv, HonestFits
    <3>3. v \in DOMAIN Versions /\ version \in DOMAIN Versions
      BY <1>1, VersionsShape
    <3>4. Versions[v].items = current
      BY <2>2, <3>2, <3>3, VersionsAssumption DEF Begins
    <3>. QED  BY <1>4, <3>2, <3>4 DEF SameTotal, Begins
  <2>. QED  BY <2>1, <2>2
<1>7. PICK last \in n .. Len(current) :
            /\ Len(page.items) = last - n
            /\ items \o page.items = SubSeq(current, 1, last)
            /\ last - n <= PageSize
            /\ last = n => last = Len(current)
  BY <1>3, <1>5, <1>6, HonestPageContinues
<1>8. NewNames(page)
  <2>1. \A i \in 1 .. last : current[i] \in Listed
    BY <1>1, <1>2, <1>7, ElementOfSeq
  <2>2. /\ SubSeq(current, 1, last) \in Seq(Listed)
        /\ Len(SubSeq(current, 1, last)) = last
        /\ \A i \in 1 .. last : SubSeq(current, 1, last)[i] = current[i]
    BY <1>1, <1>2, <1>7, <2>1, SubSeqProperties
  <2>3. DOMAIN SubSeq(current, 1, last) = 1 .. last /\ DOMAIN current = 1 .. Len(current)
    BY <1>2, <2>2, LenProperties
  <2>4. NamesDiffer(SubSeq(current, 1, last))
    <3>1. 1 .. last \subseteq 1 .. Len(current)
      BY <1>1, <1>2, <1>7
    <3>2. \A i, j \in 1 .. last : i # j => current[i].name # current[j].name
      BY <1>2, <2>3, <3>1 DEF NamesDiffer
    <3>. HIDE DEF current
    <3>. QED  BY <2>2, <2>3, <3>2 DEF NamesDiffer
  <2>. QED  BY <1>7, <2>4 DEF NewNames
<1>9. Len(page.items) <= PageSize /\ WithinTotal(page)
  BY <1>1, <1>2, <1>4, <1>7, Limits DEF WithinTotal
<1>10. ~ Stalls(page)
  BY <1>1, <1>2, <1>4, <1>7 DEF Stalls, LastPage
<1>. QED  BY <1>5, <1>6, <1>8, <1>9, <1>10 DEF Acceptable

\* InventoryWhole: an inventory is reported whole or not at all, page by page,
\* and a server that is honest and does not change it is never refused
\* (fetch_inventory_pages_inner and map_inventory).
THEOREM InventoriesAreWhole == Spec => []InventoryWhole
<1>1. PInv => InventoryWhole
  BY HonestIsAccepted DEF PInv, InventoryWhole
<1>. QED  BY <1>1, Invariance, PTL

-----------------------------------------------------------------------------
(* The refinement.                                                         *)

\* What is reported of an honest server is a whole version, joined.
LEMMA JoinSucceeds == PInv /\ JoinCatalog => Succeed
<1>. SUFFICES ASSUME PInv, JoinCatalog PROVE Succeed
  OBVIOUS
<1>. USE DEF JoinCatalog, server
<1>1. PICK c \in 1 .. catalogVersion : c \in DOMAIN Catalogs /\ catalog = Catalogs[c]
  BY JoinsACatalog
<1>2. ~ ended
  BY DEF PInv, TypeOK
<1>3. CASE honest
  <2>1. total = Len(items) /\ total # NoTotal /\ items \in Seq(Listed)
    BY LenProperties DEF PInv, StageFits, NoTotal
  <2>2. PICK v \in 1 .. version : Begins(v)
    BY <1>3, <2>1 DEF PInv, HonestFits
  <2>3. v \in DOMAIN Versions
    BY <2>2, VersionsShape DEF PInv, TypeOK
  <2>4. items = Versions[v].items
    BY <2>1, <2>2, <2>3, VersionsShape, SubSeqFull DEF Begins
  <2>5. /\ Known(Versions[v].items, Catalogs[c])
        /\ report' = Joined(Versions[v].items, Catalogs[c])
    BY <1>1, <2>4
  <2>. QED  BY <1>1, <1>2, <1>3, <2>2, <2>5 DEF Succeed
<1>4. CASE ~ honest
  <2>1. items \in Seq(Listed) /\ Len(items) \in 0 .. MaxItems
    BY LenProperties, Limits DEF PInv, StageFits, PagesAreContiguous
  <2>2. items \in [1 .. Len(items) -> Listed]
    BY <2>1, LenProperties
  <2>3. report' # NoReport
    BY <1>1, <2>1, <2>2, NoReportAssumption
  <2>. QED  BY <1>2, <1>4, <2>3 DEF Succeed
<1>. QED  BY <1>3, <1>4

LEMMA StepKeepsContract == PInv /\ [Next]_vars => [ContractNext]_contractVars
<1>. SUFFICES ASSUME PInv, [Next]_vars PROVE [ContractNext]_contractVars
  OBVIOUS
<1>. USE DEF server, contractVars, ContractNext
<1>1. ASSUME phase # "done", NEW code, FailWith(code) PROVE Fail
  BY <1>1 DEF FailWith, Fail, PInv, TypeOK
<1>2. CASE TooManyPages \/ PagingTimeout \/ UnknownEnvironment \/ RequestFails
  BY <1>1, <1>2 DEF TooManyPages, PagingTimeout, UnknownEnvironment, RequestFails,
                    Awaiting
<1>3. CASE AnswerPage
  BY <1>1, <1>3 DEF AnswerPage, RefusePage, ReceivePage
<1>4. CASE RequestPage \/ RequestCatalog \/ ReceiveCatalog
  BY <1>1, <1>4 DEF RequestPage, RequestCatalog, ReceiveCatalog
<1>5. CASE JoinCatalog
  BY <1>5, JoinSucceeds
<1>6. CASE CompanyChanges
  BY <1>6 DEF CompanyChanges
<1>7. CASE UNCHANGED vars
  BY <1>7 DEF vars
<1>. QED
  BY <1>2, <1>3, <1>4, <1>5, <1>6, <1>7 DEF Next, Client

\* ContractSpec: whatever the company changes during a call, an inventory that
\* an honest provider's answers make up is the whole of one version of its
\* inventory, joined with one version of its catalog.
THEOREM InventoryKeepsContract == Spec => ContractSpec
<1>1. Init => ContractInit
  BY DEF Init, ContractInit
<1>. QED
  BY <1>1, Invariance, StepKeepsContract, PTL DEF Spec, ContractSpec

-----------------------------------------------------------------------------
(* One request, for any limit, any statuses and any body.                  *)

\* How far a request is: the body is only read of a success, what was received
\* is all that was sent until one chunk is too many, and a body is only looked at
\* when all of it has arrived.
RequestFits ==
    /\ {answer.size, sent, received} \subseteq Nat
    /\ requestPhase \in {"token", "send", "status"} => sent = 0 /\ received = 0
    /\ requestPhase \in {"send", "status", "body", "parse"} => token = "usable"
    /\ requestPhase \in {"body", "parse"} =>
          Request!IsSuccess(answer.status) /\ received = sent
    /\ requestPhase = "parse" => sent = answer.size

RequestInv ==
    /\ Request!TypeOK
    /\ RequestFits
    /\ Request!UsedWhole
    /\ Request!BlamesOnTheProvidersWord

LEMMA RequestBegins ==
    ASSUME Request!RequestAssumption
    PROVE  Request!Init => RequestInv
<1>. SUFFICES ASSUME Request!Init PROVE RequestInv
  OBVIOUS
<1>1. answer.size \in Nat
  BY DEF Request!Init, Request!RequestAssumption
<1>2. MaxBytes \in Nat
  BY DEF Request!RequestAssumption
<1>. QED
  BY <1>1, <1>2 DEF Request!Init, RequestInv, RequestFits, Request!TypeOK,
                    Request!UsedWhole, Request!BlamesOnTheProvidersWord

\* A request that ends: with an error, which is about the credential only if the
\* server said so, or with an answer.
LEMMA RequestEnds ==
    ASSUME RequestInv, NEW code, Request!Ends(code), requestPhase # "done",
           code \in {"ok", "InvalidInput", "AuthenticationFailed", "PolicyDenied",
                     "NotFound", "ProviderUnavailable"},
           code = "ok" => requestPhase = "parse" /\ answer.text = "active",
           code = "AuthenticationFailed" =>
               \/ answer.status = 401
               \/ requestPhase = "parse" /\ answer.text = "inactive"
    PROVE  RequestInv'
<1>1. /\ outcome' = code /\ requestPhase' = "done"
      /\ UNCHANGED <<token, answer, sent, received, expired>>
  BY DEF Request!Ends
<1>2. Request!TypeOK' /\ RequestFits'
  BY <1>1 DEF RequestInv, Request!TypeOK, RequestFits
<1>3. Request!UsedWhole' /\ Request!BlamesOnTheProvidersWord'
  BY <1>1 DEF RequestInv, RequestFits, Request!UsedWhole,
              Request!BlamesOnTheProvidersWord, Request!IsSuccess
<1>. QED  BY <1>2, <1>3 DEF RequestInv

LEMMA RequestSteps ==
    ASSUME Request!RequestAssumption
    PROVE  RequestInv /\ [Request!Next]_(Request!vars) => RequestInv'
<1>. SUFFICES ASSUME RequestInv, [Request!Next]_(Request!vars) PROVE RequestInv'
  OBVIOUS
<1>. USE DEF Request!ContractError, Request!TransportError
<1>1. CASE Request!CheckToken
  <2>1. CASE token = "usable" /\ Request!Continues("send")
    BY <1>1, <2>1 DEF Request!CheckToken, Request!Continues, RequestInv, RequestFits,
       Request!TypeOK, Request!UsedWhole, Request!BlamesOnTheProvidersWord
  <2>2. CASE Request!Ends("InvalidInput")
    BY <1>1, <2>2, RequestEnds DEF Request!CheckToken
  <2>. QED  BY <1>1, <2>1, <2>2 DEF Request!CheckToken
<1>2. CASE Request!Send
  <2>1. CASE Request!Continues("status")
    BY <1>2, <2>1 DEF Request!Send, Request!Continues, RequestInv, RequestFits,
       Request!TypeOK, Request!UsedWhole, Request!BlamesOnTheProvidersWord
  <2>2. CASE Request!Ends("ProviderUnavailable")
    BY <1>2, <2>2, RequestEnds DEF Request!Send
  <2>. QED  BY <1>2, <2>1, <2>2 DEF Request!Send
<1>3. CASE Request!Judge
  <2>1. CASE Request!IsSuccess(answer.status) /\ Request!Continues("body")
    BY <1>3, <2>1 DEF Request!Judge, Request!Continues, RequestInv, RequestFits,
       Request!TypeOK, Request!UsedWhole, Request!BlamesOnTheProvidersWord
  <2>2. CASE Request!Ends("ProviderUnavailable")
    BY <1>3, <2>2, RequestEnds DEF Request!Judge
  <2>3. CASE Request!Ends(Request!StatusError(answer.status))
    <3>1. /\ Request!StatusError(answer.status) \in
                {"InvalidInput", "AuthenticationFailed", "PolicyDenied", "NotFound",
                 "ProviderUnavailable"}
          /\ Request!StatusError(answer.status) = "AuthenticationFailed" =>
                answer.status = 401
      BY DEF Request!StatusError
    <3>. QED  BY <1>3, <2>3, <3>1, RequestEnds DEF Request!Judge
  <2>. QED  BY <1>3, <2>1, <2>2, <2>3 DEF Request!Judge
<1>4. CASE Request!Chunk
  <2>1. PICK n \in 1 .. MaxChunk :
           /\ sent + n <= answer.size /\ sent' = sent + n
           /\ IF received + n <= MaxBytes
              THEN received' = received + n /\ UNCHANGED <<requestPhase, outcome>>
              ELSE /\ requestPhase' = "done" /\ outcome' = "ProviderUnavailable"
                   /\ UNCHANGED received
           /\ UNCHANGED <<token, answer, expired>>
    BY <1>4 DEF Request!Chunk
  <2>2. requestPhase = "body" /\ received = sent /\ n \in Nat
        /\ {answer.size, sent, received} \subseteq Nat
    BY <1>4 DEF Request!Chunk, Request!RequestAssumption, RequestInv, RequestFits
  <2>3. CASE received + n <= MaxBytes
    BY <2>1, <2>2, <2>3 DEF RequestInv, RequestFits, Request!TypeOK,
       Request!UsedWhole, Request!BlamesOnTheProvidersWord
  <2>4. CASE ~ (received + n <= MaxBytes)
    <3>1. received' <= sent'
      BY <2>1, <2>2, <2>4
    <3>. QED
      BY <2>1, <2>2, <2>4, <3>1 DEF RequestInv, RequestFits, Request!TypeOK,
         Request!UsedWhole, Request!BlamesOnTheProvidersWord
  <2>. QED  BY <2>3, <2>4
<1>5. CASE Request!EndOfBody
  BY <1>5 DEF Request!EndOfBody, Request!Continues, RequestInv, RequestFits,
     Request!TypeOK, Request!UsedWhole, Request!BlamesOnTheProvidersWord
<1>6. CASE Request!Breaks \/ Request!TimesOut
  BY <1>6, RequestEnds DEF Request!Breaks, Request!TimesOut
<1>7. CASE Request!Expire
  BY <1>7 DEF Request!Expire, RequestInv, RequestFits, Request!TypeOK,
     Request!UsedWhole, Request!BlamesOnTheProvidersWord
<1>8. CASE Request!Parse
  <2>1. \E code \in {"ok", "AuthenticationFailed", "ProviderUnavailable"} :
           /\ Request!Ends(code)
           /\ code = "ok" => answer.text = "active"
           /\ code = "AuthenticationFailed" => answer.text = "inactive"
    BY <1>8 DEF Request!Parse
  <2>. QED  BY <1>8, <2>1, RequestEnds DEF Request!Parse
<1>9. CASE UNCHANGED Request!vars
  BY <1>9 DEF Request!vars, RequestInv, RequestFits, Request!TypeOK,
     Request!UsedWhole, Request!BlamesOnTheProvidersWord
<1>. QED
  BY <1>1, <1>2, <1>3, <1>4, <1>5, <1>6, <1>7, <1>8, <1>9
  DEF Request!Next, Request!Client

\* An answer that is used had a success status and is all the server had to
\* send, and a credential is blamed only on the provider's word, for any limit,
\* any body and any moment the connection or the time ends (read_limited,
\* map_http_status and validate_api_key).
THEOREM AnswersStayWhole == Request!Spec => []AnswersAreWhole
<1>1. Request!RequestAssumption
  BY PartsAssumption
<1>2. RequestInv => AnswersAreWhole
  BY DEF RequestInv, AnswersAreWhole, Request!AnswersAreWhole
<1>. QED  BY RequestBegins, RequestSteps, <1>1, <1>2, PTL DEF Request!Spec

-----------------------------------------------------------------------------
(* A credential, for any limit and any texts.                              *)

Bytes == {0, 7, 10, 13, 255}
Text == Seq(Bytes)
Token(text) == text \in Text /\ Credentials!Usable(text) /\ Credentials!InUTF8(text)

\* A token is a text, what the store has is UTF-8, and nothing is stored or
\* resolved before a token was saved.
TextsFit ==
    /\ piped \in Text
    /\ variable \in Text \cup {None}
    /\ store \in Text \cup {None} /\ (store # None => Credentials!InUTF8(store))
    /\ candidate # None => Token(candidate)
    /\ credentialPhase = "collect" => candidate = None /\ source = "none"
    /\ credentialPhase # "saved" => resolution = Credentials!Nothing
    /\ resolution = [token |-> resolution.token, code |-> resolution.code]

CredentialInv ==
    /\ TextsFit
    /\ Credentials!CredentialHeld

LEMMA LastOff ==
    ASSUME NEW text \in Text, text # <<>>
    PROVE  /\ Len(text) \in Nat \ {0} /\ Credentials!Front(text) \in Text
           /\ Len(Credentials!Front(text)) = Len(text) - 1
           /\ \A i \in 1 .. Len(text) - 1 : Credentials!Front(text)[i] = text[i]
           /\ text = Credentials!Front(text) \o <<text[Len(text)]>>
<1>. DEFINE n == Len(text)
            front == SubSeq(text, 1, n - 1)
<1>1. n \in Nat \ {0} /\ text \in [1 .. n -> Bytes] /\ text \in Seq(Bytes)
  BY LenProperties, EmptySeq DEF Text
<1>2. /\ front \in Text /\ Len(front) = n - 1
      /\ \A i \in 1 .. n - 1 : front[i] = text[i]
  <2>1. /\ n - 1 \in Int /\ 1 \in Int
        /\ \A i \in 1 .. n - 1 : text[i] \in Bytes
    BY <1>1
  <2>. HIDE DEF n
  <2>2. /\ SubSeq(text, 1, n - 1) \in Seq(Bytes)
        /\ Len(SubSeq(text, 1, n - 1)) = IF 1 <= n - 1 THEN (n - 1) - 1 + 1 ELSE 0
        /\ \A i \in 1 .. (n - 1) - 1 + 1 : SubSeq(text, 1, n - 1)[i] = text[1 + i - 1]
    BY <2>1, SubSeqProperties
  <2>3. Len(front) = n - 1
    BY <1>1, <2>2
  <2>. QED  BY <1>1, <2>2, <2>3 DEF Text
<1>3. text = front \o <<text[n]>>
  <2>1. 1 \in 1 .. Len(text) /\ n \in 1 .. Len(text)
    BY <1>1
  <2>2. SubSeq(text, 1, n) = SubSeq(text, 1, n - 1) \o <<text[n]>>
    BY <1>1, <2>1, SubSeqRecursiveSecond
  <2>3. SubSeq(text, 1, n) = text
    BY <1>1, SubSeqFull
  <2>. QED  BY <2>2, <2>3
<1>. QED  BY <1>1, <1>2, <1>3 DEF Credentials!Front

\* A line is the text without one end of a line.
LEMMA LineOf ==
    ASSUME NEW text \in Text
    PROVE  /\ Credentials!Line(text) \in Text
           /\ Credentials!InUTF8(text) => Credentials!InUTF8(Credentials!Line(text))
           /\ text \in {Credentials!Line(text), Credentials!Line(text) \o <<10>>,
                        Credentials!Line(text) \o <<13, 10>>}
<1>. DEFINE front == Credentials!Front(text)
            second == Credentials!Front(front)
<1>1. CASE ~ Credentials!Ends(text, 10)
  BY <1>1 DEF Credentials!Line
<1>2. CASE Credentials!Ends(text, 10)
  <2>1. /\ Len(text) \in Nat \ {0} /\ front \in Text /\ Len(front) = Len(text) - 1
        /\ \A i \in 1 .. Len(text) - 1 : front[i] = text[i]
        /\ text = front \o <<10>>
    BY <1>2, LastOff DEF Credentials!Ends
  <2>2. DOMAIN text = 1 .. Len(text) /\ DOMAIN front = 1 .. Len(front)
    BY <2>1, LenProperties DEF Text
  <2>3. Credentials!InUTF8(text) => Credentials!InUTF8(front)
    BY <2>1, <2>2 DEF Credentials!InUTF8
  <2>. HIDE DEF front
  <2>4. CASE ~ Credentials!Ends(front, 13)
    <3>1. Credentials!Line(text) = front
      BY <1>2, <2>4 DEF Credentials!Line, front
    <3>. QED  BY <2>1, <2>3, <3>1
  <2>5. CASE Credentials!Ends(front, 13)
    <3>1. /\ second \in Text /\ Len(second) = Len(front) - 1 /\ Len(front) \in Nat \ {0}
          /\ \A i \in 1 .. Len(front) - 1 : second[i] = front[i]
          /\ front = second \o <<13>>
      BY <2>1, <2>5, LastOff DEF Credentials!Ends
    <3>2. DOMAIN second = 1 .. Len(second)
      BY <3>1, LenProperties DEF Text
    <3>3. Credentials!InUTF8(front) => Credentials!InUTF8(second)
      BY <2>2, <3>1, <3>2 DEF Credentials!InUTF8
    <3>4. Credentials!Line(text) = second
      BY <1>2, <2>5 DEF Credentials!Line, front
    <3>. HIDE DEF second
    <3>5. (second \o <<13>>) \o <<10>> = second \o (<<13>> \o <<10>>)
      <4>. DEFINE cr == <<13>>
                  lf == <<10>>
      <4>1. second \in Seq(Bytes) /\ cr \in Seq(Bytes) /\ lf \in Seq(Bytes)
        BY <3>1 DEF Text, Bytes
      <4>. HIDE DEF cr, lf
      <4>2. (second \o cr) \o lf = second \o (cr \o lf)
        BY <4>1, ConcatAssociative
      <4>. QED  BY <4>2 DEF cr, lf
    <3>6. <<13>> \o <<10>> = <<13, 10>>
      <4>. DEFINE cr == <<13>>
                  lf == <<10>>
                  crlf == <<13, 10>>
      <4>1. /\ cr \in Seq(Bytes) /\ lf \in Seq(Bytes) /\ crlf \in Seq(Bytes)
            /\ Len(cr) = 1 /\ Len(lf) = 1 /\ Len(crlf) = 2
            /\ cr[1] = 13 /\ lf[1] = 10 /\ crlf[1] = 13 /\ crlf[2] = 10
        BY DEF Bytes
      <4>. HIDE DEF cr, lf, crlf
      <4>2. /\ cr \o lf \in Seq(Bytes) /\ Len(cr \o lf) = Len(cr) + Len(lf)
            /\ \A i \in 1 .. Len(cr) + Len(lf) :
                  (cr \o lf)[i] = IF i <= Len(cr) THEN cr[i] ELSE lf[i - Len(cr)]
        BY <4>1, ConcatProperties
      <4>3. \A i \in 1 .. Len(crlf) : (cr \o lf)[i] = crlf[i]
        BY <4>1, <4>2
      <4>4. Len(cr \o lf) = Len(crlf)
        BY <4>1, <4>2
      <4>5. cr \o lf = crlf
        BY <4>1, <4>2, <4>3, <4>4, SeqEqual
      <4>. QED  BY <4>5 DEF cr, lf, crlf
    <3>7. text = second \o <<13, 10>>
      BY <2>1, <3>1, <3>5, <3>6
    <3>. QED  BY <2>3, <3>1, <3>3, <3>4, <3>7
  <2>. QED  BY <2>4, <2>5
<1>. QED  BY <1>1, <1>2

\* What is taken from stdin is one line, and all of what was piped in.
LEMMA StdinTaken ==
    ASSUME Credentials!CredentialAssumption, piped \in Text,
           Credentials!FromStdin.code = "ok"
    PROVE  /\ Token(Credentials!FromStdin.token)
           /\ piped \in {Credentials!FromStdin.token, Credentials!FromStdin.token \o <<10>>,
                         Credentials!FromStdin.token \o <<13, 10>>}
<1>. DEFINE read == Credentials!Taken(piped, MaxToken + 1)
<1>1. Len(read) <= MaxToken => read = piped
  <2>. SUFFICES ASSUME ~ (Len(piped) <= MaxToken + 1) PROVE ~ (Len(read) <= MaxToken)
    BY DEF Credentials!Taken
  <2>1. MaxToken \in Nat /\ Len(piped) \in Nat
    BY LenProperties DEF Credentials!CredentialAssumption, Text
  <2>2. read = SubSeq(piped, 1, MaxToken + 1)
    BY DEF Credentials!Taken
  <2>3. /\ 1 \in Int /\ MaxToken + 1 \in Int
        /\ \A i \in 1 .. MaxToken + 1 : piped[i] \in Bytes
    <3>1. piped \in [1 .. Len(piped) -> Bytes]
      BY LenProperties DEF Text
    <3>. QED  BY <2>1, <3>1
  <2>4. Len(SubSeq(piped, 1, MaxToken + 1))
           = IF 1 <= MaxToken + 1 THEN (MaxToken + 1) - 1 + 1 ELSE 0
    BY <2>3, SubSeqProperties
  <2>. QED  BY <2>1, <2>2, <2>4
<1>. HIDE DEF read
<1>2. Len(read) <= MaxToken /\ Credentials!InUTF8(read)
      /\ Credentials!Usable(Credentials!Line(read))
      /\ Credentials!FromStdin = Credentials!Got(Credentials!Line(read))
  BY DEF Credentials!FromStdin, Credentials!Refused, read
<1>3. Credentials!FromStdin.token = Credentials!Line(piped)
  BY <1>1, <1>2 DEF Credentials!Got
<1>. QED  BY <1>1, <1>2, <1>3, LineOf DEF Token

LEMMA VariableTaken ==
    ASSUME variable \in Text \cup {None}
    PROVE  /\ Credentials!FromVariable.code \in {"ok", "AuthenticationFailed"}
           /\ Credentials!FromVariable.code = "ok" =>
                 /\ Token(Credentials!FromVariable.token)
                 /\ Credentials!FromVariable = Credentials!Got(variable)
           /\ Credentials!FromVariable.code = "AuthenticationFailed" =>
                 /\ Credentials!FromVariable.token = None
                 /\ \/ variable = None \/ ~ Credentials!InUTF8(variable)
                    \/ ~ Credentials!Usable(variable)
           /\ Credentials!FromVariable = [token |-> Credentials!FromVariable.token,
                                          code |-> Credentials!FromVariable.code]
BY DEF Credentials!FromVariable, Credentials!Refused, Credentials!Got, Token

LEMMA StoreTaken ==
    ASSUME store \in Text \cup {None}, store # None => Credentials!InUTF8(store)
    PROVE  /\ Credentials!FromStore.code
                 \in {"ok", "Unavailable", "AuthenticationFailed", "InvalidInput"}
           /\ Credentials!FromStore.code = "ok" => Token(Credentials!FromStore.token)
           /\ Credentials!FromStore.code # "ok" => Credentials!FromStore.token = None
           /\ Credentials!FromStore.code = "AuthenticationFailed" =>
                 ~ locked /\ store = None
           /\ ~ locked /\ store # None /\ Credentials!Usable(store) =>
                 Credentials!FromStore = Credentials!Got(store)
           /\ Credentials!FromStore = [token |-> Credentials!FromStore.token,
                                       code |-> Credentials!FromStore.code]
BY DEF Credentials!FromStore, Credentials!Refused, Credentials!Got, Token

LEMMA CredentialBegins ==
    ASSUME Credentials!CredentialAssumption, Credentials!Init PROVE CredentialInv
<1>1. TokenTexts \subseteq Text /\ piped \in Text /\ variable \in Text \cup {None}
  BY DEF Credentials!CredentialAssumption, Credentials!Init, Text, Bytes
<1>2. TextsFit
  BY <1>1 DEF Credentials!Init, TextsFit, Credentials!Nothing
<1>3. Credentials!TypeOK /\ Credentials!OnlyUsableTokens
  BY DEF Credentials!Init, Credentials!Nothing, Credentials!TypeOK, Credentials!OnlyUsableTokens
<1>4. /\ Credentials!NeverAPartOfIt /\ Credentials!AcceptedResolves
      /\ Credentials!BlamedOnlyIfMissing
  BY DEF Credentials!Init, Credentials!Nothing, Credentials!NeverAPartOfIt,
         Credentials!AcceptedResolves, Credentials!BlamedOnlyIfMissing
<1>. QED  BY <1>2, <1>3, <1>4 DEF CredentialInv, Credentials!CredentialHeld

\* A token that may be taken, and where from.
MayTake(from, text) ==
    /\ Token(text) /\ from \in {"keyring", "environment"}
    /\ flags.stdin => piped \in {text, text \o <<10>>, text \o <<13, 10>>}

\* What a collection leaves, when it took a token and when it took none.
LEMMA Collected ==
    ASSUME NEW from, NEW got,
           Credentials!CredentialAssumption, CredentialInv,
           credentialPhase = "collect", Credentials!Takes(from, got),
           prompted' => interactive /\ ~ flags.stdin /\ ~ flags.variable,
           got.code = "ok" => MayTake(from, got.token)
    PROVE  CredentialInv'
<1>1. UNCHANGED <<flags, interactive, piped, variable, store, locked, resolution>>
  BY DEF Credentials!Takes, Credentials!given
<1>2. /\ candidate = None /\ source = "none" /\ resolution = Credentials!Nothing
      /\ resolution.code = "none" /\ resolution.token = None
  BY DEF CredentialInv, TextsFit, Credentials!Nothing
<1>3. Token(got.token) => got.token # None
  BY DEF Token, Text, Bytes, Credentials!CredentialAssumption
<1>4. CASE got.code = "ok"
  <2>0. /\ Token(got.token) /\ from \in {"keyring", "environment"}
        /\ flags.stdin => piped \in {got.token} \cup
                              {got.token \o <<10>>, got.token \o <<13, 10>>}
    BY <1>4 DEF MayTake
  <2>1. credentialPhase' = "save" /\ candidate' = got.token /\ source' = from
    BY <1>4 DEF Credentials!Takes
  <2>2. Token(candidate)' /\ candidate' # None
    BY <1>1, <1>3, <2>0, <2>1 DEF Token, Credentials!Usable, Credentials!InUTF8,
       Credentials!Control
  <2>3. TextsFit'
    BY <1>1, <1>2, <2>1, <2>2 DEF CredentialInv, TextsFit, Credentials!Nothing, Credentials!InUTF8
  <2>4. Credentials!TypeOK'
    BY <1>1, <1>2, <2>0, <2>1, <2>2 DEF CredentialInv, Credentials!CredentialHeld,
       Credentials!TypeOK
  <2>5. Credentials!OnlyUsableTokens'
    BY <1>1, <1>2, <2>2 DEF Credentials!OnlyUsableTokens, Token, Credentials!Usable,
       Credentials!InUTF8, Credentials!Control
  <2>6. /\ Credentials!NeverAPartOfIt' /\ Credentials!AcceptedResolves'
        /\ Credentials!BlamedOnlyIfMissing'
    BY <1>1, <1>2, <2>0, <2>1 DEF Credentials!NeverAPartOfIt, Credentials!AcceptedResolves,
       Credentials!BlamedOnlyIfMissing
  <2>. QED  BY <2>3, <2>4, <2>5, <2>6 DEF CredentialInv, Credentials!CredentialHeld
<1>5. CASE got.code # "ok"
  <2>1. credentialPhase' = "failed" /\ UNCHANGED <<candidate, source>>
    BY <1>5 DEF Credentials!Takes
  <2>2. TextsFit'
    BY <1>1, <1>2, <2>1 DEF CredentialInv, TextsFit, Credentials!Nothing, Credentials!InUTF8
  <2>3. Credentials!TypeOK'
    BY <1>1, <1>2, <2>1 DEF CredentialInv, Credentials!CredentialHeld, Credentials!TypeOK
  <2>4. /\ Credentials!OnlyUsableTokens' /\ Credentials!NeverAPartOfIt'
        /\ Credentials!AcceptedResolves' /\ Credentials!BlamedOnlyIfMissing'
    BY <1>1, <1>2, <2>1 DEF Credentials!OnlyUsableTokens, Credentials!NeverAPartOfIt,
       Credentials!AcceptedResolves, Credentials!BlamedOnlyIfMissing
  <2>. QED  BY <2>2, <2>3, <2>4 DEF CredentialInv, Credentials!CredentialHeld
<1>. QED  BY <1>4, <1>5

LEMMA CollectGivenKeeps ==
    ASSUME Credentials!CredentialAssumption, CredentialInv, Credentials!CollectGiven
    PROVE  CredentialInv'
<1>1. /\ credentialPhase = "collect" /\ prompted' = prompted
      /\ UNCHANGED <<flags, interactive, piped, variable>>
      /\ prompted => interactive /\ ~ flags.stdin /\ ~ flags.variable
      /\ piped \in Text /\ variable \in Text \cup {None}
  <2>1. credentialPhase = "collect" /\ prompted' = prompted
    BY DEF Credentials!CollectGiven
  <2>2. UNCHANGED <<flags, interactive, piped, variable>>
    BY DEF Credentials!CollectGiven, Credentials!Takes, Credentials!given
  <2>. QED  BY <2>1, <2>2 DEF CredentialInv, TextsFit, Credentials!CredentialHeld,
                              Credentials!TypeOK
<1>2. CASE flags.stdin /\ flags.variable
  <2>1. Credentials!Takes("none", Credentials!Refused("InvalidArguments"))
    BY <1>2 DEF Credentials!CollectGiven
  <2>2. Credentials!Refused("InvalidArguments").code # "ok"
    BY DEF Credentials!Refused
  <2>. QED  BY <1>1, <2>1, <2>2, Collected
<1>3. CASE flags.stdin /\ ~ flags.variable
  <2>1. Credentials!Takes("keyring", Credentials!FromStdin)
    BY <1>3 DEF Credentials!CollectGiven
  <2>2. Credentials!FromStdin.code = "ok" => MayTake("keyring", Credentials!FromStdin.token)
    BY <1>1, StdinTaken DEF MayTake
  <2>. QED  BY <1>1, <2>1, <2>2, Collected
<1>4. CASE ~ flags.stdin /\ flags.variable
  <2>1. Credentials!Takes("environment", Credentials!FromVariable)
    BY <1>4 DEF Credentials!CollectGiven
  <2>2. Credentials!FromVariable.code = "ok" =>
           MayTake("environment", Credentials!FromVariable.token)
    BY <1>1, <1>4, VariableTaken DEF MayTake
  <2>. QED  BY <1>1, <2>1, <2>2, Collected
<1>5. CASE ~ flags.stdin /\ ~ flags.variable
  <2>1. Credentials!Takes("none", Credentials!Refused("InvalidInput"))
    BY <1>5 DEF Credentials!CollectGiven
  <2>2. Credentials!Refused("InvalidInput").code # "ok"
    BY DEF Credentials!Refused
  <2>. QED  BY <1>1, <2>1, <2>2, Collected
<1>. QED  BY <1>2, <1>3, <1>4, <1>5

LEMMA PromptKeeps ==
    ASSUME Credentials!CredentialAssumption, CredentialInv, Credentials!Prompt
    PROVE  CredentialInv'
<1>1. credentialPhase = "collect" /\ ~ flags.stdin /\ ~ flags.variable /\ interactive
      /\ prompted' = TRUE
  BY DEF Credentials!Prompt, Credentials!Prompts
<1>2. PICK typed \in TokenTexts :
         /\ Credentials!InUTF8(typed)
         /\ Credentials!Takes("keyring", IF Credentials!Usable(typed)
                                         THEN Credentials!Got(typed)
                                         ELSE Credentials!Refused("InvalidInput"))
  BY DEF Credentials!Prompt
<1>. DEFINE got == IF Credentials!Usable(typed) THEN Credentials!Got(typed)
                   ELSE Credentials!Refused("InvalidInput")
<1>3. got.code = "ok" => MayTake("keyring", got.token)
  BY <1>1, <1>2 DEF MayTake, Token, Credentials!Got, Credentials!Refused, Text, Bytes,
     Credentials!CredentialAssumption
<1>4. Credentials!Takes("keyring", got)
  BY <1>2
<1>. HIDE DEF got
<1>. QED  BY <1>1, <1>3, <1>4, Collected

LEMMA InputFailsKeeps ==
    ASSUME Credentials!CredentialAssumption, CredentialInv, Credentials!InputFails
    PROVE  CredentialInv'
<1>1. /\ credentialPhase = "collect" /\ prompted' = prompted
      /\ Credentials!Takes("none", Credentials!Refused("Io"))
      /\ UNCHANGED <<flags, interactive>>
  BY DEF Credentials!InputFails, Credentials!Takes, Credentials!given
<1>2. prompted' => interactive /\ ~ flags.stdin /\ ~ flags.variable
  BY <1>1 DEF CredentialInv, Credentials!CredentialHeld, Credentials!TypeOK
<1>3. Credentials!Refused("Io").code # "ok"
  BY DEF Credentials!Refused
<1>. QED  BY <1>1, <1>2, <1>3, Collected

\* What is resolved again is judged by the texts of that moment alone.
LEMMA ResolveKeeps ==
    ASSUME Credentials!CredentialAssumption, CredentialInv, Credentials!Resolve
    PROVE  CredentialInv'
<1>1. /\ UNCHANGED <<flags, interactive, piped, variable, store, locked, credentialPhase,
                     prompted, source, candidate>>
      /\ credentialPhase = "saved"
      /\ resolution' = IF source = "keyring" THEN Credentials!FromStore
                       ELSE Credentials!FromVariable
  BY DEF Credentials!Resolve, Credentials!given
<1>2. /\ store \in Text \cup {None} /\ (store # None => Credentials!InUTF8(store))
      /\ variable \in Text \cup {None}
      /\ candidate # None /\ Token(candidate) /\ source \in {"keyring", "environment"}
  BY <1>1 DEF CredentialInv, TextsFit, Credentials!CredentialHeld, Credentials!TypeOK
<1>3. \A text \in Text : text # None
  BY DEF Credentials!CredentialAssumption, Text, Bytes
<1>4. /\ resolution'.code = "ok" => Token(resolution'.token)
      /\ resolution'.code # "ok" => resolution'.token = None
      /\ resolution' = [token |-> resolution'.token, code |-> resolution'.code]
      /\ resolution'.code \in {"ok", "Unavailable", "AuthenticationFailed", "InvalidInput"}
  <2>1. CASE source = "keyring"
    BY <1>1, <1>2, <2>1, StoreTaken
  <2>2. CASE source # "keyring"
    BY <1>1, <1>2, <2>2, VariableTaken
  <2>. QED  BY <2>1, <2>2
<1>5. TextsFit'
  BY <1>1, <1>4 DEF CredentialInv, TextsFit, Token, Credentials!InUTF8, Credentials!Usable,
     Credentials!Control
<1>6. Credentials!TypeOK'
  <2>1. (resolution'.code = "ok") = (resolution'.token # None)
    BY <1>3, <1>4 DEF Token
  <2>. QED  BY <1>1, <1>4, <2>1 DEF CredentialInv, Credentials!CredentialHeld, Credentials!TypeOK
<1>7. Credentials!OnlyUsableTokens'
  BY <1>1, <1>2, <1>4 DEF Credentials!OnlyUsableTokens, Token, Credentials!InUTF8,
     Credentials!Usable, Credentials!Control
<1>8. Credentials!NeverAPartOfIt'
  BY <1>1 DEF CredentialInv, Credentials!CredentialHeld, Credentials!NeverAPartOfIt
<1>9. Credentials!AcceptedResolves'
  <2>. SUFFICES ASSUME source = "keyring", store = candidate, ~ locked
                PROVE  resolution' = Credentials!Got(candidate)
    BY <1>1 DEF Credentials!AcceptedResolves, Credentials!Got
  <2>. QED  BY <1>1, <1>2, StoreTaken DEF Token
<1>10. Credentials!BlamedOnlyIfMissing'
  <2>. SUFFICES ASSUME resolution'.code = "AuthenticationFailed"
                PROVE  \/ source = "keyring" /\ ~ locked /\ store = None
                       \/ /\ source = "environment"
                          /\ \/ variable = None \/ ~ Credentials!InUTF8(variable)
                             \/ ~ Credentials!Usable(variable)
    BY <1>1 DEF Credentials!BlamedOnlyIfMissing, Credentials!InUTF8, Credentials!Usable,
       Credentials!Control
  <2>1. CASE source = "keyring"
    BY <1>1, <1>2, <2>1, StoreTaken
  <2>2. CASE source # "keyring"
    BY <1>1, <1>2, <2>2, VariableTaken
  <2>. QED  BY <2>1, <2>2
<1>. QED  BY <1>5, <1>6, <1>7, <1>8, <1>9, <1>10 DEF CredentialInv, Credentials!CredentialHeld

LEMMA SaveKeeps ==
    ASSUME Credentials!CredentialAssumption, CredentialInv, Credentials!Save
    PROVE  CredentialInv'
<1>1. /\ UNCHANGED <<flags, interactive, piped, variable, locked, prompted, source,
                     candidate, resolution>>
      /\ credentialPhase = "save" /\ credentialPhase' \in {"saved", "failed"}
      /\ store' \in {store, candidate}
  BY DEF Credentials!Save, Credentials!given
<1>2. /\ resolution = Credentials!Nothing /\ resolution.code = "none" /\ resolution.token = None
      /\ candidate # None /\ Token(candidate)
  BY <1>1 DEF CredentialInv, TextsFit, Credentials!CredentialHeld, Credentials!TypeOK,
     Credentials!Nothing
<1>3. TextsFit'
  BY <1>1, <1>2 DEF CredentialInv, TextsFit, Token, Credentials!InUTF8, Credentials!Usable,
     Credentials!Control, Credentials!Nothing
<1>4. Credentials!TypeOK'
  BY <1>1, <1>2 DEF CredentialInv, Credentials!CredentialHeld, Credentials!TypeOK
<1>5. Credentials!OnlyUsableTokens'
  BY <1>1, <1>2 DEF Credentials!OnlyUsableTokens, Token, Credentials!InUTF8, Credentials!Usable,
     Credentials!Control
<1>6. Credentials!NeverAPartOfIt'
  BY <1>1 DEF CredentialInv, Credentials!CredentialHeld, Credentials!NeverAPartOfIt
<1>7. Credentials!AcceptedResolves' /\ Credentials!BlamedOnlyIfMissing'
  BY <1>1, <1>2 DEF Credentials!AcceptedResolves, Credentials!BlamedOnlyIfMissing
<1>. QED  BY <1>3, <1>4, <1>5, <1>6, <1>7 DEF CredentialInv, Credentials!CredentialHeld

LEMMA MeanwhileKeeps ==
    ASSUME Credentials!CredentialAssumption, CredentialInv, Credentials!Meanwhile
    PROVE  CredentialInv'
<1>1. /\ UNCHANGED <<flags, interactive, piped, credentialPhase, prompted, source, candidate>>
      /\ credentialPhase = "saved"
      /\ resolution' = Credentials!Nothing /\ resolution'.code = "none"
      /\ resolution'.token = None
  BY DEF Credentials!Meanwhile, Credentials!given, Credentials!Nothing
<1>2. TokenTexts \subseteq Text
  BY DEF Credentials!CredentialAssumption, Text, Bytes
<1>3. /\ variable' \in Text \cup {None} /\ store' \in Text \cup {None}
      /\ store' # None => Credentials!InUTF8(store)'
  BY <1>2 DEF Credentials!Meanwhile, CredentialInv, TextsFit, Credentials!InUTF8
<1>4. TextsFit'
  BY <1>1, <1>3 DEF CredentialInv, TextsFit, Token, Credentials!InUTF8, Credentials!Usable,
     Credentials!Control, Credentials!Nothing
<1>5. Credentials!TypeOK'
  BY <1>1 DEF CredentialInv, Credentials!CredentialHeld, Credentials!TypeOK
<1>6. Credentials!OnlyUsableTokens'
  BY <1>1 DEF CredentialInv, Credentials!CredentialHeld, Credentials!OnlyUsableTokens,
     Credentials!InUTF8, Credentials!Usable, Credentials!Control
<1>7. Credentials!NeverAPartOfIt'
  BY <1>1 DEF CredentialInv, Credentials!CredentialHeld, Credentials!NeverAPartOfIt
<1>8. Credentials!AcceptedResolves' /\ Credentials!BlamedOnlyIfMissing'
  BY <1>1 DEF Credentials!AcceptedResolves, Credentials!BlamedOnlyIfMissing
<1>. QED  BY <1>4, <1>5, <1>6, <1>7, <1>8 DEF CredentialInv, Credentials!CredentialHeld

LEMMA CredentialStutters ==
    ASSUME CredentialInv, UNCHANGED Credentials!vars PROVE CredentialInv'
BY DEF CredentialInv, TextsFit, Token, Credentials!vars, Credentials!given,
       Credentials!CredentialHeld, Credentials!TypeOK, Credentials!OnlyUsableTokens,
       Credentials!NeverAPartOfIt, Credentials!AcceptedResolves,
       Credentials!BlamedOnlyIfMissing, Credentials!InUTF8, Credentials!Usable,
       Credentials!Control, Credentials!Nothing, Credentials!Got

\* A token is taken from stdin, the variable or the prompt whole or not at all,
\* and what collect_credential accepted and saved is had back by every later
\* resolve_credential, whatever its length, the limit and the texts involved,
\* unless somebody changed the entry, the lock or the variable; nobody is told
\* to make a new credential while the one there is only locked away.
THEOREM CredentialsAreHeld == Credentials!Spec => []CredentialHeld
<1>0. Credentials!CredentialAssumption
  BY PartsAssumption
<1>1. Credentials!Init => CredentialInv
  BY <1>0, CredentialBegins
<1>2. CredentialInv /\ [Credentials!Next]_Credentials!vars => CredentialInv'
  <2>. SUFFICES ASSUME CredentialInv, [Credentials!Next]_Credentials!vars
                PROVE  CredentialInv'
    OBVIOUS
  <2>1. CASE Credentials!CollectGiven
    BY <1>0, <2>1, CollectGivenKeeps
  <2>2. CASE Credentials!Prompt
    BY <1>0, <2>2, PromptKeeps
  <2>3. CASE Credentials!InputFails
    BY <1>0, <2>3, InputFailsKeeps
  <2>4. CASE Credentials!Save
    BY <1>0, <2>4, SaveKeeps
  <2>5. CASE Credentials!Resolve
    BY <1>0, <2>5, ResolveKeeps
  <2>6. CASE Credentials!Meanwhile
    BY <1>0, <2>6, MeanwhileKeeps
  <2>7. CASE UNCHANGED Credentials!vars
    BY <2>7, CredentialStutters
  <2>. QED  BY <2>1, <2>2, <2>3, <2>4, <2>5, <2>6, <2>7 DEF Credentials!Next
<1>3. CredentialInv => CredentialHeld
  BY DEF CredentialInv, CredentialHeld
<1>. QED  BY <1>1, <1>2, <1>3, PTL DEF Credentials!Spec
=============================================================================
