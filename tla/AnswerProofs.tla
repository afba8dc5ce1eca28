---------------------------- MODULE AnswerProofs ----------------------------
(***************************************************************************)
(* Proofs about the answers of Requests for every value of its constants:  *)
(* an answer misses no event that was stored all the time, holds none that *)
(* the filter does not match or that was deleted before, keeps the limit,  *)
(* and has the newest events first where one index lookup can tell.        *)
(***************************************************************************)
EXTENDS RequestsProofs

-----------------------------------------------------------------------------
(* Filters and their lookups. *)

\* What prepare_filters leaves.
FilterType(f) ==
    /\ f.limit \in Nat
    /\ f.ids # None => IsSeq(f.ids)
    /\ f.kinds # None => IsSeq(f.kinds)
    /\ f.authors # None => IsSeq(f.authors)
    /\ IsFiniteSet(DOMAIN f.tags)
    /\ \A l \in DOMAIN f.tags : f.tags[l] \in Seq(DOMAIN Bytes)

LEMMA PreparedType ==
    ASSUME NEW f \in Filters
    PROVE  FilterType(Prepare(f))
<1> DEFINE limit == IF f.limit # None /\ f.limit < MaxLimit THEN f.limit ELSE MaxLimit
<1>1. /\ DOMAIN f = {"ids", "kinds", "authors", "tags", "since", "until", "limit"}
      /\ f.limit # None => f.limit \in Nat
      /\ f.ids # None => IsSeq(f.ids)
      /\ f.kinds # None => IsSeq(f.kinds)
      /\ f.authors # None => IsSeq(f.authors)
      /\ IsFiniteSet(DOMAIN f.tags)
      /\ \A l \in DOMAIN f.tags : f.tags[l] \in Seq(DOMAIN Bytes)
  BY ZenonT(30), QueryAssumption
<1>2. limit \in Nat
  BY ZenonT(30), <1>1, QueryAssumption
<1> HIDE DEF limit
<1>3. Prepare(f) = [f EXCEPT !.limit = limit]
  BY ZenonT(30) DEF Prepare, limit
<1>4. /\ Prepare(f).limit = limit /\ Prepare(f).ids = f.ids /\ Prepare(f).kinds = f.kinds
      /\ Prepare(f).authors = f.authors /\ Prepare(f).tags = f.tags
  BY ZenonT(30), <1>1, <1>3
<1> QED
  BY ZenonT(30), <1>1, <1>2, <1>4 DEF FilterType

Indexes == {"id", "e", "p", "tag", "author", "kind", "shard"}

LookSet(S, look) == IndexSet(S, look.index, look.key)

LEMMA LookSetIn ==
    ASSUME NEW S \in SUBSET Events, NEW look, look.index \in Indexes
    PROVE  LookSet(S, look) = S \cap LookSet(Events, look)
<1> USE DEF LookSet, IndexSet
<1>1. CASE look.index = "id"
  BY ZenonT(30), <1>1
<1>2. CASE look.index \in {"e", "p"}
  BY ZenonT(30), <1>2
<1>3. CASE look.index = "tag"
  BY ZenonT(30), <1>3
<1>4. CASE look.index = "author"
  BY ZenonT(30), <1>4
<1>5. CASE look.index = "kind"
  BY ZenonT(30), <1>5
<1>6. CASE look.index = "shard"
  BY ZenonT(30), <1>6
<1> QED
  BY ZenonT(30), <1>1, <1>2, <1>3, <1>4, <1>5, <1>6 DEF Indexes

\* The lookups are in one index; the shards are looked up once each.
PlanType(p) ==
    /\ IsSeq(p)
    /\ \A i \in 1 .. Len(p) : p[i].index \in Indexes
    /\ \A i, j \in 1 .. Len(p) : /\ p[i].index = p[j].index
                                 /\ p[i].index = "shard" /\ i # j => p[i].key # p[j].key

\* p looks up keys in index.
LooksUp(p, index, keys) ==
    /\ IsSeq(keys) /\ IsSeq(p) /\ Len(p) = Len(keys) /\ Len(p) \in Nat
    /\ \A i \in 1 .. Len(p) : p[i].index = index /\ p[i].key = keys[i]

LEMMA LookupsForm ==
    ASSUME NEW index, NEW keys, IsSeq(keys)
    PROVE  LooksUp(Lookups(index, keys), index, keys)
<1> DEFINE p == Lookups(index, keys)
<1>1. keys \in Seq(Range(keys)) /\ Len(keys) \in Nat /\ DOMAIN keys = 1 .. Len(keys)
  BY DEF IsSeq
<1>2. p = [i \in 1 .. Len(keys) |-> [index |-> index, key |-> keys[i]]]
  BY ZenonT(30), <1>1 DEF Lookups
<1>4. ASSUME NEW i \in 1 .. Len(keys)
      PROVE  p[i].index = index /\ p[i].key = keys[i]
  <2>1. p[i] = [index |-> index, key |-> keys[i]]
    BY ZenonT(30), <1>2
  <2> HIDE DEF p
  <2> QED
    BY <2>1
<1>5. DOMAIN p = 1 .. Len(keys)
  BY ZenonT(30), <1>2
<1>6. p \in [1 .. Len(keys) -> Range(p)]
  BY ZenonT(30), <1>2, <1>5 DEF Range
<1> HIDE DEF p
<1>7. p \in Seq(Range(p)) /\ Len(p) = Len(keys)
  BY <1>1, <1>5, <1>6
<1> QED
  BY ZenonT(30), <1>1, <1>4, <1>7 DEF LooksUp, IsSeq, p

LEMMA ParsedForm ==
    ASSUME NEW values \in Seq(DOMAIN Bytes)
    PROVE  /\ IsSeq(Parsed(values))
           /\ \A k : k \in Range(Parsed(values)) <=> k # None /\ \E v \in Range(values) : k = Bytes[v]
           /\ Len(values) = 1 /\ Bytes[values[1]] # None => Len(Parsed(values)) = 1
<1> DEFINE I == {i \in DOMAIN values : Bytes[values[i]] # None}
           hex == At(values, I)
           p == Parsed(values)
<1>1. DOMAIN values = 1 .. Len(values) /\ Len(values) \in Nat
  OBVIOUS
<1>2. I \in SUBSET (1 .. Len(values))
  BY ZenonT(30), <1>1
<1>3. PICK at \in Seq(I) :
         /\ Len(at) = Cardinality(I) /\ Range(at) = I /\ Cardinality(I) \in Nat
         /\ \A i, j \in 1 .. Len(at) : i < j => at[i] < at[j]
         /\ hex \in Seq(DOMAIN Bytes) /\ Len(hex) = Len(at)
         /\ \A k \in 1 .. Len(at) : hex[k] = values[at[k]] /\ at[k] \in I
  <2> HIDE DEF I
  <2> QED
    BY ZenonT(30), <1>2, AtValues
<1>4. DOMAIN hex = 1 .. Len(at) /\ DOMAIN at = 1 .. Len(at) /\ Len(at) \in Nat
  <2> HIDE DEF hex
  <2> QED
    BY <1>3
<1>5. p = [i \in 1 .. Len(at) |-> Bytes[hex[i]]]
  BY ZenonT(30), <1>4 DEF Parsed
<1> HIDE DEF p, hex
<1>6. /\ p \in [1 .. Len(at) -> Range(p)] /\ DOMAIN p = 1 .. Len(at)
      /\ \A i \in 1 .. Len(at) : p[i] = Bytes[values[at[i]]]
  BY ZenonT(30), <1>3, <1>5 DEF Range
<1>7. IsSeq(p) /\ Len(p) = Len(at)
  BY <1>4, <1>6 DEF IsSeq
<1>8. ASSUME NEW k \in Range(p)
      PROVE  k # None /\ \E v \in Range(values) : k = Bytes[v]
  <2>1. PICK i \in 1 .. Len(at) : k = p[i]
    BY ZenonT(30), <1>6 DEF Range
  <2>2. at[i] \in I
    BY ZenonT(30), <1>3
  <2> QED
    BY ZenonT(30), <1>6, <2>1, <2>2 DEF Range
<1>9. ASSUME NEW v \in Range(values), Bytes[v] # None
      PROVE  Bytes[v] \in Range(p)
  <2>1. PICK j \in DOMAIN values : v = values[j]
    BY ZenonT(30) DEF Range
  <2>2. j \in Range(at)
    BY ZenonT(30), <2>1, <1>3, <1>9
  <2>3. PICK i \in 1 .. Len(at) : j = at[i]
    BY ZenonT(30), <2>2, <1>4 DEF Range
  <2> QED
    BY ZenonT(30), <1>6, <2>1, <2>3 DEF Range
<1>10. ASSUME Len(values) = 1, Bytes[values[1]] # None
       PROVE  Len(p) = 1
  <2>1. I = {1}
    BY <1>1, <1>10
  <2>2. Cardinality({1}) = 1
    BY ZenonT(30), FS_Singleton
  <2> QED
    BY ZenonT(30), <2>1, <2>2, <1>3, <1>7
<1> QED
  BY ZenonT(30), <1>7, <1>8, <1>9, <1>10 DEF p

TagKeys(l, list) == [i \in DOMAIN list |-> <<l, list[i]>>]

LEMMA TagKeysForm ==
    ASSUME NEW l, NEW list \in Seq(DOMAIN Bytes)
    PROVE  /\ IsSeq(TagKeys(l, list)) /\ Len(TagKeys(l, list)) = Len(list)
           /\ \A i \in 1 .. Len(TagKeys(l, list)) :
                TagKeys(l, list)[i] = <<l, list[i]>> /\ list[i] \in Range(list)
           /\ \A v \in Range(list) :
                \E i \in 1 .. Len(TagKeys(l, list)) : v = list[i]
<1> DEFINE k == TagKeys(l, list)
<1>1. DOMAIN list = 1 .. Len(list) /\ Len(list) \in Nat
  OBVIOUS
<1>2. k = [i \in 1 .. Len(list) |-> <<l, list[i]>>]
  BY ZenonT(30), <1>1 DEF TagKeys
<1> HIDE DEF k
<1>3. k \in [1 .. Len(list) -> Range(k)]
  BY ZenonT(30), <1>2 DEF Range
<1>4. IsSeq(k) /\ Len(k) = Len(list)
  BY <1>1, <1>3 DEF IsSeq
<1> QED
  BY ZenonT(30), <1>1, <1>2, <1>4 DEF Range, k

LEMMA ShardKeysForm ==
    LET keys == [i \in 1 .. Shards |-> i]
    IN  IsSeq(keys) /\ Len(keys) = Shards /\ \A i \in 1 .. Shards : keys[i] = i
<1> DEFINE k == [i \in 1 .. Shards |-> i]
<1>1. k \in [1 .. Shards -> Range(k)] /\ \A i \in 1 .. Shards : k[i] = i
  BY ZenonT(30) DEF Range
<1>2. Shards \in Nat
  BY ZenonT(30), StoreAssumption
<1> HIDE DEF k
<1>3. IsSeq(k) /\ Len(k) = Shards
  BY <1>1, <1>2 DEF IsSeq
<1> QED
  BY ZenonT(30), <1>1, <1>3 DEF k

\* The lookups of f, by the condition that is chosen for them.
LEMMA PlanCases ==
    ASSUME NEW f, FilterType(f), NEW p \in Plans(f)
    PROVE  \/ Given(f.ids) /\ LooksUp(p, "id", f.ids)
           \/ ~Given(f.ids) /\ UsesTag(f, "e") /\ LooksUp(p, "e", Parsed(f.tags["e"]))
           \/ /\ ~Given(f.ids) /\ ~UsesTag(f, "e") /\ UsesTag(f, "p")
              /\ LooksUp(p, "p", Parsed(f.tags["p"]))
           \/ /\ ~Given(f.ids) /\ ~UsesTag(f, "e") /\ ~UsesTag(f, "p") /\ HasGenericTags(f)
              /\ \E l \in GenericLetters(f) : LooksUp(p, "tag", TagKeys(l, f.tags[l]))
           \/ /\ ~Given(f.ids) /\ ~UsesTag(f, "e") /\ ~UsesTag(f, "p") /\ ~HasGenericTags(f)
              /\ \/ Given(f.authors) /\ LooksUp(p, "author", f.authors)
                 \/ ~Given(f.authors) /\ Given(f.kinds) /\ LooksUp(p, "kind", f.kinds)
                 \/ /\ ~Given(f.authors) /\ ~Given(f.kinds)
                    /\ LooksUp(p, "shard", [i \in 1 .. Shards |-> i])
<1>1. CASE Given(f.ids)
  <2>1. p = Lookups("id", f.ids) /\ IsSeq(f.ids)
    BY ZenonT(30), <1>1 DEF Plans, FilterType, Given
  <2> QED
    BY ZenonT(30), <1>1, <2>1, LookupsForm
<1>2. CASE ~Given(f.ids) /\ UsesTag(f, "e")
  <2>1. p = Lookups("e", Parsed(f.tags["e"])) /\ IsSeq(Parsed(f.tags["e"]))
    BY ZenonT(30), <1>2, ParsedForm DEF Plans, FilterType, UsesTag
  <2> QED
    BY ZenonT(30), <1>2, <2>1, LookupsForm
<1>3. CASE ~Given(f.ids) /\ ~UsesTag(f, "e") /\ UsesTag(f, "p")
  <2>1. p = Lookups("p", Parsed(f.tags["p"])) /\ IsSeq(Parsed(f.tags["p"]))
    BY ZenonT(30), <1>3, ParsedForm DEF Plans, FilterType, UsesTag
  <2> QED
    BY ZenonT(30), <1>3, <2>1, LookupsForm
<1>4. CASE ~Given(f.ids) /\ ~UsesTag(f, "e") /\ ~UsesTag(f, "p") /\ HasGenericTags(f)
  <2>1. PICK l \in GenericLetters(f) : p = Lookups("tag", TagKeys(l, f.tags[l]))
    BY ZenonT(30), <1>4 DEF Plans, TagKeys
  <2>2. IsSeq(TagKeys(l, f.tags[l]))
    BY ZenonT(30), TagKeysForm DEF FilterType, GenericLetters
  <2> QED
    BY ZenonT(30), <1>4, <2>1, <2>2, LookupsForm
<1> DEFINE Rest == ~Given(f.ids) /\ ~UsesTag(f, "e") /\ ~UsesTag(f, "p") /\ ~HasGenericTags(f)
<1>5. CASE Rest /\ Given(f.authors)
  <2>1. p = Lookups("author", f.authors) /\ IsSeq(f.authors)
    BY ZenonT(30), <1>5 DEF Plans, FilterType, Given
  <2> QED
    BY ZenonT(30), <1>5, <2>1, LookupsForm
<1>6. CASE Rest /\ ~Given(f.authors) /\ Given(f.kinds)
  <2>1. p = Lookups("kind", f.kinds)
    BY ZenonT(30), <1>6 DEF Plans
  <2>2. IsSeq(f.kinds)
    BY ZenonT(30), <1>6 DEF FilterType, Given
  <2> QED
    BY ZenonT(30), <1>6, <2>1, <2>2, LookupsForm
<1>7. CASE Rest /\ ~Given(f.authors) /\ ~Given(f.kinds)
  <2>1. p = Lookups("shard", [i \in 1 .. Shards |-> i])
    BY ZenonT(30), <1>7 DEF Plans
  <2> QED
    BY ZenonT(30), <1>7, <2>1, ShardKeysForm, LookupsForm
<1> QED
  BY ZenonT(30), <1>1, <1>2, <1>3, <1>4, <1>5, <1>6, <1>7

LEMMA PlanTyped ==
    ASSUME NEW f, FilterType(f), NEW p \in Plans(f)
    PROVE  PlanType(p)
<1>1. ASSUME NEW index \in Indexes \ {"shard"}, NEW keys, LooksUp(p, index, keys)
      PROVE  PlanType(p)
  BY ZenonT(30), <1>1 DEF LooksUp, PlanType
<1>2. ASSUME LooksUp(p, "shard", [i \in 1 .. Shards |-> i])
      PROVE  PlanType(p)
  <2>1. Len(p) = Shards /\ \A i \in 1 .. Len(p) : p[i].key = i /\ p[i].index = "shard"
    BY ZenonT(30), <1>2, ShardKeysForm DEF LooksUp
  <2> QED
    BY ZenonT(30), <1>2, <2>1 DEF LooksUp, PlanType, Indexes
<1>3. /\ "id" \in Indexes \ {"shard"} /\ "e" \in Indexes \ {"shard"}
      /\ "p" \in Indexes \ {"shard"} /\ "tag" \in Indexes \ {"shard"}
      /\ "author" \in Indexes \ {"shard"} /\ "kind" \in Indexes \ {"shard"}
  BY ZenonT(30) DEF Indexes
<1> QED
  BY ZenonT(30), <1>1, <1>2, <1>3, PlanCases

\* Every event that the live test passes is under one of the keys.
LEMMA PlanCovers ==
    ASSUME NEW f, FilterType(f), NEW p \in Plans(f), HexTags(f),
           NEW e \in Events, MatchesEvent(f, e)
    PROVE  \E i \in 1 .. Len(p) : e \in LookSet(Events, p[i])
<1>1. ASSUME Given(f.ids), LooksUp(p, "id", f.ids)
      PROVE  \E i \in 1 .. Len(p) : e \in LookSet(Events, p[i])
  <2>1. e \in Range(f.ids) /\ DOMAIN f.ids = 1 .. Len(f.ids)
    BY <1>1 DEF MatchesEvent, Given, LooksUp, IsSeq
  <2>2. PICK i \in 1 .. Len(p) : p[i].index = "id" /\ p[i].key = e
    BY ZenonT(30), <1>1, <2>1 DEF LooksUp, Range
  <2> QED
    BY ZenonT(30), <2>2 DEF LookSet, IndexSet
<1>2. ASSUME NEW l \in {"e", "p"}, UsesTag(f, l), LooksUp(p, l, Parsed(f.tags[l]))
      PROVE  \E i \in 1 .. Len(p) : e \in LookSet(Events, p[i])
  <2>1. l \in DOMAIN f.tags /\ HasTag(e, l, Range(f.tags[l])) /\ f.tags[l] \in Seq(DOMAIN Bytes)
    BY ZenonT(30), <1>2 DEF MatchesEvent, UsesTag, FilterType
  <2>2. PICK j \in DOMAIN Tags[e] : Tags[e][j].name = l /\ Tags[e][j].value \in Range(f.tags[l])
    BY ZenonT(30), <2>1 DEF HasTag
  <2> DEFINE b == Bytes[Tags[e][j].value]
  <2>3. b # None
    BY ZenonT(30), <2>1, <2>2 DEF HexTags
  <2>4. b \in Range(Parsed(f.tags[l])) /\ IsSeq(Parsed(f.tags[l]))
    BY ZenonT(30), <2>1, <2>2, <2>3, ParsedForm
  <2>5. b \in ParsedTags(e, l)
    BY ZenonT(30), <2>2, <2>3 DEF ParsedTags
  <2> HIDE DEF b
  <2>6. DOMAIN Parsed(f.tags[l]) = 1 .. Len(Parsed(f.tags[l]))
    BY <2>4 DEF IsSeq
  <2>7. PICK i \in 1 .. Len(p) : p[i].index = l /\ p[i].key = b
    BY ZenonT(30), <1>2, <2>4, <2>6 DEF LooksUp, Range
  <2> QED
    BY ZenonT(30), <1>2, <2>5, <2>7 DEF LookSet, IndexSet
<1>3. ASSUME NEW l \in GenericLetters(f), LooksUp(p, "tag", TagKeys(l, f.tags[l]))
      PROVE  \E i \in 1 .. Len(p) : e \in LookSet(Events, p[i])
  <2>1. HasTag(e, l, Range(f.tags[l])) /\ f.tags[l] \in Seq(DOMAIN Bytes)
    BY ZenonT(30), <1>3 DEF MatchesEvent, GenericLetters, FilterType
  <2>2. PICK v \in Range(f.tags[l]) : HasTag(e, l, {v})
    BY ZenonT(30), <2>1 DEF HasTag
  <2>3. PICK i \in 1 .. Len(p) : p[i].index = "tag" /\ p[i].key = <<l, v>>
    <3>1. PICK i \in 1 .. Len(TagKeys(l, f.tags[l])) : v = f.tags[l][i]
      BY ZenonT(30), <2>1, TagKeysForm
    <3>2. TagKeys(l, f.tags[l])[i] = <<l, f.tags[l][i]>>
      BY ZenonT(30), <2>1, TagKeysForm
    <3> QED
      BY ZenonT(30), <1>3, <3>1, <3>2 DEF LooksUp
  <2>4. p[i].key[1] = l /\ p[i].key[2] = v
    BY <2>3
  <2>5. LookSet(Events, p[i]) = {g \in Events : HasTag(g, p[i].key[1], {p[i].key[2]})}
    BY ZenonT(30), <2>3 DEF LookSet, IndexSet
  <2> QED
    BY ZenonT(30), <2>2, <2>4, <2>5
<1>4. ASSUME Given(f.authors), LooksUp(p, "author", f.authors)
      PROVE  \E i \in 1 .. Len(p) : e \in LookSet(Events, p[i])
  <2>1. Author[e] \in Range(f.authors) /\ DOMAIN f.authors = 1 .. Len(f.authors)
    BY <1>4 DEF MatchesEvent, Given, LooksUp, IsSeq
  <2>2. PICK i \in 1 .. Len(p) : p[i].index = "author" /\ p[i].key = Author[e]
    BY ZenonT(30), <1>4, <2>1 DEF LooksUp, Range
  <2> QED
    BY ZenonT(30), <2>2 DEF LookSet, IndexSet
<1>5. ASSUME Given(f.kinds), LooksUp(p, "kind", f.kinds)
      PROVE  \E i \in 1 .. Len(p) : e \in LookSet(Events, p[i])
  <2>1. Kind[e] \in Range(f.kinds) /\ DOMAIN f.kinds = 1 .. Len(f.kinds)
    BY <1>5 DEF MatchesEvent, Given, LooksUp, IsSeq
  <2>2. PICK i \in 1 .. Len(p) : p[i].index = "kind" /\ p[i].key = Kind[e]
    BY ZenonT(30), <1>5, <2>1 DEF LooksUp, Range
  <2> QED
    BY ZenonT(30), <2>2 DEF LookSet, IndexSet
<1>6. ASSUME LooksUp(p, "shard", [i \in 1 .. Shards |-> i])
      PROVE  \E i \in 1 .. Len(p) : e \in LookSet(Events, p[i])
  <2>1. Shard[e] \in 1 .. Len(p) /\ p[Shard[e]].index = "shard" /\ p[Shard[e]].key = Shard[e]
    BY ZenonT(30), <1>6, ShardKeysForm, StoreAssumption DEF LooksUp
  <2> QED
    BY ZenonT(30), <2>1 DEF LookSet, IndexSet
<1> QED
  BY ZenonT(30), PlanCases, <1>1, <1>2, <1>3, <1>4, <1>5, <1>6

\* For a plain filter the conditions that are tested again are enough.
LEMMA PlanImplied ==
    ASSUME NEW f, FilterType(f), NEW p \in Plans(f), Plain(f),
           NEW i \in 1 .. Len(p), NEW e \in LookSet(Events, p[i]), Conditions(f, e)
    PROVE  MatchesEvent(f, e)
<1>1. ASSUME Given(f.ids)
      PROVE  MatchesEvent(f, e)
  <2>1. LooksUp(p, "id", f.ids)
    BY ZenonT(30), <1>1, PlanCases
  <2>2. i \in DOMAIN f.ids /\ p[i].index = "id" /\ p[i].key = f.ids[i]
    BY <2>1 DEF LooksUp, IsSeq
  <2>3. e = f.ids[i]
    BY ZenonT(30), <2>2 DEF LookSet, IndexSet
  <2>4. e \in Range(f.ids)
    BY ZenonT(30), <2>2, <2>3 DEF Range
  <2> QED
    BY ZenonT(30), <1>1, <2>4 DEF Plain, Conditions, MatchesEvent
<1>2. ASSUME ~Given(f.ids), NEW l \in {"e", "p"}, UsesTag(f, l)
      PROVE  HasTag(e, l, Range(f.tags[l]))
  <2>1. LooksUp(p, l, Parsed(f.tags[l]))
    BY ZenonT(30), <1>2, PlanCases DEF Plain
  <2>2. f.tags[l] \in Seq(DOMAIN Bytes) /\ l \in DOMAIN f.tags
    BY ZenonT(30), <1>2 DEF UsesTag, FilterType
  <2>3. i \in DOMAIN Parsed(f.tags[l]) /\ p[i].index = l /\ p[i].key = Parsed(f.tags[l])[i]
    BY <2>1 DEF LooksUp, IsSeq
  <2>4. p[i].key \in ParsedTags(e, l) /\ e \in Events
    BY ZenonT(30), <1>2, <2>3 DEF LookSet, IndexSet
  <2>5. PICK v \in Range(f.tags[l]) : p[i].key = Bytes[v] /\ p[i].key # None
    <3>1. p[i].key \in Range(Parsed(f.tags[l]))
      BY ZenonT(30), <2>3 DEF Range
    <3> QED
      BY ZenonT(30), <2>2, <3>1, ParsedForm
  <2>6. PICK j \in DOMAIN Tags[e] : Tags[e][j].name = l /\ p[i].key = Bytes[Tags[e][j].value]
    BY ZenonT(30), <2>4 DEF ParsedTags
  <2>7. Tags[e][j].value \in DOMAIN Bytes
    BY ZenonT(30), <2>4, StoreAssumption
  <2>8. v \in DOMAIN Bytes
    <3>1. \A k \in DOMAIN f.tags[l] : f.tags[l][k] \in DOMAIN Bytes
      BY <2>2
    <3> QED
      BY ZenonT(30), <3>1 DEF Range
  <2>9. v = Tags[e][j].value
    BY ZenonT(30), <2>2, <2>5, <2>6, <2>7, <2>8 DEF Plain
  <2> QED
    BY ZenonT(30), <2>6, <2>9 DEF HasTag
<1>3. ASSUME ~Given(f.ids), HasGenericTags(f), NEW l \in GenericLetters(f)
      PROVE  HasTag(e, l, Range(f.tags[l]))
  <2>1. PICK m \in GenericLetters(f) : LooksUp(p, "tag", TagKeys(m, f.tags[m]))
    BY ZenonT(30), <1>3, PlanCases DEF Plain
  <2>2. m = l
    <3>1. IsFiniteSet(GenericLetters(f)) /\ Cardinality(GenericLetters(f)) = 1
      BY ZenonT(30), <1>3, FS_Subset DEF FilterType, Plain, GenericLetters
    <3>2. PICK x : GenericLetters(f) = {x}
      BY ZenonT(30), <3>1, FS_Singleton
    <3> QED
      BY ZenonT(30), <3>2
  <2>3. f.tags[l] \in Seq(DOMAIN Bytes)
    BY ZenonT(30) DEF FilterType, GenericLetters
  <2>4. /\ p[i].index = "tag" /\ p[i].key = <<l, f.tags[l][i]>>
        /\ f.tags[l][i] \in Range(f.tags[l])
    <3>1. /\ i \in 1 .. Len(TagKeys(l, f.tags[l]))
          /\ p[i].index = "tag" /\ p[i].key = TagKeys(l, f.tags[l])[i]
      BY ZenonT(30), <2>1, <2>2 DEF LooksUp
    <3> QED
      BY ZenonT(30), <2>3, <3>1, TagKeysForm
  <2>5. p[i].key[1] = l /\ p[i].key[2] = f.tags[l][i]
    BY <2>4
  <2>6. LookSet(Events, p[i]) = {g \in Events : HasTag(g, p[i].key[1], {p[i].key[2]})}
    BY ZenonT(30), <2>4 DEF LookSet, IndexSet
  <2>7. HasTag(e, l, {f.tags[l][i]})
    BY ZenonT(30), <2>5, <2>6
  <2> QED
    BY ZenonT(30), <2>4, <2>7 DEF HasTag
<1>4. ASSUME ~Given(f.ids)
      PROVE  MatchesEvent(f, e)
  <2>1. f.ids = None
    BY ZenonT(30), <1>4 DEF Plain, Given
  <2>2. \A l \in DOMAIN f.tags : HasTag(e, l, Range(f.tags[l]))
    BY ZenonT(30), <1>2, <1>3, <1>4 DEF Conditions, Skipped, GenericLetters
  <2> QED
    BY ZenonT(30), <2>1, <2>2 DEF Conditions, MatchesEvent
<1> QED
  BY ZenonT(30), <1>1, <1>4

LEMMA MatchImplies ==
    ASSUME NEW f, NEW e, MatchesEvent(f, e)
    PROVE  Conditions(f, e)
BY ZenonT(30) DEF MatchesEvent, Conditions

\* query_by_pubkey_since is the one lookup that looks at the time.
Young(f, look, e) == look.index = "author" /\ f.since # None => CreatedAt[e] >= f.since

\* A filter with one condition is one lookup, of just the events that match.
OneLookup(f, p) ==
    /\ Len(p) = 1 /\ p[1].index # "shard"
    /\ \A e \in Events : e \in LookSet(Events, p[1]) /\ Young(f, p[1], e) <=> MatchesEvent(f, e)

LEMMA OneConditionLooksUp ==
    ASSUME NEW f, FilterType(f), NEW p \in Plans(f), OneCondition(f), HexTags(f)
    PROVE  /\ Len(p) = 1 /\ p[1].index # "shard"
           /\ \A e \in LookSet(Events, p[1]) : Young(f, p[1], e) => Conditions(f, e)
<1>1. f.ids = None /\ f.until = None /\ Plain(f) /\ ~Given(f.ids)
  BY ZenonT(30) DEF OneCondition, Given
<1> DEFINE Goal == /\ Len(p) = 1 /\ p[1].index # "shard"
                   /\ \A e \in LookSet(Events, p[1]) : Young(f, p[1], e) => Conditions(f, e)
<1>2. ASSUME Given(f.authors), Len(f.authors) = 1, f.kinds = None, DOMAIN f.tags = {}
      PROVE  Goal
  <2>1. ~UsesTag(f, "e") /\ ~UsesTag(f, "p") /\ ~HasGenericTags(f)
    BY ZenonT(30), <1>2 DEF UsesTag, HasGenericTags, GenericLetters
  <2>2. LooksUp(p, "author", f.authors)
    BY ZenonT(30), <1>1, <1>2, <2>1, PlanCases
  <2>3. Len(p) = 1 /\ p[1].index = "author" /\ p[1].key = f.authors[1] /\ 1 \in DOMAIN f.authors
    BY <1>2, <2>2 DEF LooksUp, IsSeq
  <2>4. \A e \in LookSet(Events, p[1]) : Author[e] = f.authors[1]
    BY ZenonT(30), <2>3 DEF LookSet, IndexSet
  <2>5. \A e \in LookSet(Events, p[1]) : Author[e] \in Range(f.authors)
    BY ZenonT(30), <2>3, <2>4 DEF Range
  <2>6. \A e \in LookSet(Events, p[1]) : Young(f, p[1], e) => Conditions(f, e)
    BY ZenonT(30), <1>1, <1>2, <2>3, <2>5 DEF Young, Conditions, InTime
  <2> QED
    BY ZenonT(30), <2>3, <2>6
<1>3. ASSUME f.since = None, f.authors = None, Given(f.kinds), Len(f.kinds) = 1, DOMAIN f.tags = {}
      PROVE  Goal
  <2>1. ~UsesTag(f, "e") /\ ~UsesTag(f, "p") /\ ~HasGenericTags(f) /\ ~Given(f.authors)
    BY ZenonT(30), <1>3 DEF UsesTag, HasGenericTags, GenericLetters, Given
  <2>2. LooksUp(p, "kind", f.kinds)
    BY ZenonT(30), <1>1, <1>3, <2>1, PlanCases
  <2>3. Len(p) = 1 /\ p[1].index = "kind" /\ p[1].key = f.kinds[1] /\ 1 \in DOMAIN f.kinds
    BY <1>3, <2>2 DEF LooksUp, IsSeq
  <2>4. \A e \in LookSet(Events, p[1]) : Kind[e] = f.kinds[1]
    BY ZenonT(30), <2>3 DEF LookSet, IndexSet
  <2>5. \A e \in LookSet(Events, p[1]) : Kind[e] \in Range(f.kinds)
    BY ZenonT(30), <2>3, <2>4 DEF Range
  <2>6. \A e \in LookSet(Events, p[1]) : Conditions(f, e)
    BY ZenonT(30), <1>1, <1>3, <2>5 DEF Conditions, InTime
  <2> QED
    BY ZenonT(30), <2>3, <2>6
<1>4. ASSUME f.since = None, f.authors = None, f.kinds = None,
             NEW l \in DOMAIN f.tags, DOMAIN f.tags = {l}, Len(f.tags[l]) = 1
      PROVE  Goal
  <2>1. f.tags[l] \in Seq(DOMAIN Bytes)
    BY ZenonT(30) DEF FilterType
  <2>2. UsesTag(f, l) /\ 1 \in DOMAIN f.tags[l]
    BY <1>4, <2>1 DEF UsesTag
  <2>3. \A e : Conditions(f, e)
    <3>1. \A m \in DOMAIN f.tags : Skipped(f, m)
      BY ZenonT(30), <1>4, <2>2 DEF Skipped, HasGenericTags, GenericLetters
    <3> QED
      BY ZenonT(30), <1>1, <1>4, <3>1 DEF Conditions, InTime
  <2>4. ASSUME l \in {"e", "p"}
        PROVE  Len(p) = 1 /\ p[1].index # "shard"
    <3>1. LooksUp(p, l, Parsed(f.tags[l]))
      BY ZenonT(30), <1>1, <1>4, <2>2, <2>4, PlanCases DEF UsesTag
    <3>2. Bytes[f.tags[l][1]] # None
      BY ZenonT(30), <2>2, <2>4 DEF HexTags, Range
    <3>3. Len(Parsed(f.tags[l])) = 1
      BY ZenonT(30), <1>4, <2>1, <3>2, ParsedForm
    <3> QED
      BY <2>4, <3>1, <3>3 DEF LooksUp
  <2>5. ASSUME l \notin {"e", "p"}
        PROVE  Len(p) = 1 /\ p[1].index # "shard"
    <3>1. HasGenericTags(f) /\ ~UsesTag(f, "e") /\ ~UsesTag(f, "p") /\ GenericLetters(f) = {l}
      BY ZenonT(30), <1>4, <2>2, <2>5 DEF UsesTag, HasGenericTags, GenericLetters
    <3>2. LooksUp(p, "tag", TagKeys(l, f.tags[l]))
      BY ZenonT(30), <1>1, <3>1, PlanCases
    <3>3. Len(TagKeys(l, f.tags[l])) = 1
      BY ZenonT(30), <1>4, <2>1, TagKeysForm
    <3> QED
      BY <3>2, <3>3 DEF LooksUp
  <2> QED
    BY ZenonT(30), <2>3, <2>4, <2>5
<1> HIDE DEF Goal
<1>5. Goal
  BY ZenonT(30), <1>2, <1>3, <1>4 DEF OneCondition
<1> QED
  BY ZenonT(30), <1>5 DEF Goal

LEMMA OneConditionPlan ==
    ASSUME NEW f, FilterType(f), NEW p \in Plans(f), OneCondition(f), HexTags(f)
    PROVE  OneLookup(f, p)
<1>1. /\ Len(p) = 1 /\ p[1].index # "shard"
      /\ \A e \in LookSet(Events, p[1]) : Young(f, p[1], e) => Conditions(f, e)
  BY ZenonT(30), OneConditionLooksUp
<1>2. 1 \in 1 .. Len(p) /\ \A i \in 1 .. Len(p) : i = 1
  BY <1>1
<1>3. Plain(f)
  BY ZenonT(30) DEF OneCondition
<1>4. \A e \in LookSet(Events, p[1]) : Young(f, p[1], e) => MatchesEvent(f, e)
  BY ZenonT(30), <1>1, <1>2, <1>3, PlanImplied
<1>5. \A e \in Events : MatchesEvent(f, e) => e \in LookSet(Events, p[1])
  BY ZenonT(30), <1>2, PlanCovers
<1>6. \A e \in Events : MatchesEvent(f, e) => Young(f, p[1], e)
  BY ZenonT(30) DEF MatchesEvent, InTime, Young
<1> QED
  BY ZenonT(30), <1>1, <1>4, <1>5, <1>6 DEF OneLookup

-----------------------------------------------------------------------------
(* Candidates and results. *)

\* The candidates after a lookup, as Read computes them.
Collected(S, f, look, list) ==
    IF look.index = "shard"
      THEN NewestFirst(MergeNewest(Range(list), S, look.key, f.limit))
      ELSE list \o Fetch(S, f, look)

YoungSet(S, f, look) == {e \in LookSet(S, look) : Young(f, look, e)}

LEMMA FetchIs ==
    ASSUME NEW S, NEW f, NEW look
    PROVE  Fetch(S, f, look) = Take(NewestFirst(YoungSet(S, f, look)), f.limit)
<1> DEFINE set == IndexSet(S, look.index, look.key)
           young == IF look.index = "author" /\ f.since # None
                      THEN {e \in set : CreatedAt[e] >= f.since} ELSE set
<1>1. YoungSet(S, f, look) = young
  BY ZenonT(30) DEF YoungSet, Young, LookSet
<1> QED
  BY ZenonT(30), <1>1 DEF Fetch

LEMMA FetchFacts ==
    ASSUME NEW S \in SUBSET Events, NEW f, f.limit \in Nat, NEW look, look.index \in Indexes
    PROVE  /\ Fetch(S, f, look) \in Seq(Events)
           /\ Range(Fetch(S, f, look)) \subseteq LookSet(S, look)
           /\ f.limit >= Cardinality(Events) =>
                Range(Fetch(S, f, look)) = YoungSet(S, f, look)
<1> DEFINE Y == YoungSet(S, f, look)
           s == NewestFirst(Y)
<1>1. Y \in SUBSET Events /\ Y \subseteq LookSet(S, look)
  BY ZenonT(30), LookSetIn DEF YoungSet
<1> HIDE DEF Y
<1>2. s \in Seq(Y) /\ Len(s) = Cardinality(Y) /\ Range(s) = Y
  BY ZenonT(30), <1>1, NewestFirstLists DEF Newest
<1>3. Cardinality(Y) \in Nat /\ Cardinality(Events) \in Nat /\ Cardinality(Y) <= Cardinality(Events)
  BY ZenonT(30), <1>1, EventsFinite
<1> HIDE DEF s
<1>4. s \in Seq(Events)
  BY <1>1, <1>2
<1>5. /\ Take(s, f.limit) \in Seq(Events) /\ Range(Take(s, f.limit)) \subseteq Range(s)
      /\ Len(s) <= f.limit => Take(s, f.limit) = s
  BY ZenonT(30), <1>4, TakeValues
<1>6. f.limit >= Cardinality(Events) => Len(s) <= f.limit
  BY <1>2, <1>3
<1>7. Fetch(S, f, look) = Take(s, f.limit)
  BY ZenonT(30), FetchIs DEF s, Y
<1> QED
  BY ZenonT(30), <1>1, <1>2, <1>5, <1>6, <1>7 DEF Y

LEMMA ShardFacts ==
    ASSUME NEW S \in SUBSET Events, NEW K \in SUBSET Events, NEW k, NEW n \in Nat
    PROVE  LET M == MergeNewest(K, S, k, n)
           IN  /\ M \in SUBSET Events /\ M \subseteq K \cup IndexSet(S, "shard", k)
               /\ n >= Cardinality(Events) /\ (\A e \in K : Shard[e] # k) =>
                    M = K \cup IndexSet(S, "shard", k)
<1> DEFINE X == IndexSet(S, "shard", k)
           order == NewestFirst(X)
           M == MergeNewest(K, S, k, n)
<1>1. X = {e \in S : Shard[e] = k}
  BY ZenonT(30) DEF IndexSet
<1>2. X \in SUBSET Events
  BY ZenonT(30), <1>1
<1> HIDE DEF X
<1>3. /\ order \in Seq(X) /\ Range(order) = X
      /\ \A i, j \in 1 .. Len(order) : i < j => order[i] # order[j]
  BY ZenonT(30), <1>2, NewestFirstLists DEF Newest
<1>4. M = IF n = 0 THEN {} ELSE Merge(K, order, n, "newest")
  BY ZenonT(30) DEF MergeNewest, X
<1> HIDE DEF order, M
<1>5. order \in Seq(Events)
  BY <1>2, <1>3
<1>6. M \subseteq K \cup X
  <2>1. Merge(K, order, n, "newest") \in SUBSET (K \cup Range(order))
    BY ZenonT(30), <1>5, MergeSubset
  <2> QED
    BY ZenonT(30), <1>3, <1>4, <2>1
<1>7. ASSUME n >= Cardinality(Events), \A e \in K : Shard[e] # k
      PROVE  M = K \cup X
  <2>1. CASE n = 0
    <3>1. Cardinality(Events) \in Nat /\ Cardinality({}) = 0
      BY ZenonT(30), EventsFinite, FS_EmptySet
    <3>2. Cardinality({}) = Cardinality(Events)
      BY <1>7, <2>1, <3>1
    <3>3. {} = Events
      BY ZenonT(30), <3>2, EventsFinite
    <3> QED
      BY ZenonT(30), <1>2, <1>4, <2>1, <3>3
  <2>2. CASE n # 0
    <3>1. Fresh(order, K)
      BY ZenonT(30), <1>1, <1>3, <1>7 DEF Fresh
    <3>2. Merge(K, order, n, "newest") = K \cup Range(order)
      BY ZenonT(30), <1>5, <1>7, <3>1, MergeWhole
    <3> QED
      BY ZenonT(30), <1>3, <1>4, <2>2, <3>2
  <2> QED
    BY ZenonT(30), <2>1, <2>2
<1> QED
  BY ZenonT(30), <1>2, <1>6, <1>7 DEF M, X

LEMMA ConcatRange ==
    ASSUME NEW X, NEW s \in Seq(X), NEW t \in Seq(X)
    PROVE  Range(s \o t) = Range(s) \cup Range(t)
<1>1. DOMAIN (s \o t) = 1 .. Len(s) + Len(t)
  OBVIOUS
<1>2. DOMAIN s = 1 .. Len(s) /\ DOMAIN t = 1 .. Len(t) /\ Len(s) \in Nat /\ Len(t) \in Nat
  OBVIOUS
<1>3. \A i \in 1 .. Len(s) : i \in DOMAIN (s \o t) /\ (s \o t)[i] = s[i]
  OBVIOUS
<1>4. \A i \in 1 .. Len(t) : Len(s) + i \in DOMAIN (s \o t) /\ (s \o t)[Len(s) + i] = t[i]
  OBVIOUS
<1>5. ASSUME NEW i \in DOMAIN (s \o t)
      PROVE  (s \o t)[i] \in Range(s) \cup Range(t)
  <2>1. i \in 1 .. Len(s) \/ \E j \in 1 .. Len(t) : i = Len(s) + j
    <3>1. i \in Nat /\ i >= 1 /\ i <= Len(s) + Len(t)
      BY <1>1, <1>2
    <3>2. i \in 1 .. Len(s) \/ (i - Len(s) \in 1 .. Len(t) /\ i = Len(s) + (i - Len(s)))
      BY <1>2, <3>1
    <3> QED
      BY ZenonT(30), <3>2
  <2> QED
    BY ZenonT(30), <1>2, <1>3, <1>4, <2>1 DEF Range
<1>6. Range(s \o t) \subseteq Range(s) \cup Range(t)
  BY ZenonT(30), <1>5 DEF Range
<1>7. Range(s) \subseteq Range(s \o t)
  BY ZenonT(30), <1>2, <1>3 DEF Range
<1>8. Range(t) \subseteq Range(s \o t)
  BY ZenonT(30), <1>2, <1>4 DEF Range
<1> QED
  BY ZenonT(30), <1>6, <1>7, <1>8

LEMMA CollectedFacts ==
    ASSUME NEW S \in SUBSET Events, NEW f, f.limit \in Nat, NEW look, look.index \in Indexes,
           NEW list \in Seq(Events)
    PROVE  LET more == Collected(S, f, look, list)
           IN  /\ more \in Seq(Events)
               /\ Range(more) \subseteq Range(list) \cup LookSet(S, look)
               /\ /\ f.limit >= Cardinality(Events)
                  /\ look.index = "shard" => \A e \in Range(list) : Shard[e] # look.key
                  => Range(list) \cup YoungSet(S, f, look) \subseteq Range(more)
<1> DEFINE more == Collected(S, f, look, list)
<1>1. Range(list) \in SUBSET Events
  BY DEF Range
<1>2. CASE look.index = "shard"
  <2> DEFINE M == MergeNewest(Range(list), S, look.key, f.limit)
  <2>0. LookSet(S, look) = IndexSet(S, "shard", look.key)
    BY ZenonT(30), <1>2 DEF LookSet
  <2>1. /\ M \in SUBSET Events /\ M \subseteq Range(list) \cup LookSet(S, look)
        /\ f.limit >= Cardinality(Events) /\ (\A e \in Range(list) : Shard[e] # look.key) =>
             M = Range(list) \cup LookSet(S, look)
    <3> DEFINE X == IndexSet(S, "shard", look.key)
    <3>1. /\ M \in SUBSET Events /\ M \subseteq Range(list) \cup X
          /\ f.limit >= Cardinality(Events) /\ (\A e \in Range(list) : Shard[e] # look.key) =>
               M = Range(list) \cup X
      BY ZenonT(30), <1>1, ShardFacts
    <3> HIDE DEF M, X
    <3>2. LookSet(S, look) = X
      BY ZenonT(30), <2>0 DEF X
    <3> QED
      BY ZenonT(30), <3>1, <3>2
  <2>2. more = NewestFirst(M)
    BY ZenonT(30), <1>2 DEF Collected
  <2> HIDE DEF M, more
  <2>3. more \in Seq(M) /\ Range(more) = M
    BY ZenonT(30), <2>1, <2>2, NewestFirstLists DEF Newest
  <2>4. more \in Seq(Events)
    BY <2>1, <2>3
  <2>5. YoungSet(S, f, look) \subseteq LookSet(S, look)
    BY ZenonT(30) DEF YoungSet
  <2> QED
    BY ZenonT(30), <1>2, <2>1, <2>3, <2>4, <2>5 DEF more
<1>3. CASE look.index # "shard"
  <2> DEFINE got == Fetch(S, f, look)
  <2>1. /\ got \in Seq(Events) /\ Range(got) \subseteq LookSet(S, look)
        /\ f.limit >= Cardinality(Events) => Range(got) = YoungSet(S, f, look)
    BY ZenonT(30), FetchFacts
  <2>2. more = list \o got
    BY ZenonT(30), <1>3 DEF Collected
  <2> HIDE DEF got, more
  <2>3. more \in Seq(Events)
    BY <2>1, <2>2
  <2>4. Range(more) = Range(list) \cup Range(got)
    BY <2>1, <2>2, ConcatRange
  <2> QED
    BY ZenonT(30), <2>1, <2>3, <2>4 DEF more
<1> QED
  BY ZenonT(30), <1>2, <1>3

LEMMA ResultFacts ==
    ASSUME NEW f, f.limit \in Nat, NEW list \in Seq(Events)
    PROVE  LET r == Result(f, list)
           IN  /\ r \in Seq(Events) /\ IsInjective(r) /\ Len(r) <= f.limit
               /\ \A e \in Range(r) : e \in Range(list) /\ Conditions(f, e)
               /\ f.limit >= Cardinality(Events) =>
                    \A e \in Range(list) : Conditions(f, e) => e \in Range(r)
<1> DEFINE I == {i \in DOMAIN list : /\ Conditions(f, list[i])
                                     /\ \A j \in 1 .. i - 1 : list[j] # list[i]}
           s == At(list, I)
           r == Result(f, list)
<1>1. DOMAIN list = 1 .. Len(list) /\ Len(list) \in Nat /\ \A i \in DOMAIN list : list[i] \in Events
  OBVIOUS
<1>2. I \in SUBSET (1 .. Len(list))
  BY ZenonT(30), <1>1
<1>3. \A i, j \in I : i < j => list[i] # list[j]
  <2> SUFFICES ASSUME NEW i \in I, NEW j \in I, i < j PROVE list[i] # list[j]
    BY ZenonT(30)
  <2>1. i \in 1 .. Len(list) /\ j \in 1 .. Len(list)
    BY ZenonT(30), <1>2
  <2>2. i \in 1 .. j - 1
    BY <1>1, <2>1
  <2> QED
    BY ZenonT(30), <2>2
<1>4. \A i \in I : list[i] \in Range(list) /\ Conditions(f, list[i])
  BY ZenonT(30) DEF Range
<1>5. ASSUME NEW e \in Range(list), Conditions(f, e)
      PROVE  \E i \in I : e = list[i]
  <2> DEFINE T == {i \in 1 .. Len(list) : list[i] = e}
  <2>1. T \in SUBSET Nat
    BY <1>1
  <2>2. T # {}
    BY ZenonT(30), <1>1 DEF Range
  <2>3. PICK i \in T : \A j \in T : i <= j
    BY ZenonT(30), <2>1, <2>2, NatMin
  <2>4. ASSUME NEW j \in 1 .. i - 1, list[j] = e PROVE FALSE
    <3>1. i \in 1 .. Len(list)
      BY ZenonT(30), <2>3
    <3>2. j \in 1 .. Len(list) /\ j \in Nat /\ i \in Nat /\ j < i
      BY <1>1, <3>1
    <3>3. i <= j
      BY ZenonT(30), <2>3, <2>4, <3>2
    <3> QED
      BY <3>2, <3>3
  <2>5. i \in DOMAIN list /\ list[i] = e
    BY ZenonT(30), <1>1, <2>3
  <2> QED
    BY ZenonT(30), <1>5, <2>4, <2>5
<1> HIDE DEF I
<1>6. PICK at \in Seq(I) :
             /\ Len(at) = Cardinality(I) /\ Range(at) = I /\ Cardinality(I) \in Nat
             /\ \A i, j \in 1 .. Len(at) : i < j => at[i] < at[j]
             /\ At(list, I) \in Seq(Events) /\ Len(At(list, I)) = Len(at)
             /\ \A k \in 1 .. Len(at) : At(list, I)[k] = list[at[k]] /\ at[k] \in I
  BY ZenonT(30), <1>2, AtValues
<1>7. /\ s \in Seq(Events) /\ Len(s) = Len(at) /\ Len(at) \in Nat
      /\ \A k \in 1 .. Len(at) : s[k] = list[at[k]] /\ at[k] \in I
  BY ZenonT(30), <1>6
<1>8. r = Take(s, f.limit)
  BY ZenonT(30) DEF Result, I
<1> HIDE DEF s, r
<1>9. DOMAIN s = 1 .. Len(at)
  BY <1>7
<1>10. ASSUME NEW i \in 1 .. Len(at), NEW j \in 1 .. Len(at), i < j
       PROVE  s[i] # s[j]
  <2>1. at[i] < at[j]
    BY ZenonT(30), <1>6, <1>10
  <2>2. /\ at[i] \in I /\ s[i] = list[at[i]]
        /\ at[j] \in I /\ s[j] = list[at[j]]
    BY ZenonT(30), <1>7
  <2> QED
    BY ZenonT(30), <1>3, <2>1, <2>2
<1>11. /\ r \in Seq(Events) /\ Len(r) <= f.limit /\ Len(r) <= Len(s)
       /\ \A i \in 1 .. Len(r) : r[i] = s[i]
       /\ Range(r) \subseteq Range(s)
       /\ Len(s) <= f.limit => r = s
  BY ZenonT(30), <1>7, <1>8, TakeValues
<1>12. IsInjective(r)
  <2> SUFFICES ASSUME NEW i \in DOMAIN r, NEW j \in DOMAIN r, r[i] = r[j] PROVE i = j
    BY ZenonT(30) DEF IsInjective
  <2>1. i \in 1 .. Len(r) /\ j \in 1 .. Len(r) /\ i \in 1 .. Len(at) /\ j \in 1 .. Len(at)
    BY <1>7, <1>11
  <2>2. s[i] = s[j]
    <3>1. r[i] = s[i] /\ r[j] = s[j]
      BY ZenonT(30), <1>11, <2>1
    <3> QED
      BY ZenonT(30), <3>1
  <2>3. ~(i < j) /\ ~(j < i)
    BY ZenonT(30), <1>10, <2>1, <2>2
  <2> QED
    BY <2>1, <2>3
<1>13. \A e \in Range(r) : e \in Range(list) /\ Conditions(f, e)
  <2>1. ASSUME NEW e \in Range(s) PROVE e \in Range(list) /\ Conditions(f, e)
    <3>1. PICK k \in 1 .. Len(at) : e = s[k]
      BY ZenonT(30), <1>9 DEF Range
    <3>2. s[k] = list[at[k]] /\ at[k] \in I
      BY ZenonT(30), <1>7
    <3> QED
      BY ZenonT(30), <1>4, <3>1, <3>2
  <2> QED
    BY ZenonT(30), <1>11, <2>1
<1>14. ASSUME f.limit >= Cardinality(Events), NEW e \in Range(list), Conditions(f, e)
       PROVE  e \in Range(r)
  <2>1. s \in Injection(1 .. Len(at), Events)
    <3>1. s \in [1 .. Len(at) -> Events]
      BY <1>7, <1>9
    <3>2. ASSUME NEW i \in 1 .. Len(at), NEW j \in 1 .. Len(at), s[i] = s[j] PROVE i = j
      <4>1. ~(i < j) /\ ~(j < i)
        BY ZenonT(30), <1>10, <3>2
      <4> QED
        BY <4>1, <1>7
    <3> QED
      BY ZenonT(30), <3>1, <3>2 DEF Injection, IsInjective
  <2>2. IsFiniteSet(Events) /\ Cardinality(Events) \in Nat
    BY ZenonT(30), EventsFinite, StoreAssumption
  <2>3. Cardinality(1 .. Len(at)) <= Cardinality(Events)
    BY ZenonT(30), <2>1, <2>2, FS_Injection
  <2>4. Cardinality(1 .. Len(at)) = Len(at)
    <3>1. /\ 1 \in Int /\ Len(at) \in Int
          /\ Len(at) = IF 1 > Len(at) THEN 0 ELSE Len(at) - 1 + 1
      BY <1>7
    <3> QED
      BY ZenonT(30), <3>1, FS_Interval
  <2>5. r = s
    BY <1>7, <1>11, <1>14, <2>2, <2>3, <2>4
  <2>6. PICK i \in I : e = list[i]
    BY ZenonT(30), <1>5, <1>14
  <2>7. i \in Range(at)
    BY ZenonT(30), <1>6
  <2>8. PICK k \in 1 .. Len(at) : i = at[k]
    <3>1. DOMAIN at = 1 .. Len(at)
      BY <1>6
    <3> QED
      BY ZenonT(30), <2>7, <3>1 DEF Range
  <2>9. e = s[k]
    BY ZenonT(30), <1>7, <2>6, <2>8
  <2> QED
    BY ZenonT(30), <1>9, <2>5, <2>9 DEF Range
<1> QED
  BY ZenonT(30), <1>11, <1>12, <1>13, <1>14 DEF r

\* The newest events, if they all pass, are the result.
LEMMA NewestResult ==
    ASSUME NEW f, f.limit \in Nat, NEW X \in SUBSET Events, \A e \in X : Conditions(f, e)
    PROVE  LET list == Take(NewestFirst(X), f.limit) IN Result(f, list) = list
<1> DEFINE s == NewestFirst(X)
           list == Take(s, f.limit)
           I == {i \in DOMAIN list : /\ Conditions(f, list[i])
                                     /\ \A j \in 1 .. i - 1 : list[j] # list[i]}
<1>1. /\ s \in Seq(X) /\ Range(s) = X
      /\ \A i, j \in 1 .. Len(s) : i < j => s[i] # s[j]
  BY ZenonT(30), NewestFirstLists DEF Newest
<1> HIDE DEF s
<1>2. /\ list \in Seq(X) /\ Len(list) <= Len(s) /\ \A i \in 1 .. Len(list) : list[i] = s[i]
      /\ Take(list, f.limit) = list
  BY ZenonT(30), <1>1, TakeValues
<1>3. Result(f, list) = Take(At(list, I), f.limit)
  BY ZenonT(30) DEF Result
<1> HIDE DEF list
<1>4. /\ DOMAIN list = 1 .. Len(list) /\ Len(list) \in Nat /\ Len(s) \in Nat
      /\ \A i \in 1 .. Len(list) : i \in 1 .. Len(s) /\ list[i] \in X
  BY <1>1, <1>2
<1>5. ASSUME NEW i \in DOMAIN list, NEW j \in 1 .. i - 1
      PROVE  list[j] # list[i]
  <2>1. i \in 1 .. Len(list) /\ j \in 1 .. Len(list) /\ j < i
    BY <1>4
  <2>2. list[i] = s[i] /\ list[j] = s[j] /\ i \in 1 .. Len(s) /\ j \in 1 .. Len(s)
    BY ZenonT(30), <1>2, <1>4, <2>1
  <2> QED
    BY ZenonT(30), <1>1, <2>1, <2>2
<1>6. I = DOMAIN list
  BY ZenonT(30), <1>4, <1>5
<1> HIDE DEF I
<1>7. At(list, DOMAIN list) = list
  BY ZenonT(30), <1>2, AtAll
<1> QED
  BY ZenonT(30), <1>2, <1>3, <1>6, <1>7 DEF list, s

-----------------------------------------------------------------------------
(* The invariant of a query. *)

\* The events that are collected, or that a lookup to come may find.
Pending(p, list) ==
    Range(list) \cup {e \in Events : \E i \in 1 .. Len(p) : e \in LookSet(Events, p[i])}

\* No shard is merged into a heap that has events of it.
Apart(p, list) ==
    \A i \in 1 .. Len(p) : p[i].index = "shard" => \A e \in Range(list) : Shard[e] # p[i].key

Reading ==
    /\ throughout \subseteq stored /\ stored \subseteq seen /\ answer = <<>>
    /\ gone \subseteq Out
    /\ Range(found) \subseteq seen
    /\ PlanType(plan) /\ Apart(plan, found) /\ (plan = <<>> => found = <<>>)
    /\ Plain(filter) =>
         \A e \in Pending(plan, found) : Conditions(filter, e) => MatchesEvent(filter, e)
    /\ filter.limit >= Cardinality(Events) /\ HexTags(filter) =>
         \A e \in throughout : MatchesEvent(filter, e) => e \in Pending(plan, found)
    /\ OneCondition(filter) /\ HexTags(filter) => found = <<>> /\ OneLookup(filter, plan)

HistoryInv ==
    /\ throughout \subseteq seen /\ seen \subseteq Events
    /\ seen \cap gone = {}

QueryType ==
    /\ qpc \in {"idle", "read", "done"} /\ found \in Seq(Events) /\ answer \in Seq(Events)
    /\ qpc # "idle" => FilterType(filter)

Answered == AnswerComplete /\ PlainAnswerMatches /\ AnswerBounded /\ AnswerNewest

QueryInv == HistoryInv /\ QueryType /\ (qpc = "read" => Reading) /\ Answered

LEMMA EmptySeq ==
    ASSUME NEW X, NEW s \in Seq(X), Len(s) = 0
    PROVE  s = <<>>
<1>1. s \in [{} -> X]
  OBVIOUS
<1>2. <<>> \in [{} -> X]
  OBVIOUS
<1>3. s = [i \in {} |-> s[i]] /\ <<>> = [i \in {} |-> <<>>[i]]
  BY ZenonT(30), <1>1, <1>2
<1>4. [i \in {} |-> s[i]] = [i \in {} |-> <<>>[i]]
  BY ZenonT(30)
<1> QED
  BY ZenonT(30), <1>3, <1>4

LEMMA TailFacts ==
    ASSUME NEW p, PlanType(p), p # <<>>
    PROVE  /\ Head(p) = p[1] /\ Len(p) \in Nat /\ 1 \in 1 .. Len(p) /\ p[1].index \in Indexes
           /\ PlanType(Tail(p)) /\ Len(Tail(p)) = Len(p) - 1
           /\ \A i \in 1 .. Len(Tail(p)) : i + 1 \in 1 .. Len(p) /\ Tail(p)[i] = p[i + 1] /\ i + 1 # 1
           /\ \A i \in 1 .. Len(p) : i # 1 => i - 1 \in 1 .. Len(Tail(p)) /\ Tail(p)[i - 1] = p[i]
           /\ Tail(p) = <<>> <=> Len(p) = 1
<1> DEFINE X == Range(p)
<1>1. p \in Seq(X)
  BY ZenonT(30) DEF PlanType, IsSeq
<1> HIDE DEF X
<1>2. /\ Head(p) = p[1] /\ Len(p) \in Nat /\ 1 \in 1 .. Len(p)
      /\ Tail(p) \in Seq(X) /\ Len(Tail(p)) = Len(p) - 1
  BY <1>1
<1>3. \A i \in 1 .. Len(Tail(p)) : i + 1 \in 1 .. Len(p) /\ Tail(p)[i] = p[i + 1] /\ i + 1 # 1
  BY <1>1
<1>4. \A i \in 1 .. Len(p) : i # 1 => i - 1 \in 1 .. Len(Tail(p)) /\ Tail(p)[i - 1] = p[i]
  BY <1>1
<1> DEFINE t == Tail(p)
<1>5. t = <<>> <=> Len(p) = 1
  <2> HIDE DEF t
  <2>1. t \in Seq(X) /\ Len(t) = Len(p) - 1
    BY ZenonT(30), <1>2 DEF t
  <2>2. t = <<>> => Len(t) = 0
    OBVIOUS
  <2>3. Len(t) = 0 => t = <<>>
    BY ZenonT(30), <2>1, EmptySeq
  <2> QED
    BY <1>2, <2>1, <2>2, <2>3
<1>6. t \in Seq(Range(t))
  <2> HIDE DEF t
  <2>0. t \in Seq(X)
    BY ZenonT(30), <1>2 DEF t
  <2>1. Len(t) \in Nat /\ t \in [1 .. Len(t) -> X]
    BY <2>0
  <2>2. t \in [1 .. Len(t) -> Range(t)]
    BY ZenonT(30), <2>1 DEF Range
  <2> QED
    BY <2>1, <2>2
<1>7. ASSUME NEW i \in 1 .. Len(t), NEW j \in 1 .. Len(t), i # j
      PROVE  i + 1 # j + 1
  BY <1>2, <1>7
<1>8. PlanType(t)
  <2>1. \A i \in 1 .. Len(t) : t[i].index \in Indexes
    BY ZenonT(30), <1>3 DEF PlanType
  <2>2. ASSUME NEW i \in 1 .. Len(t), NEW j \in 1 .. Len(t)
        PROVE  t[i].index = t[j].index /\ (t[i].index = "shard" /\ i # j => t[i].key # t[j].key)
    <3>1. PICK a \in 1 .. Len(p) : a = i + 1 /\ t[i] = p[a]
      BY ZenonT(30), <1>3
    <3>2. PICK b \in 1 .. Len(p) : b = j + 1 /\ t[j] = p[b]
      BY ZenonT(30), <1>3
    <3>3. i # j => a # b
      BY ZenonT(30), <1>7, <3>1, <3>2
    <3>4. p[a].index = p[b].index /\ (p[a].index = "shard" /\ a # b => p[a].key # p[b].key)
      BY ZenonT(30) DEF PlanType
    <3> HIDE DEF t
    <3> QED
      BY ZenonT(30), <3>1, <3>2, <3>3, <3>4
  <2> QED
    BY ZenonT(30), <1>6, <2>1, <2>2 DEF PlanType, IsSeq
<1> QED
  BY ZenonT(30), <1>2, <1>3, <1>4, <1>5, <1>8 DEF PlanType

\* What one lookup does to the events that are pending.
LEMMA PendingAfter ==
    ASSUME NEW S \in SUBSET Events, NEW f, f.limit \in Nat, NEW p, PlanType(p), p # <<>>,
           NEW list \in Seq(Events), Apart(p, list)
    PROVE  LET more == Collected(S, f, p[1], list)
           IN  /\ more \in Seq(Events) /\ Range(more) \subseteq Range(list) \cup S
               /\ Apart(Tail(p), more)
               /\ Pending(Tail(p), more) \subseteq Pending(p, list)
               /\ f.limit >= Cardinality(Events) =>
                    \A e \in Pending(p, list) \cap S :
                        MatchesEvent(f, e) => e \in Pending(Tail(p), more)
<1> DEFINE more == Collected(S, f, p[1], list)
           look == p[1]
           t == Tail(p)
<1>1. /\ 1 \in 1 .. Len(p) /\ look.index \in Indexes
      /\ \A i \in 1 .. Len(t) : i + 1 \in 1 .. Len(p) /\ t[i] = p[i + 1] /\ i + 1 # 1
      /\ \A i \in 1 .. Len(p) : i # 1 => i - 1 \in 1 .. Len(t) /\ t[i - 1] = p[i]
  BY ZenonT(30), TailFacts
<1>2. look.index = "shard" => \A e \in Range(list) : Shard[e] # look.key
  BY ZenonT(30), <1>1 DEF Apart
<1>3. /\ more \in Seq(Events) /\ Range(more) \subseteq Range(list) \cup LookSet(S, look)
      /\ f.limit >= Cardinality(Events) => Range(list) \cup YoungSet(S, f, look) \subseteq Range(more)
  BY ZenonT(30), <1>1, <1>2, CollectedFacts
<1>4. LookSet(S, look) = S \cap LookSet(Events, look)
  BY ZenonT(30), <1>1, LookSetIn
<1>5. LookSet(Events, look) \subseteq Events
  BY ZenonT(30), <1>1, LookSetIn
<1> HIDE DEF more, look, t
<1>6. Range(more) \subseteq Range(list) \cup S
  BY ZenonT(30), <1>3, <1>4
<1>7. Apart(t, more)
  <2> SUFFICES ASSUME NEW i \in 1 .. Len(t), t[i].index = "shard", NEW e \in Range(more)
               PROVE  Shard[e] # t[i].key
    BY ZenonT(30) DEF Apart
  <2>1. PICK k \in 1 .. Len(p) : t[i] = p[k] /\ k # 1
    BY ZenonT(30), <1>1
  <2>2. CASE e \in Range(list)
    BY ZenonT(30), <2>1, <2>2 DEF Apart
  <2>3. CASE e \in LookSet(S, look)
    <3>0. /\ p[k].index = p[1].index
          /\ p[k].index = "shard" /\ k # 1 => p[k].key # p[1].key
      BY ZenonT(30), <1>1 DEF PlanType
    <3>1. look.index = "shard" /\ look.key # p[k].key
      BY ZenonT(30), <2>1, <3>0 DEF look
    <3>2. Shard[e] = look.key
      BY ZenonT(30), <2>3, <3>1 DEF LookSet, IndexSet
    <3> QED
      BY ZenonT(30), <2>1, <3>1, <3>2
  <2> QED
    BY ZenonT(30), <1>3, <2>2, <2>3
<1>8. Pending(t, more) \subseteq Pending(p, list)
  <2>1. Range(more) \subseteq Pending(p, list)
    BY ZenonT(30), <1>1, <1>3, <1>4, <1>5 DEF Pending, look
  <2>2. ASSUME NEW e \in Events, NEW i \in 1 .. Len(t), e \in LookSet(Events, t[i])
        PROVE  e \in Pending(p, list)
    <3>1. PICK k \in 1 .. Len(p) : t[i] = p[k]
      BY ZenonT(30), <1>1
    <3> QED
      BY ZenonT(30), <2>2, <3>1 DEF Pending
  <2> QED
    BY ZenonT(30), <2>1, <2>2 DEF Pending
<1>9. ASSUME f.limit >= Cardinality(Events), NEW e \in Pending(p, list) \cap S, MatchesEvent(f, e)
      PROVE  e \in Pending(t, more)
  <2>1. CASE e \in Range(list)
    BY ZenonT(30), <1>3, <1>9, <2>1 DEF Pending
  <2>2. CASE e \in LookSet(Events, look)
    <3>1. e \in YoungSet(S, f, look)
      BY ZenonT(30), <1>4, <1>9, <2>2 DEF YoungSet, Young, MatchesEvent, InTime
    <3> QED
      BY ZenonT(30), <1>3, <1>9, <3>1 DEF Pending
  <2>3. ASSUME NEW i \in 1 .. Len(p), i # 1, e \in LookSet(Events, p[i])
        PROVE  e \in Pending(t, more)
    <3>1. PICK k \in 1 .. Len(t) : t[k] = p[i]
      BY ZenonT(30), <1>1, <2>3
    <3> QED
      BY ZenonT(30), <2>3, <3>1 DEF Pending
  <2> QED
    BY ZenonT(30), <1>9, <2>1, <2>2, <2>3 DEF Pending, look
<1> QED
  BY ZenonT(30), <1>3, <1>6, <1>7, <1>8, <1>9 DEF more, look, t

LEMMA NonePending ==
    ASSUME NEW list
    PROVE  Pending(<<>>, list) = Range(list)
<1>1. \A i \in 1 .. Len(<<>>) : FALSE
  OBVIOUS
<1> QED
  BY ZenonT(30), <1>1 DEF Pending

\* The answer made of the candidates of the last lookup.
LEMMA LastResult ==
    ASSUME NEW S \in SUBSET Events, NEW f, f.limit \in Nat, NEW p, PlanType(p), p # <<>>,
           Tail(p) = <<>>, NEW list \in Seq(Events), Apart(p, list)
    PROVE  LET more == Collected(S, f, p[1], list)
               r == Result(f, IF p[1].index = "shard" THEN Reverse(more) ELSE more)
           IN  /\ r \in Seq(Events) /\ IsInjective(r) /\ Len(r) <= f.limit
               /\ \A e \in Range(r) : /\ e \in Pending(p, list) /\ e \in Range(list) \cup S
                                      /\ Conditions(f, e)
               /\ f.limit >= Cardinality(Events) =>
                    \A e \in Pending(p, list) \cap S : MatchesEvent(f, e) => e \in Range(r)
<1> DEFINE more == Collected(S, f, p[1], list)
           cand == IF p[1].index = "shard" THEN Reverse(more) ELSE more
           r == Result(f, cand)
<1>1. /\ more \in Seq(Events) /\ Range(more) \subseteq Range(list) \cup S
      /\ Pending(Tail(p), more) \subseteq Pending(p, list)
      /\ f.limit >= Cardinality(Events) =>
           \A e \in Pending(p, list) \cap S : MatchesEvent(f, e) => e \in Pending(Tail(p), more)
  BY ZenonT(30), PendingAfter
<1> HIDE DEF more
<1>2. Pending(Tail(p), more) = Range(more)
  BY ZenonT(30), NonePending
<1>3. cand \in Seq(Events) /\ Range(cand) = Range(more)
  BY ZenonT(30), <1>1, ReverseValues
<1> HIDE DEF cand
<1>5. /\ r \in Seq(Events) /\ IsInjective(r) /\ Len(r) <= f.limit
      /\ \A e \in Range(r) : e \in Range(cand) /\ Conditions(f, e)
      /\ f.limit >= Cardinality(Events) =>
           \A e \in Range(cand) : Conditions(f, e) => e \in Range(r)
  BY ZenonT(30), <1>3, ResultFacts
<1> HIDE DEF r
<1>6. ASSUME f.limit >= Cardinality(Events), NEW e \in Pending(p, list) \cap S, MatchesEvent(f, e)
      PROVE  e \in Range(r)
  <2>1. e \in Range(cand)
    BY ZenonT(30), <1>1, <1>2, <1>3, <1>6
  <2> QED
    BY ZenonT(30), <1>5, <1>6, <2>1, MatchImplies
<1> QED
  BY ZenonT(30), <1>1, <1>2, <1>3, <1>5, <1>6 DEF more, cand, r

-----------------------------------------------------------------------------
(* The steps of the query. *)

LEMMA RequestInv ==
    ASSUME Inv, QueryInv, NEW f \in Filters, Request(f),
           gone' = IF qpc = "read" THEN gone ELSE Out, UNCHANGED <<store, pc, ev>>
    PROVE  QueryInv'
<1> DEFINE g == Prepare(f)
<1>1. /\ qpc = "idle" /\ qpc' = "read" /\ filter' = g /\ plan' \in Plans(g)
      /\ found' = <<>> /\ answer' = <<>> /\ throughout' = stored /\ seen' = stored
      /\ gone' = Out /\ stored' = stored /\ Out' = Out
  BY ZenonT(30) DEF Request, store, Out
<1>2. FilterType(g)
  BY ZenonT(30), PreparedType
<1>3. stored \in SUBSET Events /\ stored \cap Out = {}
  BY ZenonT(30) DEF Inv, StoreInv, Out
<1> HIDE DEF g
<1>4. HistoryInv'
  BY ZenonT(30), <1>1, <1>3 DEF HistoryInv
<1>5. /\ <<>> \in Seq(Events) /\ Range(<<>>) = {}
  BY DEF Range
<1>6. QueryType'
  BY ZenonT(30), <1>1, <1>2, <1>5 DEF QueryType
<1>7. Reading'
  <2> DEFINE p == plan'
  <2>1. PlanType(p)
    BY ZenonT(30), <1>1, <1>2, PlanTyped
  <2>2. ASSUME Plain(g), NEW e \in Pending(p, <<>>), Conditions(g, e)
        PROVE  MatchesEvent(g, e)
    <3>1. PICK i \in 1 .. Len(p) : e \in LookSet(Events, p[i])
      BY ZenonT(30), <1>5 DEF Pending
    <3> QED
      BY ZenonT(30), <1>1, <1>2, <2>2, <3>1, PlanImplied
  <2>3. ASSUME HexTags(g), NEW e \in stored, MatchesEvent(g, e)
        PROVE  e \in Pending(p, <<>>)
    <3>1. e \in Events /\ \E i \in 1 .. Len(p) : e \in LookSet(Events, p[i])
      BY ZenonT(30), <1>1, <1>2, <1>3, <2>3, PlanCovers
    <3> QED
      BY ZenonT(30), <3>1 DEF Pending
  <2>4. OneCondition(g) /\ HexTags(g) => OneLookup(g, p)
    BY ZenonT(30), <1>1, <1>2, OneConditionPlan
  <2>5. Apart(p, <<>>)
    BY ZenonT(30), <1>5 DEF Apart
  <2> HIDE DEF p
  <2>6. /\ PlanType(plan') /\ Apart(plan', found')
        /\ Plain(filter') =>
             \A e \in Pending(plan', found') : Conditions(filter', e) => MatchesEvent(filter', e)
        /\ HexTags(filter') =>
             \A e \in throughout' : MatchesEvent(filter', e) => e \in Pending(plan', found')
        /\ OneCondition(filter') /\ HexTags(filter') => OneLookup(filter', plan')
    BY ZenonT(30), <1>1, <2>1, <2>2, <2>3, <2>4, <2>5 DEF p
  <2>7. Range(found') \subseteq seen' /\ gone' \subseteq Out'
    BY ZenonT(30), <1>1, <1>5
  <2> QED
    BY ZenonT(30), <1>1, <2>6, <2>7 DEF Reading
<1>8. Answered'
  BY ZenonT(30), <1>1 DEF Answered, AnswerComplete, PlainAnswerMatches, AnswerBounded, AnswerNewest
<1> QED
  BY ZenonT(30), <1>4, <1>6, <1>7, <1>8 DEF QueryInv

LEMMA NothingInv ==
    ASSUME QueryInv, ReadNothing, UNCHANGED <<store, gone>>
    PROVE  QueryInv'
<1>1. /\ qpc = "read" /\ plan = <<>> /\ qpc' = "done"
      /\ UNCHANGED <<filter, plan, found, answer, throughout, seen, stored, tombs, gone>>
  BY ZenonT(30) DEF ReadNothing, store
<1>2. Reading /\ HistoryInv /\ QueryType
  BY ZenonT(30), <1>1 DEF QueryInv
<1>3. HistoryInv'
  BY ZenonT(30), <1>1, <1>2 DEF HistoryInv
<1>4. QueryType'
  BY ZenonT(30), <1>1, <1>2 DEF QueryType
<1>5. answer = <<>> /\ found = <<>> /\ Pending(plan, found) = {} /\ Range(answer) = {}
  <2>1. Range(<<>>) = {}
    BY DEF Range
  <2>2. answer = <<>> /\ found = <<>>
    BY ZenonT(30), <1>1, <1>2 DEF Reading
  <2> QED
    BY ZenonT(30), <1>1, <2>1, <2>2, NonePending
<1>6. AnswerComplete'
  BY ZenonT(30), <1>1, <1>2, <1>5 DEF Reading, AnswerComplete
<1>7. PlainAnswerMatches'
  BY ZenonT(30), <1>1, <1>5 DEF PlainAnswerMatches, AnswerMatches
<1>8. AnswerBounded'
  <2>1. filter.limit \in Nat
    BY ZenonT(30), <1>1, <1>2 DEF QueryType, FilterType
  <2>2. IsInjective(<<>>) /\ Len(<<>>) <= filter.limit
    BY <2>1 DEF IsInjective
  <2> QED
    BY ZenonT(30), <1>1, <1>5, <2>2 DEF AnswerBounded
<1>9. AnswerNewest'
  <2>1. ~(OneCondition(filter) /\ HexTags(filter))
    <3>1. Len(plan) # 1
      BY <1>1
    <3> QED
      BY ZenonT(30), <1>2, <3>1 DEF Reading, OneLookup
  <2> QED
    BY ZenonT(30), <1>1, <2>1 DEF AnswerNewest
<1> QED
  BY ZenonT(30), <1>1, <1>3, <1>4, <1>6, <1>7, <1>8, <1>9 DEF QueryInv, Answered

LEMMA ReadStep ==
    ASSUME QueryInv, Read
    PROVE  LET more == Collected(stored, filter, plan[1], found)
           IN  /\ qpc = "read" /\ plan # <<>> /\ plan' = Tail(plan)
               /\ filter' = filter /\ throughout' = throughout /\ seen' = seen
               /\ Tail(plan) # <<>> => found' = more /\ answer' = <<>> /\ qpc' = "read"
               /\ Tail(plan) = <<>> =>
                    /\ found' = <<>> /\ qpc' = "done"
                    /\ answer' = Result(filter, IF plan[1].index = "shard" THEN Reverse(more) ELSE more)
<1>1. qpc = "read" /\ plan # <<>>
  BY ZenonT(30) DEF Read
<1>2. PlanType(plan)
  BY ZenonT(30), <1>1 DEF QueryInv, Reading
<1>3. Head(plan) = plan[1]
  BY ZenonT(30), <1>1, <1>2, TailFacts
<1> QED
  BY ZenonT(30), <1>3 DEF Read, Collected

LEMMA ReadMoreInv ==
    ASSUME QueryInv, Read, Tail(plan) # <<>>, UNCHANGED <<store, gone, pc, ev>>
    PROVE  QueryInv'
<1> DEFINE more == Collected(stored, filter, plan[1], found)
<1>1. /\ qpc = "read" /\ qpc' = "read" /\ plan # <<>> /\ plan' = Tail(plan)
      /\ found' = more /\ answer' = <<>>
      /\ filter' = filter /\ throughout' = throughout /\ seen' = seen
      /\ stored' = stored /\ tombs' = tombs /\ gone' = gone
  <2>1. stored' = stored /\ tombs' = tombs /\ gone' = gone
    BY ZenonT(30) DEF store
  <2> QED
    BY ZenonT(30), <2>1, ReadStep
<1>2. /\ Reading /\ HistoryInv /\ QueryType /\ FilterType(filter) /\ stored \in SUBSET Events
      /\ found \in Seq(Events) /\ filter.limit \in Nat
  <2>1. Reading /\ HistoryInv /\ QueryType
    BY ZenonT(30), <1>1 DEF QueryInv
  <2>2. stored \in SUBSET Events
    BY ZenonT(30), <2>1 DEF Reading, HistoryInv
  <2> QED
    BY ZenonT(30), <1>1, <2>1, <2>2 DEF QueryType, FilterType
<1>3. PlanType(plan) /\ Apart(plan, found)
  BY ZenonT(30), <1>2 DEF Reading
<1>4. /\ more \in Seq(Events) /\ Range(more) \subseteq Range(found) \cup stored
      /\ Apart(Tail(plan), more)
      /\ Pending(Tail(plan), more) \subseteq Pending(plan, found)
      /\ filter.limit >= Cardinality(Events) =>
           \A e \in Pending(plan, found) \cap stored :
               MatchesEvent(filter, e) => e \in Pending(Tail(plan), more)
  BY ZenonT(30), <1>1, <1>2, <1>3, PendingAfter
<1> HIDE DEF more
<1>5. HistoryInv'
  BY ZenonT(30), <1>1, <1>2 DEF HistoryInv
<1>6. QueryType'
  <2>1. <<>> \in Seq(Events)
    OBVIOUS
  <2> QED
    BY ZenonT(30), <1>1, <1>2, <1>4, <2>1 DEF QueryType
<1>7. Reading'
  <2>1. PlanType(plan') /\ plan' # <<>> /\ Apart(plan', found')
    BY ZenonT(30), <1>1, <1>3, <1>4, TailFacts
  <2>2. throughout' \subseteq stored' /\ stored' \subseteq seen' /\ Range(found') \subseteq seen'
    BY ZenonT(30), <1>1, <1>2, <1>4 DEF Reading
  <2>3. ASSUME Plain(filter'), NEW e \in Pending(plan', found'), Conditions(filter', e)
        PROVE  MatchesEvent(filter', e)
    BY ZenonT(30), <1>1, <1>2, <1>4, <2>3 DEF Reading
  <2>4. ASSUME filter'.limit >= Cardinality(Events), HexTags(filter'), NEW e \in throughout',
               MatchesEvent(filter', e)
        PROVE  e \in Pending(plan', found')
    <3>1. e \in Pending(plan, found) \cap stored
      BY ZenonT(30), <1>1, <1>2, <2>4 DEF Reading
    <3> QED
      BY ZenonT(30), <1>1, <1>4, <2>4, <3>1
  <2>5. ~(OneCondition(filter') /\ HexTags(filter'))
    <3>1. Len(plan) # 1
      BY ZenonT(30), <1>1, <1>3, TailFacts
    <3> QED
      BY ZenonT(30), <1>1, <1>2, <3>1 DEF Reading, OneLookup
  <2>6. gone' \subseteq Out'
    BY ZenonT(30), <1>1, <1>2 DEF Reading, Out
  <2> QED
    BY ZenonT(30), <1>1, <2>1, <2>2, <2>3, <2>4, <2>5, <2>6 DEF Reading
<1>8. Answered'
  BY ZenonT(30), <1>1 DEF Answered, AnswerComplete, PlainAnswerMatches, AnswerBounded, AnswerNewest
<1> QED
  BY ZenonT(30), <1>5, <1>6, <1>7, <1>8 DEF QueryInv

LEMMA ReadLastInv ==
    ASSUME QueryInv, Read, Tail(plan) = <<>>, UNCHANGED <<store, gone>>
    PROVE  QueryInv'
<1> DEFINE more == Collected(stored, filter, plan[1], found)
<1>1. /\ qpc = "read" /\ qpc' = "done" /\ plan # <<>> /\ plan' = Tail(plan) /\ found' = <<>>
      /\ answer' = Result(filter, IF plan[1].index = "shard" THEN Reverse(more) ELSE more)
      /\ filter' = filter /\ throughout' = throughout /\ seen' = seen
      /\ stored' = stored /\ tombs' = tombs /\ gone' = gone
  <2>1. stored' = stored /\ tombs' = tombs /\ gone' = gone
    BY ZenonT(30) DEF store
  <2> QED
    BY ZenonT(30), <2>1, ReadStep
<1>2. /\ Reading /\ HistoryInv /\ QueryType /\ FilterType(filter) /\ stored \in SUBSET Events
      /\ found \in Seq(Events) /\ filter.limit \in Nat
  <2>1. Reading /\ HistoryInv /\ QueryType
    BY ZenonT(30), <1>1 DEF QueryInv
  <2>2. stored \in SUBSET Events
    BY ZenonT(30), <2>1 DEF Reading, HistoryInv
  <2> QED
    BY ZenonT(30), <1>1, <2>1, <2>2 DEF QueryType, FilterType
<1>3. PlanType(plan) /\ Apart(plan, found)
  BY ZenonT(30), <1>2 DEF Reading
<1>4. /\ answer' \in Seq(Events) /\ IsInjective(answer') /\ Len(answer') <= filter.limit
      /\ \A e \in Range(answer') : /\ e \in Pending(plan, found) /\ e \in Range(found) \cup stored
                                   /\ Conditions(filter, e)
      /\ filter.limit >= Cardinality(Events) =>
           \A e \in Pending(plan, found) \cap stored : MatchesEvent(filter, e) => e \in Range(answer')
  <2> DEFINE r == Result(filter, IF plan[1].index = "shard" THEN Reverse(more) ELSE more)
  <2>1. /\ r \in Seq(Events) /\ IsInjective(r) /\ Len(r) <= filter.limit
        /\ \A e \in Range(r) : /\ e \in Pending(plan, found) /\ e \in Range(found) \cup stored
                               /\ Conditions(filter, e)
        /\ filter.limit >= Cardinality(Events) =>
             \A e \in Pending(plan, found) \cap stored : MatchesEvent(filter, e) => e \in Range(r)
    BY ZenonT(30), <1>1, <1>2, <1>3, LastResult
  <2>2. answer' = r
    BY ZenonT(30), <1>1
  <2> HIDE DEF r
  <2> QED
    BY ZenonT(30), <2>1, <2>2
<1>5. HistoryInv'
  BY ZenonT(30), <1>1, <1>2 DEF HistoryInv
<1>6. QueryType'
  <2>1. <<>> \in Seq(Events)
    OBVIOUS
  <2> QED
    BY ZenonT(30), <1>1, <1>2, <1>4, <2>1 DEF QueryType
<1>7. AnswerComplete'
  <2> SUFFICES ASSUME filter.limit >= Cardinality(Events), HexTags(filter), NEW e \in throughout,
                      MatchesEvent(filter, e)
               PROVE  e \in Range(answer')
    BY ZenonT(30), <1>1 DEF AnswerComplete
  <2>1. e \in Pending(plan, found) \cap stored
    BY ZenonT(30), <1>2 DEF Reading
  <2> QED
    BY ZenonT(30), <1>4, <2>1
<1>8. PlainAnswerMatches'
  BY ZenonT(30), <1>1, <1>2, <1>4 DEF PlainAnswerMatches, AnswerMatches, Reading
<1>9. AnswerBounded'
  <2>1. Range(answer') \subseteq seen
    BY ZenonT(30), <1>2, <1>4 DEF Reading
  <2> QED
    BY ZenonT(30), <1>1, <1>4, <2>1 DEF AnswerBounded
<1>10. AnswerNewest'
  <2> SUFFICES ASSUME throughout = seen, OneCondition(filter), HexTags(filter)
               PROVE  answer' = Take(NewestFirst({e \in seen : MatchesEvent(filter, e)}), filter.limit)
    BY ZenonT(30), <1>1 DEF AnswerNewest
  <2> DEFINE X == {e \in seen : MatchesEvent(filter, e)}
             list == Take(NewestFirst(X), filter.limit)
  <2>1. found = <<>> /\ OneLookup(filter, plan) /\ stored = seen
    BY ZenonT(30), <1>2 DEF Reading
  <2>2. plan[1].index # "shard" /\ plan[1].index \in Indexes
    BY ZenonT(30), <1>1, <1>3, <2>1, TailFacts DEF OneLookup
  <2>3. LookSet(stored, plan[1]) = stored \cap LookSet(Events, plan[1])
    BY ZenonT(30), <1>2, <2>2, LookSetIn
  <2>4. YoungSet(stored, filter, plan[1]) = X
    BY ZenonT(30), <1>2, <2>1, <2>3 DEF YoungSet, OneLookup
  <2>5. X \in SUBSET Events /\ \A e \in X : Conditions(filter, e)
    BY ZenonT(30), <1>2, <2>1, MatchImplies
  <2>6. Fetch(stored, filter, plan[1]) = list
    BY ZenonT(30), <2>4, FetchIs
  <2>7. list \in Seq(Events)
    BY ZenonT(30), <1>2, <2>2, <2>6, FetchFacts
  <2>8. Result(filter, list) = list
    BY ZenonT(30), <1>2, <2>5, NewestResult
  <2> HIDE DEF list
  <2>9. <<>> \o list = list
    BY <2>7
  <2>10. more = list
    BY ZenonT(30), <2>1, <2>2, <2>6, <2>9 DEF Collected
  <2> QED
    BY ZenonT(30), <1>1, <2>2, <2>8, <2>10 DEF list
<1> QED
  BY ZenonT(30), <1>1, <1>5, <1>6, <1>7, <1>8, <1>9, <1>10 DEF QueryInv, Answered

-----------------------------------------------------------------------------
(* The store changes while the query runs. *)

\* An event that is out stays out: no insert of it passes the tombstone check any more.
LEMMA OutGrows ==
    ASSUME Inv, DeletionStep
    PROVE  Out \subseteq Out'
<1> SUFFICES ASSUME NEW e \in Out PROVE e \in Out'
  BY ZenonT(30)
<1>0. e \in tombs /\ e \notin stored /\ \A u \in Tasks : pc[u] = "store" => ev[u] # e
  BY ZenonT(30) DEF Out
<1>1. tombs \subseteq tombs'
  BY ZenonT(30) DEF DeletionStep, Receive, Contains_, Tombstoned, LookupId, LookupCoordinate,
     CheckVersion, DeleteById, Bury, CheckInsert, StoreEvent, Publish, ReadShard, EvictNext, store
<1>2. e \notin stored'
  <2>1. \/ stored' \subseteq stored
        \/ \E t \in Tasks : pc[t] = "store" /\ stored' = AfterInsert(stored, ev[t])
    BY ZenonT(30) DEF DeletionStep, Receive, Contains_, Tombstoned, LookupId, LookupCoordinate,
       CheckVersion, DeleteById, Bury, CheckInsert, StoreEvent, StoreBecomes, Publish, ReadShard,
       EvictNext, store
  <2> QED
    BY ZenonT(30), <1>0, <2>1 DEF AfterInsert
<1>3. ASSUME NEW u \in Tasks, pc'[u] = "store" PROVE ev'[u] # e
  <2>1. CASE pc[u] = "store" /\ ev'[u] = ev[u]
    BY ZenonT(30), <1>0, <2>1
  <2>2. CASE ev[u] \notin tombs /\ ev'[u] = ev[u]
    BY ZenonT(30), <1>0, <2>2
  <2>3. \/ pc[u] = "store" /\ ev'[u] = ev[u]
        \/ ev[u] \notin tombs /\ ev'[u] = ev[u]
    BY ZenonT(30), <1>3 DEF Inv, TaskType, DeletionStep, Receive, Contains_, Tombstoned, LookupId,
       LookupCoordinate, CheckVersion, DeleteById, Bury, CheckInsert, StoreEvent, Publish, ReadShard,
       EvictNext, Goto, Reply, IsDeleted, tasks
  <2> QED
    BY ZenonT(30), <2>1, <2>2, <2>3
<1> QED
  BY ZenonT(30), <1>0, <1>1, <1>2, <1>3 DEF Out

LEMMA AnsweredKept ==
    ASSUME Answered, qpc' = qpc, filter' = filter, answer' = answer,
           qpc = "done" => throughout' = throughout /\ seen' = seen
    PROVE  Answered'
<1>1. AnswerComplete'
  BY ZenonT(30) DEF Answered, AnswerComplete
<1>2. PlainAnswerMatches'
  BY ZenonT(30) DEF Answered, PlainAnswerMatches, AnswerMatches
<1>3. AnswerBounded'
  BY ZenonT(30) DEF Answered, AnswerBounded
<1>4. AnswerNewest'
  BY ZenonT(30) DEF Answered, AnswerNewest
<1> QED
  BY ZenonT(30), <1>1, <1>2, <1>3, <1>4 DEF Answered

LEMMA ObserveInv ==
    ASSUME QueryInv, stored' \subseteq Events, Out \subseteq Out', Observe,
           UNCHANGED <<query, gone>>
    PROVE  QueryInv'
<1>1. /\ qpc' = qpc /\ filter' = filter /\ plan' = plan /\ found' = found /\ answer' = answer
      /\ gone' = gone
  BY ZenonT(30) DEF query
<1>2. /\ qpc = "read" => throughout' = throughout \cap stored' /\ seen' = seen \cup stored'
      /\ qpc # "read" => throughout' = throughout /\ seen' = seen
  BY ZenonT(30) DEF Observe
<1>3. HistoryInv /\ QueryType /\ Answered /\ (qpc = "read" => Reading)
  BY ZenonT(30) DEF QueryInv
<1>4. HistoryInv'
  <2>1. throughout' \subseteq seen' /\ seen' \subseteq Events
    BY ZenonT(30), <1>2, <1>3 DEF HistoryInv
  <2>2. seen' \cap gone' = {}
    <3>1. qpc = "read" => stored' \cap gone = {}
      BY ZenonT(30), <1>3 DEF Reading, Out
    <3> QED
      BY ZenonT(30), <1>1, <1>2, <1>3, <3>1 DEF HistoryInv
  <2> QED
    BY ZenonT(30), <2>1, <2>2 DEF HistoryInv
<1>5. QueryType'
  BY ZenonT(30), <1>1, <1>3 DEF QueryType
<1>6. ASSUME qpc = "read" PROVE Reading'
  <2>1. /\ throughout' \subseteq stored' /\ stored' \subseteq seen' /\ Range(found') \subseteq seen'
        /\ gone' \subseteq Out'
    BY ZenonT(30), <1>1, <1>2, <1>3, <1>6 DEF Reading
  <2>2. throughout' \subseteq throughout
    BY ZenonT(30), <1>2, <1>6
  <2> QED
    BY ZenonT(30), <1>1, <1>3, <1>6, <2>1, <2>2 DEF Reading
<1>7. Answered'
  <2>1. qpc = "done" => qpc # "read"
    BY ZenonT(30)
  <2> QED
    BY ZenonT(30), <1>1, <1>2, <1>3, <2>1, AnsweredKept
<1> QED
  BY ZenonT(30), <1>1, <1>4, <1>5, <1>6, <1>7 DEF QueryInv

LEMMA NextQuery == Inv /\ Inv' /\ QueryInv /\ [Next]_vars => QueryInv'
<1> SUFFICES ASSUME Inv, Inv', QueryInv, [Next]_vars PROVE QueryInv'
  BY ZenonT(30)
<1>0. stored' \subseteq Events
  BY ZenonT(30) DEF Inv, StoreInv
<1>1. CASE DeletionStep /\ Observe /\ UNCHANGED <<query, gone>>
  BY ZenonT(30), <1>0, <1>1, OutGrows, ObserveInv
<1>2. CASE UNCHANGED vars
  <2>1. /\ stored' = stored /\ UNCHANGED <<query, gone>>
        /\ throughout' = throughout /\ seen' = seen /\ Out' = Out
    BY ZenonT(30), <1>2 DEF vars, store, deletion, tasks, Out
  <2>2. qpc = "read" => throughout \subseteq stored /\ stored \subseteq seen
    BY ZenonT(30) DEF QueryInv, Reading
  <2>3. Observe
    BY ZenonT(30), <2>1, <2>2 DEF Observe
  <2> QED
    BY ZenonT(30), <1>0, <2>1, <2>3, ObserveInv
<1> DEFINE Query == /\ gone' = IF qpc = "read" THEN gone ELSE Out
                    /\ UNCHANGED <<store, deletion>>
<1>3. ASSUME NEW f \in Filters, Request(f), Query PROVE QueryInv'
  <2>1. UNCHANGED <<store, pc, ev>>
    BY ZenonT(30), <1>3 DEF deletion, tasks
  <2> QED
    BY ZenonT(30), <1>3, <2>1, RequestInv
<1>4. ASSUME Read \/ ReadNothing, Query PROVE QueryInv'
  <2>1. qpc = "read"
    BY ZenonT(30), <1>4 DEF Read, ReadNothing
  <2>2. UNCHANGED <<store, gone, pc, ev>>
    BY ZenonT(30), <1>4, <2>1 DEF deletion, tasks
  <2> QED
    BY ZenonT(30), <1>4, <2>2, ReadMoreInv, ReadLastInv, NothingInv
<1> HIDE DEF Query
<1>5. \/ DeletionStep /\ Observe /\ UNCHANGED <<query, gone>>
      \/ QueryStep /\ Query
      \/ UNCHANGED vars
  BY ZenonT(30) DEF Next, Query
<1> QED
  BY ZenonT(30), <1>1, <1>2, <1>3, <1>4, <1>5 DEF QueryStep

LEMMA InitQuery == Init => QueryInv
<1> SUFFICES ASSUME Init PROVE QueryInv
  BY ZenonT(30)
<1>1. /\ qpc = "idle" /\ found = <<>> /\ answer = <<>> /\ throughout = {} /\ seen = {} /\ gone = {}
  BY ZenonT(30) DEF Init, QueryInit
<1>2. HistoryInv
  BY ZenonT(30), <1>1 DEF HistoryInv
<1>3. QueryType
  BY <1>1 DEF QueryType
<1>4. Answered
  BY ZenonT(30), <1>1 DEF Answered, AnswerComplete, PlainAnswerMatches, AnswerBounded, AnswerNewest
<1> QED
  BY ZenonT(30), <1>1, <1>2, <1>3, <1>4 DEF QueryInv

LEMMA AlwaysQuery == Spec => []QueryInv
BY InitQuery, NextQuery, AlwaysInv, PTL DEF Spec

-----------------------------------------------------------------------------
(* What an answer holds. *)

\* The store, the tasks and the query keep their types; the store never has two
\* versions of one event.
THEOREM TypeCorrect == Spec => []TypeOK
<1>1. Inv /\ ShapeInv /\ EvictInv /\ QueryInv => TypeOK
  <2> SUFFICES ASSUME Inv, ShapeInv, EvictInv, QueryInv PROVE TypeOK
    BY ZenonT(30)
  <2>1. /\ stored \subseteq Events /\ \A e \in stored : Versions(stored, e) = {}
    BY ZenonT(30) DEF Inv, StoreInv
  <2>2. pc \in [Tasks -> {"idle", "contains", "tombstoned", "walk", "version", "delete",
                          "bury", "insert", "store", "publish"}]
    BY ZenonT(30) DEF Inv, TaskType, Steps
  <2>3. /\ tombs \subseteq Events /\ published \subseteq Events
        /\ \A t \in Tasks : ev[t] = None <=> pc[t] = "idle"
        /\ \A t \in Tasks : target[t] # None <=> pc[t] \in {"version", "delete", "bury"}
    BY ZenonT(30) DEF ShapeInv, Targeting
  <2>4. /\ qpc \in {"idle", "read", "done"} /\ found \in Seq(Events) /\ answer \in Seq(Events)
        /\ throughout \subseteq seen /\ seen \subseteq Events
    BY ZenonT(30) DEF QueryInv, QueryType, HistoryInv
  <2>5. scan \in 0 .. Shards - 1 /\ batch \subseteq Events /\ settled \subseteq stored
    BY ZenonT(30) DEF EvictInv
  <2> QED
    BY ZenonT(30), <2>1, <2>2, <2>3, <2>4, <2>5 DEF TypeOK
<1> QED
  BY <1>1, AlwaysInv, AlwaysShape, AlwaysEvict, AlwaysQuery, PTL

\* query_filter misses no event that was stored all the time and that matches_event
\* passes, however the store changes between its lookups, if the limit is no bar.
THEOREM NothingMissing == Spec => []AnswerComplete
<1>1. QueryInv => AnswerComplete
  BY ZenonT(30) DEF QueryInv, Answered
<1> QED
  BY <1>1, AlwaysQuery, PTL

\* For a plain filter the conditions query_filter skips are those its lookups have
\* tested: what it returns passes matches_event.
THEOREM OnlyMatching == Spec => []PlainAnswerMatches
<1>1. QueryInv => PlainAnswerMatches
  BY ZenonT(30) DEF QueryInv, Answered
<1> QED
  BY <1>1, AlwaysQuery, PTL

\* query_filter returns no event twice, not more than the limit, and none that was
\* not stored at some moment since it started.
THEOREM Bounded == Spec => []AnswerBounded
<1>1. QueryInv => AnswerBounded
  BY ZenonT(30) DEF QueryInv, Answered
<1> QED
  BY <1>1, AlwaysQuery, PTL

\* With one condition, and a store that does not change, query_filter returns the
\* newest events that match, newest first, up to the limit.
THEOREM NewestAnswered == Spec => []AnswerNewest
<1>1. QueryInv => AnswerNewest
  BY ZenonT(30) DEF QueryInv, Answered
<1> QED
  BY <1>1, AlwaysQuery, PTL

\* An event that is tombstoned when query_filter starts, and that no insert past the
\* tombstone check is bringing back, is in no answer: whoever publishes it again
\* meanwhile is refused.
THEOREM DeletedUnanswered == Spec => []DeletedNotAnswered
<1>1. QueryInv => DeletedNotAnswered
  <2> SUFFICES ASSUME QueryInv, qpc = "done" PROVE Range(answer) \cap gone = {}
    BY ZenonT(30) DEF DeletedNotAnswered
  <2>1. Range(answer) \subseteq seen /\ seen \cap gone = {}
    BY ZenonT(30) DEF QueryInv, Answered, AnswerBounded, HistoryInv
  <2> QED
    BY ZenonT(30), <2>1
<1> QED
  BY <1>1, AlwaysQuery, PTL

=============================================================================
