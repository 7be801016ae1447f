------------------------- MODULE PairedWorldsPublished -------------------------
(***************************************************************************)
(* Proofs about PairedWorlds: whatever moves the engine makes, shuffles of  *)
(* two owners' set cards included, what player 0 observes passes the        *)
(* validator before it is written.                                          *)
(*                                                                          *)
(* No two entities have one locator, because a card is told by its place    *)
(* and a shown card of the opponent's hand by its code and the copies       *)
(* before it; every part of the observation is then what the validator      *)
(* asks, and the events that are told are numbered in order and name only   *)
(* cards that were queried.                                                 *)
(***************************************************************************)
EXTENDS PairedWorldsProofs

----------------------------------------------------------------------------
(* Locators that name one entity each.                                      *)

(* A word can name a place, and different words do not mean the same. *)
LEMMA WordIsLocator ==
    ASSUME NEW x
    PROVE  IsLocator(Word(x))
<1>1. Word(x) = <<<<"word", x, 0>>>> /\ Byte(0) = <<0>>
  BY DEF Word, Versioned, Byte
<1>2. Len(Word(x)) = 1 /\ DOMAIN Word(x) = {1} /\ Word(x)[1] = <<"word", x, 0>>
  BY <1>1
<1>3. Len(<<"word", x, 0>>) = 3 /\ Len(<<0>>) = 1
  OBVIOUS
<1> QED
  BY <1>1, <1>2, <1>3 DEF IsLocator

(* A word spells its parts.                                                 *)
LEMMA WordsDiffer ==
    ASSUME NEW x, NEW y, Word(x) = Word(y)
    PROVE  x = y
<1>1. Word(x)[1] = <<"word", x, 0>> /\ Word(y)[1] = <<"word", y, 0>>
  BY DEF Word, Versioned
<1>2. <<"word", x, 0>>[2] = x /\ <<"word", y, 0>>[2] = y
  OBVIOUS
<1> QED
  BY <1>1, <1>2

LongWord(c, z, n, s, e) == Word(<<c, z, n, s, e>>)

(* How a place is spelled: one that is visible, one that is not, and that   *)
(* of a material.                                                           *)
LEMMA SpellingsDiffer ==
    ASSUME NEW c, NEW z, NEW s, NEW d, NEW y, NEW t, NEW a, NEW b
    PROVE  /\ SlotLocator(c, z, s) = SlotLocator(d, y, t) => c = d /\ z = y /\ s = t
           /\ SlotLocator(c, z, s) # LongWord(d, y, t, a, b)
<1>1. \A x : SlotLocator(c, z, s) = Word(x) => <<c, z, 0, s>> = x
  BY WordsDiffer DEF SlotLocator
<1>2. SlotLocator(c, z, s) = SlotLocator(d, y, t) => <<c, z, 0, s>> = <<d, y, 0, t>>
  BY <1>1 DEF SlotLocator
<1>3. <<c, z, 0, s>> = <<d, y, 0, t>> => c = d /\ z = y /\ s = t
  OBVIOUS
<1>4. Len(<<c, z, 0, s>>) = 4 /\ Len(<<d, y, t, a, b>>) = 5
  OBVIOUS
<1>5. SlotLocator(c, z, s) # LongWord(d, y, t, a, b)
  BY <1>1, <1>4 DEF LongWord
<1> QED
  BY <1>2, <1>3, <1>5

(* Nor do two of the longer locators that are not spelled alike.            *)
LEMMA LongSpellingsDiffer ==
    ASSUME NEW c, NEW z, NEW n, NEW s, NEW e, NEW d, NEW y, NEW m, NEW a, NEW b,
           LongWord(c, z, n, s, e) = LongWord(d, y, m, a, b)
    PROVE  c = d /\ z = y /\ n = m /\ s = a /\ e = b
<1>1. <<c, z, n, s, e>> = <<d, y, m, a, b>>
  BY WordsDiffer DEF LongWord
<1> QED
  BY <1>1

(* Of two alike cards of no visible place the later one has the greater     *)
(* ordinal.                                                                 *)
LEMMA OrdinalGrows ==
    ASSUME NEW k \in Seq(Queries), NEW i \in 1..Len(k), NEW j \in 1..Len(k), i < j,
           ~SequenceVisible(k[i], me), k[i].controller = k[j].controller,
           k[i].card.code = k[j].card.code
    PROVE  Ordinal(k, i, me) # Ordinal(k, j, me)
<1>1. PICK A, B : A = Before2(k, i) /\ B = Before2(k, j)
  OBVIOUS
<1>2. Len(k) \in Nat /\ i \in Nat /\ j \in Nat
  OBVIOUS
<1>3. IsFiniteSet(1..(j - 1)) /\ B \subseteq 1..(j - 1)
  <2>1. 1 \in Int /\ j - 1 \in Int
    BY <1>2
  <2>2. IsFiniteSet(1..(j - 1))
    BY <2>1, FS_Interval
  <2>3. B \subseteq 1..(j - 1)
    BY <1>1 DEF Before2
  <2> QED
    BY <2>2, <2>3
<1>4. IsFiniteSet(B)
  BY <1>3, FS_Subset
<1>5. A \subseteq B /\ i \in B /\ i \notin A
  BY <1>1, <1>2 DEF Before2
<1>6. A # B
  BY <1>5
<1>7. Cardinality(A) # Cardinality(B)
  BY <1>4, <1>5, <1>6, FS_Subset
<1>8. Ordinal(k, i, me) = Cardinality(A) /\ Ordinal(k, j, me) = Cardinality(B)
  BY <1>1 DEF Ordinal, Before2
<1> QED
  BY <1>7, <1>8

(* Only monsters hold materials. *)
LEMMA MonstersHold ==
    ASSUME NEW w, Proper(w), NEW p \in Players, NEW location \in Places,
           NEW s \in There(w, p, location), CardOf(w, p, location, s).materials # <<>>
    PROVE  location = "mzone"
<1>1. /\ w.hand[p] \in Seq(HeldCards) /\ w.grave[p] \in Seq(PlainCards)
      /\ w.banished[p] \in Seq(PlainCards) /\ w.extra[p] \in Seq(PlainCards)
  BY ProperParts DEF HandOf, PileOf
<1>2. ASSUME NEW T, NEW g \in Seq(T), \A c \in T : c.materials = <<>>, NEW i \in 1..Len(g)
      PROVE  g[i].materials = <<>>
  BY <1>2
<1>3. (\A c \in HeldCards : c.materials = <<>>) /\ \A c \in PlainCards : c.materials = <<>>
  BY DEF HeldCards, PlainCards, CardsWith
<1>4. CASE location = "szone"
  <2>1. CardOf(w, p, location, s) = CardAt(w, "spells", p, s) /\ s \in Taken(w, "spells", p)
    BY <1>4 DEF CardOf, There, Row
  <2>2. CardAt(w, "spells", p, s).materials = <<>>
    BY <2>1, SpellIs DEF SpellAt
  <2> QED
    BY <2>1, <2>2
<1>5. CASE location \in {"hand", "grave", "removed", "extra"}
  <2>1. PICK g : g = Listed(w, p, location)
    OBVIOUS
  <2>2. g \in Seq(HeldCards) \/ g \in Seq(PlainCards)
    BY <1>1, <1>5, <2>1 DEF Listed
  <2>3. CardOf(w, p, location, s) = g[s + 1] /\ There(w, p, location) = {i - 1 : i \in 1..Len(g)}
    BY <1>5, <2>1 DEF CardOf, There
  <2>4. Len(g) \in Nat
    BY <2>2
  <2>5. s + 1 \in 1..Len(g)
    BY <2>3, <2>4
  <2>6. g[s + 1].materials = <<>>
    <3>1. CASE g \in Seq(HeldCards)
      BY <3>1, <1>2, <1>3, <2>5
    <3>2. CASE g \in Seq(PlainCards)
      BY <3>2, <1>2, <1>3, <2>5
    <3> QED
      BY <2>2, <3>1, <3>2
  <2> QED
    BY <2>3, <2>6
<1> QED
  BY <1>4, <1>5 DEF Places

(* The place of a kept card. *)
LEMMA KeptAt ==
    ASSUME NEW w, Proper(w), NEW i \in 1..Len(Kept(w, me))
    PROVE  LET q == Kept(w, me)[i]
           IN  /\ q \in Queries /\ q.controller \in Players /\ q.location \in Places
               /\ q.sequence \in Nat /\ q.zone = ProjectZone(q.location, q.sequence)
               /\ q.zone \in 2..9 /\ q.card \in AnyCards /\ Keep(q, me)
               /\ Materials(q) # <<>> => q.location = "mzone"
<1> DEFINE q == Kept(w, me)[i]
<1>1. /\ q \in Queries /\ q.sequence \in There(w, q.controller, q.location) /\ Keep(q, me)
      /\ q = QueryAt(w, q.controller, q.location, q.sequence)
  <2>1. Kept(w, me) \in Seq(Queries)
    BY KeptIs
  <2>2. q \in Queries
    BY <2>1
  <2> QED
    BY <2>2, KeptIs
<1>2. PICK p, location, s : p = q.controller /\ location = q.location /\ s = q.sequence
  OBVIOUS
<1>3. /\ p \in Players /\ location \in Places /\ s \in Nat /\ q.zone \in 2..9
      /\ q.card \in AnyCards /\ s \in There(w, p, location)
  BY <1>1, <1>2 DEF Queries
<1>4. QueryAt(w, p, location, s).zone = ProjectZone(location, s)
      /\ QueryAt(w, p, location, s).card = CardOf(w, p, location, s)
  BY <1>3, QueryAtIs
<1>5. q = QueryAt(w, p, location, s)
  BY <1>1, <1>2
<1>6. Materials(q) # <<>> => q.card.materials # <<>>
  BY DEF Materials
<1>7. Materials(q) # <<>> => location = "mzone"
  BY <1>3, <1>4, <1>5, <1>6, MonstersHold
<1> QED
  BY <1>1, <1>2, <1>3, <1>4, <1>5, <1>7

(* No two entities of the field have the same locator. *)
LEMMA LocatorsOnce ==
    ASSUME NEW w, Proper(w), NEW i \in 1..Len(Kept(w, me)), NEW j \in 1..Len(Kept(w, me)),
           Locator(Kept(w, me), i, me) = Locator(Kept(w, me), j, me)
    PROVE  i = j
<1>1. PICK k : k = Kept(w, me)
  OBVIOUS
<1>2. PICK q, r : q = k[i] /\ r = k[j]
  OBVIOUS
<1>3. /\ k \in Seq(Queries) /\ i \in 1..Len(k) /\ j \in 1..Len(k) /\ i \in Int /\ j \in Int
      /\ q \in Queries /\ r \in Queries
  BY <1>1, <1>2, KeptIs
<1>4. /\ SequenceVisible(q, me) =>
            Locator(k, i, me) = SlotLocator(q.controller, q.zone, q.sequence)
      /\ ~SequenceVisible(q, me) =>
            Locator(k, i, me) = LongWord(q.controller, q.zone, 1, q.card.code, Ordinal(k, i, me))
      /\ SequenceVisible(r, me) =>
            Locator(k, j, me) = SlotLocator(r.controller, r.zone, r.sequence)
      /\ ~SequenceVisible(r, me) =>
            Locator(k, j, me) = LongWord(r.controller, r.zone, 1, r.card.code, Ordinal(k, j, me))
  BY <1>2 DEF Locator, LongWord
<1>5. Locator(k, i, me) = Locator(k, j, me)
  BY <1>1
<1>6. SequenceVisible(q, me) <=> SequenceVisible(r, me)
  <2>1. /\ SlotLocator(q.controller, q.zone, q.sequence)
             # LongWord(r.controller, r.zone, 1, r.card.code, Ordinal(k, j, me))
        /\ SlotLocator(r.controller, r.zone, r.sequence)
             # LongWord(q.controller, q.zone, 1, q.card.code, Ordinal(k, i, me))
    BY SpellingsDiffer
  <2> QED
    BY <1>4, <1>5, <2>1
<1>7. CASE SequenceVisible(q, me)
  <2>1. SlotLocator(q.controller, q.zone, q.sequence) = SlotLocator(r.controller, r.zone, r.sequence)
    BY <1>4, <1>5, <1>6, <1>7
  <2>2. q.controller = r.controller /\ q.zone = r.zone /\ q.sequence = r.sequence
    BY <2>1, SpellingsDiffer
  <2>3. /\ q.location \in Places /\ r.location \in Places
        /\ q.zone = ProjectZone(q.location, q.sequence) /\ r.zone = ProjectZone(r.location, r.sequence)
    BY <1>1, <1>2, KeptAt
  <2>4. q.location = r.location
    BY <2>2, <2>3, ZoneIsOf
  <2> QED
    BY <1>1, <1>2, <2>2, <2>4, KeptOnce
<1>8. CASE ~SequenceVisible(q, me)
  <2>1. LongWord(q.controller, q.zone, 1, q.card.code, Ordinal(k, i, me))
          = LongWord(r.controller, r.zone, 1, r.card.code, Ordinal(k, j, me))
    BY <1>4, <1>5, <1>6, <1>8
  <2>2. /\ q.controller = r.controller /\ q.card.code = r.card.code
        /\ Ordinal(k, i, me) = Ordinal(k, j, me)
    BY <2>1, LongSpellingsDiffer
  <2>3. ~(i < j)
    BY <1>2, <1>3, <1>8, <2>2, OrdinalGrows
  <2>4. ~(j < i)
    BY <1>2, <1>3, <1>6, <1>8, <2>2, OrdinalGrows
  <2> QED
    BY <1>3, <2>3, <2>4
<1> QED
  BY <1>7, <1>8

(* Nor has a material the locator of an entity, or of another material.     *)
LEMMA MaterialsOnce ==
    ASSUME NEW w, Proper(w), NEW i \in 1..Len(Kept(w, me)), NEW j \in 1..Len(Kept(w, me)),
           NEW m, NEW n, Materials(Kept(w, me)[i]) # <<>>
    PROVE  /\ MaterialLocator(Kept(w, me)[i], m) # Locator(Kept(w, me), j, me)
           /\ m \in Nat /\ n \in Nat /\ Materials(Kept(w, me)[j]) # <<>>
              /\ MaterialLocator(Kept(w, me)[i], m) = MaterialLocator(Kept(w, me)[j], n)
              => i = j /\ m = n
<1>1. PICK q, r : q = Kept(w, me)[i] /\ r = Kept(w, me)[j]
  OBVIOUS
<1>2. /\ MaterialLocator(q, m) = LongWord(q.controller, Overlay, 0, q.sequence, m - 1)
      /\ MaterialLocator(r, n) = LongWord(r.controller, Overlay, 0, r.sequence, n - 1)
  BY DEF MaterialLocator, LongWord
<1>3. ASSUME NEW x, x = Locator(Kept(w, me), j, me)
      PROVE  MaterialLocator(q, m) # x
  <2>1. \/ x = SlotLocator(r.controller, r.zone, r.sequence)
        \/ x = LongWord(r.controller, r.zone, 1, r.card.code, Ordinal(Kept(w, me), j, me))
    BY <1>1, <1>3 DEF Locator, LongWord
  <2>2. MaterialLocator(q, m) # SlotLocator(r.controller, r.zone, r.sequence)
    <3>1. SlotLocator(r.controller, r.zone, r.sequence)
            # LongWord(q.controller, Overlay, 0, q.sequence, m - 1)
      BY SpellingsDiffer
    <3> QED
      BY <1>2, <3>1
  <2>3. ASSUME NEW e, NEW o
        PROVE  MaterialLocator(q, m) # LongWord(r.controller, r.zone, 1, e, o)
    <3>1. ASSUME MaterialLocator(q, m) = LongWord(r.controller, r.zone, 1, e, o)
          PROVE  FALSE
      <4>1. LongWord(q.controller, Overlay, 0, q.sequence, m - 1) = LongWord(r.controller, r.zone, 1, e, o)
        BY <1>2, <3>1
      <4>2. 0 = 1
        BY <4>1, LongSpellingsDiffer
      <4> QED
        BY <4>2
    <3> QED
      BY <3>1
  <2> QED
    BY <2>1, <2>2, <2>3
<1>4. ASSUME m \in Nat, n \in Nat, Materials(r) # <<>>, MaterialLocator(q, m) = MaterialLocator(r, n)
      PROVE  i = j /\ m = n
  <2>4. LongWord(q.controller, Overlay, 0, q.sequence, m - 1)
          = LongWord(r.controller, Overlay, 0, r.sequence, n - 1)
    BY <1>2, <1>4
  <2>1. q.controller = r.controller /\ q.sequence = r.sequence /\ m - 1 = n - 1
    BY <2>4, LongSpellingsDiffer
  <2>2. q.location = "mzone" /\ r.location = "mzone"
    BY <1>1, <1>4, KeptAt
  <2>3. i = j
    BY <1>1, <2>1, <2>2, KeptOnce
  <2> QED
    BY <1>4, <2>1, <2>3
<1> QED
  BY <1>1, <1>3, <1>4

(* All locators of an observation differ. *)
LEMMA EntitiesOnce ==
    ASSUME NEW w, Proper(w), NEW a \in DOMAIN Entities(Kept(w, me), me),
           NEW b \in DOMAIN Entities(Kept(w, me), me),
           Entities(Kept(w, me), me)[a].locator = Entities(Kept(w, me), me)[b].locator
    PROVE  a = b
<1>1. PICK k, E : k = Kept(w, me) /\ E = Entities(k, me)
  OBVIOUS
<1>2. k \in Seq(Queries) /\ DOMAIN E = 1..Len(E) /\ \E f : EntityThreads(f, k, E)
  BY <1>1, EntitiesOf
<1>3. PICK f : EntityThreads(f, k, E)
  BY <1>2
<1>4. PICK x \in Holders(k) : f[x] = a
  BY <1>1, <1>2, <1>3 DEF EntityThreads
<1>5. PICK y \in Holders(k) : f[y] = b
  BY <1>1, <1>2, <1>3 DEF EntityThreads
<1>6. E[a] = EntityAt(k, x[1], x[2]) /\ E[b] = EntityAt(k, y[1], y[2])
  BY <1>3, <1>4, <1>5 DEF EntityThreads
<1>7. /\ x \in Nat \X Nat /\ x[1] \in 1..Len(k) /\ x[2] \in 0..Len(Materials(k[x[1]]))
      /\ y \in Nat \X Nat /\ y[1] \in 1..Len(k) /\ y[2] \in 0..Len(Materials(k[y[1]]))
      /\ x[2] \in Nat /\ y[2] \in Nat
  BY DEF Holders
<1>8. ASSUME NEW z \in Holders(k)
      PROVE  /\ z[2] = 0 => EntityAt(k, z[1], z[2]).locator = Locator(k, z[1], me)
             /\ z[2] # 0 => /\ EntityAt(k, z[1], z[2]).locator = MaterialLocator(k[z[1]], z[2])
                            /\ Materials(k[z[1]]) # <<>>
  <2>1. z[2] = 0 => EntityAt(k, z[1], z[2]).locator = Locator(k, z[1], me)
    BY EntityTells DEF EntityAt
  <2>2. z[2] # 0 => EntityAt(k, z[1], z[2]).locator = MaterialLocator(k[z[1]], z[2])
    BY MaterialTells DEF EntityAt
  <2>3. z[2] \in 0..Len(Materials(k[z[1]])) /\ z[1] \in 1..Len(k)
    BY DEF Holders
  <2>4. z[2] # 0 => Materials(k[z[1]]) # <<>>
    BY <2>3
  <2> QED
    BY <2>1, <2>2, <2>4
<1>9. EntityAt(k, x[1], x[2]).locator = EntityAt(k, y[1], y[2]).locator
  BY <1>1, <1>6
<1>10. x[1] = y[1] /\ x[2] = y[2]
  <2>1. CASE x[2] = 0 /\ y[2] = 0
    <3>1. Locator(k, x[1], me) = Locator(k, y[1], me)
      BY <1>8, <1>9, <2>1
    <3> QED
      BY <1>1, <1>7, <2>1, <3>1, LocatorsOnce
  <2>2. CASE x[2] = 0 /\ y[2] # 0
    <3>1. Locator(k, x[1], me) = MaterialLocator(k[y[1]], y[2]) /\ Materials(k[y[1]]) # <<>>
      BY <1>8, <1>9, <2>2
    <3>2. MaterialLocator(k[y[1]], y[2]) # Locator(k, x[1], me)
      BY <1>1, <1>7, <3>1, MaterialsOnce
    <3> QED
      BY <3>1, <3>2
  <2>3. CASE x[2] # 0 /\ y[2] = 0
    <3>1. Locator(k, y[1], me) = MaterialLocator(k[x[1]], x[2]) /\ Materials(k[x[1]]) # <<>>
      BY <1>8, <1>9, <2>3
    <3>2. MaterialLocator(k[x[1]], x[2]) # Locator(k, y[1], me)
      BY <1>1, <1>7, <3>1, MaterialsOnce
    <3> QED
      BY <3>1, <3>2
  <2>4. CASE x[2] # 0 /\ y[2] # 0
    <3>1. /\ MaterialLocator(k[x[1]], x[2]) = MaterialLocator(k[y[1]], y[2])
          /\ Materials(k[x[1]]) # <<>> /\ Materials(k[y[1]]) # <<>>
      BY <1>8, <1>9, <2>4
    <3> QED
      BY <1>1, <1>7, <3>1, MaterialsOnce
  <2> QED
    BY <2>1, <2>2, <2>3, <2>4
<1>11. x = y
  BY <1>7, <1>10
<1> QED
  BY <1>4, <1>5, <1>11

----------------------------------------------------------------------------
(* What the validator asks of every part of an observation.                 *)

(* The numbers and names a place may have. *)
LEMMA LocatorsAre ==
    ASSUME NEW k, NEW i, NEW j
    PROVE  IsLocator(Locator(k, i, me)) /\ IsLocator(MaterialLocator(k[i], j))
<1>1. ASSUME NEW c, NEW z, NEW s
      PROVE  IsLocator(SlotLocator(c, z, s))
  BY WordIsLocator DEF SlotLocator
<1>2. IsLocator(Locator(k, i, me))
  <2>1. CASE SequenceVisible(k[i], me)
    BY <2>1, <1>1 DEF Locator
  <2>2. CASE ~SequenceVisible(k[i], me)
    <3>1. Locator(k, i, me) = Word(<<k[i].controller, k[i].zone, 1, k[i].card.code, Ordinal(k, i, me)>>)
      BY <2>2 DEF Locator
    <3> QED
      BY <3>1, WordIsLocator
  <2> QED
    BY <2>1, <2>2
<1>3. IsLocator(MaterialLocator(k[i], j))
  BY WordIsLocator DEF MaterialLocator
<1> QED
  BY <1>2, <1>3

(* A player, when given, is one the validator lets pass.                    *)
LEMMA IsPlayer ==
    ASSUME NEW p \in Players
    PROVE  MaybePlayer(<<p>>) /\ p <= 1
  BY DEF MaybePlayer, Players

(* A card of the observation passes validate_card.                          *)
LEMMA EntityValid ==
    ASSUME NEW w, Proper(w), NEW i \in 1..Len(Kept(w, me))
    PROVE  ValidCard(Entity(Kept(w, me), i, me))
<1>1. PICK k, q : k = Kept(w, me) /\ q = k[i]
  OBVIOUS
<1>2. PICK e : e = Entity(k, i, me)
  OBVIOUS
<1>3. q.controller \in Players /\ q.card.owner \in Players /\ q.card.up \in BOOLEAN
  <2>1. q.card \in AnyCards /\ q.controller \in Players
    BY <1>1, KeptAt
  <2> QED
    BY <2>1 DEF AnyCards
<1>4. /\ e.locator = Locator(k, i, me) /\ e.known = IdentityVisible(q, me)
      /\ e.code = Given(IdentityVisible(q, me), q.card.code)
      /\ e.printed = Given(IdentityVisible(q, me), Properties(q.card.code))
      /\ e.current = Given(IdentityVisible(q, me), Properties(q.card.code))
      /\ e.owner = <<q.card.owner>> /\ e.controller = <<q.controller>>
      /\ e.position = (IF q.card.up THEN FaceUp ELSE FaceDown)
      /\ e.up = q.card.up /\ e.down = ~q.card.up
  BY <1>1, <1>2 DEF Entity
<1>5. IsLocator(e.locator)
  BY <1>4, LocatorsAre
<1>6. MaybePlayer(e.owner) /\ MaybePlayer(e.controller)
  BY <1>3, <1>4, IsPlayer
<1>7. e.position \in Positions /\ ~(e.up /\ e.down)
  BY <1>3, <1>4 DEF Positions, FaceUp, FaceDown
<1>8. ~e.known => e.code = <<>> /\ e.printed = <<>> /\ e.current = <<>>
  BY <1>4 DEF Given
<1> QED
  BY <1>1, <1>2, <1>5, <1>6, <1>7, <1>8 DEF ValidCard

(* So does a material.                                                      *)
LEMMA MaterialValid ==
    ASSUME NEW q \in Queries, q.controller \in Players, NEW m \in 1..Len(Materials(q))
    PROVE  ValidCard(Material(q, m, me))
<1>1. PICK e : e = Material(q, m, me)
  OBVIOUS
<1>2. PICK c : c = q.card.materials[m]
  OBVIOUS
<1>3. c.owner \in Players
  <2>1. Materials(q) \in Seq(PlainCards) /\ DOMAIN Materials(q) = 1..Len(Materials(q))
    BY MaterialsAre
  <2>2. Materials(q)[m] \in PlainCards
    BY <2>1
  <2>3. Materials(q) = q.card.materials
    <3>1. CASE q.zone = ExtraDeck
      <4>1. Len(Materials(q)) = 0
        BY <3>1 DEF Materials
      <4> QED
        BY <4>1
    <3> QED
      BY <3>1 DEF Materials
  <2> QED
    BY <1>2, <2>2, <2>3 DEF PlainCards, CardsWith
<1>4. PICK position : position = PositionFrom(m - 1)
  OBVIOUS
<1>5. e = MaterialSeen(q, m, IdentityVisible(q, me))
  BY <1>1, MaterialIs
<1>6. /\ e.locator = MaterialLocator(q, m) /\ e.known = IdentityVisible(q, me)
      /\ e.code = Given(IdentityVisible(q, me), c.code)
      /\ e.printed = Given(IdentityVisible(q, me), Properties(c.code))
      /\ e.current = Given(IdentityVisible(q, me), Properties(c.code))
      /\ e.owner = <<c.owner>> /\ e.controller = <<q.controller>> /\ e.position = position
      /\ e.up = (position \in {1, 4}) /\ e.down = (position \in {2, 8})
  BY <1>2, <1>4, <1>5 DEF MaterialSeen
<1>7. IsLocator(e.locator)
  BY <1>6, WordIsLocator DEF MaterialLocator
<1>8. MaybePlayer(e.owner) /\ MaybePlayer(e.controller)
  BY <1>3, <1>6, IsPlayer
<1>9. e.position \in Positions /\ ~(e.up /\ e.down)
  <2>1. position \in Positions
    BY <1>4 DEF Positions, PositionFrom
  <2>2. ~(position \in {1, 4} /\ position \in {2, 8})
    OBVIOUS
  <2> QED
    BY <1>6, <2>1, <2>2
<1>10. ~e.known => e.code = <<>> /\ e.printed = <<>> /\ e.current = <<>>
  BY <1>6 DEF Given
<1> QED
  BY <1>1, <1>7, <1>8, <1>9, <1>10 DEF ValidCard

(* So does every entity.                                                    *)
LEMMA EntitiesValid ==
    ASSUME NEW w, Proper(w), NEW a \in DOMAIN Entities(Kept(w, me), me)
    PROVE  ValidCard(Entities(Kept(w, me), me)[a])
<1>1. PICK k, E : k = Kept(w, me) /\ E = Entities(k, me)
  OBVIOUS
<1>2. DOMAIN E = 1..Len(E) /\ \E f : EntityThreads(f, k, E)
  BY <1>1, EntitiesOf
<1>3. PICK f : EntityThreads(f, k, E)
  BY <1>2
<1>4. PICK x \in Holders(k) : f[x] = a
  BY <1>1, <1>2, <1>3 DEF EntityThreads
<1>5. E[a] = EntityAt(k, x[1], x[2])
  BY <1>3, <1>4 DEF EntityThreads
<1>6. x[1] \in 1..Len(k) /\ x[2] \in 0..Len(Materials(k[x[1]]))
  BY DEF Holders
<1>7. ValidCard(Entity(k, x[1], me))
  BY <1>1, <1>6, EntityValid
<1>8. x[2] # 0 => ValidCard(Material(k[x[1]], x[2], me))
  <2>1. PICK q, m : q = k[x[1]] /\ m = x[2]
    OBVIOUS
  <2>2. q \in Queries /\ q.controller \in Players
    BY <1>1, <1>6, <2>1, KeptAt
  <2>3. Len(Materials(q)) \in Nat
    BY <2>2, MaterialsAre
  <2>4. m # 0 => m \in 1..Len(Materials(q))
    BY <1>6, <2>1, <2>3
  <2> QED
    BY <2>1, <2>2, <2>4, MaterialValid
<1> QED
  BY <1>1, <1>5, <1>7, <1>8 DEF EntityAt

(* A sequence of sequences, laid end to end.                                *)
LEMMA FlatSeq ==
    ASSUME NEW T, NEW s \in Seq(Seq(T))
    PROVE  FlattenSeq(s) \in Seq(T)
<1>1. SameShape(s, s)
  BY DEF SameShape
<1> QED
  BY <1>1, Flattened

(* The relations the cards of k may have. *)
Named(k) ==
    {Locator(k, i, me) : i \in 1..Len(k)} \cup {MaterialLocator(k[x[1]], x[2]) : x \in Nat \X Nat}
Relations(k) == [kind : 0..2, source : Named(k), target : Named(k)]

(* The locators of the observation are well-formed.                         *)
LEMMA NamedAre ==
    ASSUME NEW k, NEW l \in Named(k)
    PROVE  IsLocator(l)
  BY LocatorsAre DEF Named

(* What find_locator finds is one of them.                                  *)
LEMMA FoundIs ==
    ASSUME NEW k \in Seq(Queries), NEW place
    PROVE  FindLocator(k, place, me) \in {<<>>} \cup {<<l>> : l \in Named(k)}
<1>1. PICK there : there = {i \in DOMAIN k : /\ k[i].controller = place.controller
                                             /\ k[i].zone = ZoneAt(place)
                                             /\ k[i].sequence = place.sequence}
  OBVIOUS
<1>2. FindLocator(k, place, me)
        = IF there = {} THEN <<>> ELSE <<Locator(k, CHOOSE i \in there : TRUE, me)>>
  BY <1>1 DEF FindLocator
<1>3. ASSUME there # {}
      PROVE  Locator(k, CHOOSE i \in there : TRUE, me) \in Named(k)
  <2>1. (CHOOSE i \in there : TRUE) \in there
    BY <1>3
  <2>2. there \subseteq 1..Len(k)
    BY <1>1
  <2>3. ASSUME NEW i \in 1..Len(k)
        PROVE  Locator(k, i, me) \in Named(k)
    BY DEF Named
  <2> QED
    BY <2>1, <2>2, <2>3
<1> QED
  BY <1>2, <1>3

(* A relation whose other end was found,                                    *)
LEMMA RelatedIs ==
    ASSUME NEW k, NEW kind \in 0..2, NEW l \in Named(k),
           NEW found \in {<<>>} \cup {<<m>> : m \in Named(k)}
    PROVE  RelatedTo(kind, l, found) \in Seq(Relations(k))
<1>1. CASE found = <<>>
  BY <1>1 DEF RelatedTo
<1>2. CASE found # <<>>
  <2>1. PICK m \in Named(k) : found = <<m>>
    BY <1>2
  <2>2. RelatedTo(kind, l, found) = <<[kind |-> kind, source |-> l, target |-> m]>>
    BY <2>1 DEF RelatedTo
  <2>3. [kind |-> kind, source |-> l, target |-> m] \in Relations(k)
    BY DEF Relations
  <2> QED
    BY <2>2, <2>3
<1> QED
  BY <1>1, <1>2

(* those of a card to the places it is equipped to or targets,              *)
LEMMA RelatedAre ==
    ASSUME NEW k \in Seq(Queries), NEW i \in 1..Len(k), NEW kind \in 0..2, NEW P, NEW places \in Seq(P)
    PROVE  FlattenSeq(RelatedBy(k, i, kind, places)) \in Seq(Relations(k))
<1>1. Locator(k, i, me) \in Named(k)
  BY DEF Named
<1>2. ASSUME NEW j \in 1..Len(places)
      PROVE  RelatedBy(k, i, kind, places)[j] \in Seq(Relations(k))
  <2>1. RelatedBy(k, i, kind, places)[j]
          = RelatedTo(kind, Locator(k, i, me), FindLocator(k, places[j], me))
    BY DEF RelatedBy
  <2> QED
    BY <1>1, <2>1, FoundIs, RelatedIs
<1>3. RelatedBy(k, i, kind, places) = [j \in 1..Len(places) |-> RelatedBy(k, i, kind, places)[j]]
  BY DEF RelatedBy
<1>4. RelatedBy(k, i, kind, places) \in [1..Len(places) -> Seq(Relations(k))] /\ Len(places) \in Nat
  BY <1>2, <1>3
<1>5. RelatedBy(k, i, kind, places) \in Seq(Seq(Relations(k)))
  BY <1>4, FunctionIsSeq
<1> QED
  BY <1>5, FlatSeq

(* those of its materials,                                                  *)
LEMMA HoldingAre ==
    ASSUME NEW k \in Seq(Queries), NEW i \in 1..Len(k)
    PROVE  FlattenSeq(HeldUnder(k, i)) \in Seq(Relations(k))
<1>1. PICK c : c = k[i].card
  OBVIOUS
<1>2. c.materials \in Seq(PlainCards)
  <2>1. k[i] \in Queries
    OBVIOUS
  <2> QED
    BY <1>1, <2>1 DEF Queries, AnyCards
<1>3. ASSUME NEW j \in 1..Len(c.materials)
      PROVE  HeldUnder(k, i)[j] \in Seq(Relations(k))
  <2>1. HeldUnder(k, i)[j]
          = RelatedTo(XyzMaterial, MaterialLocator(k[i], j), FindLocator(k, Host(k[i]), me))
    BY <1>1, <1>2 DEF HeldUnder
  <2>2. MaterialLocator(k[i], j) \in Named(k)
    <3>1. PICK x \in Nat \X Nat : x[1] = i /\ x[2] = j
      <4>1. <<i, j>> \in Nat \X Nat
        BY <1>2
      <4> QED
        BY <4>1
    <3>2. MaterialLocator(k[x[1]], x[2]) \in Named(k)
      BY <3>1 DEF Named
    <3> QED
      BY <3>1, <3>2
  <2>3. XyzMaterial \in 0..2
    BY DEF XyzMaterial
  <2> QED
    BY <2>1, <2>2, <2>3, FoundIs, RelatedIs
<1>4. HeldUnder(k, i) = [j \in 1..Len(c.materials) |-> HeldUnder(k, i)[j]]
  BY <1>1, <1>2 DEF HeldUnder
<1>5. HeldUnder(k, i) \in [1..Len(c.materials) -> Seq(Relations(k))] /\ Len(c.materials) \in Nat
  <2>1. Len(c.materials) \in Nat
    BY <1>2
  <2>2. \A j \in 1..Len(c.materials) : HeldUnder(k, i)[j] \in Seq(Relations(k))
    BY <1>3
  <2>3. [j \in 1..Len(c.materials) |-> HeldUnder(k, i)[j]]
            \in [1..Len(c.materials) -> Seq(Relations(k))]
    BY <2>2
  <2> QED
    BY <1>4, <2>1, <2>3
<1>6. HeldUnder(k, i) \in Seq(Seq(Relations(k)))
  BY <1>5, FunctionIsSeq
<1> QED
  BY <1>6, FlatSeq

(* and so all of them are between locators of the observation.              *)
LEMMA RelationshipsAre ==
    ASSUME NEW w, Proper(w)
    PROVE  Relationships(Kept(w, me), me) \in Seq(Relations(Kept(w, me)))
<1>1. PICK k : k = Kept(w, me)
  OBVIOUS
<1>2. k \in Seq(Queries) /\ Len(k) \in Nat /\ DOMAIN k = 1..Len(k)
  BY <1>1, KeptIs
<1>3. ASSUME NEW i \in 1..Len(k)
      PROVE  RelationsOf(k, i, me) \in Seq(Relations(k))
  <2>1. k[i].card.equip \in Seq(Aimed) /\ k[i].card.targets \in Seq(Aimed)
    <3>1. k[i] \in Queries
      BY <1>2
    <3> QED
      BY <3>1 DEF Queries, AnyCards
  <2>2. Equip \in 0..2 /\ Target \in 0..2
    BY DEF Equip, Target
  <2>3. /\ FlattenSeq(RelatedBy(k, i, Equip, k[i].card.equip)) \in Seq(Relations(k))
        /\ FlattenSeq(RelatedBy(k, i, Target, k[i].card.targets)) \in Seq(Relations(k))
        /\ FlattenSeq(HeldUnder(k, i)) \in Seq(Relations(k))
    BY <1>2, <2>1, <2>2, RelatedAre, HoldingAre
  <2>4. FlattenSeq(RelatedBy(k, i, Equip, k[i].card.equip))
          \o FlattenSeq(RelatedBy(k, i, Target, k[i].card.targets))
          \o FlattenSeq(HeldUnder(k, i)) \in Seq(Relations(k))
    BY <2>3, Appended
  <2>5. <<>> \in Seq(Relations(k))
    OBVIOUS
  <2>6. CASE k[i].zone = ExtraDeck
    BY <2>5, <2>6, RelationsAre
  <2>7. CASE k[i].zone # ExtraDeck
    BY <2>4, <2>7, RelationsAre
  <2> QED
    BY <2>6, <2>7
<1>4. [i \in DOMAIN k |-> RelationsOf(k, i, me)] \in [1..Len(k) -> Seq(Relations(k))]
  BY <1>2, <1>3
<1>5. [i \in DOMAIN k |-> RelationsOf(k, i, me)] \in Seq(Seq(Relations(k)))
  BY <1>2, <1>4, FunctionIsSeq
<1>6. Relationships(k, me) = FlattenSeq([i \in DOMAIN k |-> RelationsOf(k, i, me)])
  BY DEF Relationships
<1> QED
  BY <1>1, <1>5, <1>6, FlatSeq

(* So both ends pass the validator.                                         *)
LEMMA RelationshipsValid ==
    ASSUME NEW w, Proper(w), NEW i \in DOMAIN Relationships(Kept(w, me), me)
    PROVE  /\ IsLocator(Relationships(Kept(w, me), me)[i].source)
           /\ IsLocator(Relationships(Kept(w, me), me)[i].target)
<1>1. PICK k, S : k = Kept(w, me) /\ S = Relationships(k, me)
  OBVIOUS
<1>2. S \in Seq(Relations(k))
  BY <1>1, RelationshipsAre
<1>3. S[i] \in Relations(k)
  BY <1>1, <1>2
<1>4. S[i].source \in Named(k) /\ S[i].target \in Named(k)
  BY <1>3 DEF Relations
<1> QED
  BY <1>1, <1>4, NamedAre

(* A link of the chain passes it: its source and its targets are locators   *)
(* of the observation.                                                      *)
LEMMA LinkValid ==
    ASSUME NEW w, Proper(w), NEW i \in DOMAIN ChainOf(w)
    PROVE  LET l == ChainOf(w)[i]
           IN  /\ MaybePlayer(l.player) /\ MaybeLocator(l.source)
               /\ \A j \in DOMAIN l.targets : IsLocator(l.targets[j])
<1>1. PICK k, E, S : k = Kept(w, me) /\ E = Entities(k, me) /\ S = Relationships(k, me)
  OBVIOUS
<1>2. PICK raw : raw = w.chain[i]
  OBVIOUS
<1>3. raw.player \in Players
  <2>1. w.chain \in Seq(Links)
    BY ProperParts
  <2>2. i \in DOMAIN w.chain
    BY DEF ChainOf
  <2>3. raw \in Links
    BY <1>2, <2>1, <2>2
  <2> QED
    BY <2>3 DEF Links
<1>4. PICK there, source : there = AtPlace(E, raw.source) /\ source = E[Min(there)]
  OBVIOUS
<1>5. ChainOf(w)[i] = LinkWith(raw, i, there, source, S)
  <2>1. ChainOf(w)[i] = Link(w, i, E, S)
    BY <1>1 DEF ChainOf
  <2> QED
    BY <1>2, <1>4, <2>1, LinkIs
<1>6. PICK aimed : aimed = Selected(S, {j \in DOMAIN S : S[j].kind = Target /\ S[j].source = source.locator})
  OBVIOUS
<1>7. PICK l : l = LinkWith(raw, i, there, source, S)
  OBVIOUS
<1>8. /\ l.player = <<raw.player>>
      /\ l.source = (IF there # {} /\ source.known THEN <<source.locator>> ELSE <<>>)
      /\ l.targets = (IF there # {} /\ source.known THEN [j \in DOMAIN aimed |-> aimed[j].target] ELSE <<>>)
  BY <1>6, <1>7 DEF LinkWith
<1>9. MaybePlayer(l.player)
  BY <1>3, <1>8, IsPlayer
<1>10. MaybeLocator(l.source)
  <2>1. ASSUME there # {}
        PROVE  IsLocator(source.locator)
    <3>1. DOMAIN E \in SUBSET Nat
      BY <1>1, EntitiesOf
    <3>2. there \in SUBSET Nat /\ there \subseteq DOMAIN E
      BY <1>4, <3>1 DEF AtPlace
    <3>3. Min(there) \in DOMAIN E
      BY <2>1, <3>2, MinIs
    <3>4. ValidCard(source)
      BY <1>1, <1>4, <3>3, EntitiesValid
    <3> QED
      BY <3>4 DEF ValidCard
  <2> QED
    BY <1>8, <2>1 DEF MaybeLocator
<1>11. \A j \in DOMAIN aimed : IsLocator(aimed[j].target)
  <2>1. S \in Seq(Relations(k))
    BY <1>1, RelationshipsAre
  <2>2. PICK P : P = {j \in DOMAIN S : S[j].kind = Target /\ S[j].source = source.locator}
    OBVIOUS
  <2>3. P \in SUBSET (1..Len(S)) /\ aimed = Selected(S, P)
    BY <1>6, <2>1, <2>2
  <2>4. aimed \in Seq(Relations(k))
    BY <2>1, <2>3, SelectedIs
  <2>5. ASSUME NEW j \in DOMAIN aimed
        PROVE  IsLocator(aimed[j].target)
    <3>1. aimed[j] \in Relations(k)
      BY <2>4
    <3>2. aimed[j].target \in Named(k)
      BY <3>1 DEF Relations
    <3> QED
      BY <3>2, NamedAre
  <2> QED
    BY <2>5
<1>12. \A j \in DOMAIN l.targets : IsLocator(l.targets[j])
  <2>1. CASE there # {} /\ source.known
    BY <2>1, <1>8, <1>11
  <2>2. CASE ~(there # {} /\ source.known)
    <3>1. l.targets = <<>>
      BY <2>2, <1>8
    <3> QED
      BY <3>1
  <2> QED
    BY <2>1, <2>2
<1> QED
  BY <1>5, <1>7, <1>9, <1>10, <1>12

(* A list of ten.                                                           *)
LEMMA TenAre ==
    ASSUME NEW T, NEW a \in T, NEW b \in T, NEW c \in T, NEW d \in T, NEW e \in T, NEW f \in T,
           NEW g \in T, NEW h \in T, NEW l \in T, NEW m \in T
    PROVE  <<a, b, c, d, e, f, g, h, l, m>> \in Seq(T)
  OBVIOUS

ZonesFor(Z, p) == \E Y : Z \in Seq(Y) /\ \A z \in Y : z.player = p

(* The zone counts of a player are all its own.                             *)
LEMMA ZonesOfOne ==
    ASSUME NEW p, NEW deck, NEW hand, NEW m, NEW s, NEW f, NEW q, NEW grave, NEW banished, NEW extra,
           NEW up, NEW materials, NEW known, m.player = p, s.player = p, f.player = p, q.player = p
    PROVE  ZonesFor(ZonesWith(p, deck, hand, m, s, f, q, grave, banished, extra, up, materials,
                              known), p)
<1> DEFINE Z == ZonesWith(p, deck, hand, m, s, f, q, grave, banished, extra, up, materials, known)
<1> DEFINE a == ZoneCount(p, MainDeck, deck, 0, FALSE)
           b == ZoneCount(p, Hand, hand, IF p = me THEN hand ELSE 0, p = me)
           g == ZoneCount(p, Graveyard, grave, grave, TRUE)
           h == ZoneCount(p, Banished, banished, banished, TRUE)
           l == ZoneCount(p, ExtraDeck, extra, IF p = me THEN extra ELSE up, FALSE)
           o == ZoneCount(p, Overlay, materials, known, FALSE)
<1>4. Z = <<a, b, m, s, f, q, g, h, l, o>>
  BY DEF ZonesWith
<1>7. a.player = p /\ b.player = p /\ g.player = p /\ h.player = p /\ l.player = p /\ o.player = p
  BY DEF ZoneCount
<1> HIDE DEF a, b, g, h, l, o
<1>8. PICK Y : Y = {a, b, m, s, f, q, g, h, l, o}
  OBVIOUS
<1>5. \A z \in Y : z.player = p
  BY <1>7, <1>8
<1>6. Z \in Seq(Y)
  BY <1>4, <1>8, TenAre
<1> QED
  BY <1>5, <1>6 DEF ZonesFor

(* So the counts of all zones name a player.                                *)
LEMMA ZonesValid ==
    ASSUME NEW w, NEW i \in DOMAIN (ZonesOf(w, 0, me) \o ZonesOf(w, 1, me))
    PROVE  (ZonesOf(w, 0, me) \o ZonesOf(w, 1, me))[i].player <= 1
<1>1. PICK A, B : A = ZonesOf(w, 0, me) /\ B = ZonesOf(w, 1, me)
  OBVIOUS
<1>3. ASSUME NEW p \in Players, NEW Z, Z = ZonesOf(w, p, me)
      PROVE  ZonesFor(Z, p)
  <2>2. ASSUME NEW slots, NEW location, NEW zone
        PROVE  FieldCount(slots, p, location, zone).player = p
    BY DEF FieldCount, ZoneCount
  <2>3. Z = ZonesWith(p, Len(w.deck[p]), Len(w.hand[p]),
              FieldCount(w.monsters[p], p, "mzone", MonsterZone),
              FieldCount(w.spells[p], p, "szone", SpellTrapZone),
              FieldCount(w.spells[p], p, "szone", FieldZone),
              FieldCount(w.spells[p], p, "szone", PendulumRelevant),
              Len(w.grave[p]), Len(w.banished[p]), Len(w.extra[p]),
              Cardinality(ExtraUp(w.extra[p])), Cardinality(MaterialsOn(w.monsters[p])),
              Cardinality(KnownOn(w.monsters[p], p)))
    BY <1>3, ZonesAre
  <2> QED
    BY <2>2, <2>3, ZonesOfOne
<1>4. 0 \in Players /\ 1 \in Players
  BY DEF Players
<1>5. PICK Y : A \in Seq(Y) /\ \A z \in Y : z.player = 0
  BY <1>1, <1>3, <1>4 DEF ZonesFor
<1>6. PICK V : B \in Seq(V) /\ \A z \in V : z.player = 1
  BY <1>1, <1>3, <1>4 DEF ZonesFor
<1>7. A \o B \in Seq(Y \cup V)
  <2>1. A \in Seq(Y \cup V) /\ B \in Seq(Y \cup V)
    BY <1>5, <1>6
  <2> QED
    BY <2>1
<1>8. (A \o B)[i] \in Y \cup V
  BY <1>1, <1>7
<1>9. (A \o B)[i].player \in Players
  BY <1>4, <1>5, <1>6, <1>8
<1> QED
  BY <1>1, <1>9, IsPlayer

(* The greatest of a finite set of numbers is in it.                        *)
LEMMA MaxIs ==
    ASSUME NEW n \in Nat, NEW S \in SUBSET (1..n), S # {}
    PROVE  Max(S) \in S
<1>1. PICK T : T = {n - x : x \in S}
  OBVIOUS
<1>2. T \in SUBSET Nat /\ T # {}
  <2>1. \A x \in S : n - x \in Nat
    OBVIOUS
  <2>2. PICK x : x \in S
    OBVIOUS
  <2>3. n - x \in T
    BY <1>1, <2>2
  <2> QED
    BY <1>1, <2>1, <2>3
<1>3. PICK k \in T : \A j \in T : k <= j
  BY <1>2, Least
<1>4. PICK x \in S : k = n - x
  BY <1>1
<1>5. \A y \in S : x >= y
  <2>1. ASSUME NEW y \in S
        PROVE  x >= y
    <3>1. n - y \in T
      BY <1>1
    <3>2. n - x <= n - y
      BY <1>3, <1>4, <3>1
    <3> QED
      BY <3>2
  <2> QED
    BY <2>1
<1> QED
  BY <1>5 DEF Max

(* An event a policy may be told of. *)
SoundEvent(e) ==
    /\ {"player", "entity", "targets"} \subseteq DOMAIN e /\ "index" \notin DOMAIN e
    /\ MaybePlayer(e.player) /\ MaybeLocator(e.entity)
    /\ \A j \in DOMAIN e.targets : IsLocator(e.targets[j])

(* The session of an observer: its events are numbered from zero on.        *)
SoundSession(s) ==
    /\ s.next \in Nat /\ DOMAIN s.events = 1..s.next
    /\ s.events = [i \in 1..s.next |-> s.events[i]]
    /\ \A i \in 1..s.next : s.events[i].index = i - 1 /\ SoundEvent(s.events[i].event)

(* The players the last events name are ones the validator lets pass.       *)
LEMMA GlobalsValid ==
    ASSUME NEW w, NEW s, SoundSession(s)
    PROVE  /\ MaybePlayer(Globals(w, s.events, <<me>>).toAct)
           /\ MaybePlayer(Globals(w, s.events, <<me>>).turnPlayer)
<1>1. PICK g : g = Globals(w, s.events, <<me>>)
  OBVIOUS
<1>2. g.toAct = <<me>> /\ g.turnPlayer = LastOf(s.events, TurnStarted, "player")
  BY <1>1 DEF Globals
<1>3. me \in Players
  BY DEF me, Players
<1>4. PICK told : told = {i \in DOMAIN s.events : s.events[i].event.kind = TurnStarted
                                                  /\ s.events[i].event["player"] # <<>>}
  OBVIOUS
<1>5. LastOf(s.events, TurnStarted, "player")
        = IF told = {} THEN <<>> ELSE s.events[Max(told)].event["player"]
  BY <1>4 DEF LastOf
<1>6. told \in SUBSET (1..s.next) /\ s.next \in Nat
  BY <1>4 DEF SoundSession
<1>7. ASSUME told # {}
      PROVE  MaybePlayer(s.events[Max(told)].event["player"])
  <2>1. Max(told) \in 1..s.next
    BY <1>6, <1>7, MaxIs
  <2>2. SoundEvent(s.events[Max(told)].event)
    BY <2>1 DEF SoundSession
  <2> QED
    BY <2>2 DEF SoundEvent
<1>8. MaybePlayer(<<>>)
  BY DEF MaybePlayer
<1> QED
  BY <1>1, <1>2, <1>3, <1>5, <1>7, <1>8, IsPlayer

----------------------------------------------------------------------------
(* The events that messages make.                                           *)

(* Events and messages that a policy may be told of. *)
SoundEvents(s) == \E T : s \in Seq(T) /\ \A e \in T : SoundEvent(e)
Reports(told) == \E M : told \in Seq(M) /\ \A m \in M : SoundEvents(EventsOf(m, me))

(* The fields of an event that says nothing yet.                            *)
LEMMA BareIs ==
    ASSUME NEW kind
    PROVE  /\ {"player", "entity", "targets", "code", "from", "to", "count", "amount", "counter",
               "phase", "winner", "reason", "description", "kind"} = DOMAIN Bare(kind)
           /\ Bare(kind).player = <<>> /\ Bare(kind).entity = <<>> /\ Bare(kind).targets = <<>>
  BY DEF Bare

(* An event with those fields may be written when its player and locators   *)
(* may be.                                                                  *)
LEMMA SoundIs ==
    ASSUME NEW kind, NEW e, DOMAIN e = DOMAIN Bare(kind),
           MaybePlayer(e.player), MaybeLocator(e.entity),
           \A j \in DOMAIN e.targets : IsLocator(e.targets[j])
    PROVE  SoundEvent(e)
  BY BareIs DEF SoundEvent

(* Nothing given is always let pass.                                        *)
LEMMA NoneSound ==
    /\ MaybePlayer(<<>>) /\ MaybeLocator(<<>>) /\ \A j \in DOMAIN <<>> : IsLocator(<<>>[j])
  BY DEF MaybePlayer, MaybeLocator

(* What safe_locator gives is let pass,                                     *)
LEMMA SafeLocatorSound ==
    ASSUME NEW place, NEW revealed
    PROVE  MaybeLocator(SafeLocator(place, me, revealed))
<1>1. \/ SafeLocator(place, me, revealed) = <<>>
      \/ SafeLocator(place, me, revealed) = <<SlotLocator(place.controller, ZoneAt(place), place.sequence)>>
  BY DEF SafeLocator, Given
<1>2. IsLocator(SlotLocator(place.controller, ZoneAt(place), place.sequence))
  BY WordIsLocator DEF SlotLocator
<1> QED
  BY <1>1, <1>2 DEF MaybeLocator

(* and so are the locators of targets.                                      *)
LEMMA LocatorsSound ==
    ASSUME NEW place
    PROVE  \A j \in DOMAIN Locators(<<place>>, me) : IsLocator(Locators(<<place>>, me)[j])
<1>1. PICK l : l = SafeLocator(place, me, FALSE)
  OBVIOUS
<1>2. PICK T : T = {SlotLocator(place.controller, ZoneAt(place), place.sequence)}
  OBVIOUS
<1>3. l \in Seq(T)
  <2>1. l = <<>> \/ l = <<SlotLocator(place.controller, ZoneAt(place), place.sequence)>>
    BY <1>1 DEF SafeLocator, Given
  <2>2. ASSUME NEW a \in T
        PROVE  <<a>> \in Seq(T)
    OBVIOUS
  <2>3. <<>> \in Seq(T)
    OBVIOUS
  <2> QED
    BY <1>2, <2>1, <2>2, <2>3
<1>4. Locators(<<place>>, me) = FlattenSeq(<<l>>)
  <2>1. PICK f : f = [i \in DOMAIN <<place>> |-> SafeLocator(<<place>>[i], me, FALSE)]
    OBVIOUS
  <2>2. DOMAIN <<place>> = 1..1 /\ <<place>>[1] = place
    OBVIOUS
  <2>5. \A i \in 1..1 : i = 1
    OBVIOUS
  <2>6. \A i \in 1..1 : SafeLocator(<<place>>[i], me, FALSE) = l
    BY <1>1, <2>2, <2>5
  <2>3. f = [i \in 1..1 |-> l]
    BY <2>1, <2>2, <2>6
  <2>4. f = <<l>>
    <3>1. ASSUME NEW g, g = <<l>>
          PROVE  DOMAIN g = 1..1 /\ g[1] = l /\ g = [i \in 1..1 |-> g[i]]
      BY <3>1
    <3>2. PICK g : g = <<l>>
      OBVIOUS
    <3>3. g = [i \in 1..1 |-> g[i]] /\ g[1] = l
      BY <3>1, <3>2
    <3>4. \A i \in 1..1 : g[i] = l
      BY <3>3
    <3>5. g = [i \in 1..1 |-> l]
      BY <3>3, <3>4
    <3> QED
      BY <2>3, <3>2, <3>5
  <2> QED
    BY <2>1, <2>4 DEF Locators
<1>5. <<l>> \in Seq(Seq(T))
  BY <1>3
<1>6. Locators(<<place>>, me) \in Seq(T)
  BY <1>4, <1>5, FlatSeq
<1>7. \A x \in T : IsLocator(x)
  BY <1>2, WordIsLocator DEF SlotLocator
<1> QED
  BY <1>6, <1>7

(* One event that may be written is a sequence of such,                     *)
LEMMA OneSound ==
    ASSUME NEW e, SoundEvent(e)
    PROVE  SoundEvents(<<e>>)
<1>1. PICK T : T = {e}
  OBVIOUS
<1>2. <<e>> \in Seq(T)
  BY <1>1
<1>3. \A x \in T : SoundEvent(x)
  BY <1>1
<1> QED
  BY <1>2, <1>3 DEF SoundEvents

(* and two such sequences are one.                                          *)
LEMMA BothSound ==
    ASSUME NEW s, NEW t, SoundEvents(s), SoundEvents(t)
    PROVE  SoundEvents(s \o t)
<1>1. PICK T : s \in Seq(T) /\ \A e \in T : SoundEvent(e)
  BY DEF SoundEvents
<1>2. PICK Y : t \in Seq(Y) /\ \A e \in Y : SoundEvent(e)
  BY DEF SoundEvents
<1>3. s \o t \in Seq(T \cup Y)
  BY <1>1, <1>2
<1>4. \A e \in T \cup Y : SoundEvent(e)
  BY <1>1, <1>2
<1> QED
  BY <1>3, <1>4 DEF SoundEvents

(* A message that reports such events is a sequence of such,                *)
LEMMA OneReports ==
    ASSUME NEW m, SoundEvents(EventsOf(m, me))
    PROVE  Reports(<<m>>)
<1>1. PICK T : T = {m}
  OBVIOUS
<1>2. <<m>> \in Seq(T)
  BY <1>1
<1>3. \A x \in T : SoundEvents(EventsOf(x, me))
  BY <1>1
<1> QED
  BY <1>2, <1>3 DEF Reports

(* two sequences of such are one,                                           *)
LEMMA BothReport ==
    ASSUME NEW s, NEW t, Reports(s), Reports(t)
    PROVE  Reports(s \o t)
<1>1. PICK T : s \in Seq(T) /\ \A m \in T : SoundEvents(EventsOf(m, me))
  BY DEF Reports
<1>2. PICK Y : t \in Seq(Y) /\ \A m \in Y : SoundEvents(EventsOf(m, me))
  BY DEF Reports
<1>3. s \o t \in Seq(T \cup Y)
  BY <1>1, <1>2
<1>4. \A m \in T \cup Y : SoundEvents(EventsOf(m, me))
  BY <1>1, <1>2
<1> QED
  BY <1>3, <1>4 DEF Reports

(* and so is none,                                                          *)
LEMMA NoneReports ==
    Reports(<<>>)
<1>1. PICK T : T = {}
  OBVIOUS
<1>2. <<>> \in Seq(T) /\ \A x \in T : SoundEvents(EventsOf(x, me))
  BY <1>1
<1> QED
  BY <1>2 DEF Reports

(* and a pair.                                                              *)
LEMMA TwoReport ==
    ASSUME NEW m, NEW n, SoundEvents(EventsOf(m, me)), SoundEvents(EventsOf(n, me))
    PROVE  Reports(<<m, n>>)
<1>1. PICK T : T = {m, n}
  OBVIOUS
<1>2. <<m, n>> \in Seq(T)
  BY <1>1
<1>3. \A x \in T : SoundEvents(EventsOf(x, me))
  BY <1>1
<1> QED
  BY <1>2, <1>3 DEF Reports

(* The session takes in what is reported. *)
LEMMA FreshIsSound ==
    ASSUME NEW told, Reports(told)
    PROVE  SoundEvents(FlattenSeq([i \in DOMAIN told |-> EventsOf(told[i], me)]))
<1>1. PICK M : told \in Seq(M) /\ \A m \in M : SoundEvents(EventsOf(m, me))
  BY DEF Reports
<1>2. PICK T : T = UNION {{EventsOf(told[i], me)[j] : j \in DOMAIN EventsOf(told[i], me)} : i \in DOMAIN told}
  OBVIOUS
<1>3. DOMAIN told = 1..Len(told) /\ Len(told) \in Nat
  BY <1>1
<1>4. ASSUME NEW i \in DOMAIN told
      PROVE  /\ EventsOf(told[i], me) \in Seq(T)
             /\ \A j \in DOMAIN EventsOf(told[i], me) : SoundEvent(EventsOf(told[i], me)[j])
  <2>1. told[i] \in M
    BY <1>1
  <2>2. PICK s : s = EventsOf(told[i], me)
    OBVIOUS
  <2>3. SoundEvents(s)
    BY <1>1, <2>1, <2>2
  <2>4. PICK Y : s \in Seq(Y) /\ \A e \in Y : SoundEvent(e)
    BY <2>3 DEF SoundEvents
  <2>5. \A j \in DOMAIN s : SoundEvent(s[j])
    BY <2>4
  <2>6. \A j \in DOMAIN s : s[j] \in T
    BY <1>2, <2>2
  <2>7. s \in Seq(T)
    BY <2>4, <2>6
  <2> QED
    BY <2>2, <2>5, <2>7
<1>5. \A e \in T : SoundEvent(e)
  BY <1>2, <1>4
<1>6. [i \in DOMAIN told |-> EventsOf(told[i], me)] \in [1..Len(told) -> Seq(T)]
  BY <1>3, <1>4
<1>7. [i \in DOMAIN told |-> EventsOf(told[i], me)] \in Seq(Seq(T))
  BY <1>3, <1>6, FunctionIsSeq
<1>8. FlattenSeq([i \in DOMAIN told |-> EventsOf(told[i], me)]) \in Seq(T)
  BY <1>7, FlatSeq
<1> QED
  BY <1>5, <1>8 DEF SoundEvents

(* A session that takes in messages of such events keeps its events         *)
(* numbered and ready to be written.                                        *)
LEMMA IngestIsSound ==
    ASSUME NEW s, SoundSession(s), NEW told, Reports(told), NEW step
    PROVE  SoundSession(Ingest(s, told, me, step))
<1>1. PICK fresh : fresh = FlattenSeq([i \in DOMAIN told |-> EventsOf(told[i], me)])
  OBVIOUS
<1>2. SoundEvents(fresh)
  BY <1>1, FreshIsSound
<1>3. PICK T : fresh \in Seq(T) /\ \A e \in T : SoundEvent(e)
  BY <1>2 DEF SoundEvents
<1>4. PICK n, k, E : n = s.next /\ k = Len(fresh) /\ E = s.events
  OBVIOUS
<1>5. /\ n \in Nat /\ k \in Nat /\ DOMAIN fresh = 1..k /\ DOMAIN E = 1..n
      /\ E = [i \in 1..n |-> E[i]] /\ \A i \in 1..n : E[i].index = i - 1 /\ SoundEvent(E[i].event)
  <2>1. n \in Nat /\ DOMAIN E = 1..n /\ E = [i \in 1..n |-> E[i]]
    BY <1>4 DEF SoundSession
  <2>2. \A i \in 1..n : E[i].index = i - 1 /\ SoundEvent(E[i].event)
    BY <1>4 DEF SoundSession
  <2>3. k \in Nat /\ DOMAIN fresh = 1..k
    BY <1>3, <1>4
  <2> QED
    BY <2>1, <2>2, <2>3
<1>6. PICK F : F = [i \in DOMAIN fresh |-> [index |-> n + i - 1, step |-> step, event |-> fresh[i]]]
  OBVIOUS
<1>7. PICK x : x = Ingest(s, told, me, step)
  OBVIOUS
<1>8. x.events = E \o F /\ x.next = n + k
  BY <1>1, <1>4, <1>6, <1>7 DEF Ingest
<1>9. PICK Y : Y = {E[i] : i \in 1..n} \cup {F[i] : i \in 1..k}
  OBVIOUS
<1>10. E \in Seq(Y) /\ Len(E) = n
  <2>1. E \in [1..n -> Y]
    BY <1>5, <1>9
  <2> QED
    BY <1>5, <2>1, FunctionIsSeq
<1>11. F \in Seq(Y) /\ Len(F) = k
  <2>1. F = [i \in 1..k |-> F[i]]
    BY <1>5, <1>6
  <2>2. F \in [1..k -> Y]
    BY <1>9, <2>1
  <2> QED
    BY <1>5, <2>2, FunctionIsSeq
<1>12. /\ E \o F \in Seq(Y) /\ Len(E \o F) = n + k
       /\ \A i \in 1..n : (E \o F)[i] = E[i]
       /\ \A i \in 1..k : (E \o F)[n + i] = F[i]
  <2>1. /\ E \o F \in Seq(Y) /\ Len(E \o F) = Len(E) + Len(F)
        /\ \A i \in 1..Len(E) : (E \o F)[i] = E[i]
        /\ \A i \in 1..Len(F) : (E \o F)[Len(E) + i] = F[i]
    <3>1. E \in Seq(Y) /\ F \in Seq(Y)
      BY <1>10, <1>11
    <3> QED
      BY <3>1
  <2> QED
    BY <1>10, <1>11, <2>1
<1>13. DOMAIN (E \o F) = 1..(n + k) /\ E \o F = [i \in 1..(n + k) |-> (E \o F)[i]]
  <2>1. ASSUME NEW g, g \in Seq(Y), Len(g) = n + k
        PROVE  DOMAIN g = 1..(n + k) /\ g = [i \in 1..(n + k) |-> g[i]]
    BY <2>1
  <2> QED
    BY <1>12, <2>1
<1>14. ASSUME NEW i \in 1..(n + k)
       PROVE  (E \o F)[i].index = i - 1 /\ SoundEvent((E \o F)[i].event)
  <2>1. CASE i <= n
    BY <1>5, <1>12, <2>1
  <2>2. CASE i > n
    <3>1. PICK j \in 1..k : i = n + j
      <4>1. i - n \in 1..k /\ i = n + (i - n)
        BY <1>5, <2>2
      <4> QED
        BY <4>1
    <3>2. (E \o F)[i] = F[j]
      BY <1>12, <3>1
    <3>3. F[j].index = n + j - 1 /\ F[j].event = fresh[j]
      BY <1>5, <1>6
    <3>4. SoundEvent(fresh[j])
      BY <1>3, <1>5
    <3>5. n + j - 1 = i - 1
      BY <1>5, <3>1
    <3>6. (E \o F)[i].index = i - 1
      BY <3>2, <3>3, <3>5
    <3>7. SoundEvent((E \o F)[i].event)
      BY <3>2, <3>3, <3>4
    <3> QED
      BY <3>6, <3>7
  <2>3. i <= n \/ i > n
    BY <1>5
  <2> QED
    BY <2>1, <2>2, <2>3
<1>15. n + k \in Nat
  BY <1>5
<1> QED
  BY <1>7, <1>8, <1>13, <1>14, <1>15 DEF SoundSession

(* A card at its place makes an event that may be written,                  *)
LEMMA PlacedSound ==
    ASSUME NEW kind, NEW m, m.at.controller \in Players
    PROVE  SoundEvent(Placed(kind, m, me)) /\ DOMAIN Placed(kind, m, me) = DOMAIN Bare(kind)
<1>1. PICK b : b = Bare(kind)
  OBVIOUS
<1>2. PICK p, to, code, entity : /\ p = m.at.controller /\ to = <<ZoneAt(m.at)>>
                                 /\ code = Given(Shows(m.at, me), m.code)
                                 /\ entity = SafeLocator(m.at, me, FALSE)
  OBVIOUS
<1>3. PICK e : e = [b EXCEPT !.player = <<p>>, !.to = to, !.code = code, !.entity = entity]
  OBVIOUS
<1>4. Placed(kind, m, me) = e
  BY <1>1, <1>2, <1>3 DEF Placed
<1>5. DOMAIN e = DOMAIN b
  BY <1>3
<1>6. {"player", "entity", "targets"} \subseteq DOMAIN b /\ b.targets = <<>>
  BY <1>1, BareIs
<1>7. e.player = <<p>> /\ e.entity = entity /\ e.targets = b.targets
  BY <1>3, <1>6
<1>8. MaybePlayer(e.player)
  BY <1>2, <1>7, IsPlayer
<1>9. MaybeLocator(e.entity)
  BY <1>2, <1>7, SafeLocatorSound
<1>10. \A j \in DOMAIN e.targets : IsLocator(e.targets[j])
  BY <1>6, <1>7, NoneSound
<1>11. SoundEvent(e)
  BY <1>1, <1>5, <1>8, <1>9, <1>10, SoundIs
<1> QED
  BY <1>1, <1>4, <1>5, <1>11

(* a move does,                                                             *)
LEMMA MovedSound ==
    ASSUME NEW m, m.to.controller \in Players
    PROVE  SoundEvent(Moved(m, me))
<1>1. PICK kind : kind = MoveKind(m)
  OBVIOUS
<1>2. PICK b : b = Bare(kind)
  OBVIOUS
<1>3. PICK p, from, to, code, entity :
         /\ p = m.to.controller /\ from = <<ZoneAt(m.from)>> /\ to = <<ZoneAt(m.to)>>
         /\ code = Given(Shows(m.from, me) \/ Shows(m.to, me), m.code)
         /\ entity = SafeLocator(m.to, me, FALSE)
  OBVIOUS
<1>4. PICK e : e = [b EXCEPT !.player = <<p>>, !.from = from, !.to = to, !.code = code, !.entity = entity]
  OBVIOUS
<1>5. Moved(m, me) = e
  BY <1>1, <1>2, <1>3, <1>4 DEF Moved
<1>6. DOMAIN e = DOMAIN b
  BY <1>4
<1>7. {"player", "entity", "targets"} \subseteq DOMAIN b /\ b.targets = <<>>
  BY <1>2, BareIs
<1>8. e.player = <<p>> /\ e.entity = entity /\ e.targets = b.targets
  BY <1>4, <1>7
<1>9. MaybePlayer(e.player)
  BY <1>3, <1>8, IsPlayer
<1>10. MaybeLocator(e.entity)
  BY <1>3, <1>8, SafeLocatorSound
<1>11. \A j \in DOMAIN e.targets : IsLocator(e.targets[j])
  BY <1>7, <1>8, NoneSound
<1>12. SoundEvent(e)
  BY <1>2, <1>6, <1>9, <1>10, <1>11, SoundIs
<1> QED
  BY <1>5, <1>12

(* and a card equipped or aimed.                                            *)
LEMMA RelatedSound ==
    ASSUME NEW kind, NEW m, m.source.controller \in Players
    PROVE  SoundEvent(Related(kind, m, me))
<1>1. PICK b : b = Bare(kind)
  OBVIOUS
<1>2. PICK p, entity, targets : /\ p = m.source.controller
                                /\ entity = SafeLocator(m.source, me, FALSE)
                                /\ targets = Locators(<<m.target>>, me)
  OBVIOUS
<1>3. PICK e : e = [b EXCEPT !.player = <<p>>, !.entity = entity, !.targets = targets]
  OBVIOUS
<1>4. Related(kind, m, me) = e
  BY <1>1, <1>2, <1>3 DEF Related
<1>5. DOMAIN e = DOMAIN b
  BY <1>3
<1>6. {"player", "entity", "targets"} \subseteq DOMAIN b
  BY <1>1, BareIs
<1>7. e.player = <<p>> /\ e.entity = entity /\ e.targets = targets
  BY <1>3, <1>6
<1>8. MaybePlayer(e.player)
  BY <1>2, <1>7, IsPlayer
<1>9. MaybeLocator(e.entity)
  BY <1>2, <1>7, SafeLocatorSound
<1>10. \A j \in DOMAIN e.targets : IsLocator(e.targets[j])
  BY <1>2, <1>7, LocatorsSound
<1>11. SoundEvent(e)
  BY <1>1, <1>5, <1>8, <1>9, <1>10, SoundIs
<1> QED
  BY <1>4, <1>11

(* Events that say nothing of places. *)
PlainEvent(e, kind) ==
    /\ DOMAIN e = DOMAIN Bare(kind) /\ e.entity = <<>> /\ e.targets = <<>>
    /\ e.player = <<>> \/ \E p \in Players : e.player = <<p>>

(* Events that say nothing of places may be written:                        *)
LEMMA PlainSound ==
    ASSUME NEW kind, NEW e, PlainEvent(e, kind)
    PROVE  SoundEvent(e)
<1>1. MaybePlayer(e.player)
  BY NoneSound, IsPlayer DEF PlainEvent
<1>2. MaybeLocator(e.entity) /\ \A j \in DOMAIN e.targets : IsLocator(e.targets[j])
  BY NoneSound DEF PlainEvent
<1>3. DOMAIN e = DOMAIN Bare(kind)
  BY DEF PlainEvent
<1> QED
  BY <1>1, <1>2, <1>3, SoundIs

(* those of turns, phases, draws, damage, chain links and the end of the    *)
(* duel.                                                                    *)
LEMMA PlainAre ==
    ASSUME NEW kind, NEW p \in Players, NEW x, NEW y
    PROVE  /\ PlainEvent(Bare(kind), kind)
           /\ PlainEvent([Bare(kind) EXCEPT !.player = <<p>>], kind)
           /\ PlainEvent([Bare(kind) EXCEPT !.phase = x], kind)
           /\ PlainEvent([Bare(kind) EXCEPT !.winner = x, !.reason = y], kind)
           /\ PlainEvent([Bare(kind) EXCEPT !.player = <<p>>, !.count = x], kind)
           /\ PlainEvent([Bare(kind) EXCEPT !.player = <<p>>, !.code = x], kind)
           /\ PlainEvent([Bare(kind) EXCEPT !.player = <<p>>, !.amount = x], kind)
           /\ PlainEvent([Bare(kind) EXCEPT !.count = x], kind)
<1>1. PICK b : b = Bare(kind)
  OBVIOUS
<1>2. /\ {"player", "entity", "targets", "phase", "winner", "reason", "count", "code", "amount"}
            \subseteq DOMAIN b
      /\ b.player = <<>> /\ b.entity = <<>> /\ b.targets = <<>>
  BY <1>1, BareIs
<1>3. ASSUME NEW e, DOMAIN e = DOMAIN b, e.entity = b.entity, e.targets = b.targets,
             e.player = b.player \/ e.player = <<p>>
      PROVE  PlainEvent(e, kind)
  BY <1>1, <1>2, <1>3 DEF PlainEvent
<1>4. PlainEvent(b, kind)
  BY <1>3
<1>5. PlainEvent([b EXCEPT !.player = <<p>>], kind)
  BY <1>2, <1>3
<1>6. PlainEvent([b EXCEPT !.phase = x], kind)
  BY <1>2, <1>3
<1>7. PlainEvent([b EXCEPT !.winner = x, !.reason = y], kind)
  BY <1>2, <1>3
<1>8. PlainEvent([b EXCEPT !.player = <<p>>, !.count = x], kind)
  BY <1>2, <1>3
<1>9. PlainEvent([b EXCEPT !.player = <<p>>, !.code = x], kind)
  BY <1>2, <1>3
<1>10. PlainEvent([b EXCEPT !.player = <<p>>, !.amount = x], kind)
  BY <1>2, <1>3
<1>11. PlainEvent([b EXCEPT !.count = x], kind)
  BY <1>2, <1>3
<1> QED
  BY <1>1, <1>4, <1>5, <1>6, <1>7, <1>8, <1>9, <1>10, <1>11

(* The events of project_visible_events for the messages of turns,          *)
(* positions and reveals,                                                   *)
LEMMA AlsoEventsAre ==
    ASSUME NEW m
    PROVE  /\ m.t = "new_turn" => EventsOf(m, me) = <<[Bare(TurnStarted) EXCEPT !.player = <<m.player>>]>>
           /\ m.t = "new_phase" => EventsOf(m, me) = <<[Bare(PhaseChanged) EXCEPT !.phase = <<m.phase>>]>>
           /\ m.t = "win" => EventsOf(m, me)
                                = <<[Bare(Win) EXCEPT !.winner = <<m.winner>>, !.reason = <<m.reason>>]>>
           /\ m.t = "pos_change" => EventsOf(m, me) = <<Turned(m, me)>>
           /\ m.t = "flipsummoning" => EventsOf(m, me) = <<Placed(Summoned, m, me)>>
           /\ m.t = "summoned" => EventsOf(m, me) = <<Bare(Summoned)>>
           /\ m.t = "confirm" => EventsOf(m, me) = [i \in DOMAIN m.cards |-> Confirmed(m, m.cards[i], me)]
<1>1. m.t = "new_turn" => EventsOf(m, me) = <<[Bare(TurnStarted) EXCEPT !.player = <<m.player>>]>>
  BY DEF EventsOf
<1>2. m.t = "new_phase" => EventsOf(m, me) = <<[Bare(PhaseChanged) EXCEPT !.phase = <<m.phase>>]>>
  BY DEF EventsOf
<1>3. m.t = "win" => EventsOf(m, me)
                       = <<[Bare(Win) EXCEPT !.winner = <<m.winner>>, !.reason = <<m.reason>>]>>
  BY DEF EventsOf
<1>4. m.t = "pos_change" => EventsOf(m, me) = <<Turned(m, me)>>
  BY DEF EventsOf
<1>5. m.t = "flipsummoning" => EventsOf(m, me) = <<Placed(Summoned, m, me)>>
  BY DEF EventsOf
<1>6. m.t = "summoned" => EventsOf(m, me) = <<Bare(Summoned)>>
  BY DEF EventsOf
<1>7. m.t = "confirm" => EventsOf(m, me) = [i \in DOMAIN m.cards |-> Confirmed(m, m.cards[i], me)]
  BY DEF EventsOf
<1> QED
  BY <1>1, <1>2, <1>3, <1>4, <1>5, <1>6, <1>7

(* and for those of damage, the chain, targets and shuffles.                *)
LEMMA ChainEventsAre ==
    ASSUME NEW m
    PROVE  /\ m.t = "damage" => EventsOf(m, me)
                = <<[Bare(LifePointsChanged) EXCEPT !.player = <<m.player>>, !.amount = <<0 - m.amount>>]>>
           /\ m.t = "chaining" => EventsOf(m, me) = <<Chaining(m, me)>>
           /\ m.t = "chained" => EventsOf(m, me) = <<[Bare(ChainActivated) EXCEPT !.count = <<m.count>>]>>
           /\ m.t = "chain_solved" => EventsOf(m, me) = <<[Bare(ChainResolved) EXCEPT !.count = <<m.count>>]>>
           /\ m.t = "chain_end" => EventsOf(m, me) = <<Bare(ChainEnded)>>
           /\ m.t = "become_target" => EventsOf(m, me)
                = <<[Bare(Targeted) EXCEPT !.targets = Locators(m.places, me)]>>
           /\ m.t = "equip" => EventsOf(m, me) = <<Related(Equipped, m, me)>>
           /\ m.t = "card_target" => EventsOf(m, me) = <<Related(Targeted, m, me)>>
           /\ m.t = "shuffle" => EventsOf(m, me)
                = <<[Bare(Shuffle) EXCEPT !.player = m.player],
                    [Bare(RandomizationBoundary) EXCEPT !.player = m.player, !.count = <<0>>]>>
<1>1. m.t = "damage" => EventsOf(m, me)
         = <<[Bare(LifePointsChanged) EXCEPT !.player = <<m.player>>, !.amount = <<0 - m.amount>>]>>
  BY DEF EventsOf
<1>2. m.t = "chaining" => EventsOf(m, me) = <<Chaining(m, me)>>
  BY DEF EventsOf
<1>3. m.t = "chained" => EventsOf(m, me) = <<[Bare(ChainActivated) EXCEPT !.count = <<m.count>>]>>
  BY DEF EventsOf
<1>4. m.t = "chain_solved" => EventsOf(m, me) = <<[Bare(ChainResolved) EXCEPT !.count = <<m.count>>]>>
  BY DEF EventsOf
<1>5. m.t = "chain_end" => EventsOf(m, me) = <<Bare(ChainEnded)>>
  BY DEF EventsOf
<1>6. m.t = "become_target" => EventsOf(m, me)
         = <<[Bare(Targeted) EXCEPT !.targets = Locators(m.places, me)]>>
  BY DEF EventsOf
<1>7. m.t = "equip" => EventsOf(m, me) = <<Related(Equipped, m, me)>>
  BY DEF EventsOf
<1>8. m.t = "card_target" => EventsOf(m, me) = <<Related(Targeted, m, me)>>
  BY DEF EventsOf
<1>9. m.t = "shuffle" => EventsOf(m, me)
         = <<[Bare(Shuffle) EXCEPT !.player = m.player],
             [Bare(RandomizationBoundary) EXCEPT !.player = m.player, !.count = <<0>>]>>
  BY DEF EventsOf
<1> QED
  BY <1>1, <1>2, <1>3, <1>4, <1>5, <1>6, <1>7, <1>8, <1>9

(* A list of events that may be written.                                    *)
LEMMA ListSound ==
    ASSUME NEW k \in Nat, NEW f, DOMAIN f = 1..k, f = [i \in 1..k |-> f[i]],
           \A i \in 1..k : SoundEvent(f[i])
    PROVE  SoundEvents(f)
<1>1. PICK T : T = {f[i] : i \in 1..k}
  OBVIOUS
<1>2. f \in [1..k -> T]
  BY <1>1
<1>3. f \in Seq(T)
  BY <1>2, FunctionIsSeq
<1>4. \A e \in T : SoundEvent(e)
  BY <1>1
<1>5. ASSUME NEW s \in Seq(T)
      PROVE  SoundEvents(s)
  BY <1>4 DEF SoundEvents
<1> QED
  BY <1>3, <1>5

(* A card drawn is a count, and the code of the player's own. *)
LEMMA DrawnSound ==
    ASSUME NEW p \in Players, NEW count, NEW k \in Nat, NEW shown, DOMAIN shown = 1..k
    PROVE  SoundEvents(DrawnWith(p, count, shown))
<1>1. PICK e : e = [Bare(Draw) EXCEPT !.player = <<p>>, !.count = <<count>>]
  OBVIOUS
<1>2. SoundEvent(e)
  BY <1>1, PlainAre, PlainSound
<1>3. PICK f : f = [i \in DOMAIN shown |->
                      [Bare(CardRevealed) EXCEPT !.player = <<p>>, !.code = <<shown[i].code>>]]
  OBVIOUS
<1>4. \A x : SoundEvent([Bare(CardRevealed) EXCEPT !.player = <<p>>, !.code = x])
  BY PlainAre, PlainSound
<1>5. /\ DOMAIN f = 1..k /\ f = [i \in 1..k |-> f[i]]
      /\ \A i \in 1..k : f[i] = [Bare(CardRevealed) EXCEPT !.player = <<p>>, !.code = <<shown[i].code>>]
  BY <1>3
<1>6. \A i \in 1..k : SoundEvent(f[i])
  BY <1>4, <1>5
<1>7. SoundEvents(f)
  BY <1>5, <1>6, ListSound
<1>8. SoundEvents(<<e>>)
  BY <1>2, OneSound
<1>9. DrawnWith(p, count, shown) = <<e>> \o f
  BY <1>1, <1>3 DEF DrawnWith
<1> QED
  BY <1>7, <1>8, <1>9, BothSound

(* What is selected of one card is a list.                                  *)
LEMMA SomeOfOne ==
    ASSUME NEW x, NEW P \in SUBSET {1}
    PROVE  \E k \in Nat : DOMAIN Selected(<<x>>, P) = 1..k
<1>1. IsFiniteSet(P)
  BY FS_Singleton, FS_Subset
<1>2. Cardinality(P) \in Nat
  BY <1>1, FS_CardinalityType
<1>3. DOMAIN Selected(<<x>>, P) = 1..Cardinality(P)
  BY DEF Selected
<1> QED
  BY <1>2, <1>3

(* The messages of a draw report events that may be written.                *)
LEMMA DrawReports ==
    ASSUME NEW p \in Players, NEW code
    PROVE  Reports(<<[t |-> "draw", player |-> p, cards |-> <<[code |-> code, up |-> FALSE]>>]>>)
<1>1. PICK x : x = [code |-> code, up |-> FALSE]
  OBVIOUS
<1>2. PICK m : m = [t |-> "draw", player |-> p, cards |-> <<x>>]
  OBVIOUS
<1>3. m.t = "draw" /\ m.player = p /\ m.cards = <<x>>
  BY <1>2
<1>4. PICK P : P = {i \in DOMAIN <<x>> : m.player = me \/ <<x>>[i].up}
  OBVIOUS
<1>5. P \in SUBSET {1}
  BY <1>4
<1>6. EventsOf(m, me) = Drawn(m, me)
  BY <1>3, EventsAre
<1>7. Drawn(m, me) = DrawnWith(p, Len(<<x>>), Selected(<<x>>, P))
  BY <1>3, <1>4, DrawnIs
<1>8. PICK k \in Nat : DOMAIN Selected(<<x>>, P) = 1..k
  BY <1>5, SomeOfOne
<1>9. SoundEvents(EventsOf(m, me))
  BY <1>6, <1>7, <1>8, DrawnSound
<1> QED
  BY <1>1, <1>2, <1>9, OneReports

(* So does that of a move,                                                  *)
LEMMA MoveReports ==
    ASSUME NEW c, NEW from, NEW to, to.controller \in Players, NEW destroyed
    PROVE  SoundEvents(EventsOf(MoveTold(c, from, to, destroyed), me))
<1>1. PICK m : m = MoveTold(c, from, to, destroyed)
  OBVIOUS
<1>2. m.t = "move" /\ m.to = to
  BY <1>1 DEF MoveTold
<1>3. EventsOf(m, me) = <<Moved(m, me)>>
  BY <1>2, EventsAre
<1>4. SoundEvent(Moved(m, me))
  BY <1>2, MovedSound
<1> QED
  BY <1>1, <1>3, <1>4, OneSound

(* and that of a card set or summoned.                                      *)
LEMMA PlacedReports ==
    ASSUME NEW t \in {"set", "summoning", "flipsummoning"}, NEW c, NEW at, at.controller \in Players
    PROVE  SoundEvents(EventsOf(AtTold(t, c, at), me))
<1>1. PICK m : m = AtTold(t, c, at)
  OBVIOUS
<1>2. m.t = t /\ m.at = at
  BY <1>1 DEF AtTold
<1>3. PICK kind : EventsOf(m, me) = <<Placed(kind, m, me)>>
  BY <1>2, EventsAre, AlsoEventsAre
<1>4. SoundEvent(Placed(kind, m, me))
  BY <1>2, PlacedSound
<1> QED
  BY <1>1, <1>3, <1>4, OneSound

(* There is a player.                                                       *)
LEMMA APlayer ==
    0 \in Players
  BY DEF Players

(* A change of position makes an event that may be written,                 *)
LEMMA TurnedSound ==
    ASSUME NEW m, m.at.controller \in Players
    PROVE  SoundEvent(Turned(m, me))
<1>1. PICK b : b = Placed(PositionChanged, m, me)
  OBVIOUS
<1>2. SoundEvent(b) /\ DOMAIN b = DOMAIN Bare(PositionChanged)
  BY <1>1, PlacedSound
<1>3. PICK code : code = Given(m.was \/ Shows(m.at, me), m.code)
  OBVIOUS
<1>4. PICK e : e = [b EXCEPT !.code = code]
  OBVIOUS
<1>5. Turned(m, me) = e
  BY <1>1, <1>3, <1>4 DEF Turned
<1>6. DOMAIN e = DOMAIN b
  BY <1>4
<1>7. {"player", "entity", "targets"} \subseteq DOMAIN b
  BY <1>2, BareIs
<1>8. e.player = b.player /\ e.entity = b.entity /\ e.targets = b.targets
  BY <1>4, <1>7
<1>9. SoundEvent(e)
  BY <1>2, <1>6, <1>8 DEF SoundEvent
<1> QED
  BY <1>5, <1>9

(* a link of the chain does,                                                *)
LEMMA ChainingSound ==
    ASSUME NEW m, m.at.controller \in Players, m.player \in Players
    PROVE  SoundEvent(Chaining(m, me))
<1>1. PICK b : b = Placed(ChainActivated, m, me)
  OBVIOUS
<1>2. SoundEvent(b) /\ DOMAIN b = DOMAIN Bare(ChainActivated)
  BY <1>1, PlacedSound
<1>3. PICK p, count, description :
         p = m.player /\ count = <<m.count>> /\ description = Given(Shows(m.at, me), m.description)
  OBVIOUS
<1>4. PICK e : e = [b EXCEPT !.player = <<p>>, !.count = count, !.description = description]
  OBVIOUS
<1>5. Chaining(m, me) = e
  BY <1>1, <1>3, <1>4 DEF Chaining
<1>6. DOMAIN e = DOMAIN b
  BY <1>4
<1>7. {"player", "entity", "targets"} \subseteq DOMAIN b
  BY <1>2, BareIs
<1>8. e.player = <<p>> /\ e.entity = b.entity /\ e.targets = b.targets
  BY <1>4, <1>7
<1>9. MaybePlayer(e.player)
  BY <1>3, <1>8, IsPlayer
<1>10. SoundEvent(e)
  BY <1>2, <1>6, <1>8, <1>9 DEF SoundEvent
<1> QED
  BY <1>5, <1>10

(* and a card confirmed.                                                    *)
LEMMA ConfirmedSound ==
    ASSUME NEW m, NEW c, c.at.controller \in Players
    PROVE  SoundEvent(Confirmed(m, c, me))
<1>1. PICK b : b = Bare(CardRevealed)
  OBVIOUS
<1>2. PICK p, to, code, entity :
         /\ p = c.at.controller /\ to = <<ZoneAt(c.at)>> /\ code = Given(m.recipient = me, c.code)
         /\ entity = IF m.recipient = me THEN SafeLocator(c.at, me, TRUE) ELSE <<>>
  OBVIOUS
<1>3. PICK e : e = [b EXCEPT !.player = <<p>>, !.to = to, !.code = code, !.entity = entity]
  OBVIOUS
<1>4. Confirmed(m, c, me) = e
  BY <1>1, <1>2, <1>3 DEF Confirmed
<1>5. DOMAIN e = DOMAIN b
  BY <1>3
<1>6. {"player", "entity", "targets"} \subseteq DOMAIN b /\ b.targets = <<>>
  BY <1>1, BareIs
<1>7. e.player = <<p>> /\ e.entity = entity /\ e.targets = b.targets
  BY <1>3, <1>6
<1>8. MaybePlayer(e.player)
  BY <1>2, <1>7, IsPlayer
<1>9. MaybeLocator(entity)
  <2>1. entity = SafeLocator(c.at, me, TRUE) \/ entity = <<>>
    BY <1>2
  <2>2. MaybeLocator(SafeLocator(c.at, me, TRUE))
    BY SafeLocatorSound
  <2>3. MaybeLocator(<<>>)
    BY NoneSound
  <2> QED
    BY <2>1, <2>2, <2>3
<1>10. \A j \in DOMAIN e.targets : IsLocator(e.targets[j])
  BY <1>6, <1>7, NoneSound
<1>11. SoundEvent(e)
  BY <1>1, <1>5, <1>7, <1>8, <1>9, <1>10, SoundIs
<1> QED
  BY <1>4, <1>11

(* Who controls a place.                                                    *)
LEMMA PlaceIs ==
    ASSUME NEW row, NEW p, NEW s, NEW c, NEW i, NEW location, NEW up
    PROVE  /\ OnField(row, p, s, c).controller = p /\ InHand(p, i, c).controller = p
           /\ [InHand(p, i, c) EXCEPT !.up = TRUE].controller = p
           /\ Place(p, location, s, up).controller = p
  BY DEF OnField, InHand, Place

(* The messages of a card confirmed report events that may be written;      *)
LEMMA ConfirmReports ==
    ASSUME NEW recipient, NEW p \in Players, NEW i, NEW c
    PROVE  Reports(ConfirmTold(recipient, p, i, c))
<1>1. PICK x : x = [code |-> c.code, at |-> [InHand(p, i, c) EXCEPT !.up = TRUE]]
  OBVIOUS
<1>2. x.at.controller = p
  <2>1. x.at = [InHand(p, i, c) EXCEPT !.up = TRUE]
    BY <1>1
  <2> QED
    BY <2>1, PlaceIs
<1>3. PICK m : m = [t |-> "confirm", recipient |-> recipient, cards |-> <<x>>]
  OBVIOUS
<1>4. m.t = "confirm" /\ m.cards = <<x>>
  BY <1>3
<1>5. PICK f : f = [j \in DOMAIN m.cards |-> Confirmed(m, m.cards[j], me)]
  OBVIOUS
<1>6. EventsOf(m, me) = f
  BY <1>4, <1>5, AlsoEventsAre
<1>7. DOMAIN f = 1..1 /\ \A j \in 1..1 : f[j] = Confirmed(m, x, me)
  BY <1>4, <1>5
<1>8. f = [j \in 1..1 |-> f[j]]
  <2>1. DOMAIN m.cards = 1..1
    BY <1>4
  <2>2. f = [j \in 1..1 |-> Confirmed(m, m.cards[j], me)]
    BY <1>5, <2>1
  <2> QED
    BY <2>2
<1>9. SoundEvent(Confirmed(m, x, me))
  BY <1>2, ConfirmedSound
<1>10. SoundEvents(f)
  <2>1. 1 \in Nat
    OBVIOUS
  <2>2. \A j \in 1..1 : SoundEvent(f[j])
    BY <1>7, <1>9
  <2> QED
    BY <1>7, <1>8, <2>1, <2>2, ListSound
<1>11. ConfirmTold(recipient, p, i, c) = <<m>>
  BY <1>1, <1>3 DEF ConfirmTold
<1> QED
  BY <1>6, <1>10, <1>11, OneReports

(* those of a shuffle do,                                                   *)
LEMMA ShuffleReports ==
    ASSUME NEW p \in Players
    PROVE  Reports(ShuffleTold(p))
<1>1. PICK m : m = [t |-> "shuffle", player |-> <<p>>]
  OBVIOUS
<1>2. m.t = "shuffle" /\ m.player = <<p>>
  BY <1>1
<1>3. PICK d, e : /\ d = [Bare(Shuffle) EXCEPT !.player = <<p>>]
                  /\ e = [Bare(RandomizationBoundary) EXCEPT !.player = <<p>>, !.count = <<0>>]
  OBVIOUS
<1>4. EventsOf(m, me) = <<d, e>>
  BY <1>2, <1>3, ChainEventsAre
<1>5. SoundEvent(d) /\ SoundEvent(e)
  BY <1>3, PlainAre, PlainSound
<1>6. SoundEvents(<<d, e>>)
  <2>1. PICK T : T = {d, e}
    OBVIOUS
  <2>2. <<d, e>> \in Seq(T) /\ \A x \in T : SoundEvent(x)
    BY <1>5, <2>1
  <2> QED
    BY <2>2 DEF SoundEvents
<1>7. ShuffleTold(p) = <<m>>
  BY <1>1 DEF ShuffleTold
<1> QED
  BY <1>4, <1>6, <1>7, OneReports

(* those of a change of position,                                           *)
LEMMA TurnReports ==
    ASSUME NEW p \in Players, NEW s, NEW c
    PROVE  Reports(TurnTold(p, s, c))
<1>1. PICK d, at : d = TurnedCard(c) /\ at = OnField("monsters", p, s, d)
  OBVIOUS
<1>2. at.controller \in Players
  BY <1>1, PlaceIs
<1>3. PICK m : m = [t |-> "pos_change", code |-> c.code, at |-> at, was |-> c.up]
  OBVIOUS
<1>4. m.t = "pos_change" /\ m.at = at
  BY <1>3
<1>5. EventsOf(m, me) = <<Turned(m, me)>>
  BY <1>4, AlsoEventsAre
<1>6. Reports(<<m>>)
  BY <1>2, <1>4, <1>5, TurnedSound, OneSound, OneReports
<1>7. Reports(IF d.up THEN <<AtTold("flipsummoning", c, at)>> ELSE <<>>)
  <2>1. Reports(<<AtTold("flipsummoning", c, at)>>)
    BY <1>2, PlacedReports, OneReports
  <2> QED
    BY <2>1, NoneReports
<1>8. TurnTold(p, s, c) = <<m>> \o (IF d.up THEN <<AtTold("flipsummoning", c, at)>> ELSE <<>>)
  BY <1>1, <1>3 DEF TurnTold
<1> QED
  BY <1>6, <1>7, <1>8, BothReport

(* those of an aim,                                                         *)
LEMMA AimReports ==
    ASSUME NEW p, NEW at, at.controller \in Players, NEW aim
    PROVE  Reports(AimTold(p, at, aim))
<1>1. PICK k, m, n : /\ k = [t |-> "equip", source |-> at, target |-> aim]
                     /\ m = [t |-> "card_target", source |-> at, target |-> aim]
                     /\ n = [t |-> "become_target", places |-> <<aim>>]
  OBVIOUS
<1>2. /\ k.t = "equip" /\ k.source = at /\ m.t = "card_target" /\ m.source = at
      /\ n.t = "become_target" /\ n.places = <<aim>>
  BY <1>1
<1>3. Reports(<<k>>)
  <2>1. EventsOf(k, me) = <<Related(Equipped, k, me)>>
    BY <1>2, ChainEventsAre
  <2> QED
    BY <1>2, <2>1, RelatedSound, OneSound, OneReports
<1>4. SoundEvents(EventsOf(m, me))
  <2>1. EventsOf(m, me) = <<Related(Targeted, m, me)>>
    BY <1>2, ChainEventsAre
  <2> QED
    BY <1>2, <2>1, RelatedSound, OneSound
<1>5. SoundEvents(EventsOf(n, me))
  <2>1. PICK b, l : b = Bare(Targeted) /\ l = Locators(<<aim>>, me)
    OBVIOUS
  <2>2. PICK e : e = [b EXCEPT !.targets = l]
    OBVIOUS
  <2>3. EventsOf(n, me) = <<e>>
    BY <1>2, <2>1, <2>2, ChainEventsAre
  <2>4. /\ {"player", "entity", "targets"} \subseteq DOMAIN b
        /\ b.player = <<>> /\ b.entity = <<>>
    BY <2>1, BareIs
  <2>5. DOMAIN e = DOMAIN b /\ e.player = <<>> /\ e.entity = <<>> /\ e.targets = l
    BY <2>2, <2>4
  <2>6. \A j \in DOMAIN l : IsLocator(l[j])
    BY <2>1, LocatorsSound
  <2>7. SoundEvent(e)
    BY <2>1, <2>5, <2>6, NoneSound, SoundIs
  <2> QED
    BY <2>3, <2>7, OneSound
<1>6. Reports(<<m, n>>)
  BY <1>4, <1>5, TwoReport
<1>7. AimTold(p, at, aim) = IF p = 1 THEN <<k>> ELSE <<m, n>>
  BY <1>1 DEF AimTold
<1> QED
  BY <1>3, <1>6, <1>7

(* of an activation,                                                        *)
LEMMA ActivateReports ==
    ASSUME NEW p \in Players, NEW s, NEW c, NEW count
    PROVE  Reports(ActivateTold(p, s, c, count))
<1>1. PICK at : at = OnField("spells", p, s, c)
  OBVIOUS
<1>2. at.controller \in Players
  BY <1>1, PlaceIs
<1>3. PICK m, n : /\ m = [t |-> "chaining", code |-> c.code, at |-> at, player |-> p,
                          description |-> c.code, count |-> count]
                  /\ n = [t |-> "chained", count |-> count]
  OBVIOUS
<1>4. m.t = "chaining" /\ m.at = at /\ m.player = p /\ n.t = "chained" /\ n.count = count
  BY <1>3
<1>5. SoundEvents(EventsOf(m, me))
  <2>1. EventsOf(m, me) = <<Chaining(m, me)>>
    BY <1>4, ChainEventsAre
  <2> QED
    BY <1>2, <1>4, <2>1, ChainingSound, OneSound
<1>6. SoundEvents(EventsOf(n, me))
  <2>1. EventsOf(n, me) = <<[Bare(ChainActivated) EXCEPT !.count = <<n.count>>]>>
    BY <1>4, ChainEventsAre
  <2>2. SoundEvent([Bare(ChainActivated) EXCEPT !.count = <<n.count>>])
    BY APlayer, PlainAre, PlainSound
  <2> QED
    BY <2>1, <2>2, OneSound
<1>7. ActivateTold(p, s, c, count) = <<m, n>>
  BY <1>1, <1>3 DEF ActivateTold
<1> QED
  BY <1>5, <1>6, <1>7, TwoReport

(* of the end of a chain,                                                   *)
LEMMA ResolvedReports ==
    ASSUME NEW count
    PROVE  Reports(<<[t |-> "chain_solved", count |-> count], [t |-> "chain_end"]>>)
<1>1. PICK m, n : m = [t |-> "chain_solved", count |-> count] /\ n = [t |-> "chain_end"]
  OBVIOUS
<1>2. m.t = "chain_solved" /\ m.count = count /\ n.t = "chain_end"
  BY <1>1
<1>3. SoundEvents(EventsOf(m, me))
  <2>1. EventsOf(m, me) = <<[Bare(ChainResolved) EXCEPT !.count = <<m.count>>]>>
    BY <1>2, ChainEventsAre
  <2>2. SoundEvent([Bare(ChainResolved) EXCEPT !.count = <<m.count>>])
    BY APlayer, PlainAre, PlainSound
  <2> QED
    BY <2>1, <2>2, OneSound
<1>4. SoundEvents(EventsOf(n, me))
  <2>1. EventsOf(n, me) = <<Bare(ChainEnded)>>
    BY <1>2, ChainEventsAre
  <2>2. SoundEvent(Bare(ChainEnded))
    BY APlayer, PlainAre, PlainSound
  <2> QED
    BY <2>1, <2>2, OneSound
<1> QED
  BY <1>1, <1>3, <1>4, TwoReport

(* of the opponent's turn and the end of the duel,                          *)
LEMMA PassReports ==
    ASSUME NEW w, NEW a \in Passes(w)
    PROVE  Reports(a.told)
<1>1. CASE a = TurnOver(w)
  <2>1. PICK m, n : m = [t |-> "new_turn", player |-> 1] /\ n = [t |-> "new_phase", phase |-> 1]
    OBVIOUS
  <2>2. m.t = "new_turn" /\ m.player \in Players /\ n.t = "new_phase" /\ n.phase = 1
    BY <2>1 DEF Players
  <2>3. SoundEvents(EventsOf(m, me))
    <3>1. EventsOf(m, me) = <<[Bare(TurnStarted) EXCEPT !.player = <<m.player>>]>>
      BY <2>2, AlsoEventsAre
    <3>2. SoundEvent([Bare(TurnStarted) EXCEPT !.player = <<m.player>>])
      BY <2>2, PlainAre, PlainSound
    <3> QED
      BY <3>1, <3>2, OneSound
  <2>4. SoundEvents(EventsOf(n, me))
    <3>1. EventsOf(n, me) = <<[Bare(PhaseChanged) EXCEPT !.phase = <<n.phase>>]>>
      BY <2>2, AlsoEventsAre
    <3>2. SoundEvent([Bare(PhaseChanged) EXCEPT !.phase = <<n.phase>>])
      BY <2>2, PlainAre, PlainSound
    <3> QED
      BY <3>1, <3>2, OneSound
  <2>5. a.told = <<m, n>>
    BY <1>1, <2>1 DEF TurnOver, After
  <2> QED
    BY <2>3, <2>4, <2>5, TwoReport
<1>2. CASE a = DuelWon(w)
  <2>1. PICK m, n : /\ m = [t |-> "damage", player |-> 0, amount |-> w.lp[0]]
                    /\ n = [t |-> "win", winner |-> 1, reason |-> 1]
    OBVIOUS
  <2>2. m.t = "damage" /\ m.player \in Players /\ n.t = "win"
    BY <2>1 DEF Players
  <2>3. SoundEvents(EventsOf(m, me))
    <3>1. PICK x : x = <<0 - m.amount>>
      OBVIOUS
    <3>2. EventsOf(m, me) = <<[Bare(LifePointsChanged) EXCEPT !.player = <<m.player>>, !.amount = x]>>
      BY <2>2, <3>1, ChainEventsAre
    <3>3. SoundEvent([Bare(LifePointsChanged) EXCEPT !.player = <<m.player>>, !.amount = x])
      BY <2>2, PlainAre, PlainSound
    <3> QED
      BY <3>2, <3>3, OneSound
  <2>4. SoundEvents(EventsOf(n, me))
    <3>1. EventsOf(n, me) = <<[Bare(Win) EXCEPT !.winner = <<n.winner>>, !.reason = <<n.reason>>]>>
      BY <2>2, AlsoEventsAre
    <3>2. SoundEvent([Bare(Win) EXCEPT !.winner = <<n.winner>>, !.reason = <<n.reason>>])
      BY APlayer, PlainAre, PlainSound
    <3> QED
      BY <3>1, <3>2, OneSound
  <2>5. a.told = <<m, n>>
    BY <1>2, <2>1 DEF DuelWon, After, WinTold
  <2> QED
    BY <2>3, <2>4, <2>5, TwoReport
<1> QED
  BY <1>1, <1>2, PassIs

----------------------------------------------------------------------------
(* All that is observed may be written.                                     *)

(* and of a play.                                                           *)
LEMMA PlayReports ==
    ASSUME NEW w, NEW p \in Players, NEW i, NEW row, NEW s, NEW up
    PROVE  Reports(PlayedTold(w, p, i, row, s, up))
<1>1. PICK c, t : c = w.hand[p][i] /\ t = IF up THEN "summoning" ELSE "set"
  OBVIOUS
<1>2. PICK to, from : to = OnField(row, p, s, PlacedCard(c, up)) /\ from = InHand(p, i, c)
  OBVIOUS
<1>3. to.controller \in Players
  BY <1>2, PlaceIs
<1>4. t \in {"set", "summoning", "flipsummoning"}
  BY <1>1
<1>5. SoundEvents(EventsOf(MoveTold(c, from, to, FALSE), me))
  BY <1>3, MoveReports
<1>6. SoundEvents(EventsOf(AtTold(t, c, to), me))
  BY <1>3, <1>4, PlacedReports
<1>7. Reports(<<MoveTold(c, from, to, FALSE), AtTold(t, c, to)>>)
  BY <1>5, <1>6, TwoReport
<1>8. Reports(<<[t |-> "summoned"]>>)
  <2>1. PICK m : m = [t |-> "summoned"]
    OBVIOUS
  <2>2. EventsOf(m, me) = <<Bare(Summoned)>>
    BY <2>1, AlsoEventsAre
  <2>3. SoundEvent(Bare(Summoned))
    BY APlayer, PlainAre, PlainSound
  <2> QED
    BY <2>1, <2>2, <2>3, OneSound, OneReports
<1>9. Reports(IF up THEN <<[t |-> "summoned"]>> ELSE <<>>)
  BY <1>8, NoneReports
<1>10. PlayedTold(w, p, i, row, s, up)
         = <<MoveTold(c, from, to, FALSE), AtTold(t, c, to)>>
           \o (IF up THEN <<[t |-> "summoned"]>> ELSE <<>>)
  BY <1>1, <1>2 DEF PlayedTold
<1> QED
  BY <1>7, <1>9, <1>10, BothReport

(* The other player is one.                                                 *)
LEMMA OtherIs ==
    ASSUME NEW p \in Players
    PROVE  1 - p \in Players
  BY DEF Players

(* A shuffle of set monsters is told as that of a hand, whoever owns them.  *)
LEMMA SetShuffleTold ==
    ASSUME NEW w, NEW a \in SetShuffles(w)
    PROVE  \E p \in Players : a.told = ShuffleTold(p)
<1>1. PICK p \in Players : \E order : a = SetShuffled(w, p, order)
  BY DEF SetShuffles
<1>2. PICK order : a = SetShuffled(w, p, order)
  BY <1>1
<1>3. a.told = ShuffleTold(p)
  <2>1. PICK f, seen : a = After(f, ShuffleTold(p), seen)
    BY <1>2 DEF SetShuffled, ShuffleTold
  <2> QED
    BY <2>1, AfterIs
<1> QED
  BY <1>3

(* Whatever the engine does is reported in events that may be written. *)
LEMMA MovesReport ==
    ASSUME NEW w, Proper(w), NEW a \in EngineMoves(w)
    PROVE  Reports(a.told)
<1>1. CASE a \in Draws(w)
  <2>1. PICK p \in Players : a.told = DrawTold(w, p)
    BY <1>1, DrawIs
  <2> QED
    BY <2>1, DrawReports DEF DrawTold
<1>2. CASE a \in Plays(w)
  <2>1. PICK p \in Players : \E row, up, i, s : a.told = PlayedTold(w, p, i, row, s, up)
    BY <1>2, PlayIs
  <2> QED
    BY <2>1, PlayReports
<1>3. CASE a \in HandShuffles(w)
  <2>1. PICK p \in Players : a.told = ShuffleTold(p)
    BY <1>3, HandShuffleIs
  <2> QED
    BY <2>1, ShuffleReports
<1>4. CASE a \in Confirms(w)
  <2>1. 0 \in Players /\ 1 \in Players
    BY DEF Players
  <2>2. CASE \E i : ConfirmsOne(w, a, i)
    <3>1. PICK i : a.told = ConfirmTold(me, 1, i, w.hand[1][i])
      BY <2>2 DEF ConfirmsOne
    <3> QED
      BY <2>1, <3>1, ConfirmReports
  <2>3. CASE \E i : ConfirmsOwn(w, a, i)
    <3>1. PICK i : a.told = ConfirmTold(1, 0, i, w.hand[0][i])
      BY <2>3 DEF ConfirmsOwn
    <3> QED
      BY <2>1, <3>1, ConfirmReports
  <2>4. CASE \E i : ShowsOne(w, a, i)
    <3>1. a.told = <<>>
      BY <2>4 DEF ShowsOne
    <3> QED
      BY <3>1, NoneReports
  <2> QED
    BY <1>4, <2>2, <2>3, <2>4, ConfirmIs
<1>5. CASE a \in Turns(w)
  <2>1. PICK p \in Players : \E s : TurnsOne(w, a, p, s)
    BY <1>5, TurnIs
  <2>2. \E s, c : a.told = TurnTold(p, s, c)
    BY <2>1 DEF TurnsOne
  <2> QED
    BY <2>2, TurnReports
<1>6. CASE a \in Leaves(w)
  <2>1. PICK p \in Players, row \in Rows, location \in Whither, up \in BOOLEAN :
           \E s : LeavesOne(w, a, row, p, s, location, up)
    BY <1>6, LeaveIs
  <2>2. PICK s : LeavesOne(w, a, row, p, s, location, up)
    BY <2>1
  <2>3. PICK c, to, from : /\ c = CardAt(w, row, p, s) /\ to = LeavingTo(w, row, p, s, location, up)
                           /\ from = OnField(row, p, s, c)
    OBVIOUS
  <2>4. c.owner \in Players
    BY <2>2, <2>3, FieldCardIs DEF LeavesOne
  <2>5. to.controller = c.owner
    BY <2>3, PlaceIs DEF LeavingTo
  <2>6. a.told = <<MoveTold(c, from, to, location = "grave")>>
    BY <2>2, <2>3 DEF LeavesOne, LeavingTold
  <2> QED
    BY <2>4, <2>5, <2>6, MoveReports, OneReports
<1>7. CASE a \in SetShuffles(w)
  BY <1>7, SetShuffleTold, ShuffleReports
<1>8. CASE a \in TakesControl(w)
  <2>1. PICK p \in Players : \E s, s2 : ControlsOne(w, a, p, s, s2)
    BY <1>8, ControlIs
  <2>2. PICK s, s2, c : a.told = ControlTold(p, s, s2, c)
    BY <2>1 DEF ControlsOne
  <2>3. PICK from, to : from = OnField("monsters", p, s, c) /\ to = OnField("monsters", 1 - p, s2, c)
    OBVIOUS
  <2>4. to.controller \in Players
    BY <2>3, PlaceIs, OtherIs
  <2>5. a.told = <<MoveTold(c, from, to, FALSE)>>
    BY <2>2, <2>3 DEF ControlTold, MoveOf
  <2> QED
    BY <2>4, <2>5, MoveReports, OneReports
<1>9. CASE a \in Attaches(w)
  <2>1. PICK p \in Players : \E host, s : AttachesOne(w, a, p, host, s)
    BY <1>9, AttachIs
  <2>2. PICK host, s, c, h : a.told = AttachTold(p, host, s, c, h)
    BY <2>1 DEF AttachesOne
  <2>3. PICK from, to : from = OnField("monsters", p, s, c) /\ to = MaterialPlace(p, host, h)
    OBVIOUS
  <2>4. to.controller \in Players
    BY <2>3, PlaceIs DEF MaterialPlace
  <2>5. a.told = <<MoveTold(c, from, to, FALSE)>>
    BY <2>2, <2>3 DEF AttachTold, MoveOf
  <2> QED
    BY <2>4, <2>5, MoveReports, OneReports
<1>10. CASE a \in Aims(w)
  <2>1. PICK p, s, t : AimsOne(w, a, s, p, t)
    BY <1>10, AimIs
  <2>2. a.told = AimTold(p, AimFrom(w, s), AimAt(w, p, t))
    BY <2>1 DEF AimsOne
  <2>3. AimFrom(w, s).controller \in Players
    BY PlaceIs DEF AimFrom, Players
  <2> QED
    BY <2>2, <2>3, AimReports
<1>11. CASE a \in Activates(w)
  <2>1. PICK p \in Players : \E s : ActivatesOne(w, a, p, s)
    BY <1>11, ActivateIs
  <2>2. \E s, c, count : a.told = ActivateTold(p, s, c, count)
    BY <2>1 DEF ActivatesOne
  <2> QED
    BY <2>2, ActivateReports
<1>12. CASE a \in Resolutions(w)
  <2>1. a = Resolved(w)
    BY <1>12 DEF Resolutions
  <2>2. a.told = <<[t |-> "chain_solved", count |-> Len(w.chain)], [t |-> "chain_end"]>>
    BY <2>1, AfterIs DEF Resolved
  <2> QED
    BY <2>2, ResolvedReports
<1>13. CASE a \in Passes(w)
  BY <1>13, PassReports
<1>14. \/ a \in Draws(w) \/ a \in Plays(w) \/ a \in HandShuffles(w) \/ a \in Confirms(w)
       \/ a \in Turns(w) \/ a \in Leaves(w) \/ a \in SetShuffles(w) \/ a \in TakesControl(w)
       \/ a \in Attaches(w) \/ a \in Aims(w) \/ a \in Activates(w) \/ a \in Resolutions(w)
       \/ a \in Passes(w)
  BY DEF EngineMoves
<1> QED
  BY <1>1, <1>2, <1>3, <1>4, <1>5, <1>6, <1>7, <1>8, <1>9, <1>10, <1>11, <1>12, <1>13, <1>14

(* Events the validator lets pass. *)
EventFits(e) ==
    /\ MaybePlayer(e.player) /\ MaybeLocator(e.entity)
    /\ \A j \in DOMAIN e.targets : IsLocator(e.targets[j])

(* What the policy may read of the session so far. *)
LEMMA EventsWritable ==
    ASSUME NEW s, SoundSession(s), NEW v,
           v = [i \in DOMAIN s.events |-> SafeEvent(s.events[i])]
    PROVE  /\ \A i \in DOMAIN v : EventFits(v[i])
           /\ \A i, j \in DOMAIN v : v[i].index = v[j].index => i = j
<1>1. /\ s.next \in Nat /\ DOMAIN s.events = 1..s.next
      /\ \A i \in 1..s.next : s.events[i].index = i - 1 /\ SoundEvent(s.events[i].event)
  BY DEF SoundSession
<1>2. ASSUME NEW r, SoundEvent(r.event), NEW x, x = SafeEvent(r)
      PROVE  /\ x.index = r.index /\ x.player = r.event.player /\ x.entity = r.event.entity
             /\ x.targets = r.event.targets
  <2>1. PICK n, e : n = r.index /\ e = r.event
    OBVIOUS
  <2>2. x = [field \in {"index"} \cup DOMAIN e |-> IF field = "index" THEN n ELSE e[field]]
    BY <1>2, <2>1 DEF SafeEvent
  <2>3. {"player", "entity", "targets"} \subseteq DOMAIN e
    BY <1>2, <2>1 DEF SoundEvent
  <2> QED
    BY <2>1, <2>2, <2>3
<1>3. DOMAIN v = 1..s.next
  BY <1>1
<1>4. ASSUME NEW i \in 1..s.next
      PROVE  v[i].index = i - 1 /\ EventFits(v[i])
  <2>1. PICK r : r = s.events[i]
    OBVIOUS
  <2>2. r.index = i - 1 /\ SoundEvent(r.event)
    BY <1>1, <2>1
  <2>3. v[i] = SafeEvent(r)
    BY <1>1, <2>1
  <2>4. /\ v[i].index = r.index /\ v[i].player = r.event.player /\ v[i].entity = r.event.entity
        /\ v[i].targets = r.event.targets
    BY <1>2, <2>2, <2>3
  <2>5. /\ MaybePlayer(r.event.player) /\ MaybeLocator(r.event.entity)
        /\ \A j \in DOMAIN r.event.targets : IsLocator(r.event.targets[j])
    BY <2>2 DEF SoundEvent
  <2> QED
    BY <2>2, <2>4, <2>5 DEF EventFits
<1>5. \A i, j \in 1..s.next : i - 1 = j - 1 => i = j
  OBVIOUS
<1>6. \A i, j \in 1..s.next : v[i].index = v[j].index => i = j
  BY <1>4, <1>5
<1> QED
  BY <1>3, <1>4, <1>6

(* A deck list the observer does not know is not there.                     *)
LEMMA DecksValid ==
    ASSUME NEW whose, NEW list
    PROVE  ValidDeck(KnownDeck(whose, list))
  BY DEF KnownDeck, ValidDeck

(* The safe state has the events without their engine steps, and the rest   *)
(* as it was observed.                                                      *)
LEMMA ViewEvents ==
    ASSUME NEW o
    PROVE  LET v == SafeView(o)
           IN  /\ v.events = [i \in DOMAIN o.events |-> SafeEvent(o.events[i])]
               /\ v.globals = o.globals /\ v.chain = o.chain /\ v.perspective = o.perspective
               /\ v.own = o.own /\ v.opponent = o.opponent
<1>1. PICK told : told = [i \in DOMAIN o.events |-> SafeEvent(o.events[i])]
  OBVIOUS
<1>2. PICK v : v = SafeView(o)
  OBVIOUS
<1>3. v = [globals |-> o.globals, zones |-> o.zones, entities |-> o.entities,
           relationships |-> o.relationships, length |-> Len(o.chain), chain |-> o.chain,
           events |-> told, perspective |-> o.perspective, flags |-> o.globals.flags,
           ownKnown |-> o.own.known, opponentKnown |-> o.opponent.known,
           own |-> o.own, opponent |-> o.opponent]
  BY <1>1, <1>2 DEF SafeView
<1> QED
  BY <1>1, <1>2, <1>3

(* What is observed of a proper field, with a session of sound events,      *)
(* passes validate_observation.                                             *)
LEMMA ObservedIsWritable ==
    ASSUME NEW w, Proper(w), NEW s, SoundSession(s)
    PROVE  Writable(SafeView(Observe(w, me, s, Asked(w))))
<1>1. PICK o, v : o = Observe(w, me, s, Asked(w)) /\ v = SafeView(o)
  OBVIOUS
<1>2. /\ v.perspective = me /\ v.zones = ZonesOf(w, 0, me) \o ZonesOf(w, 1, me)
      /\ v.entities = Entities(Kept(w, me), me) /\ v.relationships = Relationships(Kept(w, me), me)
      /\ v.globals = Globals(w, s.events, <<me>>) /\ v.chain = ChainOf(w)
      /\ v.own = KnownDeck("own", w.list[me]) /\ v.opponent = KnownDeck("opponent", w.list[1])
      /\ v.events = [i \in DOMAIN s.events |-> SafeEvent(s.events[i])]
  <2>1. /\ o.perspective = me /\ o.zones = ZonesOf(w, 0, me) \o ZonesOf(w, 1, me)
        /\ o.entities = Entities(Kept(w, me), me) /\ o.relationships = Relationships(Kept(w, me), me)
        /\ o.globals = Globals(w, s.events, <<me>>) /\ o.chain = ChainOf(w)
        /\ o.own = KnownDeck("own", w.list[me]) /\ o.opponent = KnownDeck("opponent", w.list[1])
        /\ o.events = s.events
    BY <1>1, ObserveIs
  <2>2. /\ v.zones = o.zones /\ v.entities = o.entities /\ v.relationships = o.relationships
    BY <1>1, ViewIs
  <2>3. /\ v.events = [i \in DOMAIN o.events |-> SafeEvent(o.events[i])]
        /\ v.globals = o.globals /\ v.chain = o.chain /\ v.perspective = o.perspective
        /\ v.own = o.own /\ v.opponent = o.opponent
    BY <1>1, ViewEvents
  <2> QED
    BY <2>1, <2>2, <2>3
<1>3. v.events = [i \in DOMAIN s.events |-> SafeEvent(s.events[i])]
  BY <1>2
<1>4. v.perspective <= 1
  BY <1>2 DEF me
<1>5. \A i \in DOMAIN v.zones : v.zones[i].player <= 1
  BY <1>2, ZonesValid
<1>6. \A i \in DOMAIN v.entities : ValidCard(v.entities[i])
  BY <1>2, EntitiesValid
<1>7. NoTwo(v.entities, LAMBDA c : c.locator)
  BY <1>2, EntitiesOnce DEF NoTwo
<1>8. \A i \in DOMAIN v.relationships :
         IsLocator(v.relationships[i].source) /\ IsLocator(v.relationships[i].target)
  BY <1>2, RelationshipsValid
<1>9. MaybePlayer(v.globals.toAct) /\ MaybePlayer(v.globals.turnPlayer)
  <2>1. PICK g : g = Globals(w, s.events, <<me>>)
    OBVIOUS
  <2>2. v.globals = g
    BY <1>2, <2>1
  <2>3. MaybePlayer(g.toAct) /\ MaybePlayer(g.turnPlayer)
    BY <2>1, GlobalsValid
  <2> QED
    BY <2>2, <2>3
<1>10. \A i \in DOMAIN v.chain :
          /\ MaybePlayer(v.chain[i].player) /\ MaybeLocator(v.chain[i].source)
          /\ \A j \in DOMAIN v.chain[i].targets : IsLocator(v.chain[i].targets[j])
  BY <1>2, LinkValid
<1>11. \A i \in DOMAIN v.events :
          /\ MaybePlayer(v.events[i].player) /\ MaybeLocator(v.events[i].entity)
          /\ \A j \in DOMAIN v.events[i].targets : IsLocator(v.events[i].targets[j])
  BY <1>3, EventsWritable DEF EventFits
<1>12. NoTwo(v.events, LAMBDA e : e.index)
  BY <1>3, EventsWritable DEF NoTwo
<1>13. ValidDeck(v.own) /\ ValidDeck(v.opponent)
  BY <1>2, DecksValid
<1>14. Writable(v)
  BY <1>4, <1>5, <1>6, <1>7, <1>8, <1>9, <1>10, <1>11, <1>12, <1>13 DEF Writable
<1> QED
  BY <1>1, <1>14

(* What either session holds may be written, with the field it stands by. *)
PublicInv == ProperInv /\ \A d \in Duels : SoundSession(session[d])

(* It holds at the start: nothing has been told.                            *)
LEMMA PublicStarts ==
    Init => PublicInv
<1>1. ASSUME Init
      PROVE  PublicInv
  <2>1. ProperInv
    BY <1>1, ProperStarts
  <2>2. SoundSession(NewSession)
    <3>1. PICK s : s = NewSession
      OBVIOUS
    <3>2. s.next = 0 /\ s.events = <<>>
      BY <3>1 DEF NewSession
    <3>3. DOMAIN s.events = 1..0 /\ s.events = [i \in 1..0 |-> s.events[i]] /\ s.next \in Nat
      BY <3>2
    <3>4. SoundSession(s)
      BY <3>2, <3>3 DEF SoundSession
    <3> QED
      BY <3>1, <3>4
  <2>3. \A d \in Duels : session[d] = NewSession
    BY <1>1 DEF Init
  <2> QED
    BY <2>1, <2>2, <2>3 DEF PublicInv
<1> QED
  BY <1>1

(* A move of the engine in both duels preserves it.                         *)
LEMMA PublicStep ==
    ASSUME PublicInv, Move
    PROVE  PublicInv'
<1>1. PICK w, v, s, t : w = world[1] /\ v = world[2] /\ s = session[1] /\ t = session[2]
  OBVIOUS
<1>2. Proper(w) /\ Proper(v) /\ SoundSession(s) /\ SoundSession(t)
  BY <1>1 DEF PublicInv, ProperInv, Duels
<1>3. PICK a \in EngineMoves(w) : \E b \in EngineMoves(v) :
         session' = <<Ingest(s, a.told, me, moves + 1), Ingest(t, b.told, me, moves + 1)>>
  BY <1>1 DEF Move
<1>4. PICK b \in EngineMoves(v) :
         session' = <<Ingest(s, a.told, me, moves + 1), Ingest(t, b.told, me, moves + 1)>>
  BY <1>3
<1>5. PICK x, y : x = Ingest(s, a.told, me, moves + 1) /\ y = Ingest(t, b.told, me, moves + 1)
  OBVIOUS
<1>6. session' = <<x, y>>
  BY <1>4, <1>5
<1>7. Reports(a.told) /\ Reports(b.told)
  BY <1>2, MovesReport
<1>8. SoundSession(x) /\ SoundSession(y)
  BY <1>2, <1>5, <1>7, IngestIsSound
<1>9. session'[1] = x /\ session'[2] = y
  BY <1>6
<1>10. \A d \in Duels : SoundSession(session'[d])
  BY <1>8, <1>9 DEF Duels
<1>11. ProperInv'
  BY ProperStep DEF PublicInv
<1> QED
  BY <1>10, <1>11 DEF PublicInv

(* AlwaysPublishable: whatever the moves, and though a shuffle mixes cards  *)
(* of both owners, the observation of either duel is one that               *)
(* validate_observation lets pass: no two entities have one locator, no two *)
(* events one number, what is hidden has no code.                           *)
THEOREM ObservationsArePublishable ==
    Spec => []AlwaysPublishable
<1>1. Init => PublicInv
  BY PublicStarts
<1>2. PublicInv /\ [Move]_vars => PublicInv'
  <2>1. ASSUME PublicInv, UNCHANGED vars
        PROVE  PublicInv'
    BY <2>1 DEF vars, PublicInv, ProperInv
  <2> QED
    BY <2>1, PublicStep
<1>3. PublicInv => AlwaysPublishable
  <2>1. ASSUME PublicInv, NEW d \in Duels
        PROVE  Writable(SafeView(Observed(d)))
    BY <2>1, ObservedIsWritable DEF PublicInv, ProperInv, Observed
  <2> QED
    BY <2>1 DEF AlwaysPublishable
<1> QED
  BY <1>1, <1>2, <1>3, PTL DEF Spec

----------------------------------------------------------------------------
(* What a player is told of them.                                           *)

(* The cards told of like q, with this for a code.                          *)
LikeCards(w, q, code) ==
    {r \in Cards(w) : /\ Keep(r, me) /\ r.controller = q.controller /\ r.zone = q.zone
                      /\ Given(IdentityVisible(r, me), r.card.code) = code}

(* Every card is a query's.                                                 *)
LEMMA CardsAreQueries ==
    ASSUME NEW w, Proper(w), NEW q \in Cards(w)
    PROVE  q \in Queries /\ q.zone \in 2..9
<1>1. PICK p \in Players, location \in Places : \E s \in There(w, p, location) :
         q = QueryAt(w, p, location, s)
  BY CardsAre
<1>2. PICK s \in There(w, p, location) : q = QueryAt(w, p, location, s)
  BY <1>1
<1>3. q \in Queries
  BY <1>2, QueryAtIs
<1> QED
  BY <1>3 DEF Queries

(* As many entities are like a card as there are cards like it.             *)
LEMMA LikeCounts ==
    ASSUME NEW w, Proper(w), NEW q \in Cards(w), NEW code
    PROVE  Like(Entities(Kept(w, me), me), q, code) = Cardinality(LikeCards(w, q, code))
<1> DEFINE k == Kept(w, me)
           E == Entities(k, me)
           R == LikeCards(w, q, code)
           H == {i \in 1..Len(k) : k[i] \in R}
           L == {j \in DOMAIN E : /\ E[j].controller = <<q.controller>> /\ E[j].zone = q.zone
                                  /\ E[j].code = code}
           f == [i \in H |-> k[i]]
<1>1. /\ k \in Seq(Queries) /\ DOMAIN E = 1..Len(E) /\ Len(E) \in Nat
      /\ \E b : EntityThreads(b, k, E)
  BY EntitiesOf
<1>2. \A i \in 1..Len(k) :
         /\ k[i].sequence \in There(w, k[i].controller, k[i].location) /\ Keep(k[i], me)
         /\ k[i] = QueryAt(w, k[i].controller, k[i].location, k[i].sequence)
  BY KeptIs
<1>3. \A p \in Players, location \in Places : \A s \in There(w, p, location) :
         Keep(QueryAt(w, p, location, s), me) =>
            \E i \in 1..Len(k) : k[i] = QueryAt(w, p, location, s)
  BY KeptIs
<1>4. \A i, j \in 1..Len(k) : k[i] = k[j] => i = j
  BY KeptOnce
<1>5. Like(E, q, code) = Cardinality(L)
  BY DEF Like
<1>6. q.zone \in 2..9
  BY CardsAreQueries
<1>7. Len(k) \in Nat /\ Len(k) \in Int
  BY <1>1
<1>8. \A i \in 1..Len(k) : k[i] \in Cards(w)
  <2>1. ASSUME NEW i \in 1..Len(k)
        PROVE  k[i] \in Cards(w)
    <3>1. k[i] \in Queries
      BY <1>1
    <3>2. k[i].controller \in Players /\ k[i].location \in Places
      BY <3>1 DEF Queries
    <3> QED
      BY <1>2, <3>2, CardsAre
  <2> QED
    BY <2>1
<1>9. \A r \in R : \E i \in 1..Len(k) : k[i] = r
  <2>1. ASSUME NEW r \in R
        PROVE  \E i \in 1..Len(k) : k[i] = r
    <3>1. r \in Cards(w) /\ Keep(r, me)
      BY DEF LikeCards
    <3>2. PICK p \in Players, location \in Places : \E s \in There(w, p, location) :
             r = QueryAt(w, p, location, s)
      BY <3>1, CardsAre
    <3> QED
      BY <1>3, <3>1, <3>2
  <2> QED
    BY <2>1
<1> HIDE DEF k, E
<1>10. IsFiniteSet(H) /\ H \in SUBSET Nat
  <2>1. IsFiniteSet(1..Len(k))
    BY <1>7, FS_Interval
  <2>2. H \in SUBSET (1..Len(k))
    OBVIOUS
  <2> QED
    BY <1>7, <2>1, <2>2, FS_Subset
<1>11. Cardinality(R) = Cardinality(H)
  <2>1. f \in [H -> R]
    OBVIOUS
  <2>2. \A i, j \in H : f[i] = f[j] => i = j
    BY <1>4
  <2>3. \A r \in R : \E i \in H : f[i] = r
    BY <1>9
  <2> HIDE DEF f, H, R
  <2> QED
    BY <1>10, <2>1, <2>2, <2>3, SameNumber
<1>12. PICK b : EntityThreads(b, k, E)
  BY <1>1
<1> DEFINE g == [i \in H |-> b[<<i, 0>>]]
<1>13. ASSUME NEW i \in 1..Len(k)
       PROVE  /\ <<i, 0>> \in Holders(k) /\ b[<<i, 0>>] \in 1..Len(E)
              /\ E[b[<<i, 0>>]] = Entity(k, i, me)
  <2>1. k[i] \in Queries
    BY <1>1
  <2>2. Len(Materials(k[i])) \in Nat
    BY <2>1, MaterialsAre
  <2>3. <<i, 0>> \in Holders(k)
    BY <1>7, <2>2 DEF Holders
  <2>4. E[b[<<i, 0>>]] = EntityAt(k, i, 0)
    BY <1>12, <2>3 DEF EntityThreads
  <2>5. b[<<i, 0>>] \in 1..Len(E)
    BY <1>12, <2>3 DEF EntityThreads
  <2> QED
    BY <2>3, <2>4, <2>5 DEF EntityAt
<1>14. \A i \in 1..Len(k) : k[i] \in R <=>
          /\ k[i].controller = q.controller /\ k[i].zone = q.zone
          /\ Given(IdentityVisible(k[i], me), k[i].card.code) = code
  BY <1>2, <1>8 DEF LikeCards
<1>15. ASSUME NEW i \in 1..Len(k)
       PROVE  k[i] \in R <=> b[<<i, 0>>] \in L
  <2>1. PICK e : e = Entity(k, i, me)
    OBVIOUS
  <2>2. e.controller = <<k[i].controller>> /\ e.zone = k[i].zone
        /\ e.code = Given(IdentityVisible(k[i], me), k[i].card.code)
    BY <2>1, EntityTells
  <2>3. b[<<i, 0>>] \in DOMAIN E /\ E[b[<<i, 0>>]] = e
    BY <1>1, <1>13, <2>1
  <2>4. b[<<i, 0>>] \in L <=> e.controller = <<q.controller>> /\ e.zone = q.zone /\ e.code = code
    BY <2>3
  <2> QED
    BY <1>14, <2>2, <2>4
<1>16. ASSUME NEW j \in L
       PROVE  \E i \in H : g[i] = j
  <2>1. j \in 1..Len(E) /\ E[j].zone = q.zone
    BY <1>1
  <2>2. PICK x \in Holders(k) : b[x] = j
    BY <1>12, <2>1 DEF EntityThreads
  <2>3. E[j] = EntityAt(k, x[1], x[2])
    BY <1>12, <2>2 DEF EntityThreads
  <2>4. x \in Nat \X Nat /\ x[1] \in 1..Len(k)
    BY DEF Holders
  <2>5. x[2] = 0
    <3>1. CASE x[2] # 0
      <4>1. E[j] = Material(k[x[1]], x[2], me)
        BY <2>3, <3>1 DEF EntityAt
      <4>2. Material(k[x[1]], x[2], me).zone = Overlay
        BY MaterialTells
      <4>3. q.zone # Overlay
        BY <1>6 DEF Overlay
      <4> QED
        BY <2>1, <4>1, <4>2, <4>3
    <3> QED
      BY <3>1
  <2>6. PICK i : i = x[1]
    OBVIOUS
  <2>7. x = <<i, 0>>
    BY <2>4, <2>5, <2>6
  <2>8. i \in 1..Len(k) /\ b[<<i, 0>>] = j
    BY <2>2, <2>4, <2>6, <2>7
  <2>9. k[i] \in R
    BY <1>15, <2>8
  <2>10. i \in H
    BY <2>8, <2>9
  <2> QED
    BY <2>8, <2>10
<1>17. \A i, j \in H : g[i] = g[j] => i = j
  <2>1. ASSUME NEW i \in 1..Len(k), NEW j \in 1..Len(k), i < j
        PROVE  b[<<i, 0>>] # b[<<j, 0>>]
    <3>1. <<i, 0>> \in Holders(k) /\ <<j, 0>> \in Holders(k) /\ Lex(<<i, 0>>, <<j, 0>>)
      BY <1>13, <2>1 DEF Lex
    <3>2. b[<<i, 0>>] < b[<<j, 0>>]
      BY <1>12, <3>1 DEF EntityThreads
    <3>3. b[<<i, 0>>] \in Int
      BY <1>1, <1>13
    <3> QED
      BY <3>2, <3>3
  <2>2. ASSUME NEW i \in H, NEW j \in H, g[i] = g[j]
        PROVE  i = j
    <3>1. i \in 1..Len(k) /\ j \in 1..Len(k) /\ b[<<i, 0>>] = b[<<j, 0>>]
      BY <2>2
    <3>2. ~(i < j) /\ ~(j < i)
      BY <2>1, <3>1
    <3> QED
      BY <1>7, <3>1, <3>2
  <2> QED
    BY <2>2
<1>18. Cardinality(L) = Cardinality(H)
  <2>1. g \in [H -> L]
    <3>1. ASSUME NEW i \in H PROVE b[<<i, 0>>] \in L
      <4>1. i \in 1..Len(k) /\ k[i] \in R
        OBVIOUS
      <4> QED
        BY <1>15, <4>1
    <3> HIDE DEF L, H
    <3> QED
      BY <3>1
  <2>2. \A j \in L : \E i \in H : g[i] = j
    BY <1>16
  <2> HIDE DEF g, H, L
  <2> QED
    BY <1>10, <1>17, <2>1, <2>2, SameNumber
<1> QED
  BY <1>5, <1>11, <1>18 DEF k, E

(* What a player may know it is told, and what it is told is known.         *)
LEMMA KnownIsVisible ==
    ASSUME NEW w, Proper(w), NEW r \in Cards(w)
    PROVE  /\ IdentityVisible(r, me) <=> MayKnow(r)
           /\ Keep(r, me) <=> (r.zone \in {Hand, ExtraDeck} => MayKnow(r))
<1>1. r.zone \in 2..9
  BY CardsAreQueries
<1>2. r.zone # MainDeck
  BY <1>1 DEF MainDeck
<1> QED
  BY <1>2 DEF IdentityVisible, MayKnow, Keep

(* So every field is told of as it should be.                               *)
LEMMA FieldIsTold ==
    ASSUME NEW w, Proper(w)
    PROVE  Told(Entities(Kept(w, me), me), Cards(w))
<1> DEFINE E == Entities(Kept(w, me), me)
           alike(q) == {r \in Cards(w) : r.controller = q.controller /\ r.zone = q.zone}
<1>1. ASSUME NEW q \in Cards(w)
      PROVE  ToldOf(E, alike(q), q)
  <2>1. CASE MayKnow(q)
    <3>1. LikeCards(w, q, <<q.card.code>>)
            = {r \in alike(q) : MayKnow(r) /\ r.card.code = q.card.code}
      <4>1. ASSUME NEW r \in Cards(w), r.zone = q.zone
            PROVE  /\ Keep(r, me) /\ Given(IdentityVisible(r, me), r.card.code) = <<q.card.code>>
                      <=> MayKnow(r) /\ r.card.code = q.card.code
        <5>1. IdentityVisible(r, me) <=> MayKnow(r)
          BY KnownIsVisible
        <5>2. MayKnow(r) => Keep(r, me)
          BY KnownIsVisible
        <5>3. CASE MayKnow(r)
          BY <5>1, <5>2, <5>3 DEF Given
        <5>4. CASE ~MayKnow(r)
          BY <5>1, <5>4 DEF Given
        <5> QED
          BY <5>3, <5>4
      <4> QED
        BY <4>1 DEF LikeCards
    <3>2. Like(E, q, <<q.card.code>>)
            = Cardinality({r \in alike(q) : MayKnow(r) /\ r.card.code = q.card.code})
      BY <3>1, LikeCounts
    <3> QED
      BY <2>1, <3>2 DEF ToldOf
  <2>2. CASE ~MayKnow(q) /\ ~(q.zone \in {Hand, ExtraDeck})
    <3>1. LikeCards(w, q, <<>>) = {r \in alike(q) : ~MayKnow(r)}
      <4>1. ASSUME NEW r \in Cards(w), r.zone = q.zone
            PROVE  (Keep(r, me) /\ Given(IdentityVisible(r, me), r.card.code) = <<>>)
                      <=> ~MayKnow(r)
        <5>1. IdentityVisible(r, me) <=> MayKnow(r)
          BY KnownIsVisible
        <5>2. Keep(r, me)
          BY <2>2, <4>1, KnownIsVisible
        <5>3. CASE MayKnow(r)
          BY <5>1, <5>3 DEF Given
        <5>4. CASE ~MayKnow(r)
          BY <5>1, <5>2, <5>4 DEF Given
        <5> QED
          BY <5>3, <5>4
      <4> QED
        BY <4>1 DEF LikeCards
    <3>2. Like(E, q, <<>>) = Cardinality({r \in alike(q) : ~MayKnow(r)})
      BY <3>1, LikeCounts
    <3> QED
      BY <2>2, <3>2 DEF ToldOf
  <2>3. CASE ~MayKnow(q) /\ q.zone \in {Hand, ExtraDeck}
    BY <2>3 DEF ToldOf
  <2> QED
    BY <2>1, <2>2, <2>3
<1> QED
  BY <1>1 DEF Told

(* The materials of a player, by host and number, and the entities of them. *)
HostAt(w, p, s) == QueryAt(w, p, "mzone", s)
UnderOf(E, p) == {n \in DOMAIN E : E[n].zone = Overlay /\ E[n].controller = <<p>>}

LEMMA HostIs ==
    ASSUME NEW w, Proper(w), NEW p \in Players, NEW x \in MaterialsOn(w.monsters[p])
    PROVE  /\ x[1] \in There(w, p, "mzone") /\ HostAt(w, p, x[1]) \in Queries
           /\ HostAt(w, p, x[1]) = Query(p, "mzone", x[1], w.monsters[p][x[1]][1])
           /\ HostAt(w, p, x[1]).controller = p /\ HostAt(w, p, x[1]).location = "mzone"
           /\ HostAt(w, p, x[1]).sequence = x[1] /\ HostAt(w, p, x[1]).zone = MonsterZone
           /\ Keep(HostAt(w, p, x[1]), me)
           /\ x[2] \in 1..Len(Materials(HostAt(w, p, x[1]))) /\ x = <<x[1], x[2]>>
<1>1. PICK m : m = w.monsters[p]
  OBVIOUS
<1>2. m \in [MonsterSlots -> Seq(MonsterCards)]
  BY <1>1, ProperParts DEF MonstersOf
<1>3. PICK s \in {s \in DOMAIN m : m[s] # <<>>} : \E j \in DOMAIN m[s][1].materials : x = <<s, j>>
  BY <1>1 DEF MaterialsOn
<1>4. PICK j \in DOMAIN m[s][1].materials : x = <<s, j>>
  BY <1>3
<1>5. s \in MonsterSlots /\ m[s] # <<>>
  BY <1>2, <1>3
<1>6. s \in Taken(w, "monsters", p)
  BY <1>1, <1>5 DEF Taken, Slots
<1>7. s \in There(w, p, "mzone") /\ "mzone" \in Places
  BY <1>6 DEF There, Row, Places
<1>8. CardOf(w, p, "mzone", s) = m[s][1]
  BY <1>1 DEF CardOf, CardAt, Row
<1>9. PICK q : q = HostAt(w, p, s)
  OBVIOUS
<1>10. /\ q \in Queries /\ q.controller = p /\ q.location = "mzone" /\ q.sequence = s
       /\ q.card = m[s][1] /\ q.zone = ProjectZone("mzone", s)
  BY <1>7, <1>8, <1>9, QueryAtIs DEF HostAt
<1>11. q = Query(p, "mzone", s, m[s][1])
  BY <1>8, <1>9 DEF HostAt, QueryAt
<1>12. q.zone = MonsterZone
  BY <1>10 DEF ProjectZone
<1>13. Keep(q, me)
  BY <1>12 DEF Keep, MonsterZone, MainDeck, Hand, ExtraDeck
<1>14. Materials(q) = m[s][1].materials
  BY <1>10, <1>12 DEF Materials, MonsterZone, ExtraDeck
<1>15. j \in 1..Len(Materials(q))
  BY <1>10, <1>14, MaterialsAre
<1>16. x[1] = s /\ x[2] = j
  BY <1>4
<1> QED
  BY <1>1, <1>4, <1>7, <1>9, <1>10, <1>11, <1>12, <1>13, <1>15, <1>16

(* And conversely.                                                          *)
LEMMA MaterialOn ==
    ASSUME NEW w, Proper(w), NEW q \in Queries, q.sequence \in There(w, q.controller, "mzone"),
           q = HostAt(w, q.controller, q.sequence), NEW j \in DOMAIN q.card.materials
    PROVE  <<q.sequence, j>> \in MaterialsOn(w.monsters[q.controller])
<1>1. PICK p, s : p = q.controller /\ s = q.sequence
  OBVIOUS
<1>2. p \in Players /\ s \in Taken(w, "monsters", p)
  BY <1>1 DEF Queries, There, Row
<1>3. PICK m : m = w.monsters[p]
  OBVIOUS
<1>4. m \in [MonsterSlots -> Seq(MonsterCards)]
  BY <1>2, <1>3, ProperParts DEF MonstersOf
<1>5. s \in DOMAIN m /\ m[s] # <<>>
  BY <1>2, <1>3, <1>4 DEF Taken, Slots
<1>6. q.card = m[s][1]
  BY <1>1, <1>3 DEF HostAt, QueryAt, Query, CardOf, CardAt, Row
<1>7. j \in DOMAIN m[s][1].materials
  BY <1>6
<1>8. <<s, j>> \in MaterialsOn(m)
  BY <1>5, <1>7 DEF MaterialsOn
<1> QED
  BY <1>1, <1>3, <1>8

(* Each has one entity, which tells of it.                                  *)
LEMMA MaterialsThread ==
    ASSUME NEW w, Proper(w), NEW p \in Players
    PROVE  LET E == Entities(Kept(w, me), me)
               M == MaterialsOn(w.monsters[p])
           IN  \E g \in [M -> UnderOf(E, p)] :
                  /\ \A x \in M : E[g[x]] = Material(HostAt(w, p, x[1]), x[2], me)
                  /\ \A x, y \in M : g[x] = g[y] => x = y
                  /\ \A n \in UnderOf(E, p) : \E x \in M : g[x] = n
<1> DEFINE k == Kept(w, me)
           E == Entities(k, me)
           M == MaterialsOn(w.monsters[p])
           at(x) == CHOOSE i \in 1..Len(k) : k[i] = HostAt(w, p, x[1])
<1>1. /\ k \in Seq(Queries) /\ DOMAIN E = 1..Len(E) /\ Len(E) \in Nat
      /\ \E b : EntityThreads(b, k, E)
  BY EntitiesOf
<1>2. \A i \in 1..Len(k) :
         /\ k[i].sequence \in There(w, k[i].controller, k[i].location)
         /\ k[i] = QueryAt(w, k[i].controller, k[i].location, k[i].sequence)
  BY KeptIs
<1>3. \A s \in There(w, p, "mzone") :
         Keep(HostAt(w, p, s), me) => \E i \in 1..Len(k) : k[i] = HostAt(w, p, s)
  <2>1. "mzone" \in Places
    BY DEF Places
  <2> QED
    BY <2>1, KeptIs DEF HostAt
<1>4. \A i, j \in 1..Len(k) : k[i] = k[j] => i = j
  BY KeptOnce
<1>5. ASSUME NEW i \in 1..Len(k)
      PROVE  /\ k[i] \in Queries /\ k[i].zone # Overlay
             /\ Materials(k[i]) # <<>> => k[i].location = "mzone"
  <2>1. k[i] \in Queries /\ k[i].zone \in 2..9
    BY KeptAt
  <2>2. Materials(k[i]) # <<>> => k[i].location = "mzone"
    BY KeptAt
  <2> QED
    BY <2>1, <2>2 DEF Overlay
<1>6. PICK b : EntityThreads(b, k, E)
  BY <1>1
<1> HIDE DEF k, E, M
<1>7. ASSUME NEW x \in M
      PROVE  /\ at(x) \in 1..Len(k) /\ k[at(x)] = HostAt(w, p, x[1])
             /\ <<at(x), x[2]>> \in Holders(k) /\ x[2] \in Nat /\ x[2] # 0
  <2>1. /\ x[1] \in There(w, p, "mzone") /\ Keep(HostAt(w, p, x[1]), me)
        /\ HostAt(w, p, x[1]) \in Queries /\ x[2] \in 1..Len(Materials(HostAt(w, p, x[1])))
    BY <1>7, HostIs DEF M
  <2>2. at(x) \in 1..Len(k) /\ k[at(x)] = HostAt(w, p, x[1])
    BY <1>3, <2>1
  <2>3. Len(Materials(HostAt(w, p, x[1]))) \in Nat
    BY <2>1, MaterialsAre
  <2>4. x[2] \in Nat /\ x[2] # 0 /\ x[2] \in 0..Len(Materials(HostAt(w, p, x[1])))
    BY <2>1, <2>3
  <2>5. at(x) \in Nat
    BY <1>1, <2>2
  <2>6. <<at(x), x[2]>> \in Holders(k)
    <3>1. PICK i, j : i = at(x) /\ j = x[2]
      OBVIOUS
    <3>2. <<i, j>> \in Holders(k)
      BY <2>2, <2>4, <2>5, <3>1 DEF Holders
    <3> QED
      BY <3>1, <3>2
  <2> QED
    BY <2>2, <2>4, <2>6
<1> DEFINE g == [x \in M |-> b[<<at(x), x[2]>>]]
<1>8. ASSUME NEW x \in M
      PROVE  /\ g[x] \in UnderOf(E, p) /\ E[g[x]] = Material(HostAt(w, p, x[1]), x[2], me)
             /\ E[g[x]].sequence = <<x[1]>> /\ E[g[x]].overlay = <<x[2] - 1>>
  <2>1. PICK i, j : i = at(x) /\ j = x[2]
    OBVIOUS
  <2>2. /\ <<i, j>> \in Holders(k) /\ k[i] = HostAt(w, p, x[1]) /\ j # 0
        /\ g[x] = b[<<i, j>>]
    BY <1>7, <2>1
  <2>3. E[b[<<i, j>>]] = Material(HostAt(w, p, x[1]), j, me) /\ b[<<i, j>>] \in DOMAIN E
    <3>1. PICK h : h = <<i, j>>
      OBVIOUS
    <3>2. h \in Holders(k) /\ h[1] = i /\ h[2] = j
      BY <2>2, <3>1
    <3>3. E[b[h]] = EntityAt(k, h[1], h[2]) /\ b[h] \in 1..Len(E)
      BY <1>6, <3>2 DEF EntityThreads
    <3>4. EntityAt(k, i, j) = Material(k[i], j, me)
      BY <2>2 DEF EntityAt
    <3> QED
      BY <1>1, <2>2, <3>1, <3>2, <3>3, <3>4
  <2>4. HostAt(w, p, x[1]).controller = p /\ HostAt(w, p, x[1]).sequence = x[1]
    BY HostIs DEF M
  <2>5. PICK e : e = Material(HostAt(w, p, x[1]), j, me)
    OBVIOUS
  <2>6. e.zone = Overlay /\ e.controller = <<p>> /\ e.sequence = <<x[1]>> /\ e.overlay = <<j - 1>>
    BY <2>4, <2>5, MaterialTells
  <2> HIDE DEF g
  <2>7. g[x] \in DOMAIN E /\ E[g[x]] = e
    BY <2>2, <2>3, <2>5
  <2>8. g[x] \in UnderOf(E, p)
    BY <2>6, <2>7 DEF UnderOf
  <2> QED
    BY <2>1, <2>5, <2>6, <2>7, <2>8
<1>9. ASSUME NEW x \in M, NEW y \in M, g[x] = g[y]
      PROVE  x = y
  <2>1. x[1] = y[1] /\ x[2] - 1 = y[2] - 1
    <3>1. <<x[1]>> = <<y[1]>> /\ <<x[2] - 1>> = <<y[2] - 1>>
      BY <1>8, <1>9
    <3> QED
      BY <3>1
  <2>2. x[2] \in Nat /\ y[2] \in Nat
    BY <1>7
  <2>3. x = <<x[1], x[2]>> /\ y = <<y[1], y[2]>>
    BY HostIs DEF M
  <2> QED
    BY <2>1, <2>2, <2>3
<1>10. ASSUME NEW n \in UnderOf(E, p)
       PROVE  \E x \in M : g[x] = n
  <2>1. n \in 1..Len(E) /\ E[n].zone = Overlay /\ E[n].controller = <<p>>
    BY <1>1 DEF UnderOf
  <2>2. PICK h \in Holders(k) : b[h] = n
    BY <1>6, <2>1 DEF EntityThreads
  <2>3. E[n] = EntityAt(k, h[1], h[2])
    BY <1>6, <2>2 DEF EntityThreads
  <2>4. /\ h \in Nat \X Nat /\ h[1] \in 1..Len(k) /\ h[2] \in Nat
        /\ h[2] \in 0..Len(Materials(k[h[1]]))
    BY DEF Holders
  <2>5. PICK i, q : i = h[1] /\ q = k[i]
    OBVIOUS
  <2>20. i \in 1..Len(k)
    BY <2>4, <2>5
  <2>7. /\ q \in Queries /\ (Materials(q) # <<>> => q.location = "mzone")
        /\ q.sequence \in There(w, q.controller, q.location) /\ q.zone # Overlay
        /\ q = QueryAt(w, q.controller, q.location, q.sequence)
    <3>1. k[i].zone # Overlay
      BY <1>5, <2>20, Zenon
    <3>2. k[i] \in Queries /\ (Materials(k[i]) # <<>> => k[i].location = "mzone")
      BY <1>5, <2>20, Zenon
    <3>3. /\ k[i].sequence \in There(w, k[i].controller, k[i].location)
          /\ k[i] = QueryAt(w, k[i].controller, k[i].location, k[i].sequence)
      BY <1>2, <2>20
    <3> QED
      BY <2>5, <3>1, <3>2, <3>3, Zenon
  <2>6. h[2] # 0
    <3>1. CASE h[2] = 0
      <4>1. E[n] = Entity(k, h[1], me)
        BY <2>3, <3>1 DEF EntityAt
      <4>2. Entity(k, h[1], me).zone = q.zone
        BY <2>5, EntityTells
      <4> QED
        BY <2>1, <2>7, <4>1, <4>2
    <3> QED
      BY <3>1
  <2>8. Len(Materials(q)) \in Nat /\ DOMAIN Materials(q) = 1..Len(Materials(q))
    BY <2>7, MaterialsAre
  <2>9. h[2] \in 1..Len(Materials(q)) /\ Materials(q) # <<>>
    <3>1. h[2] \in 1..Len(Materials(q))
      BY <2>4, <2>5, <2>6, <2>8
    <3>2. Materials(q) = <<>> => Len(Materials(q)) = 0
      OBVIOUS
    <3> QED
      BY <2>8, <3>1, <3>2
  <2>10. q.location = "mzone" /\ q = HostAt(w, q.controller, q.sequence)
         /\ q.sequence \in There(w, q.controller, "mzone")
    BY <2>7, <2>9 DEF HostAt
  <2>11. q.controller = p
    <3>1. E[n] = Material(q, h[2], me)
      BY <2>3, <2>5, <2>6 DEF EntityAt
    <3>2. E[n].controller = <<q.controller>>
      BY <3>1, MaterialTells
    <3>3. <<q.controller>> = <<p>>
      BY <2>1, <3>2
    <3> QED
      BY <3>3
  <2>12. h[2] \in DOMAIN q.card.materials
    <3>1. Materials(q) = q.card.materials
      BY <2>9 DEF Materials
    <3> QED
      BY <2>8, <2>9, <3>1
  <2>13. PICK x : x = <<q.sequence, h[2]>>
    OBVIOUS
  <2>14. x \in M
    BY <2>7, <2>10, <2>11, <2>12, <2>13, MaterialOn DEF M
  <2>15. k[at(x)] = k[h[1]] /\ at(x) \in 1..Len(k)
    BY <1>7, <2>5, <2>10, <2>11, <2>13, <2>14
  <2>16. at(x) = h[1]
    BY <1>4, <2>4, <2>15
  <2>17. h = <<h[1], h[2]>>
    BY <2>4
  <2>18. g[x] = b[<<at(x), x[2]>>]
    BY <2>14
  <2> HIDE DEF g, at
  <2>19. g[x] = n
    BY <2>2, <2>13, <2>16, <2>17, <2>18
  <2> QED
    BY <2>14, <2>19
<1>11. g \in [M -> UnderOf(E, p)]
  <2>1. \A x \in M : b[<<at(x), x[2]>>] \in UnderOf(E, p)
    BY <1>8
  <2> QED
    BY <2>1
<1> HIDE DEF g
<1> QED
  BY <1>8, <1>9, <1>10, <1>11 DEF k, E, M

(* Each is told once, with its code if its host may be known.               *)
LEMMA MaterialsAreTold ==
    ASSUME NEW w, Proper(w)
    PROVE  MaterialsTold(Entities(Kept(w, me), me), Cards(w))
<1>1. PICK E : E = Entities(Kept(w, me), me)
  OBVIOUS
<1>2. ASSUME NEW q \in Cards(w), NEW j \in DOMAIN q.card.materials
      PROVE  MaterialTold(E, q, j)
  <2>1. PICK p \in Players, location \in Places : \E s \in There(w, p, location) :
           q = QueryAt(w, p, location, s)
    BY CardsAre
  <2>2. PICK s \in There(w, p, location) : q = QueryAt(w, p, location, s)
    BY <2>1
  <2>3. /\ q \in Queries /\ q.controller = p /\ q.location = location /\ q.sequence = s
        /\ q.card = CardOf(w, p, location, s)
    BY <2>2, QueryAtIs
  <2>4. q.card.materials # <<>>
    BY <1>2
  <2>5. location = "mzone"
    BY <2>3, <2>4, MonstersHold
  <2>6. q = HostAt(w, p, s) /\ s \in There(w, p, "mzone")
    BY <2>2, <2>5 DEF HostAt
  <2>7. PICK x : x = <<s, j>>
    OBVIOUS
  <2>8. x \in MaterialsOn(w.monsters[p])
    BY <1>2, <2>3, <2>6, <2>7, MaterialOn
  <2>9. PICK g \in [MaterialsOn(w.monsters[p]) -> UnderOf(E, p)] :
           /\ \A y \in MaterialsOn(w.monsters[p]) : E[g[y]] = Material(HostAt(w, p, y[1]), y[2], me)
           /\ \A n \in UnderOf(E, p) : \E y \in MaterialsOn(w.monsters[p]) : g[y] = n
    BY <1>1, MaterialsThread
  <2>10. PICK i : i = g[x]
    OBVIOUS
  <2>11. i \in UnderOf(E, p) /\ E[i] = Material(q, j, me)
    BY <2>6, <2>7, <2>8, <2>9, <2>10
  <2>12. PICK e : e = Material(q, j, me)
    OBVIOUS
  <2>13. e.zone = Overlay /\ e.controller = <<p>> /\ e.sequence = <<s>> /\ e.overlay = <<j - 1>>
    BY <2>3, <2>12, MaterialTells
  <2>14. ASSUME NEW n \in UnderOf(E, p), E[n].sequence = <<s>>, E[n].overlay = <<j - 1>>
         PROVE  n = i
    <3>1. PICK y \in MaterialsOn(w.monsters[p]) : g[y] = n
      BY <2>9
    <3>2. E[n] = Material(HostAt(w, p, y[1]), y[2], me)
      BY <2>9, <3>1
    <3>3. E[n].sequence = <<HostAt(w, p, y[1]).sequence>> /\ E[n].overlay = <<y[2] - 1>>
      BY <3>2, MaterialTells
    <3>4. /\ HostAt(w, p, y[1]).sequence = y[1] /\ y = <<y[1], y[2]>>
          /\ HostAt(w, p, y[1]) \in Queries
          /\ y[2] \in 1..Len(Materials(HostAt(w, p, y[1])))
      BY HostIs
    <3>5. <<y[1]>> = <<s>> /\ <<y[2] - 1>> = <<j - 1>>
      BY <2>14, <3>3, <3>4
    <3>6. y[1] = s /\ y[2] - 1 = j - 1
      BY <3>5
    <3>7. y[2] \in Int /\ j \in Int
      <4>1. Len(Materials(HostAt(w, p, y[1]))) \in Nat
        BY <3>4, MaterialsAre
      <4>2. q.card.materials \in Seq(PlainCards)
        BY <2>3 DEF Queries, AnyCards
      <4>3. j \in Int
        BY <1>2, <4>2
      <4> QED
        BY <3>4, <4>1, <4>3
    <3>8. y[2] = j
      BY <3>6, <3>7
    <3> QED
      BY <2>7, <2>10, <3>1, <3>4, <3>6, <3>8
  <2>15. {n \in DOMAIN E : /\ E[n].zone = Overlay /\ E[n].controller = <<q.controller>>
                            /\ E[n].sequence = <<q.sequence>> /\ E[n].overlay = <<j - 1>>} = {i}
    <3>1. i \in DOMAIN E
      BY <2>11 DEF UnderOf
    <3> QED
      BY <2>3, <2>11, <2>12, <2>13, <2>14, <3>1 DEF UnderOf
  <2>16. E[i].code = Given(MayKnow(q), q.card.materials[j].code)
    <3>1. E[i] = MaterialSeen(q, j, IdentityVisible(q, me))
      BY <2>3, <2>11, MaterialIs
    <3>2. E[i].code = Given(IdentityVisible(q, me), q.card.materials[j].code)
      BY <3>1 DEF MaterialSeen
    <3>3. IdentityVisible(q, me) <=> MayKnow(q)
      BY KnownIsVisible
    <3> QED
      BY <3>2, <3>3 DEF Given
  <2>17. i \in DOMAIN E
    BY <2>11 DEF UnderOf
  <2> QED
    BY <2>15, <2>16, <2>17 DEF MaterialTold
<1> QED
  BY <1>1, <1>2 DEF MaterialsTold

(* There are as many of their entities, and as many known ones.             *)
LEMMA UnderCardsAre ==
    ASSUME NEW w, Proper(w), NEW p \in Players
    PROVE  LET E == Entities(Kept(w, me), me)
               all == Cardinality(MaterialsOn(w.monsters[p]))
               known == Cardinality(KnownOn(w.monsters[p], p))
           IN  /\ all = UnderCards(E, p, BOOLEAN) /\ known = UnderCards(E, p, {TRUE})
               /\ all - known = UnderCards(E, p, {FALSE})
               /\ all \in Nat /\ known \in Nat /\ known <= all
<1>1. PICK E : E = Entities(Kept(w, me), me)
  OBVIOUS
<1> DEFINE M == MaterialsOn(w.monsters[p])
           N == KnownOn(w.monsters[p], p)
           under == UnderOf(E, p)
           T == {n \in under : E[n].known = TRUE}
<1>2. PICK g \in [M -> under] :
         /\ \A x \in M : E[g[x]] = Material(HostAt(w, p, x[1]), x[2], me)
         /\ \A x, y \in M : g[x] = g[y] => x = y
         /\ \A n \in under : \E x \in M : g[x] = n
  BY <1>1, MaterialsThread
<1>3. IsFiniteSet(under)
  <2>1. DOMAIN E = 1..Len(E) /\ Len(E) \in Nat
    BY <1>1, EntitiesOf
  <2>2. IsFiniteSet(1..Len(E))
    BY <2>1, FS_Interval
  <2>3. under \in SUBSET (1..Len(E))
    BY <2>1 DEF UnderOf
  <2> QED
    BY <2>2, <2>3, FS_Subset
<1>4. N = {x \in M : MaterialVisible(HostAt(w, p, x[1]), x[2], me)}
  <2>1. ASSUME NEW x \in M
        PROVE  HostAt(w, p, x[1]) = Query(p, "mzone", x[1], w.monsters[p][x[1]][1])
    BY HostIs
  <2> QED
    BY <2>1 DEF KnownOn
<1>5. ASSUME NEW x \in M
      PROVE  /\ E[g[x]].known \in BOOLEAN
             /\ E[g[x]].known = MaterialVisible(HostAt(w, p, x[1]), x[2], me)
  <2>1. PICK q : q = HostAt(w, p, x[1])
    OBVIOUS
  <2>2. q \in Queries
    BY <2>1, HostIs
  <2>3. E[g[x]] = Material(q, x[2], me)
    BY <1>2, <2>1
  <2>4. Material(q, x[2], me).known = MaterialVisible(q, x[2], me)
    BY MaterialTells
  <2>5. MaterialVisible(q, x[2], me) \in BOOLEAN
    BY <2>2, MaterialIs DEF IdentityVisible, Queries, AnyCards
  <2> QED
    BY <2>1, <2>3, <2>4, <2>5
<1> HIDE DEF M, N
<1>6. ASSUME NEW n \in under
      PROVE  E[n].known \in BOOLEAN
  <2>1. PICK x \in M : g[x] = n
    BY <1>2
  <2> QED
    BY <1>5, <2>1
<1>7. UnderCards(E, p, BOOLEAN) = Cardinality(under)
  <2>1. {i \in DOMAIN E : E[i].zone = Overlay /\ E[i].controller = <<p>> /\ E[i].known \in BOOLEAN} = under
    BY <1>6 DEF UnderOf
  <2> QED
    BY <2>1 DEF UnderCards
<1>8. UnderCards(E, p, {TRUE}) = Cardinality(T)
  <2>1. {i \in DOMAIN E : E[i].zone = Overlay /\ E[i].controller = <<p>> /\ E[i].known \in {TRUE}} = T
    BY DEF UnderOf
  <2> QED
    BY <2>1 DEF UnderCards
<1>9. UnderCards(E, p, {FALSE}) = Cardinality(under \ T)
  <2>1. {i \in DOMAIN E : E[i].zone = Overlay /\ E[i].controller = <<p>> /\ E[i].known \in {FALSE}}
          = {n \in under : E[n].known = FALSE}
    BY DEF UnderOf
  <2>2. {n \in under : E[n].known = FALSE} = under \ T
    BY <1>6
  <2> QED
    BY <2>1, <2>2 DEF UnderCards
<1>10. \A x \in M : x \in N <=> E[g[x]].known = TRUE
  BY <1>4, <1>5
<1> DEFINE f == [x \in N |-> g[x]]
<1>11. N \in SUBSET M
  BY <1>4
<1>12. \A x \in M : g[x] \in under
  BY <1>2
<1>13. \A x \in N : g[x] \in T
  BY <1>10, <1>11, <1>12
<1>14. \A t \in T : \E x \in N : g[x] = t
  BY <1>2, <1>10
<1> HIDE DEF under, T
<1>15. IsFiniteSet(M)
  <2>1. g \in Injection(M, under)
    BY <1>2 DEF Injection, IsInjective
  <2> QED
    BY <1>3, <2>1, FS_Injection
<1>16. Cardinality(under) = Cardinality(M)
  BY <1>2, <1>15, SameNumber
<1>17. /\ IsFiniteSet(N) /\ Cardinality(N) <= Cardinality(M)
       /\ Cardinality(M) \in Nat /\ Cardinality(N) \in Nat
  BY <1>11, <1>15, FS_Subset, FS_CardinalityType
<1>18. Cardinality(T) = Cardinality(N)
  <2>1. f \in [N -> T]
    BY <1>13
  <2>2. \A x, y \in N : f[x] = f[y] => x = y
    BY <1>2, <1>11
  <2>3. \A t \in T : \E x \in N : f[x] = t
    BY <1>14
  <2> HIDE DEF f
  <2> QED
    BY <1>17, <2>1, <2>2, <2>3, SameNumber
<1>19. Cardinality(under \ T) = Cardinality(under) - Cardinality(T)
  <2>1. under \cap T = T
    BY DEF T
  <2> QED
    BY <1>3, <2>1, FS_Difference
<1> QED
  BY <1>7, <1>8, <1>9, <1>16, <1>17, <1>18, <1>19, <1>1 DEF M, N

CountedAs(Z, p, all, known) ==
    \E Y : Z \in Seq(Y) /\ \A z \in Y : z.kind = Overlay => z = ZoneCount(p, Overlay, all, known, FALSE)

(* Of the counts of a player, the last is that of the materials.            *)
LEMMA OverlayIsLast ==
    ASSUME NEW p, NEW deck, NEW hand, NEW m, NEW s, NEW f, NEW q, NEW grave, NEW banished, NEW extra,
           NEW up, NEW materials, NEW known,
           m.kind # Overlay, s.kind # Overlay, f.kind # Overlay, q.kind # Overlay
    PROVE  CountedAs(ZonesWith(p, deck, hand, m, s, f, q, grave, banished, extra, up, materials,
                               known), p, materials, known)
<1> DEFINE Z == ZonesWith(p, deck, hand, m, s, f, q, grave, banished, extra, up, materials, known)
<1> DEFINE a == ZoneCount(p, MainDeck, deck, 0, FALSE)
           b == ZoneCount(p, Hand, hand, IF p = me THEN hand ELSE 0, p = me)
           g == ZoneCount(p, Graveyard, grave, grave, TRUE)
           h == ZoneCount(p, Banished, banished, banished, TRUE)
           l == ZoneCount(p, ExtraDeck, extra, IF p = me THEN extra ELSE up, FALSE)
           o == ZoneCount(p, Overlay, materials, known, FALSE)
<1>1. Z = <<a, b, m, s, f, q, g, h, l, o>>
  BY DEF ZonesWith
<1>2. /\ a.kind # Overlay /\ b.kind # Overlay /\ g.kind # Overlay /\ h.kind # Overlay
      /\ l.kind # Overlay
  BY DEF ZoneCount, MainDeck, Hand, Graveyard, Banished, ExtraDeck, Overlay
<1> HIDE DEF a, b, g, h, l, o
<1>3. PICK Y : Y = {a, b, m, s, f, q, g, h, l, o}
  OBVIOUS
<1>4. \A z \in Y : z.kind = Overlay => z = o
  BY <1>2, <1>3
<1>5. Z \in Seq(Y)
  BY <1>1, <1>3, TenAre
<1>6. \A z \in Y : z.kind = Overlay => z = ZoneCount(p, Overlay, materials, known, FALSE)
  BY <1>4 DEF o
<1> QED
  BY <1>5, <1>6 DEF CountedAs

(* So an entry for the materials counts those of its player.                *)
LEMMA OverlayCounts ==
    ASSUME NEW w, NEW i \in DOMAIN (ZonesOf(w, 0, me) \o ZonesOf(w, 1, me)),
           (ZonesOf(w, 0, me) \o ZonesOf(w, 1, me))[i].kind = Overlay
    PROVE  \E p \in Players :
             (ZonesOf(w, 0, me) \o ZonesOf(w, 1, me))[i]
               = ZoneCount(p, Overlay, Cardinality(MaterialsOn(w.monsters[p])),
                           Cardinality(KnownOn(w.monsters[p], p)), FALSE)
<1> DEFINE all(p) == Cardinality(MaterialsOn(w.monsters[p]))
           known(p) == Cardinality(KnownOn(w.monsters[p], p))
           count(p) == ZoneCount(p, Overlay, all(p), known(p), FALSE)
<1>1. PICK A, B : A = ZonesOf(w, 0, me) /\ B = ZonesOf(w, 1, me)
  OBVIOUS
<1>2. ASSUME NEW p \in Players
      PROVE  CountedAs(ZonesOf(w, p, me), p, all(p), known(p))
  <2>1. ASSUME NEW slots, NEW location, NEW zone, zone # Overlay
        PROVE  FieldCount(slots, p, location, zone).kind # Overlay
    BY <2>1 DEF FieldCount, ZoneCount
  <2>2. MonsterZone # Overlay /\ SpellTrapZone # Overlay /\ FieldZone # Overlay
        /\ PendulumRelevant # Overlay
    BY DEF MonsterZone, SpellTrapZone, FieldZone, PendulumRelevant, Overlay
  <2>3. PICK m, s, f, q :
           /\ m = FieldCount(w.monsters[p], p, "mzone", MonsterZone)
           /\ s = FieldCount(w.spells[p], p, "szone", SpellTrapZone)
           /\ f = FieldCount(w.spells[p], p, "szone", FieldZone)
           /\ q = FieldCount(w.spells[p], p, "szone", PendulumRelevant)
    OBVIOUS
  <2>4. m.kind # Overlay /\ s.kind # Overlay /\ f.kind # Overlay /\ q.kind # Overlay
    BY <2>1, <2>2, <2>3
  <2>5. ZonesOf(w, p, me) =
          ZonesWith(p, Len(w.deck[p]), Len(w.hand[p]), m, s, f, q, Len(w.grave[p]),
                    Len(w.banished[p]), Len(w.extra[p]), Cardinality(ExtraUp(w.extra[p])),
                    all(p), known(p))
    BY <2>3, ZonesAre
  <2> HIDE DEF all, known
  <2> QED
    BY <2>4, <2>5, OverlayIsLast
<1>3. 0 \in Players /\ 1 \in Players
  BY DEF Players
<1>4. CountedAs(A, 0, all(0), known(0)) /\ CountedAs(B, 1, all(1), known(1))
  BY <1>1, <1>2, <1>3
<1> HIDE DEF all, known
<1>5. PICK Y : A \in Seq(Y) /\ \A z \in Y : z.kind = Overlay => z = count(0)
  BY <1>4 DEF CountedAs
<1>6. PICK V : B \in Seq(V) /\ \A z \in V : z.kind = Overlay => z = count(1)
  BY <1>4 DEF CountedAs
<1> HIDE DEF count
<1>7. A \o B \in Seq(Y \cup V)
  <2>1. A \in Seq(Y \cup V) /\ B \in Seq(Y \cup V)
    BY <1>5, <1>6
  <2> QED
    BY <2>1
<1>8. i \in DOMAIN (A \o B) /\ (A \o B)[i].kind = Overlay
  BY <1>1
<1>9. (A \o B)[i] \in Y \cup V
  BY <1>7, <1>8
<1>10. (A \o B)[i] = count(0) \/ (A \o B)[i] = count(1)
  BY <1>5, <1>6, <1>8, <1>9
<1> QED
  BY <1>1, <1>3, <1>10 DEF count, all, known

(* The counts of the materials are those of their entities.                 *)
LEMMA MaterialsAreCounted ==
    ASSUME NEW w, Proper(w)
    PROVE  MaterialsCounted(Entities(Kept(w, me), me), ZonesOf(w, 0, me) \o ZonesOf(w, 1, me))
<1>1. PICK E, Z : E = Entities(Kept(w, me), me) /\ Z = ZonesOf(w, 0, me) \o ZonesOf(w, 1, me)
  OBVIOUS
<1>2. ASSUME NEW i \in DOMAIN Z, Z[i].kind = Overlay
      PROVE  /\ Z[i].total = UnderCards(E, Z[i].player, BOOLEAN)
             /\ Z[i].public = UnderCards(E, Z[i].player, {TRUE})
             /\ Z[i].hidden = UnderCards(E, Z[i].player, {FALSE})
  <2>1. PICK p \in Players :
           Z[i] = ZoneCount(p, Overlay, Cardinality(MaterialsOn(w.monsters[p])),
                            Cardinality(KnownOn(w.monsters[p], p)), FALSE)
    BY <1>1, <1>2, OverlayCounts
  <2>2. PICK all, known : all = Cardinality(MaterialsOn(w.monsters[p]))
                          /\ known = Cardinality(KnownOn(w.monsters[p], p))
    OBVIOUS
  <2>3. /\ all = UnderCards(E, p, BOOLEAN) /\ known = UnderCards(E, p, {TRUE})
        /\ all - known = UnderCards(E, p, {FALSE})
        /\ all \in Nat /\ known \in Nat /\ known <= all
    BY <1>1, <2>2, UnderCardsAre
  <2>4. /\ Z[i].player = p /\ Z[i].total = all /\ Z[i].public = known
        /\ Z[i].hidden = IF all >= known THEN all - known ELSE 0
    BY <2>1, <2>2 DEF ZoneCount
  <2> QED
    BY <2>3, <2>4
<1> QED
  BY <1>1, <1>2 DEF MaterialsCounted

(* Whenever both fields are proper, player 0 is told what it may know.      *)
LEMMA ProperIsTold ==
    ProperInv => TellsWhatIsKnown
<1>1. ASSUME ProperInv, NEW d \in Duels
      PROVE  /\ Told(Observed(d).entities, Cards(world[d]))
             /\ MaterialsTold(Observed(d).entities, Cards(world[d]))
             /\ MaterialsCounted(Observed(d).entities, Observed(d).zones)
  <2>1. PICK w, s : w = world[d] /\ s = session[d]
    OBVIOUS
  <2>2. Proper(w)
    BY <1>1, <2>1 DEF ProperInv
  <2>3. Observed(d) = Observe(w, me, s, Asked(w))
    BY <2>1 DEF Observed
  <2>4. /\ Observe(w, me, s, Asked(w)).entities = Entities(Kept(w, me), me)
        /\ Observe(w, me, s, Asked(w)).zones = ZonesOf(w, 0, me) \o ZonesOf(w, 1, me)
    BY ObserveIs
  <2>5. /\ Told(Entities(Kept(w, me), me), Cards(w))
        /\ MaterialsTold(Entities(Kept(w, me), me), Cards(w))
        /\ MaterialsCounted(Entities(Kept(w, me), me), ZonesOf(w, 0, me) \o ZonesOf(w, 1, me))
    BY <2>2, FieldIsTold, MaterialsAreTold, MaterialsAreCounted
  <2> QED
    BY <2>1, <2>3, <2>4, <2>5
<1> QED
  BY <1>1 DEF TellsWhatIsKnown

(* After any sequence of moves from any fields, the observation            *)
(* (observation_builder.cpp: keep_entity, card_identity_visible) names each *)
(* card the player may know as often as it is there, counts the others on   *)
(* the field and in the piles, tells each material under its number, with   *)
(* its code if its host may be known (overlay_material_identity_visible),   *)
(* and agrees with the counts of the zone.                                  *)
THEOREM KnownIsTold ==
    Spec => []TellsWhatIsKnown
<1>1. Spec => []ProperInv
  BY FieldsStayProper
<1> QED
  BY <1>1, ProperIsTold, PTL

============================================================================
