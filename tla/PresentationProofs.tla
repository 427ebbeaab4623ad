------------------------- MODULE PresentationProofs -------------------------
(***************************************************************************)
(* Of any SD-JWT, a holder discloses what was asked for, in any number of  *)
(* steps.  For any number of flows, relying parties, credentials and       *)
(* rotations, a presentation flow only ever answers the relying party      *)
(* whose client id was scanned.                                            *)
(***************************************************************************)
EXTENDS Presentation, SdJwtHolder, TLAPS, NaturalsInduction, WellFoundedInduction

(* Every set of naturals that is not empty has a least element.            *)
LEMMA Least ==
    ASSUME NEW T \in SUBSET Nat, T # {}
    PROVE  \E x \in T : \A y \in T : x <= y
<1>1. IsWellFoundedOn(OpToRel(<, Nat), Nat)
  BY NatLessThanWellFounded
<1>2. PICK x \in T : \A y \in T : ~ (<<y, x>> \in OpToRel(<, Nat))
  BY <1>1, WFMin
<1>3. \A y \in T : ~ (y < x)
  BY <1>2 DEF OpToRel
<1> QED
  BY <1>3

(* Induction, for what holds of a set of naturals.                         *)
LEMMA UpTo ==
    ASSUME NEW N \in Nat, NEW T, 0 \in T,
           \A n \in 1 .. N : n - 1 \in T => n \in T
    PROVE  \A n \in 0 .. N : n \in T
<1> DEFINE Bad == {n \in 0 .. N : n \notin T}
<1> SUFFICES ASSUME Bad # {} PROVE FALSE
  OBVIOUS
<1>1. Bad \in SUBSET Nat
  OBVIOUS
<1>2. PICK n \in Bad : \A k \in Bad : n <= k
  BY <1>1, Least
<1>3. n \in 1 .. N
  OBVIOUS
<1>4. n - 1 \notin Bad
  BY <1>2, <1>3
<1> QED
  BY <1>3, <1>4

(* The first n segments, filtered, out of the first n - 1.                 *)
Taken(before, segment, claims) ==
    IF segment.name \in claims THEN Append(before, segment) ELSE before

IsFilter(f, segments, claims, m) ==
    f = [n \in 0 .. m |->
            IF n = 0 THEN <<>> ELSE Taken(f[n - 1], segments[n], claims)]

LEMMA FilterExists ==
    ASSUME NEW segments, Len(segments) \in Nat, NEW claims
    PROVE  \E f : IsFilter(f, segments, claims, Len(segments))
<1> DEFINE T == {m \in 0 .. Len(segments) : \E f : IsFilter(f, segments, claims, m)}
<1>1. 0 \in T
  <2> DEFINE f == [n \in 0 .. 0 |-> <<>>]
  <2>1. IsFilter(f, segments, claims, 0)
    BY DEF IsFilter
  <2> QED
    BY <2>1
<1>2. ASSUME NEW m \in 1 .. Len(segments), m - 1 \in T PROVE m \in T
  <2>1. PICK f : IsFilter(f, segments, claims, m - 1)
    BY <1>2
  <2> DEFINE g == [n \in 0 .. m |->
                    IF n = m THEN Taken(f[m - 1], segments[m], claims) ELSE f[n]]
  <2>2. \A n \in 0 .. (m - 1) : g[n] = f[n]
    OBVIOUS
  <2>3. \A n \in 0 .. (m - 1) : f[n] =
            IF n = 0 THEN <<>> ELSE Taken(f[n - 1], segments[n], claims)
    BY <2>1 DEF IsFilter
  <2>4. g[m] = Taken(g[m - 1], segments[m], claims)
    BY <2>2
  <2>5. \A n \in 0 .. m : g[n] =
            IF n = 0 THEN <<>> ELSE Taken(g[n - 1], segments[n], claims)
    <3> SUFFICES ASSUME NEW n \in 0 .. m
                 PROVE  g[n] = IF n = 0 THEN <<>>
                               ELSE Taken(g[n - 1], segments[n], claims)
      OBVIOUS
    <3>1. CASE n = m
      BY <2>4, <3>1
    <3>2. CASE n = 0
      BY <2>2, <2>3, <3>2
    <3>3. CASE n \in 1 .. (m - 1)
      <4>1. n - 1 \in 0 .. (m - 1) /\ n \in 0 .. (m - 1) /\ n # 0
        BY <3>3
      <4>2. g[n - 1] = f[n - 1] /\ g[n] = f[n]
        BY <2>2, <4>1
      <4> QED
        BY <2>3, <4>1, <4>2
    <3> QED
      BY <3>1, <3>2, <3>3
  <2>6. IsFilter(g, segments, claims, m)
    <3> HIDE DEF g
    <3> SUFFICES g = [n \in 0 .. m |->
            IF n = 0 THEN <<>> ELSE Taken(g[n - 1], segments[n], claims)]
      BY DEF IsFilter
    <3>1. g = [n \in 0 .. m |-> g[n]]
      BY DEF g
    <3> QED
      BY <2>5, <3>1
  <2> QED
    BY <2>6
<1> HIDE DEF T
<1>3. \A m \in 0 .. Len(segments) : m \in T
  <2>1. \A m \in 1 .. Len(segments) : m - 1 \in T => m \in T
    BY <1>2
  <2> QED
    BY <1>1, <2>1, UpTo
<1>4. Len(segments) \in T
  BY <1>3
<1> QED
  BY <1>4 DEF T

(* FilteredDisclosures is the last of a sequence of sequences, each from   *)
(* the one before.                                                         *)
LEMMA Filtering ==
    ASSUME NEW segments, Len(segments) \in Nat, NEW claims
    PROVE  \E f : /\ f[0] = <<>>
                  /\ \A n \in 1 .. Len(segments) :
                        f[n] = Taken(f[n - 1], segments[n], claims)
                  /\ FilteredDisclosures(segments, claims) = f[Len(segments)]
<1> DEFINE F == CHOOSE f : IsFilter(f, segments, claims, Len(segments))
<1>1. IsFilter(F, segments, claims, Len(segments))
  BY FilterExists
<1>2. FilteredDisclosures(segments, claims) = F[Len(segments)]
  BY DEF FilteredDisclosures, IsFilter, Taken
<1> HIDE DEF F
<1>3. F[0] = <<>>
  BY <1>1 DEF IsFilter
<1>4. \A n \in 1 .. Len(segments) : F[n] = Taken(F[n - 1], segments[n], claims)
  BY <1>1 DEF IsFilter
<1> QED
  BY <1>2, <1>3, <1>4

(* part is what Picks says of the first m of whole.                        *)
PicksOf(part, whole, claims, m) ==
    \E place \in [DOMAIN part -> 1 .. m] :
        /\ \A i, j \in DOMAIN part : i < j => place[i] < place[j]
        /\ \A i \in DOMAIN part : part[i] = whole[place[i]]
        /\ {place[i] : i \in DOMAIN part} = {k \in 1 .. m : whole[k].name \in claims}

LEMMA PicksNone ==
    ASSUME NEW whole, NEW claims
    PROVE  PicksOf(<<>>, whole, claims, 0)
<1>1. PICK none : none = <<>>
  OBVIOUS
<1>2. DOMAIN none = {}
  BY <1>1
<1>3. none \in [DOMAIN none -> 1 .. 0]
  BY <1>1
<1>4. {none[i] : i \in DOMAIN none} = {}
  BY <1>2
<1>5. {k \in 1 .. 0 : whole[k].name \in claims} = {}
  OBVIOUS
<1>6. PicksOf(none, whole, claims, 0)
  BY <1>2, <1>3, <1>4, <1>5 DEF PicksOf
<1> QED
  BY <1>1, <1>6

LEMMA PicksOneMore ==
    ASSUME NEW S, NEW part \in Seq(S), NEW whole, NEW claims, NEW m \in Nat \ {0},
           whole[m] \in S, PicksOf(part, whole, claims, m - 1)
    PROVE  /\ Taken(part, whole[m], claims) \in Seq(S)
           /\ PicksOf(Taken(part, whole[m], claims), whole, claims, m)
<1>1. PICK place \in [DOMAIN part -> 1 .. (m - 1)] :
        /\ \A i, j \in DOMAIN part : i < j => place[i] < place[j]
        /\ \A i \in DOMAIN part : part[i] = whole[place[i]]
        /\ {place[i] : i \in DOMAIN part} =
            {k \in 1 .. (m - 1) : whole[k].name \in claims}
  BY DEF PicksOf
<1>2. CASE whole[m].name \notin claims
  <2>1. Taken(part, whole[m], claims) = part
    BY <1>2 DEF Taken
  <2>2. place \in [DOMAIN part -> 1 .. m]
    BY <1>1
  <2>3. {k \in 1 .. m : whole[k].name \in claims} =
            {k \in 1 .. (m - 1) : whole[k].name \in claims}
    BY <1>2
  <2>4. PicksOf(part, whole, claims, m)
    BY <1>1, <2>2, <2>3 DEF PicksOf
  <2> QED
    BY <2>1, <2>4
<1>3. CASE whole[m].name \in claims
  <2>1. PICK more : more = Append(part, whole[m])
    OBVIOUS
  <2>2. /\ Taken(part, whole[m], claims) = more /\ more \in Seq(S)
        /\ Len(part) \in Nat /\ DOMAIN part = 1 .. Len(part)
        /\ DOMAIN more = 1 .. (Len(part) + 1)
        /\ \A i \in DOMAIN part : more[i] = part[i]
        /\ more[Len(part) + 1] = whole[m]
    BY <1>3, <2>1 DEF Taken
  <2>3. PICK wider : wider = [i \in 1 .. (Len(part) + 1) |->
                                IF i = Len(part) + 1 THEN m ELSE place[i]]
    OBVIOUS
  <2>4. wider \in [DOMAIN more -> 1 .. m]
    BY <1>1, <2>2, <2>3
  <2>5. wider[Len(part) + 1] = m /\ \A i \in DOMAIN part : wider[i] = place[i]
    BY <2>2, <2>3
  <2>6. \A i \in DOMAIN more : i \in DOMAIN part \/ i = Len(part) + 1
    BY <2>2
  <2>7. \A i, j \in DOMAIN more : i < j => wider[i] < wider[j]
    <3> SUFFICES ASSUME NEW i \in DOMAIN more, NEW j \in DOMAIN more, i < j
                 PROVE  wider[i] < wider[j]
      OBVIOUS
    <3>1. i \in DOMAIN part /\ place[i] \in 1 .. (m - 1) /\ wider[i] = place[i]
      BY <1>1, <2>2, <2>5
    <3>2. CASE j \in DOMAIN part
      BY <1>1, <2>5, <3>1, <3>2
    <3>3. CASE j = Len(part) + 1
      BY <2>5, <3>1, <3>3
    <3> QED
      BY <2>6, <3>2, <3>3
  <2>8. \A i \in DOMAIN more : more[i] = whole[wider[i]]
    BY <1>1, <2>2, <2>5, <2>6
  <2>9. {wider[i] : i \in DOMAIN more} = {k \in 1 .. m : whole[k].name \in claims}
    <3>1. {wider[i] : i \in DOMAIN more} = {place[i] : i \in DOMAIN part} \cup {m}
      BY <2>2, <2>5, <2>6
    <3>2. {k \in 1 .. m : whole[k].name \in claims} =
            {k \in 1 .. (m - 1) : whole[k].name \in claims} \cup {m}
      BY <1>3
    <3> QED
      BY <1>1, <3>1, <3>2
  <2> QED
    BY <2>2, <2>4, <2>7, <2>8, <2>9, ZenonT(30) DEF PicksOf
<1> QED
  BY <1>2, <1>3

(* disclose's filter keeps the disclosures of the claims, in their order.  *)
LEMMA FilterPicks ==
    ASSUME NEW S, NEW segments \in Seq(S), NEW claims
    PROVE  /\ FilteredDisclosures(segments, claims) \in Seq(S)
           /\ Picks(FilteredDisclosures(segments, claims), segments, claims)
<1>0. Len(segments) \in Nat /\ DOMAIN segments = 1 .. Len(segments)
  OBVIOUS
<1>1. PICK f : /\ f[0] = <<>>
               /\ \A n \in 1 .. Len(segments) :
                    f[n] = Taken(f[n - 1], segments[n], claims)
               /\ FilteredDisclosures(segments, claims) = f[Len(segments)]
  BY <1>0, Filtering
<1> DEFINE T == {n \in 0 .. Len(segments) :
                    f[n] \in Seq(S) /\ PicksOf(f[n], segments, claims, n)}
<1>2. 0 \in T
  <2>1. f[0] \in Seq(S) /\ PicksOf(f[0], segments, claims, 0)
    BY <1>1, PicksNone
  <2>2. 0 \in 0 .. Len(segments)
    BY <1>0
  <2> QED
    BY <2>1, <2>2
<1>3. \A n \in 1 .. Len(segments) : n - 1 \in T => n \in T
  <2> SUFFICES ASSUME NEW n \in 1 .. Len(segments), n - 1 \in T PROVE n \in T
    OBVIOUS
  <2>1. /\ f[n - 1] \in Seq(S) /\ PicksOf(f[n - 1], segments, claims, n - 1)
        /\ segments[n] \in S /\ f[n] = Taken(f[n - 1], segments[n], claims)
    BY <1>0, <1>1
  <2>2. f[n] \in Seq(S) /\ PicksOf(f[n], segments, claims, n)
    BY <2>1, PicksOneMore
  <2> QED
    BY <2>2
<1> HIDE DEF T
<1>4. \A n \in 0 .. Len(segments) : n \in T
  BY <1>0, <1>2, <1>3, UpTo
<1>5. Len(segments) \in T
  BY <1>0, <1>4
<1>6. PICK part : part = FilteredDisclosures(segments, claims)
  OBVIOUS
<1>7. part \in Seq(S) /\ PicksOf(part, segments, claims, Len(segments))
  BY <1>1, <1>5, <1>6 DEF T
<1>8. Picks(part, segments, claims)
  BY <1>0, <1>7 DEF PicksOf, Picks
<1> QED
  BY <1>6, <1>7, <1>8

(* What was picked is of the claims, and all that is of the claims.        *)
LEMMA PickedElements ==
    ASSUME NEW part, NEW whole, NEW claims, Picks(part, whole, claims)
    PROVE  /\ \A i \in DOMAIN part : \E k \in DOMAIN whole :
                part[i] = whole[k] /\ whole[k].name \in claims
           /\ \A k \in DOMAIN whole : whole[k].name \in claims =>
                \E i \in DOMAIN part : part[i] = whole[k]
<1>1. PICK place \in [DOMAIN part -> DOMAIN whole] :
        /\ \A i \in DOMAIN part : part[i] = whole[place[i]]
        /\ {place[i] : i \in DOMAIN part} =
            {k \in DOMAIN whole : whole[k].name \in claims}
  BY DEF Picks
<1>2. ASSUME NEW i \in DOMAIN part
      PROVE  place[i] \in DOMAIN whole /\ whole[place[i]].name \in claims
  <2>1. place[i] \in {k \in DOMAIN whole : whole[k].name \in claims}
    BY <1>1
  <2> QED
    BY <2>1
<1>3. ASSUME NEW k \in DOMAIN whole, whole[k].name \in claims
      PROVE  \E i \in DOMAIN part : place[i] = k
  <2>1. k \in {place[i] : i \in DOMAIN part}
    BY <1>1, <1>3
  <2> QED
    BY <2>1
<1> QED
  BY <1>1, <1>2, <1>3

(* Disclosing twice is disclosing what both ask for.                       *)
LEMMA PicksTwice ==
    ASSUME NEW part, NEW middle, NEW whole, NEW S, NEW T,
           DOMAIN middle \subseteq Nat, DOMAIN part \subseteq Nat,
           Picks(part, middle, S), Picks(middle, whole, T)
    PROVE  Picks(part, whole, T \cap S)
<1>1. PICK p \in [DOMAIN part -> DOMAIN middle] :
        /\ \A i, j \in DOMAIN part : i < j => p[i] < p[j]
        /\ \A i \in DOMAIN part : part[i] = middle[p[i]]
        /\ {p[i] : i \in DOMAIN part} = {k \in DOMAIN middle : middle[k].name \in S}
  BY DEF Picks
<1>2. PICK q \in [DOMAIN middle -> DOMAIN whole] :
        /\ \A i, j \in DOMAIN middle : i < j => q[i] < q[j]
        /\ \A i \in DOMAIN middle : middle[i] = whole[q[i]]
        /\ {q[i] : i \in DOMAIN middle} = {k \in DOMAIN whole : whole[k].name \in T}
  BY DEF Picks
<1>3. PICK r : r = [i \in DOMAIN part |-> q[p[i]]]
  OBVIOUS
<1>4. r \in [DOMAIN part -> DOMAIN whole] /\ \A i \in DOMAIN part : r[i] = q[p[i]]
  BY <1>1, <1>2, <1>3
<1>5. \A i, j \in DOMAIN part : i < j => r[i] < r[j]
  BY <1>1, <1>2, <1>4
<1>6. \A i \in DOMAIN part : part[i] = whole[r[i]]
  BY <1>1, <1>2, <1>4
<1>7. ASSUME NEW i \in DOMAIN part
      PROVE  r[i] \in DOMAIN whole /\ whole[r[i]].name \in T \cap S
  <2>1. p[i] \in {k \in DOMAIN middle : middle[k].name \in S}
    BY <1>1
  <2>2. q[p[i]] \in {k \in DOMAIN whole : whole[k].name \in T}
    BY <1>2, <2>1
  <2>3. middle[p[i]] = whole[q[p[i]]]
    BY <1>2, <2>1
  <2> QED
    BY <1>4, <2>1, <2>2, <2>3
<1>8. ASSUME NEW k \in DOMAIN whole, whole[k].name \in T \cap S
      PROVE  \E i \in DOMAIN part : r[i] = k
  <2>1. k \in {q[j] : j \in DOMAIN middle}
    BY <1>2, <1>8
  <2>2. PICK j \in DOMAIN middle : q[j] = k
    BY <2>1
  <2>3. middle[j].name \in S
    BY <1>2, <1>8, <2>2
  <2>4. j \in {p[i] : i \in DOMAIN part}
    BY <1>1, <2>3
  <2> QED
    BY <1>4, <2>2, <2>4
<1>9. {r[i] : i \in DOMAIN part} = {k \in DOMAIN whole : whole[k].name \in T \cap S}
  BY <1>7, <1>8
<1> QED
  BY <1>4, <1>5, <1>6, <1>9 DEF Picks

-----------------------------------------------------------------------------
(* find: the first disclosure of a name there is one of.                   *)
LEMMA FirstNamedIs ==
    ASSUME NEW S, NEW ds \in Seq(S), NEW name \in Names(ds)
    PROVE  /\ FirstNamed(ds, name) \in DOMAIN ds
           /\ ds[FirstNamed(ds, name)].name = name
           /\ \A j \in DOMAIN ds : ds[j].name = name => FirstNamed(ds, name) <= j
<1> DEFINE T == {i \in DOMAIN ds : ds[i].name = name}
           P(i) == ds[i].name = name /\ \A j \in 1 .. (i - 1) : ds[j].name # name
<1>1. T # {} /\ T \in SUBSET Nat
  BY DEF Names
<1>2. PICK i \in T : \A j \in T : i <= j
  BY <1>1, Least
<1>3. i \in DOMAIN ds /\ P(i)
  BY <1>2
<1>4. (CHOOSE k \in DOMAIN ds : P(k)) \in DOMAIN ds
      /\ P(CHOOSE k \in DOMAIN ds : P(k))
  BY <1>3
<1>5. PICK f : f = FirstNamed(ds, name)
  OBVIOUS
<1>6. f \in DOMAIN ds /\ P(f)
  BY <1>4, <1>5 DEF FirstNamed
<1>7. ASSUME NEW j \in DOMAIN ds, ds[j].name = name PROVE f <= j
  BY <1>6, <1>7
<1> QED
  BY <1>5, <1>6, <1>7

(* The first disclosure of a name is the same in a part that has the name. *)
LEMMA PickedFirst ==
    ASSUME NEW S, NEW part \in Seq(S), NEW whole \in Seq(S), NEW claims,
           Picks(part, whole, claims), NEW c \in claims \cap Names(part)
    PROVE  part[FirstNamed(part, c)] = whole[FirstNamed(whole, c)]
<1>1. PICK p \in [DOMAIN part -> DOMAIN whole] :
        /\ \A i, j \in DOMAIN part : i < j => p[i] < p[j]
        /\ \A i \in DOMAIN part : part[i] = whole[p[i]]
        /\ {p[i] : i \in DOMAIN part} = {k \in DOMAIN whole : whole[k].name \in claims}
  BY DEF Picks
<1>2. PICK i : i = FirstNamed(part, c)
  OBVIOUS
<1>3. /\ i \in DOMAIN part /\ part[i].name = c
      /\ \A j \in DOMAIN part : part[j].name = c => i <= j
  BY <1>2, FirstNamedIs
<1>4. c \in Names(whole)
  BY <1>1, <1>3 DEF Names
<1>5. PICK k : k = FirstNamed(whole, c)
  OBVIOUS
<1>6. /\ k \in DOMAIN whole /\ whole[k].name = c
      /\ \A j \in DOMAIN whole : whole[j].name = c => k <= j
  BY <1>4, <1>5, FirstNamedIs
<1>7. k \in {p[j] : j \in DOMAIN part}
  BY <1>1, <1>6
<1>8. PICK j \in DOMAIN part : k = p[j]
  BY <1>7
<1>9. i <= j /\ k <= p[i]
  BY <1>1, <1>3, <1>6, <1>8
<1>10. i = j
  BY <1>1, <1>3, <1>8, <1>9
<1> QED
  BY <1>1, <1>2, <1>5, <1>8, <1>10

(* indexOf: the first place of a hash in _sd.                              *)
LEMMA PathIs ==
    ASSUME NEW S, NEW t, t.jwt.sd \in Seq(S), NEW name,
           LET ds == RawDisclosures(t)
           IN  ds[FirstNamed(ds, name)] \in Elements(t.jwt.sd)
    PROVE  /\ Path(t, name).index \in DOMAIN t.jwt.sd
           /\ t.jwt.sd[Path(t, name).index] =
                RawDisclosures(t)[FirstNamed(RawDisclosures(t), name)]
<1>1. PICK sd, hash : sd = t.jwt.sd
                      /\ hash = RawDisclosures(t)[FirstNamed(RawDisclosures(t), name)]
  OBVIOUS
<1> DEFINE T == {i \in DOMAIN sd : sd[i] = hash}
           P(i) == sd[i] = hash /\ \A j \in 1 .. (i - 1) : sd[j] # hash
<1>2. sd \in Seq(S) /\ hash \in Elements(sd)
  BY <1>1
<1>3. T # {} /\ T \in SUBSET Nat
  BY <1>2 DEF Elements
<1>4. PICK i \in T : \A j \in T : i <= j
  BY <1>3, Least
<1>5. i \in DOMAIN sd /\ P(i)
  BY <1>2, <1>4
<1>6. (CHOOSE k \in DOMAIN sd : P(k)) \in DOMAIN sd
      /\ P(CHOOSE k \in DOMAIN sd : P(k))
  BY <1>5
<1>7. Path(t, name).index = CHOOSE k \in DOMAIN sd : P(k)
  BY <1>1 DEF Path
<1> QED
  BY <1>1, <1>6, <1>7

(* A path depends on the JWT and on the first disclosure of the name.      *)
LEMMA SamePath ==
    ASSUME NEW t, NEW u, NEW name, t.jwt = u.jwt,
           RawDisclosures(t)[FirstNamed(RawDisclosures(t), name)] =
                RawDisclosures(u)[FirstNamed(RawDisclosures(u), name)]
    PROVE  Path(t, name) = Path(u, name)
  BY DEF Path

-----------------------------------------------------------------------------
Clear(segments) == \A i \in DOMAIN segments : segments[i] \notin Unreadable

(* decode takes segments that can all be read as they are.                 *)
LEMMA ClearTokens ==
    ASSUME NEW S, NEW t, t.rest \in Seq(S), Clear(t.rest)
    PROVE  RawDisclosures(t) = t.rest /\ Decodes(t)
<1>1. ~ EndsWithSeparator(t)
  <2>1. SUFFICES ASSUME EndsWithSeparator(t) PROVE FALSE
    OBVIOUS
  <2>2. t.rest # <<>> /\ t.rest[Len(t.rest)] = Empty
    BY <2>1 DEF EndsWithSeparator
  <2>3. Len(t.rest) \in DOMAIN t.rest
    BY <2>2
  <2> QED
    BY <2>2, <2>3 DEF Clear, Unreadable
<1>2. RawDisclosures(t) = t.rest
  BY <1>1 DEF RawDisclosures
<1> QED
  BY <1>2 DEF Clear, Decodes, DecodeDisclosure

(* A disclose that does not throw: every segment can be read, every claim  *)
(* has a disclosure and its hash is in _sd.                                *)
LEMMA Disclosed ==
    ASSUME NEW S, NEW t, t.rest \in Seq(S), NEW claims,
           NEW r, r = Disclose(t, claims), r.error = "none"
    PROVE  /\ Clear(t.rest) /\ RawDisclosures(t) = t.rest
           /\ claims \subseteq Names(t.rest)
           /\ \A c \in claims : t.rest[FirstNamed(t.rest, c)] \in Elements(t.jwt.sd)
           /\ r.token.jwt = t.jwt
           /\ r.token.rest = FilteredDisclosures(t.rest, claims)
           /\ "paths" \in DOMAIN r /\ r.paths = [c \in claims |-> Path(t, c)]
<1> DEFINE ds == RawDisclosures(t)
           Throws == \/ ~ Decodes(t)
                     \/ \E c \in claims : ~ (c \in Names(ds))
                     \/ \E c \in claims :
                            ~ (ds[FirstNamed(ds, c)] \in Elements(t.jwt.sd))
                     \/ \E i \in DOMAIN t.rest : ~ DecodeDisclosure(t.rest[i])
           value == [error |-> "none",
                     token |-> [jwt |-> t.jwt,
                                rest |-> FilteredDisclosures(t.rest, claims)],
                     paths |-> [c \in claims |-> Path(t, c)]]
<1>1. Throws => r \in {Error("SyntaxError"), Error("ClaimsNotFoundInToken"),
                       Error("ClaimsNotFoundBetweenDisclosures")}
  BY DEF Disclose
<1>2. ~ Throws
  BY <1>1 DEF Error
<1>3. r = value
  BY <1>2 DEF Disclose
<1>4. Clear(t.rest)
  BY <1>2 DEF Clear, DecodeDisclosure
<1>5. ds = t.rest
  BY <1>4, ClearTokens
<1>6. /\ claims \subseteq Names(t.rest)
      /\ \A c \in claims : t.rest[FirstNamed(t.rest, c)] \in Elements(t.jwt.sd)
  BY <1>2, <1>5
<1>7. /\ value.token.jwt = t.jwt
      /\ value.token.rest = FilteredDisclosures(t.rest, claims)
      /\ "paths" \in DOMAIN value /\ value.paths = [c \in claims |-> Path(t, c)]
  OBVIOUS
<1> QED
  BY <1>3, <1>4, <1>5, <1>6, <1>7

LEMMA NotDisclosed ==
    ASSUME NEW t, NEW claims, NEW r, r = Disclose(t, claims), r.error # "none"
    PROVE  "paths" \notin DOMAIN r
<1>1. r \in {Error("SyntaxError"), Error("ClaimsNotFoundInToken"),
             Error("ClaimsNotFoundBetweenDisclosures")}
  BY DEF Disclose
<1> QED
  BY <1>1 DEF Error

-----------------------------------------------------------------------------
(* The holder.                                                             *)
Segments == Seq(Disclosures \cup Unreadable)

LEMMA IssuedTokens ==
    ASSUME NEW t \in Tokens
    PROVE  /\ t.rest \in Segments
           /\ t.jwt.sd \in Seq(Disclosures)
           /\ t.jwt.sig = IssuerKey
<1>1. PICK sd \in UNION {[1 .. n -> Disclosures] : n \in 0 .. MaxHashes},
           rest \in UNION {[1 .. n -> Disclosures \cup Unreadable] :
                            n \in 0 .. MaxSegments} :
        t = [jwt |-> [sd |-> sd, sig |-> IssuerKey], rest |-> rest]
  BY DEF Tokens
<1>2. PICK n \in 0 .. MaxHashes : sd \in [1 .. n -> Disclosures]
  OBVIOUS
<1>3. PICK m \in 0 .. MaxSegments : rest \in [1 .. m -> Disclosures \cup Unreadable]
  OBVIOUS
<1>4. n \in Nat /\ m \in Nat
  BY HolderAssumption
<1>5. sd \in Seq(Disclosures) /\ rest \in Segments
  BY <1>2, <1>3, <1>4 DEF Segments
<1> QED
  BY <1>1, <1>5

(* The token in hand is the issued one, or a part of it that every step    *)
(* asked for; and then the issued one can be read to its end.              *)
Part ==
    /\ Clear(token.rest) /\ Clear(issued.rest)
    /\ Picks(token.rest, issued.rest, asked)

HolderInv ==
    /\ issued \in Tokens
    /\ token.jwt = issued.jwt /\ token.rest \in Segments
    /\ asked \subseteq Name
    /\ (token = issued /\ asked = Name) \/ Part
    /\ IndexLeadsToClaim

LEMMA HolderInitInv == HolderInit => HolderInv
<1> SUFFICES ASSUME HolderInit PROVE HolderInv
  OBVIOUS
<1>1. "paths" \notin DOMAIN result
  BY DEF HolderInit, Error
<1> QED
  BY <1>1, IssuedTokens DEF HolderInit, HolderInv, IndexLeadsToClaim

LEMMA HolderNextInv == HolderInv /\ [HolderDiscloses]_holderVars => HolderInv'
<1> SUFFICES ASSUME HolderInv, [HolderDiscloses]_holderVars PROVE HolderInv'
  OBVIOUS
<1>1. ASSUME NEW claims \in SUBSET Name, result' = Disclose(token, claims),
             result'.error = "none", token' = result'.token,
             asked' = asked \cap claims, UNCHANGED issued
      PROVE  HolderInv'
  <2>0. token.rest \in Segments /\ issued.rest \in Segments
        /\ token.jwt.sd \in Seq(Disclosures)
    BY IssuedTokens DEF HolderInv
  <2>1. /\ Clear(token.rest) /\ RawDisclosures(token) = token.rest
        /\ claims \subseteq Names(token.rest)
        /\ \A c \in claims :
            token.rest[FirstNamed(token.rest, c)] \in Elements(token.jwt.sd)
        /\ token'.jwt = token.jwt
        /\ token'.rest = FilteredDisclosures(token.rest, claims)
        /\ result'.paths = [c \in claims |-> Path(token, c)]
    <3>1. PICK r : r = Disclose(token, claims)
      OBVIOUS
    <3>2. r.error = "none" /\ result' = r /\ token' = r.token
      BY <1>1, <3>1
    <3>3. /\ Clear(token.rest) /\ RawDisclosures(token) = token.rest
          /\ claims \subseteq Names(token.rest)
          /\ \A c \in claims :
                token.rest[FirstNamed(token.rest, c)] \in Elements(token.jwt.sd)
          /\ r.token.jwt = token.jwt
          /\ r.token.rest = FilteredDisclosures(token.rest, claims)
          /\ r.paths = [c \in claims |-> Path(token, c)]
      BY <2>0, <3>1, <3>2, Disclosed DEF Segments
    <3> QED
      BY <3>2, <3>3
  <2>2. token'.rest \in Segments /\ Picks(token'.rest, token.rest, claims)
    BY <2>0, <2>1, FilterPicks DEF Segments
  <2>3. Clear(token'.rest)
    BY <2>1, <2>2, PickedElements DEF Clear
  <2>4. Clear(issued.rest) /\ Picks(token'.rest, issued.rest, asked')
    <3>1. CASE token = issued /\ asked = Name
      <4>1. asked' = claims
        BY <1>1, <3>1
      <4> QED
        BY <2>1, <2>2, <3>1, <4>1
    <3>2. CASE Part
      <4>1. DOMAIN token.rest \subseteq Nat /\ DOMAIN token'.rest \subseteq Nat
        BY <2>0, <2>2 DEF Segments
      <4>2. Picks(token.rest, issued.rest, asked) /\ Clear(issued.rest)
        BY <3>2 DEF Part
      <4>3. Picks(token'.rest, issued.rest, asked \cap claims)
        BY <2>2, <4>1, <4>2, PicksTwice
      <4> QED
        BY <1>1, <4>2, <4>3
    <3> QED
      BY <3>1, <3>2 DEF HolderInv
  <2>5. Part'
    BY <1>1, <2>3, <2>4 DEF Part
  <2>6. ASSUME NEW c \in claims
        PROVE  /\ result'.paths[c].index \in DOMAIN token'.jwt.sd
               /\ token'.jwt.sd[result'.paths[c].index].name = c
               /\ token'.jwt.sd[result'.paths[c].index] \in Elements(token'.rest)
               /\ result'.paths[c].index = Path(issued', c).index
    <3>1. PICK d : d = token.rest[FirstNamed(token.rest, c)]
      OBVIOUS
    <3>2. FirstNamed(token.rest, c) \in DOMAIN token.rest /\ d.name = c
      BY <2>0, <2>1, <3>1, FirstNamedIs DEF Segments
    <3>3. d \in Elements(token'.rest)
      BY <2>2, <3>1, <3>2, PickedElements DEF Elements
    <3>4. /\ Path(token, c).index \in DOMAIN token.jwt.sd
          /\ token.jwt.sd[Path(token, c).index] = d
      BY <2>0, <2>1, <3>1, PathIs
    <3>5. Path(token, c) = Path(issued, c)
      <4>1. CASE token = issued
        BY <4>1
      <4>2. CASE Part
        <5>1. RawDisclosures(issued) = issued.rest
          BY <2>0, <4>2, ClearTokens DEF Part, Segments
        <5>2. c \in Names(token.rest) /\ c \in asked
          <6>1. PICK place \in [DOMAIN token.rest -> DOMAIN issued.rest] :
                    /\ \A i \in DOMAIN token.rest :
                            token.rest[i] = issued.rest[place[i]]
                    /\ {place[i] : i \in DOMAIN token.rest} =
                        {k \in DOMAIN issued.rest : issued.rest[k].name \in asked}
            BY <4>2 DEF Part, Picks
          <6>2. PICK i \in DOMAIN token.rest : token.rest[i].name = c
            BY <3>1, <3>2
          <6>3. place[i] \in {k \in DOMAIN issued.rest : issued.rest[k].name \in asked}
            BY <6>1
          <6> QED
            BY <6>1, <6>2, <6>3 DEF Names
        <5>3. token.rest[FirstNamed(token.rest, c)] =
                issued.rest[FirstNamed(issued.rest, c)]
          BY <2>0, <4>2, <5>2, PickedFirst DEF Part, Segments
        <5> QED
          BY <2>1, <5>1, <5>3, SamePath DEF HolderInv
      <4> QED
        BY <4>1, <4>2 DEF HolderInv
    <3> QED
      BY <1>1, <2>1, <3>2, <3>3, <3>4, <3>5
  <2>7. IndexLeadsToClaim'
    <3>1. DOMAIN result'.paths = claims
      BY <2>1
    <3> QED
      BY <2>6, <3>1 DEF IndexLeadsToClaim
  <2> QED
    BY <1>1, <2>1, <2>2, <2>5, <2>7 DEF HolderInv
<1>2. ASSUME NEW claims \in SUBSET Name, result' = Disclose(token, claims),
             result'.error # "none", UNCHANGED <<issued, token, asked>>
      PROVE  HolderInv'
  <2>1. "paths" \notin DOMAIN result'
    BY <1>2, NotDisclosed
  <2> QED
    BY <1>2, <2>1 DEF HolderInv, IndexLeadsToClaim, Part
<1>3. CASE UNCHANGED holderVars
  BY <1>3 DEF holderVars, HolderInv, IndexLeadsToClaim, Part
<1> QED
  BY <1>1, <1>2, <1>3 DEF HolderDiscloses

(* The last disclosure of a name there is one of.                          *)
LEMMA LastNamedIs ==
    ASSUME NEW S, NEW ds \in Seq(S), NEW name \in Names(ds)
    PROVE  LET i == CHOOSE i \in DOMAIN ds :
                    /\ ds[i].name = name
                    /\ \A j \in (i + 1) .. Len(ds) : ds[j].name # name
           IN  i \in DOMAIN ds /\ ds[i].name = name
<1> DEFINE T == {Len(ds) - i : i \in {i \in DOMAIN ds : ds[i].name = name}}
           P(i) == /\ ds[i].name = name
                   /\ \A j \in (i + 1) .. Len(ds) : ds[j].name # name
<1>1. T # {} /\ T \in SUBSET Nat
  BY DEF Names
<1>2. PICK x \in T : \A y \in T : x <= y
  BY <1>1, Least
<1>3. PICK i \in DOMAIN ds : ds[i].name = name /\ x = Len(ds) - i
  OBVIOUS
<1>4. ASSUME NEW j \in (i + 1) .. Len(ds) PROVE ds[j].name # name
  <2>1. SUFFICES ASSUME ds[j].name = name PROVE FALSE
    OBVIOUS
  <2>2. j \in DOMAIN ds /\ Len(ds) \in Nat /\ i \in Nat /\ j \in Nat /\ i < j
    OBVIOUS
  <2>3. Len(ds) - j \in T
    BY <2>1, <2>2
  <2>4. Len(ds) - i <= Len(ds) - j
    BY <1>2, <1>3, <2>3
  <2> QED
    BY <2>2, <2>4
<1>5. i \in DOMAIN ds /\ P(i)
  BY <1>3, <1>4
<1>6. (CHOOSE k \in DOMAIN ds : P(k)) \in DOMAIN ds
      /\ P(CHOOSE k \in DOMAIN ds : P(k))
  BY <1>5
<1> QED
  BY <1>6

(* What ParsedIsDisclosed says of one result.                              *)
ParsedOf(subject, ds, ignore, include, p) ==
    IF p.error # "none"
    THEN \/ subject = Undefined
         \/ subject.format # HeaderTyp
         \/ subject.claims = Undefined
         \/ ~ ignore /\ ~ (subject.claims \subseteq Names(ds))
    ELSE /\ subject # Undefined
         /\ subject.format = HeaderTyp
         /\ subject.claims # Undefined
         /\ subject.claims \subseteq DOMAIN p.attributes
         /\ include => Names(ds) \subseteq DOMAIN p.attributes
         /\ \A a \in DOMAIN p.attributes :
                IF a \in Names(ds)
                THEN \E d \in Elements(ds) : d.name = a /\ d.value = p.attributes[a]
                ELSE ignore /\ p.attributes[a] = Undefined

(* parseCredentialSdJwt, for any configuration, disclosures and options.   *)
LEMMA Parsed ==
    ASSUME NEW S, NEW ds \in Seq(S), NEW subject, NEW ignore \in BOOLEAN,
           NEW include \in BOOLEAN
    PROVE  ParsedOf(subject, ds, ignore, include,
                    ParseCredential(subject, ds, ignore, include))
<1> PICK p : p = ParseCredential(subject, ds, ignore, include)
  OBVIOUS
<1> SUFFICES ParsedOf(subject, ds, ignore, include, p)
  OBVIOUS
<1> PICK claims : claims = subject.claims
  OBVIOUS
<1> DEFINE last(a) == CHOOSE i \in DOMAIN ds :
                        /\ ds[i].name = a
                        /\ \A j \in (i + 1) .. Len(ds) : ds[j].name # a
           First(a) == IF a \in Names(ds) THEN ds[FirstNamed(ds, a)].value
                       ELSE Undefined
           others == IF include THEN Names(ds) \ claims ELSE {}
           attributes == [a \in claims \cup others |->
                            IF a \in claims THEN First(a) ELSE ds[last(a)].value]
           Fails == \/ subject = Undefined
                    \/ subject.format # HeaderTyp
                    \/ claims = Undefined
                    \/ ~ ignore /\ ~ (claims \subseteq Names(ds))
<1>1. CASE Fails
  <2>1. p = Error("IoWalletError")
    BY <1>1 DEF ParseCredential
  <2> QED
    BY <1>1, <2>1 DEF Error, ParsedOf
<1>2. CASE ~ Fails
  <2>1. p = [error |-> "none", attributes |-> attributes]
    BY <1>2 DEF ParseCredential
  <2>2. p.error = "none" /\ p.attributes = attributes
    BY <2>1
  <2>3. DOMAIN attributes = claims \cup others
    OBVIOUS
  <2>4. ASSUME NEW a \in claims \cup others
        PROVE  IF a \in Names(ds)
               THEN \E d \in Elements(ds) : d.name = a /\ d.value = attributes[a]
               ELSE ignore /\ attributes[a] = Undefined
    <3>1. CASE a \in claims /\ a \in Names(ds)
      <4>1. /\ FirstNamed(ds, a) \in DOMAIN ds /\ ds[FirstNamed(ds, a)].name = a
            /\ attributes[a] = ds[FirstNamed(ds, a)].value
        BY <3>1, FirstNamedIs
      <4> QED
        BY <3>1, <4>1 DEF Elements
    <3>2. CASE a \notin claims
      <4>1. a \in Names(ds)
        BY <3>2
      <4>2. last(a) \in DOMAIN ds /\ ds[last(a)].name = a
        BY <4>1, LastNamedIs
      <4>3. attributes[a] = ds[last(a)].value
        BY <3>2
      <4> HIDE DEF last, attributes
      <4> QED
        BY <4>1, <4>2, <4>3 DEF Elements
    <3>3. CASE a \in claims /\ a \notin Names(ds)
      BY <1>2, <3>3
    <3> QED
      BY <3>1, <3>2, <3>3
  <2> HIDE DEF attributes
  <2> QED
    BY <1>2, <2>2, <2>3, <2>4 DEF ParsedOf
<1> QED
  BY <1>1, <1>2

(* disclose and parseCredentialSdJwt, for any token an issuer may make and *)
(* any sequence of disclosures: what is left reveals what every step asked *)
(* for and nothing else, in its order, still verifies, keeps the index of  *)
(* every claim in _sd, and parses to what it discloses.                    *)
THEOREM Holding ==
    HolderSpec => [](/\ StillVerifies /\ RevealsExactly /\ IndexLeadsToClaim
                     /\ ParsedIsDisclosed)
<1>1. HolderInv => RevealsExactly
  <2> SUFFICES ASSUME HolderInv, token # issued
               PROVE  Picks(token.rest, Given(issued), asked)
    BY DEF RevealsExactly
  <2>1. Part
    BY DEF HolderInv
  <2>2. RawDisclosures(issued) = issued.rest
    BY <2>1, IssuedTokens, ClearTokens DEF HolderInv, Segments, Part
  <2> QED
    BY <2>1, <2>2 DEF Part, Given
<1>2. HolderInv => StillVerifies
  <2> SUFFICES ASSUME HolderInv, Part, Verify(issued, {IssuerKey})
               PROVE  Verify(token, {IssuerKey})
    BY DEF HolderInv, StillVerifies
  <2>1. RawDisclosures(issued) = issued.rest
    BY IssuedTokens, ClearTokens DEF HolderInv, Segments, Part
  <2>2. RawDisclosures(token) = token.rest /\ Decodes(token)
    BY ClearTokens DEF HolderInv, Segments, Part
  <2>3. Elements(token.rest) \subseteq Elements(issued.rest)
    BY PickedElements DEF Part, Elements
  <2> QED
    BY <2>1, <2>2, <2>3 DEF HolderInv, Verify
<1>3. HolderInv => ParsedIsDisclosed
  <2> SUFFICES ASSUME HolderInv PROVE ParsedIsDisclosed
    OBVIOUS
  <2>1. Given(issued) \in Segments
    BY IssuedTokens DEF HolderInv, Given, RawDisclosures, Segments
  <2>2. Given(issued) \in Seq(Disclosures \cup Unreadable)
    BY <2>1 DEF Segments
  <2>3. ASSUME NEW subject \in Subjects, NEW ignore \in BOOLEAN,
               NEW include \in BOOLEAN
        PROVE  ParsedOf(subject, Given(issued), ignore, include,
                        ParseCredential(subject, Given(issued), ignore, include))
    BY <2>2, Parsed
  <2> QED
    BY <2>3, Zenon DEF ParsedIsDisclosed, ParsedOf
<1>4. HolderInv => IndexLeadsToClaim
  BY DEF HolderInv
<1> QED
  BY <1>1, <1>2, <1>3, <1>4, HolderInitInv, HolderNextInv, PTL DEF HolderSpec

-----------------------------------------------------------------------------
(* The presentation flows.                                                 *)
WithConf == {"trusted", "header", "asking", "answered"} \cup Answering
WithRequest == {"answered"} \cup Answering

(* What a flow has at each step: where it was sent, the configuration of   *)
(* its client as of some generation, a request object, and one whose       *)
(* signature was checked.                                                  *)
Has(f) ==
    /\ fl[f].at \in {"scanned"} \cup WithConf => fl[f].client \in RP /\ fl[f].uri \in RP
    /\ fl[f].at \in WithConf =>
        \E g \in 1 .. MaxGen : fl[f].conf = Configuration(fl[f].client, g)
    /\ fl[f].at \in WithRequest => fl[f].req \in DOMAIN requests
    /\ fl[f].at \in Answering => requests[fl[f].req].sig = fl[f].conf.sig

Inv ==
    /\ TypeOK
    /\ \A n \in DOMAIN requests : requests[n].sig[1] = requests[n].rp
    /\ \A f \in Flow : Has(f)

-----------------------------------------------------------------------------
(* The records a flow goes through.                                        *)
LEMMA Ended ==
    ASSUME NEW r \in FlowState, NEW why \in Why
    PROVE  [r EXCEPT !.at = "failed", !.why = why] \in FlowState
  BY DEF FlowState

LEMMA Scanned ==
    ASSUME NEW r \in FlowState, NEW c \in RP, NEW u \in RP, NEW k \in 0 .. MaxWia
    PROVE  [r EXCEPT !.at = "scanned", !.client = c, !.uri = u, !.attested = k]
            \in FlowState
  BY DEF FlowState

LEMMA Trusted ==
    ASSUME NEW r \in FlowState, NEW c \in RpConf
    PROVE  [r EXCEPT !.at = "trusted", !.conf = c] \in FlowState
  BY DEF FlowState

LEMMA Header ==
    ASSUME NEW r \in FlowState, NEW k \in 0 .. MaxWia
    PROVE  /\ [r EXCEPT !.at = "header", !.head = k] \in FlowState
           /\ [r EXCEPT !.at = "asking", !.sig = k] \in FlowState
  BY DEF FlowState

LEMMA Answered ==
    ASSUME NEW r \in FlowState, NEW n \in Nat
    PROVE  [r EXCEPT !.at = "answered", !.req = n] \in FlowState
  BY DEF FlowState

LEMMA AtConsent ==
    ASSUME NEW r \in FlowState
    PROVE  /\ [r EXCEPT !.at = "consent"] \in FlowState
           /\ [r EXCEPT !.at = "done"] \in FlowState
  BY DEF FlowState, Answering

LEMMA Prepared ==
    ASSUME NEW r \in FlowState, NEW vc \in Vc, NEW c \in SUBSET Claim,
           NEW vp \in VpToken
    PROVE  [r EXCEPT !.at = "sending", !.vc = vc, !.claims = c, !.vp = vp]
            \in FlowState
  BY DEF FlowState, Answering

(* A flow that ends keeps what the others have.                            *)
LEMMA Ending ==
    ASSUME Inv, NEW f \in Flow, NEW why \in Why \ {"none"}, Ends(f, why),
           UNCHANGED <<gen, requests, device>>
    PROVE  Inv'
<1>0. UNCHANGED <<wiaKey, present>>
  BY DEF device
<1>1. fl' \in [Flow -> FlowState]
  <2>1. [fl[f] EXCEPT !.at = "failed", !.why = why] \in FlowState
    BY Ended DEF Inv, TypeOK
  <2> QED
    BY <2>1 DEF Inv, TypeOK, Ends
<1>2. FlowState' = FlowState
  BY DEF FlowState, VpToken
<1>3. TypeOK'
  BY <1>0, <1>1, <1>2 DEF Inv, TypeOK, FlowState, Ends
<1>4. ASSUME NEW g \in Flow PROVE Has(g)'
  <2>1. CASE g = f
    <3>1. fl'[f].at = "failed"
      BY DEF Inv, TypeOK, FlowState, Ends
    <3> QED
      BY <2>1, <3>1 DEF Has, WithConf, WithRequest, Answering
  <2>2. CASE g # f
    <3>1. fl'[g] = fl[g]
      BY <2>2 DEF Inv, TypeOK, Ends
    <3>2. Has(g)
      BY DEF Inv
    <3> QED
      BY <3>1, <3>2 DEF Has
  <2> QED
    BY <2>1, <2>2
<1> QED
  BY <1>3, <1>4 DEF Inv

LEMMA DiscloseErrors ==
    ASSUME NEW t, NEW claims
    PROVE  Disclose(t, claims).error \in Why
  BY DEF Disclose, Error, Why

LEMMA InitInv == Init => Inv
<1> SUFFICES ASSUME Init PROVE Inv
  OBVIOUS
<1>1. NoFlow \in FlowState
  BY PresentationAssumption DEF NoFlow, FlowState, Why
<1>2. TypeOK
  BY <1>1, PresentationAssumption DEF Init, TypeOK, NoFlow
<1> QED
  BY <1>2 DEF Init, Inv, Has, NoFlow, WithConf, WithRequest, Answering

(* A request object more leaves the tokens made so far what they are.      *)
LEMMA MoreRequests ==
    ASSUME Inv, NEW r \in [rp : RP, sig : RP \X (1 .. MaxGen)],
           requests' = Append(requests, r)
    PROVE  /\ requests' \in Seq([rp : RP, sig : RP \X (1 .. MaxGen)])
           /\ DOMAIN requests' = DOMAIN requests \cup {Len(requests) + 1}
           /\ \A n \in DOMAIN requests : requests'[n] = requests[n]
           /\ requests'[Len(requests) + 1] = r
           /\ Len(requests) + 1 \in Nat
           /\ FlowState \subseteq FlowState'
<1>1. requests \in Seq([rp : RP, sig : RP \X (1 .. MaxGen)])
  BY DEF Inv, TypeOK
<1>2. DOMAIN requests \subseteq DOMAIN requests'
  BY <1>1
<1>3. VpToken \subseteq VpToken'
  <2> SUFFICES ASSUME NEW v \in VpToken PROVE v \in VpToken'
    OBVIOUS
  <2>1. PICK p \in Disclosable, n \in DOMAIN requests :
            v = PrepareVpToken(p[1], p[2], n)
    BY DEF VpToken
  <2>2. p \in Disclosable' /\ n \in DOMAIN requests'
    BY <1>2 DEF Disclosable
  <2> QED
    BY <2>1, <2>2 DEF VpToken
<1>4. FlowState \subseteq FlowState'
  BY <1>3 DEF FlowState
<1> QED
  BY <1>1, <1>4

(* A flow has what it needs, and the others did not move.                  *)
LEMMA HasOthers ==
    ASSUME Inv, NEW f \in Flow, UNCHANGED requests, Has(f)',
           \A g \in Flow \ {f} : fl'[g] = fl[g]
    PROVE  \A g \in Flow : Has(g)'
<1>1. ASSUME NEW g \in Flow \ {f} PROVE Has(g)'
  <2>1. Has(g) /\ fl'[g] = fl[g]
    BY DEF Inv
  <2> QED
    BY <2>1 DEF Has
<1> QED
  BY <1>1

LEMMA NextInv == Inv /\ [Next]_vars => Inv'
<1> SUFFICES ASSUME Inv, [Next]_vars PROVE Inv'
  OBVIOUS
<1> USE DEF At, device
<1> DEFINE Rest == UNCHANGED <<gen, requests, device>>
<1>0. fl \in [Flow -> FlowState] /\ \A f \in Flow : fl[f] \in FlowState
  BY DEF Inv, TypeOK
<1>1. ASSUME NEW f \in Flow, StartFlowFromQR(f) PROVE Inv'
  <2>1. CASE Ends(f, "AuthRequestDecodeError")
    BY <1>1, <2>1, Ending DEF StartFlowFromQR, Why
  <2>2. ASSUME NEW c \in RP, NEW u \in RP,
               NEW k \in 1 .. wiaKey,
               fl' = [fl EXCEPT ![f].at = "scanned", ![f].client = c,
                                ![f].uri = u, ![f].attested = k]
        PROVE  Inv'
    <3>0. k \in 0 .. MaxWia
      BY PresentationAssumption DEF Inv, TypeOK
    <3>1. k \in 0 .. MaxWia /\ Rest
      BY <1>1, <3>0 DEF StartFlowFromQR
    <3>2. fl' \in [Flow -> FlowState]
      BY <1>0, <2>2, <3>1, Scanned
    <3>3. FlowState' = FlowState
      BY <3>1 DEF FlowState, VpToken
    <3>4. fl[f].why = "none" /\ fl'[f].why = "none" /\ fl'[f].at = "scanned"
      BY <1>0, <1>1, <2>2 DEF StartFlowFromQR, Inv, TypeOK, FlowState
    <3>5. TypeOK'
      BY <1>0, <2>2, <3>1, <3>2, <3>3, <3>4 DEF Inv, TypeOK
    <3>6. fl'[f].client = c /\ fl'[f].uri = u /\ \A g \in Flow \ {f} : fl'[g] = fl[g]
      BY <1>0, <2>2 DEF FlowState
    <3>7. Has(f)'
      BY <3>4, <3>6 DEF Has, WithConf, WithRequest, Answering
    <3>8. \A g \in Flow : Has(g)'
      BY <3>1, <3>6, <3>7, HasOthers
    <3> QED
      BY <3>1, <3>5, <3>8 DEF Inv
  <2> QED
    BY <1>1, <2>1, <2>2 DEF StartFlowFromQR
<1>2. ASSUME NEW f \in Flow, EvaluateRelyingPartyTrust(f) PROVE Inv'
  <2>1. CASE Ends(f, "network")
    BY <1>2, <2>1, Ending DEF EvaluateRelyingPartyTrust, Why
  <2>2. CASE ~ Ends(f, "network")
    <3> DEFINE c == fl[f].client
    <3>1. /\ Rest
          /\ fl[f].at = "scanned" /\ c \in RP /\ gen[c] \in 1 .. MaxGen
          /\ fl' = [fl EXCEPT ![f].at = "trusted",
                              ![f].conf = Configuration(c, gen[c])]
      BY <1>2, <2>2 DEF EvaluateRelyingPartyTrust, Inv, TypeOK, Has
    <3>2. Configuration(c, gen[c]) \in RpConf
      BY <3>1 DEF RpConf
    <3>3. fl' \in [Flow -> FlowState]
      BY <1>0, <3>1, <3>2, Trusted
    <3>4. FlowState' = FlowState
      BY <3>1 DEF FlowState, VpToken
    <3>5. fl'[f].why = "none" /\ fl'[f].at = "trusted" /\ fl'[f].client = c
            /\ fl'[f].uri = fl[f].uri /\ fl'[f].conf = Configuration(c, gen[c])
      BY <1>0, <3>1 DEF Inv, TypeOK, FlowState
    <3>6. TypeOK'
      BY <1>0, <3>1, <3>3, <3>4, <3>5 DEF Inv, TypeOK
    <3>7. Has(f)'
      BY <3>1, <3>5 DEF Inv, Has, WithConf, WithRequest, Answering
    <3>8. \A g \in Flow : Has(g)'
      BY <1>0, <3>1, <3>7, HasOthers
    <3> QED
      BY <3>1, <3>6, <3>8 DEF Inv
  <2> QED
    BY <2>1, <2>2
<1>3. ASSUME NEW f \in Flow, CreateDPopHeader(f) \/ CreateDPopSign(f) PROVE Inv'
  <2>0. wiaKey \in 0 .. MaxWia
    BY PresentationAssumption DEF Inv, TypeOK
  <2>1. Rest
    BY <1>3 DEF CreateDPopHeader, CreateDPopSign
  <2>2. CASE Ends(f, "KeyNotFound")
    BY <2>1, <2>2, Ending DEF Why
  <2>3. ASSUME \/ /\ At(f, "trusted")
                  /\ fl' = [fl EXCEPT ![f].at = "header", ![f].head = wiaKey]
               \/ /\ At(f, "header")
                  /\ fl' = [fl EXCEPT ![f].at = "asking", ![f].sig = wiaKey]
        PROVE  Inv'
    <3>1. /\ [fl[f] EXCEPT !.at = "header", !.head = wiaKey] \in FlowState
          /\ [fl[f] EXCEPT !.at = "asking", !.sig = wiaKey] \in FlowState
      BY <1>0, <2>0, Header
    <3>2. fl' \in [Flow -> FlowState]
      BY <1>0, <2>3, <3>1
    <3>3. FlowState' = FlowState
      BY <2>1 DEF FlowState, VpToken
    <3>4. /\ fl[f].at \in {"trusted", "header"} /\ fl'[f].at \in {"header", "asking"}
          /\ fl'[f].why = fl[f].why /\ fl'[f].client = fl[f].client
          /\ fl'[f].uri = fl[f].uri /\ fl'[f].conf = fl[f].conf
          /\ \A g \in Flow \ {f} : fl'[g] = fl[g]
      BY <1>0, <2>3 DEF FlowState
    <3>5. TypeOK'
      BY <2>1, <3>2, <3>3, <3>4 DEF Inv, TypeOK
    <3>6. Has(f)'
      BY <2>1, <3>4 DEF Inv, Has, WithConf, WithRequest, Answering
    <3>7. \A g \in Flow : Has(g)'
      BY <2>1, <3>4, <3>6, HasOthers
    <3> QED
      BY <2>1, <3>5, <3>7 DEF Inv
  <2> QED
    BY <1>3, <2>2, <2>3 DEF CreateDPopHeader, CreateDPopSign
<1>4. ASSUME NEW f \in Flow, FetchRequestObject(f) PROVE Inv'
  <2>0. UNCHANGED <<gen, device>> /\ fl[f].at = "asking" /\ fl[f].uri \in RP
        /\ gen[fl[f].uri] \in 1 .. MaxGen /\ fl[f].why = "none"
    BY <1>4 DEF FetchRequestObject, Inv, TypeOK, Has, WithConf
  <2>1. ASSUME NEW why \in Why \ {"none"}, Ends(f, why), UNCHANGED requests
        PROVE  Inv'
    BY <2>0, <2>1, Ending
  <2>2. ASSUME NEW n \in Nat, n \in DOMAIN requests',
               fl' = [fl EXCEPT ![f].at = "answered", ![f].req = n],
               requests' \in Seq([rp : RP, sig : RP \X (1 .. MaxGen)]),
               DOMAIN requests \subseteq DOMAIN requests',
               \A k \in DOMAIN requests : requests'[k] = requests[k],
               \A k \in DOMAIN requests' : requests'[k].sig[1] = requests'[k].rp,
               FlowState \subseteq FlowState'
        PROVE  Inv'
    <3>1. fl' \in [Flow -> FlowState]
      BY <1>0, <2>2, Answered
    <3>2. fl' \in [Flow -> FlowState']
      BY <3>1, <2>2
    <3>3. /\ fl'[f].at = "answered" /\ fl'[f].why = "none" /\ fl'[f].req = n
          /\ fl'[f].client = fl[f].client
          /\ fl'[f].uri = fl[f].uri /\ fl'[f].conf = fl[f].conf
          /\ \A g \in Flow \ {f} : fl'[g] = fl[g]
      BY <1>0, <2>0, <2>2 DEF FlowState
    <3>4. TypeOK'
      BY <2>0, <2>2, <3>2, <3>3 DEF Inv, TypeOK
    <3>5. Has(f)'
      BY <2>0, <2>2, <3>3 DEF Inv, Has, WithConf, WithRequest, Answering
    <3>6. ASSUME NEW g \in Flow \ {f} PROVE Has(g)'
      <4>1. Has(g) /\ fl'[g] = fl[g]
        BY <3>3 DEF Inv
      <4> QED
        BY <4>1, <2>2 DEF Has, WithRequest
    <3> QED
      BY <2>2, <3>4, <3>5, <3>6 DEF Inv
  <2>3. ASSUME NEW n \in DOMAIN requests, UNCHANGED requests,
               fl' = [fl EXCEPT ![f].at = "answered", ![f].req = n]
        PROVE  Inv'
    <3>1. n \in Nat /\ requests \in Seq([rp : RP, sig : RP \X (1 .. MaxGen)])
      BY DEF Inv, TypeOK
    <3>2. FlowState' = FlowState
      BY <2>3 DEF FlowState, VpToken
    <3> QED
      BY <2>2, <2>3, <3>1, <3>2 DEF Inv
  <2>4. ASSUME requests' = Append(requests,
                    [rp |-> fl[f].uri, sig |-> <<fl[f].uri, gen[fl[f].uri]>>]),
               fl' = [fl EXCEPT ![f].at = "answered", ![f].req = Len(requests) + 1]
        PROVE  Inv'
    <3> PICK r : r = [rp |-> fl[f].uri, sig |-> <<fl[f].uri, gen[fl[f].uri]>>]
      OBVIOUS
    <3>1. r \in [rp : RP, sig : RP \X (1 .. MaxGen)] /\ r.sig[1] = r.rp
      BY <2>0
    <3>2. requests' = Append(requests, r)
      BY <2>4
    <3>3. \A k \in DOMAIN requests' : requests'[k].sig[1] = requests'[k].rp
      BY <3>1, <3>2, MoreRequests DEF Inv
    <3>4. DOMAIN requests \subseteq DOMAIN requests'
            /\ Len(requests) + 1 \in DOMAIN requests'
      BY <3>1, <3>2, MoreRequests
    <3> QED
      BY <2>2, <2>4, <3>1, <3>2, <3>3, <3>4, MoreRequests
  <2> QED
    BY <1>4, <2>1, <2>3, <2>4 DEF FetchRequestObject, Why
<1>5. ASSUME NEW f \in Flow, VerifyRequestObject(f) PROVE Inv'
  <2>1. CASE requests[fl[f].req].sig # fl[f].conf.sig
    BY <1>5, <2>1, Ending DEF VerifyRequestObject, Why
  <2>2. CASE requests[fl[f].req].sig = fl[f].conf.sig
    <3>1. Rest /\ fl[f].at = "answered" /\ fl' = [fl EXCEPT ![f].at = "consent"]
      BY <1>5, <2>2 DEF VerifyRequestObject
    <3>2. fl' \in [Flow -> FlowState]
      BY <1>0, <3>1, AtConsent
    <3>3. FlowState' = FlowState
      BY <3>1 DEF FlowState, VpToken
    <3>4. TypeOK'
      BY <1>0, <3>1, <3>2, <3>3 DEF Inv, TypeOK, FlowState
    <3>5. /\ fl'[f].at = "consent" /\ fl'[f].req = fl[f].req
          /\ fl'[f].client = fl[f].client
          /\ fl'[f].uri = fl[f].uri /\ fl'[f].conf = fl[f].conf
          /\ \A g \in Flow \ {f} : fl'[g] = fl[g]
      BY <1>0, <3>1 DEF FlowState
    <3>6. Has(f)'
      BY <2>2, <3>1, <3>5 DEF Inv, Has, WithConf, WithRequest, Answering
    <3>7. \A g \in Flow : Has(g)'
      BY <3>1, <3>5, <3>6, HasOthers
    <3> QED
      BY <3>1, <3>4, <3>7 DEF Inv
  <2> QED
    BY <2>1, <2>2
<1>6. ASSUME NEW f \in Flow, PrepareResponse(f) PROVE Inv'
  <2>0. Rest /\ fl[f].at = "consent" /\ fl[f].why = "none"
        /\ fl[f].req \in DOMAIN requests
    BY <1>6 DEF PrepareResponse, Inv, TypeOK, Has, WithRequest, Answering
  <2>1. ASSUME NEW why \in Why \ {"none"}, Ends(f, why) PROVE Inv'
    BY <2>0, <2>1, Ending
  <2>2. PICK vc \in Vc, claims \in SUBSET Claim :
          LET error == Disclose(vc.token, claims).error
          IN  IF fl[f].conf.enc = None
              THEN Ends(f, "NoSuitableKeysFoundInEntityConfiguration")
              ELSE IF error # "none" THEN Ends(f, error)
              ELSE fl' = [fl EXCEPT ![f].at = "sending", ![f].vc = vc,
                          ![f].claims = claims,
                          ![f].vp = PrepareVpToken(vc, claims, fl[f].req)]
    BY <1>6, Zenon DEF PrepareResponse
  <2>3. Disclose(vc.token, claims).error \in Why
    BY DiscloseErrors
  <2>4. CASE fl' = [fl EXCEPT ![f].at = "sending", ![f].vc = vc,
                    ![f].claims = claims,
                    ![f].vp = PrepareVpToken(vc, claims, fl[f].req)]
             /\ Disclose(vc.token, claims).error = "none"
    <3> PICK vp : vp = PrepareVpToken(vc, claims, fl[f].req)
      OBVIOUS
    <3>1. vp \in VpToken
      <4>1. <<vc, claims>> \in Disclosable
        BY <2>4 DEF Disclosable
      <4>2. vp = PrepareVpToken(<<vc, claims>>[1], <<vc, claims>>[2], fl[f].req)
        OBVIOUS
      <4> QED
        BY <2>0, <4>1, <4>2 DEF VpToken
    <3>2. fl' = [fl EXCEPT ![f].at = "sending", ![f].vc = vc,
                    ![f].claims = claims, ![f].vp = vp]
      BY <2>4
    <3>3. fl' \in [Flow -> FlowState]
      BY <1>0, <3>1, <3>2, Prepared
    <3>4. FlowState' = FlowState
      BY <2>0 DEF FlowState, VpToken
    <3>5. /\ fl'[f].at = "sending" /\ fl'[f].why = "none" /\ fl'[f].req = fl[f].req
          /\ fl'[f].client = fl[f].client
          /\ fl'[f].uri = fl[f].uri /\ fl'[f].conf = fl[f].conf
          /\ \A g \in Flow \ {f} : fl'[g] = fl[g]
      BY <1>0, <2>0, <3>2 DEF FlowState
    <3>6. TypeOK'
      BY <2>0, <3>3, <3>4, <3>5 DEF Inv, TypeOK
    <3>7. Has(f)'
      BY <2>0, <3>5 DEF Inv, Has, WithConf, WithRequest, Answering
    <3>8. \A g \in Flow : Has(g)'
      BY <2>0, <3>5, <3>7, HasOthers
    <3> QED
      BY <2>0, <3>6, <3>8 DEF Inv
  <2>5. "NoSuitableKeysFoundInEntityConfiguration" \in Why \ {"none"}
    BY DEF Why
  <2>6. CASE fl[f].conf.enc = None
    BY <2>1, <2>2, <2>5, <2>6
  <2>7. CASE fl[f].conf.enc # None /\ Disclose(vc.token, claims).error # "none"
    BY <2>1, <2>2, <2>3, <2>7
  <2> QED
    BY <2>2, <2>4, <2>6, <2>7
<1>7. ASSUME NEW f \in Flow, PostResponse(f) PROVE Inv'
  <2>0. Rest /\ fl[f].at = "sending"
    BY <1>7 DEF PostResponse
  <2>1. CASE Ends(f, "network") \/ Ends(f, "UnexpectedStatusCodeError")
    BY <2>0, <2>1, Ending DEF Why
  <2>2. CASE fl' = [fl EXCEPT ![f].at = "done"]
    <3>1. fl' \in [Flow -> FlowState]
      BY <1>0, <2>2, AtConsent
    <3>2. FlowState' = FlowState
      BY <2>0 DEF FlowState, VpToken
    <3>3. TypeOK'
      BY <1>0, <2>0, <2>2, <3>1, <3>2 DEF Inv, TypeOK, FlowState
    <3>4. /\ fl'[f].at = "done" /\ fl'[f].req = fl[f].req
          /\ fl'[f].client = fl[f].client
          /\ fl'[f].uri = fl[f].uri /\ fl'[f].conf = fl[f].conf
          /\ \A g \in Flow \ {f} : fl'[g] = fl[g]
      BY <1>0, <2>2 DEF FlowState
    <3>5. Has(f)'
      BY <2>0, <3>4 DEF Inv, Has, WithConf, WithRequest, Answering
    <3>6. \A g \in Flow : Has(g)'
      BY <2>0, <3>4, <3>5, HasOthers
    <3> QED
      BY <2>0, <3>3, <3>6 DEF Inv
  <2> QED
    BY <1>7, <2>1, <2>2 DEF PostResponse
<1>8. ASSUME UNCHANGED <<fl, requests>>, gen' \in [RP -> 1 .. MaxGen],
             wiaKey' \in 1 .. MaxWia, present' \in BOOLEAN
      PROVE  Inv'
  <2>1. FlowState' = FlowState
    BY <1>8 DEF FlowState, VpToken
  <2> QED
    BY <1>8, <2>1 DEF Inv, TypeOK, Has
<1>9. ASSUME NEW rp \in RP, RotateKeys(rp) PROVE Inv'
  <2>1. gen' \in [RP -> 1 .. MaxGen]
    BY <1>9, PresentationAssumption DEF RotateKeys, Inv, TypeOK
  <2> QED
    BY <1>8, <1>9, <2>1 DEF RotateKeys, Inv, TypeOK
<1>10. CASE WiaDelete \/ WiaGenerate
  <2>1. wiaKey' \in 1 .. MaxWia
    BY <1>10, PresentationAssumption DEF WiaDelete, WiaGenerate, Inv, TypeOK
  <2>2. present' \in BOOLEAN
    BY <1>10, Zenon DEF WiaDelete, WiaGenerate
  <2>3. UNCHANGED <<fl, requests, gen>> /\ gen \in [RP -> 1 .. MaxGen]
    BY <1>10 DEF WiaDelete, WiaGenerate, Inv, TypeOK
  <2> QED
    BY <1>8, <2>1, <2>2, <2>3
<1>11. CASE UNCHANGED vars
  BY <1>8, <1>11 DEF vars, Inv, TypeOK
<1> QED
  BY <1>1, <1>2, <1>3, <1>4, <1>5, <1>6, <1>7, <1>9, <1>10, <1>11 DEF Next, Step, Awaited

(* startFlowFromQR takes the client and the URI of the request from a code *)
(* anyone may print, and sendAuthorizationResponse posts where the request *)
(* says: the signature checked in getRequestObject is enough for a flow to *)
(* answer, with a key of its own to encrypt, only the client it scanned.   *)
THEOREM ScannedClient == Spec => [](TypeOK /\ AnswersScannedClient)
<1>1. Inv => TypeOK /\ AnswersScannedClient
  <2> SUFFICES ASSUME Inv, NEW f \in Flow, fl[f].at \in Answering
               PROVE  /\ requests[fl[f].req].rp = fl[f].client
                      /\ fl[f].conf.enc # None => fl[f].conf.enc[1] = fl[f].client
    BY DEF Inv, AnswersScannedClient
  <2>1. Has(f)
    BY DEF Inv
  <2>2. PICK g \in 1 .. MaxGen : fl[f].conf = Configuration(fl[f].client, g)
    BY <2>1 DEF Has, WithConf
  <2>3. fl[f].conf.sig[1] = fl[f].client
        /\ (fl[f].conf.enc # None => fl[f].conf.enc[1] = fl[f].client)
    BY <2>2 DEF Configuration
  <2> QED
    BY <2>1, <2>3 DEF Inv, Has, WithRequest
<1> QED
  BY <1>1, InitInv, NextInv, PTL DEF Spec

=============================================================================
