------------------------------- MODULE FlowProofs -------------------------------
(* Theorems about SnapshotFlow, for any devices, providers and number of       *)
(* versions.  Several are about folds over lists: SetInduction is what the     *)
(* proofs about them rest on.                                                  *)
EXTENDS SnapshotFlow, FiniteSetTheorems, TLAPS

(***************************************************************************)
(* Induction, by counting: if m were missing, n |-> n + 1 would map the    *)
(* numbers of T below m one to one to those without 0.                     *)
(***************************************************************************)
LEMMA SetInduction ==
  ASSUME NEW T, 0 \in T, \A n \in Nat : n \in T => n + 1 \in T
  PROVE  Nat \subseteq T
<1> SUFFICES ASSUME NEW m \in Nat, m \notin T PROVE FALSE
  OBVIOUS
<1> DEFINE U == T \cap (0 .. m)
           f == [n \in U |-> n + 1]
<1>1. IsFiniteSet(U) /\ 0 \in U
  <2>1. IsFiniteSet(0 .. m) /\ U \in SUBSET (0 .. m)
    BY FS_Interval
  <2>2. IsFiniteSet(U)
    BY <2>1, FS_Subset
  <2> QED
    BY <2>2
<1>2. f \in [U -> U \ {0}]
  OBVIOUS
<1>3. f \in Injection(U, U \ {0})
  BY <1>2 DEF Injection, IsInjective
<1>4. Cardinality(U) \in Nat
  BY <1>1, FS_CardinalityType
<1>5. IsFiniteSet(U \ {0}) /\ Cardinality(U \ {0}) = Cardinality(U) - 1
  BY <1>1, FS_RemoveElement
<1>6. Cardinality(U) <= Cardinality(U \ {0})
  BY <1>3, <1>5, FS_Injection
<1> QED
  BY <1>4, <1>5, <1>6

-------------------------------------------------------------------------------
(* FlattenSeq *)

\* f puts the first n of the sequences in a row.
Flattens(f, seqs, n) ==
  f = [i \in 1 .. n |-> IF i = 1 THEN seqs[i] ELSE f[i - 1] \o seqs[i]]

LEMMA FlatteningExists ==
  ASSUME NEW seqs, NEW n \in Nat
  PROVE  \E f : Flattens(f, seqs, n)
<1> DEFINE T == {m \in Nat : \E f : Flattens(f, seqs, m)}
<1>1. 0 \in T
  <2>1. Flattens(<<>>, seqs, 0)
    BY DEF Flattens
  <2> QED
    BY <2>1
<1>2. ASSUME NEW m \in Nat, m \in T PROVE m + 1 \in T
  <2>1. PICK f : Flattens(f, seqs, m)
    BY <1>2
  <2> DEFINE g == [i \in 1 .. m + 1 |->
                     IF i = m + 1 THEN IF i = 1 THEN seqs[i] ELSE f[i - 1] \o seqs[i]
                                  ELSE f[i]]
  <2>2. \A i \in 1 .. m : f[i] = IF i = 1 THEN seqs[i] ELSE f[i - 1] \o seqs[i]
    BY <2>1 DEF Flattens
  <2>3. \A i \in 1 .. m : g[i] = f[i]
    OBVIOUS
  <2>4. \A i \in 1 .. m + 1 :
          g[i] = IF i = 1 THEN seqs[i] ELSE g[i - 1] \o seqs[i]
    BY <2>2, <2>3
  <2>5. DOMAIN g = 1 .. m + 1 /\ g = [i \in 1 .. m + 1 |-> g[i]]
    OBVIOUS
  <2> HIDE DEF g
  <2>6. Flattens(g, seqs, m + 1)
    BY <2>4, <2>5 DEF Flattens
  <2> QED
    BY <2>6
<1> HIDE DEF T
<1>3. Nat \subseteq T
  BY <1>1, <1>2, SetInduction
<1> QED
  BY <1>3 DEF T

\* Row f: f[n] is the first n of the sequences in one, the last f[n] all of them.
IsRow(f, seqs) ==
  /\ f[1] = seqs[1]
  /\ \A i \in 2 .. Len(seqs) : f[i] = f[i - 1] \o seqs[i]
  /\ FlattenSeq(seqs) = f[Len(seqs)]

LEMMA FlattenUnfolds ==
  ASSUME NEW S, NEW seqs \in Seq(Seq(S)), Len(seqs) # 0
  PROVE  \E f \in [1 .. Len(seqs) -> Seq(S)] : IsRow(f, seqs)
<1>1. Len(seqs) \in Nat
  OBVIOUS
<1> DEFINE f == CHOOSE f : Flattens(f, seqs, Len(seqs))
<1>2. Flattens(f, seqs, Len(seqs))
  <2>1. \E g : Flattens(g, seqs, Len(seqs))
    BY <1>1, FlatteningExists
  <2> QED
    BY <2>1
<1>3. FlattenSeq(seqs) = f[Len(seqs)]
  BY DEF FlattenSeq, Flattens
<1> HIDE DEF f
<1>4. \A i \in 1 .. Len(seqs) :
        f[i] = IF i = 1 THEN seqs[i] ELSE f[i - 1] \o seqs[i]
  BY <1>2 DEF Flattens
<1>5. f[1] = seqs[1] /\ \A i \in 2 .. Len(seqs) : f[i] = f[i - 1] \o seqs[i]
  <2>1. 1 \in 1 .. Len(seqs)
    BY <1>1
  <2>2. f[1] = seqs[1]
    BY <1>4, <2>1
  <2>3. ASSUME NEW i \in 2 .. Len(seqs) PROVE f[i] = f[i - 1] \o seqs[i]
    <3>1. i \in 1 .. Len(seqs) /\ i # 1
      BY <1>1
    <3> QED
      BY <1>4, <3>1
  <2> QED
    BY <2>2, <2>3
<1> DEFINE T == {n \in Nat : n + 1 \in 1 .. Len(seqs) => f[n + 1] \in Seq(S)}
<1>6. 0 \in T
  BY <1>5
<1>7. ASSUME NEW n \in Nat, n \in T PROVE n + 1 \in T
  <2> SUFFICES ASSUME n + 2 \in 1 .. Len(seqs) PROVE f[n + 2] \in Seq(S)
    OBVIOUS
  <2>1. f[n + 1] \in Seq(S)
    BY <1>1, <1>7
  <2> HIDE DEF T
  <2>2. PICK k \in 2 .. Len(seqs) : k = n + 2
    OBVIOUS
  <2>3. k - 1 = n + 1
    BY <2>2
  <2>4. f[k] = f[k - 1] \o seqs[k]
    BY <1>5
  <2>5. seqs[k] \in Seq(S)
    BY <1>1
  <2> QED
    BY <2>1, <2>2, <2>3, <2>4, <2>5
<1> HIDE DEF T
<1>8. Nat \subseteq T
  BY <1>6, <1>7, SetInduction
<1>9. ASSUME NEW i \in 1 .. Len(seqs) PROVE f[i] \in Seq(S)
  <2>1. i - 1 \in T
    BY <1>1, <1>8
  <2> QED
    BY <1>1, <2>1 DEF T
<1>10. f \in [1 .. Len(seqs) -> Seq(S)]
  BY <1>2, <1>9 DEF Flattens
<1> QED
  BY <1>3, <1>5, <1>10 DEF IsRow

LEMMA FlattenType ==
  ASSUME NEW S, NEW seqs \in Seq(Seq(S))
  PROVE  FlattenSeq(seqs) \in Seq(S)
<1>1. CASE Len(seqs) = 0
  BY <1>1 DEF FlattenSeq
<1>2. CASE Len(seqs) # 0
  <2>1. PICK f \in [1 .. Len(seqs) -> Seq(S)] : IsRow(f, seqs)
    BY <1>2, FlattenUnfolds
  <2>2. Len(seqs) \in 1 .. Len(seqs)
    BY <1>2
  <2> QED
    BY <2>1, <2>2 DEF IsRow
<1> QED
  BY <1>1, <1>2

-------------------------------------------------------------------------------
(* Types *)

LEMMA RoutesOfType ==
  ASSUME NEW p \in Provider
  PROVE  RoutesOf(p) \in Seq(Route)
<1> DEFINE row(k) == [i \in 1 .. Copies(p.models[k]) |->
                        [alias |-> p.models[k].alias, group |-> p.name]]
           rows == [k \in DOMAIN p.models |-> row(k)]
<1>1. p.models \in Seq(ModelMapping) /\ p.name \in ProviderName
  BY DEF Provider
<1>2. ASSUME NEW k \in DOMAIN p.models PROVE row(k) \in Seq(Route)
  <2>1. p.models[k] \in ModelMapping
    BY <1>1
  <2>2. p.models[k].weight \in Int /\ p.models[k].alias \in Alias
    BY <2>1 DEF ModelMapping
  <2>3. Copies(p.models[k]) \in Nat
    BY <2>2 DEF Copies
  <2>4. [alias |-> p.models[k].alias, group |-> p.name] \in Route
    BY <1>1, <2>2 DEF Route
  <2> QED
    BY <2>3, <2>4
<1>3. rows \in Seq(Seq(Route))
  <2>1. DOMAIN p.models = 1 .. Len(p.models) /\ Len(p.models) \in Nat
    BY <1>1
  <2> HIDE DEF row
  <2> QED
    BY <1>2, <2>1
<1>4. RoutesOf(p) = FlattenSeq(rows)
  BY DEF RoutesOf
<1> QED
  BY <1>3, <1>4, FlattenType

\* What the providers of s compile to.
CompiledRoutes(s) ==
  FlattenSeq([i \in DOMAIN s.providers |-> RoutesOf(s.providers[i])])
CompiledGroups(s) == [i \in DOMAIN s.providers |-> GroupOf(s.providers[i])]

LEMMA CompiledType ==
  ASSUME NEW s \in Snapshot
  PROVE  CompiledRoutes(s) \in Seq(Route) /\ CompiledGroups(s) \in Seq(Group)
<1>1. s.providers \in Seq(Provider)
  BY DEF Snapshot
<1>2. DOMAIN s.providers = 1 .. Len(s.providers) /\ Len(s.providers) \in Nat
  BY <1>1
<1>3. ASSUME NEW i \in DOMAIN s.providers
      PROVE  RoutesOf(s.providers[i]) \in Seq(Route) /\ GroupOf(s.providers[i]) \in Group
  <2>1. s.providers[i] \in Provider
    BY <1>1, <1>3
  <2>2. GroupOf(s.providers[i]) \in Group
    BY <2>1 DEF GroupOf, Group, Provider
  <2> QED
    BY <2>1, <2>2, RoutesOfType
<1>4. [i \in DOMAIN s.providers |-> RoutesOf(s.providers[i])] \in Seq(Seq(Route))
  BY <1>2, <1>3
<1>5. CompiledGroups(s) \in Seq(Group)
  BY <1>2, <1>3 DEF CompiledGroups
<1> QED
  BY <1>4, <1>5, FlattenType DEF CompiledRoutes

LEMMA SnapshotEqual ==
  ASSUME NEW s \in Snapshot, NEW t \in Snapshot,
         s.providers = t.providers, s.routes = t.routes, s.groups = t.groups
  PROVE  s = t
BY DEF Snapshot

\* Normalize field by field.
LEMMA NormalizeFields ==
  ASSUME NEW s \in Snapshot
  PROVE  /\ Normalize(s) \in Snapshot
         /\ Normalize(s).providers = s.providers
         /\ IF s.providers = <<>> \/ ~ Compiles(s.providers)
              THEN Normalize(s) = s
              ELSE /\ Normalize(s).routes = CompiledRoutes(s)
                   /\ Normalize(s).groups = CompiledGroups(s)
<1>1. CompiledRoutes(s) \in Seq(Route) /\ CompiledGroups(s) \in Seq(Group)
  BY CompiledType
<1>2. Normalize(s) = IF s.providers = <<>> \/ ~ Compiles(s.providers) THEN s
                     ELSE [s EXCEPT !.routes = CompiledRoutes(s),
                                    !.groups = CompiledGroups(s)]
  BY DEF Normalize, CompiledRoutes, CompiledGroups
<1> QED
  BY <1>1, <1>2 DEF Snapshot

\* Compiling again changes nothing.
LEMMA NormalizeTwice ==
  ASSUME NEW s \in Snapshot
  PROVE  Normalize(Normalize(s)) = Normalize(s)
<1> DEFINE n == Normalize(s)
<1>1. n \in Snapshot /\ n.providers = s.providers
  BY NormalizeFields
<1>2. CASE s.providers = <<>> \/ ~ Compiles(s.providers)
  BY <1>2, NormalizeFields
<1>3. CASE ~ (s.providers = <<>> \/ ~ Compiles(s.providers))
  <2>1. n.routes = CompiledRoutes(s) /\ n.groups = CompiledGroups(s)
    BY <1>3, NormalizeFields
  <2>2. CompiledRoutes(n) = CompiledRoutes(s) /\ CompiledGroups(n) = CompiledGroups(s)
    BY <1>1 DEF CompiledRoutes, CompiledGroups
  <2> HIDE DEF n
  <2>3. /\ Normalize(n) \in Snapshot
        /\ Normalize(n).providers = n.providers
        /\ Normalize(n).routes = CompiledRoutes(n)
        /\ Normalize(n).groups = CompiledGroups(n)
    BY <1>1, <1>3, NormalizeFields
  <2>4. Normalize(n) = n
    BY <1>1, <2>1, <2>2, <2>3, SnapshotEqual
  <2> QED
    BY <2>4 DEF n
<1> QED
  BY <1>2, <1>3

LEMMA JsonType ==
  ASSUME NEW s \in Snapshot
  PROVE  Json(s) \in Snapshot
<1> DEFINE list == [i \in DOMAIN s.providers |-> Written(s.providers[i])]
<1>1. s.providers \in Seq(Provider)
  BY DEF Snapshot
<1>2. ASSUME NEW p \in Provider PROVE Written(p) \in Provider
  BY DEF Written, Provider, HeaderMap
<1>3. list \in Seq(Provider)
  <2>1. DOMAIN s.providers = 1 .. Len(s.providers) /\ Len(s.providers) \in Nat
    BY <1>1
  <2> QED
    BY <1>1, <1>2, <2>1
<1>4. Json(s) = [s EXCEPT !.providers = list]
  BY DEF Json
<1> QED
  BY <1>3, <1>4 DEF Snapshot

LEMMA StoredType ==
  ASSUME NEW s \in Snapshot
  PROVE  Stored(s) \in Snapshot
<1> DEFINE text == Json(s)
           sorted(list) == [i \in DOMAIN list |-> [list[i] EXCEPT !.auth = SortKeys(@)]]
<1>1. /\ text \in Snapshot
      /\ text.providers \in Seq(Provider) /\ text.groups \in Seq(Group)
  BY JsonType DEF Snapshot
<1>2. ASSUME NEW p \in Provider PROVE [p EXCEPT !.auth = SortKeys(@)] \in Provider
  BY DEF Provider, SortKeys, RawJson
<1>3. ASSUME NEW g \in Group PROVE [g EXCEPT !.auth = SortKeys(@)] \in Group
  BY DEF Group, SortKeys, RawJson
<1>4. Stored(s) = [text EXCEPT !.providers = sorted(text.providers),
                               !.groups = sorted(text.groups)]
  BY <1>1 DEF Stored, Snapshot
<1> HIDE DEF text
<1>5. sorted(text.providers) \in Seq(Provider)
  <2>1. /\ DOMAIN text.providers = 1 .. Len(text.providers)
        /\ Len(text.providers) \in Nat
    BY <1>1
  <2> QED
    BY <1>1, <1>2, <2>1
<1>6. sorted(text.groups) \in Seq(Group)
  <2>1. DOMAIN text.groups = 1 .. Len(text.groups) /\ Len(text.groups) \in Nat
    BY <1>1
  <2> QED
    BY <1>1, <1>3, <2>1
<1> QED
  BY <1>1, <1>4, <1>5, <1>6 DEF Snapshot

LEMMA HashType ==
  ASSUME NEW s \in Snapshot
  PROVE  HashSnapshot(s) \in Snapshot /\ SavedAs(s) \in Snapshot
BY NormalizeFields, JsonType DEF HashSnapshot, SavedAs

-------------------------------------------------------------------------------
(* The type invariant *)

LEMMA CloudElement ==
  ASSUME TypeOK, NEW k \in DOMAIN cloud
  PROVE  cloud[k] \in Record /\ cloud[k].snapshot \in Snapshot /\ cloud[k].hash \in Snapshot
<1>1. cloud[k] \in Record
  BY DEF TypeOK
<1> QED
  BY <1>1 DEF Record

LEMMA CatalogueType ==
  ASSUME NEW s \in Snapshot, NEW c \in Snapshot
  PROVE  /\ FromCatalogue(s, c) \in Snapshot
         /\ SavedAs(FromCatalogue(s, c)) \in Snapshot
<1>1. [s EXCEPT !.providers = c.providers] \in Snapshot
  BY DEF Snapshot
<1>2. [s EXCEPT !.groups = c.groups] \in Snapshot
  BY DEF Snapshot
<1> QED
  BY <1>1, <1>2, NormalizeFields, HashType DEF FromCatalogue

LEMMA TypeInit == Init => TypeOK
<1> SUFFICES ASSUME Init PROVE TypeOK
  OBVIOUS
<1>1. Blank \in Snapshot
  BY DEF Blank, Snapshot
<1>2. cloud \in Seq(Record)
  <2>1. CASE cloud = <<>>
    BY <2>1
  <2>2. CASE cloud # <<>>
    <3>1. PICK p \in Providers :
            cloud = <<[snapshot |-> Stored(Normalize([Blank EXCEPT !.providers = p])),
                       hash |-> HashSnapshot(Normalize([Blank EXCEPT !.providers = p]))]>>
      BY <2>2 DEF Init
    <3> DEFINE b == [Blank EXCEPT !.providers = p]
               n == Normalize(b)
    <3>2. p \in Seq(Provider)
      BY FlowAssumption
    <3>3. b \in Snapshot
      BY <1>1, <3>2 DEF Snapshot
    <3> HIDE DEF b
    <3>4. n \in Snapshot
      BY <3>3, NormalizeFields
    <3> HIDE DEF n
    <3>5. Stored(n) \in Snapshot /\ HashSnapshot(n) \in Snapshot
      BY <3>4, StoredType, HashType
    <3>6. cloud = <<[snapshot |-> Stored(n), hash |-> HashSnapshot(n)]>>
      BY <3>1 DEF n, b
    <3> QED
      BY <3>5, <3>6 DEF Record
  <2> QED
    BY <2>1, <2>2
<1>3. \A d \in Device : copy[d] <= Len(cloud)
  BY <1>2 DEF Init
<1> QED
  BY <1>1, <1>2, <1>3 DEF Init, TypeOK

\* The steps that leave the store alone.
LEMMA TypeFile ==
  ASSUME TypeOK, NEW d \in Device, NEW s \in Snapshot, NEW n \in Nat, n <= Len(cloud),
         file' = [file EXCEPT ![d] = s], UNCHANGED cloud,
         copy' = [copy EXCEPT ![d] = n]
  PROVE  TypeOK'
BY DEF TypeOK

LEMMA TypeNext == TypeOK /\ [Next]_vars => TypeOK'
<1> SUFFICES ASSUME TypeOK, [Next]_vars PROVE TypeOK'
  OBVIOUS
<1> USE DEF TypeOK
<1>0. Len(cloud) \in Nat
  OBVIOUS
<1>1. ASSUME NEW d \in Device PROVE file[d] \in Snapshot /\ Loaded(d) \in Snapshot
  BY NormalizeFields DEF Loaded
<1>2. ASSUME NEW d \in Device, Edit(d) PROVE TypeOK'
  <2>1. PICK p \in Providers : file' = [file EXCEPT ![d].providers = p]
    BY <1>2 DEF Edit
  <2>2. p \in Seq(Provider)
    BY FlowAssumption
  <2> DEFINE s == [file[d] EXCEPT !.providers = p]
  <2>3. s \in Snapshot
    BY <1>1, <2>2 DEF Snapshot
  <2>4. file' = [file EXCEPT ![d] = s]
    BY <2>1
  <2>5. copy' = [copy EXCEPT ![d] = 0] /\ UNCHANGED cloud
    BY <1>2 DEF Edit
  <2> HIDE DEF s
  <2> QED
    BY <1>0, <2>3, <2>4, <2>5, TypeFile
<1>3. ASSUME NEW d \in Device, WriteByHand(d) PROVE TypeOK'
  <2>1. PICK h \in HandWritten :
          file' = [file EXCEPT ![d] =
                     [providers |-> <<>>, routes |-> h.routes, groups |-> h.groups]]
    BY <1>3 DEF WriteByHand
  <2>2. h \in [routes : Seq(Route), groups : Seq(Group)]
    BY FlowAssumption
  <2>3. [providers |-> <<>>, routes |-> h.routes, groups |-> h.groups] \in Snapshot
    BY <2>2 DEF Snapshot
  <2> QED
    BY <1>0, <1>3, <2>1, <2>3, TypeFile DEF WriteByHand
<1>4. ASSUME NEW d \in Device, Resave(d) PROVE TypeOK'
  <2>1. SavedAs(Loaded(d)) \in Snapshot
    BY <1>1, HashType
  <2>2. file' = [file EXCEPT ![d] = SavedAs(Loaded(d))] /\ UNCHANGED cloud
    BY <1>4 DEF Resave
  <2>3. PICK n \in Nat : n = copy[d]
    OBVIOUS
  <2>4. copy' = [copy EXCEPT ![d] = n] /\ n <= Len(cloud)
    BY <1>4, <2>3 DEF Resave
  <2> QED
    BY <2>1, <2>2, <2>4, TypeFile
<1>5. ASSUME NEW d \in Device, Push(d) PROVE TypeOK'
  <2>1. CASE /\ cloud' = Append(cloud, StoredRecord(Sent(d), HashSnapshot(Loaded(d))))
             /\ copy' = [copy EXCEPT ![d] = NextVersion]
             /\ UNCHANGED file
    <3>1. Sent(d) \in Snapshot /\ HashSnapshot(Loaded(d)) \in Snapshot
      BY <1>1, JsonType, HashType DEF Sent
    <3>2. StoredRecord(Sent(d), HashSnapshot(Loaded(d))) \in Record
      BY <3>1, StoredType DEF StoredRecord, Record
    <3>3. cloud' \in Seq(Record) /\ Len(cloud') = Len(cloud) + 1
      BY <2>1, <3>2
    <3>4. copy' \in [Device -> Nat] /\ \A e \in Device : copy'[e] <= Len(cloud')
      BY <1>0, <2>1, <3>3 DEF NextVersion
    <3> QED
      BY <2>1, <3>3, <3>4
  <2>2. CASE copy' = [copy EXCEPT ![d] = Len(cloud)] /\ UNCHANGED <<file, cloud>>
    BY <1>0, <2>2
  <2> QED
    BY <1>5, <2>1, <2>2 DEF Push
<1>6. ASSUME NEW d \in Device, NEW k \in DOMAIN cloud, TakeVersion(d, k) PROVE TypeOK'
  <2>1. cloud[k].snapshot \in Snapshot
    BY CloudElement
  <2>2. Applied(Json(cloud[k].snapshot)) \in Snapshot
    BY <2>1, JsonType, NormalizeFields, HashType DEF Applied
  <2>3. k \in Nat /\ k <= Len(cloud)
    BY <1>0
  <2> QED
    BY <1>6, <2>2, <2>3, TypeFile DEF TakeVersion
<1>7. ASSUME NEW d \in Device, TakeCatalogue(d) PROVE TypeOK'
  <2> DEFINE catalogue == Json(Current.snapshot)
             n == IF catalogue.providers # <<>> /\ Compiles(catalogue.providers)
                    THEN Len(cloud) ELSE 0
  <2>1. Len(cloud) \in DOMAIN cloud
    BY <1>0, <1>7 DEF TakeCatalogue
  <2>2. catalogue \in Snapshot
    BY <2>1, CloudElement, JsonType DEF Current
  <2>3. /\ file' = [file EXCEPT ![d] = SavedAs(FromCatalogue(Loaded(d), catalogue))]
        /\ copy' = [copy EXCEPT ![d] = n]
        /\ UNCHANGED cloud
    BY <1>7 DEF TakeCatalogue
  <2> HIDE DEF catalogue
  <2>4. SavedAs(FromCatalogue(Loaded(d), catalogue)) \in Snapshot
    BY <1>1, <2>2, CatalogueType
  <2>5. n \in Nat /\ n <= Len(cloud)
    BY <1>0
  <2> HIDE DEF n
  <2> QED
    BY <2>3, <2>4, <2>5, TypeFile
<1>8. CASE UNCHANGED vars
  BY <1>8 DEF vars
<1> QED
  BY <1>2, <1>3, <1>4, <1>5, <1>6, <1>7, <1>8 DEF Next

(***************************************************************************)
(* Whatever is edited, saved, pushed and pulled, files and stored versions  *)
(* are snapshots and a file is a copy of a version that the store has.      *)
(***************************************************************************)
THEOREM TypeCorrect == Spec => []TypeOK
BY TypeInit, TypeNext, PTL DEF Spec

-------------------------------------------------------------------------------
(* Copies *)

\* The two things that do not survive on the way, as ConfigDocHash and
\* section 4 of the README tell: a header map without entries, and the order of
\* the keys in codex.auth.
PlainProviders(list) ==
  \A i \in DOMAIN list : list[i].headers # "empty" /\ list[i].auth # "unsorted"
PlainGroups(list) == \A i \in DOMAIN list : list[i].auth # "unsorted"
Plain(s) == PlainProviders(s.providers) /\ PlainGroups(s.groups)

PlainInputs ==
  /\ \A p \in Providers : PlainProviders(p)
  /\ \A h \in HandWritten : PlainGroups(h.groups)

LEMMA PlainTexts ==
  ASSUME NEW s \in Snapshot, Plain(s)
  PROVE  Json(s) = s /\ Stored(s) = s
<1>1. s.providers \in Seq(Provider) /\ s.groups \in Seq(Group)
  BY DEF Snapshot
<1>2. /\ s.providers = [i \in DOMAIN s.providers |-> s.providers[i]]
      /\ s.groups = [i \in DOMAIN s.groups |-> s.groups[i]]
  BY <1>1
<1>3. ASSUME NEW i \in DOMAIN s.providers
      PROVE  /\ Written(s.providers[i]) = s.providers[i]
             /\ [s.providers[i] EXCEPT !.auth = SortKeys(@)] = s.providers[i]
  <2>1. s.providers[i] \in Provider
    BY <1>1
  <2>2. s.providers[i].headers # "empty" /\ s.providers[i].auth # "unsorted"
    BY DEF Plain, PlainProviders
  <2> QED
    BY <2>1, <2>2 DEF Written, SortKeys, Provider
<1>4. ASSUME NEW i \in DOMAIN s.groups
      PROVE  [s.groups[i] EXCEPT !.auth = SortKeys(@)] = s.groups[i]
  <2>1. s.groups[i] \in Group
    BY <1>1
  <2>2. s.groups[i].auth # "unsorted"
    BY DEF Plain, PlainGroups
  <2> QED
    BY <2>1, <2>2 DEF SortKeys, Group
<1>5. Json(s) = s
  <2>1. [i \in DOMAIN s.providers |-> Written(s.providers[i])] = s.providers
    BY <1>2, <1>3
  <2>2. Json(s) = [s EXCEPT !.providers = s.providers]
    BY <2>1 DEF Json
  <2> QED
    BY <2>2 DEF Snapshot
<1>6. Stored(s) = s
  <2> DEFINE sorted(list) == [i \in DOMAIN list |-> [list[i] EXCEPT !.auth = SortKeys(@)]]
  <2>1. sorted(s.providers) = s.providers
    BY <1>2, <1>3
  <2>2. sorted(s.groups) = s.groups
    BY <1>2, <1>4
  <2>3. Stored(s) = [s EXCEPT !.providers = sorted(s.providers), !.groups = sorted(s.groups)]
    BY <1>5 DEF Stored, Snapshot
  <2> HIDE DEF sorted
  <2> QED
    BY <2>1, <2>2, <2>3 DEF Snapshot
<1> QED
  BY <1>5, <1>6

LEMMA PlainNormalize ==
  ASSUME NEW s \in Snapshot, Plain(s)
  PROVE  /\ Plain(Normalize(s))
         /\ HashSnapshot(s) = Normalize(s)
         /\ SavedAs(s) = Normalize(s)
<1>1. Plain(Normalize(s))
  <2>1. CASE s.providers = <<>> \/ ~ Compiles(s.providers)
    BY <2>1, NormalizeFields
  <2>2. CASE ~ (s.providers = <<>> \/ ~ Compiles(s.providers))
    <3>1. Normalize(s).providers = s.providers /\ Normalize(s).groups = CompiledGroups(s)
      BY <2>2, NormalizeFields
    <3>2. PlainProviders(s.providers)
      BY DEF Plain
    <3>3. PlainGroups(CompiledGroups(s))
      BY <3>2 DEF PlainProviders, PlainGroups, CompiledGroups, GroupOf
    <3> QED
      BY <3>1, <3>2, <3>3 DEF Plain
  <2> QED
    BY <2>1, <2>2
<1>2. Normalize(s) \in Snapshot
  BY NormalizeFields
<1> QED
  BY <1>1, <1>2, PlainTexts DEF HashSnapshot, SavedAs

\* Copies match; what makes it last is that nothing is lost on the way, and
\* that the hash of a stored version is that of the snapshot stored with it.
FlowInv ==
  /\ TypeOK
  /\ \A d \in Device : Plain(file[d])
  /\ \A k \in DOMAIN cloud :
       /\ Plain(cloud[k].snapshot)
       /\ cloud[k].hash = Normalize(cloud[k].snapshot)
  /\ CopiesMatch

\* On what the devices hold, hashing and saving only normalize.
LEMMA PlainFile ==
  ASSUME FlowInv, NEW d \in Device
  PROVE  /\ file[d] \in Snapshot /\ Loaded(d) \in Snapshot /\ Plain(Loaded(d))
         /\ Normalize(Loaded(d)) = Loaded(d)
         /\ HashSnapshot(Loaded(d)) = Loaded(d)
         /\ Sent(d) = Loaded(d)
<1>1. file[d] \in Snapshot /\ Plain(file[d])
  BY DEF FlowInv, TypeOK
<1>2. Loaded(d) \in Snapshot /\ Plain(Loaded(d)) /\ Normalize(Loaded(d)) = Loaded(d)
  BY <1>1, NormalizeFields, NormalizeTwice, PlainNormalize DEF Loaded
<1> QED
  BY <1>1, <1>2, PlainNormalize, PlainTexts DEF Sent

LEMMA PlainVersion ==
  ASSUME FlowInv, NEW k \in DOMAIN cloud
  PROVE  /\ cloud[k].snapshot \in Snapshot /\ Plain(cloud[k].snapshot)
         /\ Json(cloud[k].snapshot) = cloud[k].snapshot
         /\ cloud[k].hash = Normalize(cloud[k].snapshot)
<1>1. cloud[k].snapshot \in Snapshot
  BY CloudElement DEF FlowInv
<1>2. Plain(cloud[k].snapshot) /\ cloud[k].hash = Normalize(cloud[k].snapshot)
  BY DEF FlowInv
<1> QED
  BY <1>1, <1>2, PlainTexts

\* A step that writes file s, whose copy number says what s normalizes to.
LEMMA FileWritten ==
  ASSUME FlowInv, TypeOK', NEW d \in Device, NEW s \in Snapshot, NEW n \in Nat,
         Plain(s), n \in DOMAIN cloud => Normalize(s) = cloud[n].hash,
         n \in DOMAIN cloud \cup {0},
         file' = [file EXCEPT ![d] = s], UNCHANGED cloud,
         copy' = [copy EXCEPT ![d] = n]
  PROVE  FlowInv'
<1>1. ASSUME NEW e \in Device PROVE Plain(file'[e])
  BY DEF FlowInv, TypeOK
<1>2. ASSUME NEW e \in Device, copy'[e] # 0
      PROVE  HashSnapshot(Normalize(file'[e])) = cloud'[copy'[e]].hash
  <2>1. CASE e = d
    <3>1. file'[e] = s /\ copy'[e] = n /\ n \in DOMAIN cloud
      BY <1>2, <2>1 DEF FlowInv, TypeOK
    <3>2. HashSnapshot(Normalize(s)) = Normalize(s)
      BY NormalizeFields, NormalizeTwice, PlainNormalize
    <3> QED
      BY <3>1, <3>2
  <2>2. CASE e # d
    BY <1>2, <2>2 DEF FlowInv, TypeOK, CopiesMatch, Loaded
  <2> QED
    BY <2>1, <2>2
<1> QED
  BY <1>1, <1>2 DEF FlowInv, CopiesMatch, Loaded

LEMMA CopiesInit == PlainInputs /\ Init => FlowInv
<1> SUFFICES ASSUME PlainInputs, Init PROVE FlowInv
  OBVIOUS
<1>1. TypeOK
  BY TypeInit
<1>2. Plain(Blank)
  BY DEF Blank, Plain, PlainProviders, PlainGroups
<1>3. ASSUME NEW k \in DOMAIN cloud
      PROVE  Plain(cloud[k].snapshot) /\ cloud[k].hash = Normalize(cloud[k].snapshot)
  <2>1. cloud # <<>>
    OBVIOUS
  <2>2. PICK p \in Providers :
          cloud = <<[snapshot |-> Stored(Normalize([Blank EXCEPT !.providers = p])),
                     hash |-> HashSnapshot(Normalize([Blank EXCEPT !.providers = p]))]>>
    BY <2>1 DEF Init
  <2> DEFINE b == [Blank EXCEPT !.providers = p]
             n == Normalize(b)
  <2>3. b \in Snapshot /\ Plain(b)
    <3>1. p \in Seq(Provider) /\ PlainProviders(p)
      BY FlowAssumption DEF PlainInputs
    <3>2. Blank \in Snapshot
      BY DEF Blank, Snapshot
    <3>3. b \in Snapshot
      BY <3>1, <3>2 DEF Snapshot
    <3>4. b.providers = p /\ b.groups = Blank.groups
      BY DEF Blank
    <3> QED
      BY <1>2, <3>1, <3>3, <3>4 DEF Plain
  <2> HIDE DEF b
  <2>4. n \in Snapshot /\ Plain(n)
    BY <2>3, NormalizeFields, PlainNormalize
  <2> HIDE DEF n
  <2>5. Stored(n) = n /\ HashSnapshot(n) = Normalize(n)
    BY <2>4, PlainTexts, PlainNormalize
  <2>6. cloud = <<[snapshot |-> n, hash |-> Normalize(n)]>>
    BY <2>2, <2>5 DEF n, b
  <2> QED
    BY <2>4, <2>6
<1>4. CopiesMatch
  BY DEF Init, CopiesMatch
<1> QED
  BY <1>1, <1>2, <1>3, <1>4 DEF FlowInv, Init

LEMMA CopiesEdit ==
  ASSUME PlainInputs, FlowInv, TypeOK', NEW d \in Device, Edit(d) \/ WriteByHand(d)
  PROVE  FlowInv'
<1>1. file[d] \in Snapshot /\ Plain(file[d])
  BY DEF FlowInv, TypeOK
<1>2. PICK s \in Snapshot : Plain(s) /\ file' = [file EXCEPT ![d] = s]
  <2>1. CASE Edit(d)
    <3>1. PICK p \in Providers : file' = [file EXCEPT ![d].providers = p]
      BY <2>1 DEF Edit
    <3>2. p \in Seq(Provider) /\ PlainProviders(p)
      BY FlowAssumption DEF PlainInputs
    <3> DEFINE s == [file[d] EXCEPT !.providers = p]
    <3>3. s \in Snapshot /\ s.providers = p /\ s.groups = file[d].groups
      BY <1>1, <3>2 DEF Snapshot
    <3>4. file' = [file EXCEPT ![d] = s]
      BY <3>1
    <3> HIDE DEF s
    <3> QED
      BY <1>1, <3>2, <3>3, <3>4 DEF Plain
  <2>2. CASE WriteByHand(d)
    <3>1. PICK h \in HandWritten :
            file' = [file EXCEPT ![d] =
                       [providers |-> <<>>, routes |-> h.routes, groups |-> h.groups]]
      BY <2>2 DEF WriteByHand
    <3>2. h \in [routes : Seq(Route), groups : Seq(Group)] /\ PlainGroups(h.groups)
      BY FlowAssumption DEF PlainInputs
    <3> DEFINE s == [providers |-> <<>>, routes |-> h.routes, groups |-> h.groups]
    <3>3. s \in Snapshot /\ s.providers = <<>> /\ s.groups = h.groups
      BY <3>2 DEF Snapshot
    <3>4. Plain(s)
      BY <3>2, <3>3 DEF Plain, PlainProviders
    <3> HIDE DEF s
    <3> QED
      BY <3>1, <3>3, <3>4 DEF s
  <2> QED
    BY <2>1, <2>2
<1>3. UNCHANGED cloud /\ copy' = [copy EXCEPT ![d] = 0]
  BY DEF Edit, WriteByHand
<1>4. 0 \notin DOMAIN cloud
  BY DEF FlowInv, TypeOK
<1> QED
  BY <1>2, <1>3, <1>4, FileWritten

\* The file is saved as it is loaded.
LEMMA CopiesResave ==
  ASSUME FlowInv, TypeOK', NEW d \in Device, Resave(d)
  PROVE  FlowInv'
<1> DEFINE s == Loaded(d)
           n == copy[d]
<1>1. s \in Snapshot /\ Plain(s) /\ Normalize(s) = s /\ HashSnapshot(s) = s
  BY PlainFile
<1>2. SavedAs(s) = s
  BY <1>1, PlainNormalize
<1>3. n \in Nat /\ n \in DOMAIN cloud \cup {0}
  BY DEF FlowInv, TypeOK
<1>4. n \in DOMAIN cloud => Normalize(s) = cloud[n].hash
  <2>1. 0 \notin DOMAIN cloud
    BY DEF FlowInv, TypeOK
  <2> QED
    BY <1>1, <2>1 DEF FlowInv, CopiesMatch
<1>5. /\ file' = [file EXCEPT ![d] = s] /\ UNCHANGED cloud
      /\ copy' = [copy EXCEPT ![d] = n]
  BY <1>2 DEF Resave, FlowInv, TypeOK
<1> HIDE DEF s, n
<1> QED
  BY <1>1, <1>3, <1>4, <1>5, FileWritten

LEMMA CopiesPush ==
  ASSUME FlowInv, TypeOK', NEW d \in Device, Push(d)
  PROVE  FlowInv'
<1> DEFINE s == Loaded(d)
<1>1. /\ s \in Snapshot /\ Plain(s) /\ Normalize(s) = s
      /\ HashSnapshot(s) = s /\ Sent(d) = s
  BY PlainFile
<1>2. Len(cloud) \in Nat
  BY DEF FlowInv, TypeOK
<1>3. CASE /\ cloud' = Append(cloud, StoredRecord(Sent(d), HashSnapshot(Loaded(d))))
           /\ copy' = [copy EXCEPT ![d] = NextVersion]
           /\ UNCHANGED file
  <2>1. StoredRecord(Sent(d), HashSnapshot(Loaded(d))) = [snapshot |-> s, hash |-> s]
    BY <1>1, PlainTexts DEF StoredRecord
  <2>2. /\ Len(cloud') = Len(cloud) + 1
        /\ \A k \in DOMAIN cloud : cloud'[k] = cloud[k]
        /\ cloud'[Len(cloud) + 1] = [snapshot |-> s, hash |-> s]
        /\ DOMAIN cloud' = DOMAIN cloud \cup {Len(cloud) + 1}
    BY <1>2, <1>3, <2>1 DEF FlowInv, TypeOK
  <2> HIDE DEF s
  <2>3. \A k \in DOMAIN cloud' :
          /\ Plain(cloud'[k].snapshot)
          /\ cloud'[k].hash = Normalize(cloud'[k].snapshot)
    BY <1>1, <2>2 DEF FlowInv
  <2>4. ASSUME NEW e \in Device, copy'[e] # 0
        PROVE  HashSnapshot(Normalize(file'[e])) = cloud'[copy'[e]].hash
    <3>1. CASE e = d
      <4>1. copy'[e] = Len(cloud) + 1
        BY <1>3, <3>1 DEF FlowInv, TypeOK, NextVersion
      <4>2. Normalize(file'[e]) = s
        BY <1>3, <3>1 DEF s, Loaded
      <4> QED
        BY <1>1, <2>2, <4>1, <4>2
    <3>2. CASE e # d
      <4>1. copy'[e] = copy[e] /\ copy[e] \in DOMAIN cloud
        BY <1>3, <2>4, <3>2 DEF FlowInv, TypeOK
      <4> QED
        BY <1>3, <2>2, <2>4, <4>1 DEF FlowInv, CopiesMatch, Loaded
    <3> QED
      BY <3>1, <3>2
  <2> QED
    BY <1>3, <2>3, <2>4 DEF FlowInv, CopiesMatch, Loaded
<1>4. CASE /\ OutcomeOf(d) = "already_synced"
           /\ copy' = [copy EXCEPT ![d] = Len(cloud)]
           /\ UNCHANGED <<file, cloud>>
  <2>1. cloud # <<>> /\ cloud[Len(cloud)].hash = s
    BY <1>1, <1>4 DEF OutcomeOf, Received, Current
  <2>2. ASSUME NEW e \in Device, copy'[e] # 0
        PROVE  HashSnapshot(Normalize(file'[e])) = cloud'[copy'[e]].hash
    BY <1>1, <1>4, <2>1, <2>2 DEF FlowInv, TypeOK, CopiesMatch, Loaded
  <2> QED
    BY <1>4, <2>2 DEF FlowInv, CopiesMatch, Loaded
<1> QED
  BY <1>3, <1>4 DEF Push

LEMMA CopiesTakeVersion ==
  ASSUME FlowInv, TypeOK', NEW d \in Device, NEW k \in DOMAIN cloud, TakeVersion(d, k)
  PROVE  FlowInv'
<1> DEFINE v == cloud[k].snapshot
           s == Normalize(v)
<1>1. v \in Snapshot /\ Plain(v) /\ Json(v) = v /\ cloud[k].hash = s
  BY PlainVersion
<1>2. s \in Snapshot /\ Plain(s) /\ Normalize(s) = s /\ SavedAs(s) = Normalize(s)
  BY <1>1, NormalizeFields, NormalizeTwice, PlainNormalize
<1>3. Applied(Json(v)) = s
  BY <1>1, <1>2 DEF Applied
<1>4. k \in Nat
  BY DEF FlowInv, TypeOK
<1>5. /\ file' = [file EXCEPT ![d] = s] /\ UNCHANGED cloud
      /\ copy' = [copy EXCEPT ![d] = k]
  BY <1>3 DEF TakeVersion
<1> HIDE DEF s, v
<1> QED
  BY <1>1, <1>2, <1>4, <1>5, FileWritten

\* Providers that compile replace all that a device has: the file becomes the
\* catalogue's version.
LEMMA CopiesTakeCatalogue ==
  ASSUME FlowInv, TypeOK', NEW d \in Device, TakeCatalogue(d)
  PROVE  FlowInv'
<1> DEFINE c == Current.snapshot
           l == Loaded(d)
           t == IF c.providers # <<>> THEN [l EXCEPT !.providers = c.providers]
                                      ELSE [l EXCEPT !.groups = c.groups]
           s == Normalize(t)
           n == IF c.providers # <<>> /\ Compiles(c.providers) THEN Len(cloud) ELSE 0
<1>1. Len(cloud) \in Nat /\ 0 \notin DOMAIN cloud /\ Len(cloud) \in DOMAIN cloud
  BY DEF FlowInv, TypeOK, TakeCatalogue
<1>2. /\ c \in Snapshot /\ Plain(c) /\ Json(c) = c
      /\ cloud[Len(cloud)].hash = Normalize(c)
  BY <1>1, PlainVersion DEF Current
<1>3. l \in Snapshot /\ Plain(l)
  BY PlainFile
<1>4. t \in Snapshot /\ Plain(t) /\ (c.providers # <<>> => t.providers = c.providers)
  <2> HIDE DEF c, l
  <2>1. CASE c.providers # <<>>
    <3>1. t \in Snapshot /\ t.providers = c.providers /\ t.groups = l.groups
      BY <1>2, <1>3, <2>1 DEF Snapshot
    <3> HIDE DEF t
    <3> QED
      BY <1>2, <1>3, <3>1 DEF Plain
  <2>2. CASE c.providers = <<>>
    <3>1. t \in Snapshot /\ t.providers = l.providers /\ t.groups = c.groups
      BY <1>2, <1>3, <2>2 DEF Snapshot
    <3> HIDE DEF t
    <3> QED
      BY <1>2, <1>3, <2>2, <3>1 DEF Plain
  <2> QED
    BY <2>1, <2>2
<1>5. /\ file' = [file EXCEPT ![d] = SavedAs(s)] /\ UNCHANGED cloud
      /\ copy' = [copy EXCEPT ![d] = n]
  BY <1>2 DEF TakeCatalogue, FromCatalogue
<1> HIDE DEF c, l, t
<1>6. s \in Snapshot /\ Plain(s) /\ Normalize(s) = s /\ SavedAs(s) = s
  BY <1>4, NormalizeFields, NormalizeTwice, PlainNormalize
<1>7. n \in Nat /\ n \in DOMAIN cloud \cup {0}
  BY <1>1
<1>8. n \in DOMAIN cloud => Normalize(s) = cloud[n].hash
  <2> SUFFICES ASSUME n \in DOMAIN cloud PROVE s = Normalize(c)
    BY <1>1, <1>2, <1>6
  <2>1. c.providers # <<>> /\ Compiles(c.providers) /\ t.providers = c.providers
    BY <1>1, <1>4
  <2>2. CompiledRoutes(t) = CompiledRoutes(c) /\ CompiledGroups(t) = CompiledGroups(c)
    BY <2>1 DEF CompiledRoutes, CompiledGroups
  <2>3. /\ Normalize(c) \in Snapshot
        /\ Normalize(c).providers = s.providers
        /\ Normalize(c).routes = s.routes
        /\ Normalize(c).groups = s.groups
    BY <1>2, <1>4, <2>1, <2>2, NormalizeFields
  <2> QED
    BY <1>6, <2>3, SnapshotEqual
<1> HIDE DEF s, n
<1> QED
  BY <1>5, <1>6, <1>7, <1>8, FileWritten

LEMMA CopiesNext == PlainInputs /\ FlowInv /\ [Next]_vars => FlowInv'
<1> SUFFICES ASSUME PlainInputs, FlowInv, [Next]_vars PROVE FlowInv'
  OBVIOUS
<1>1. TypeOK'
  BY TypeNext DEF FlowInv
<1>2. CASE UNCHANGED vars
  BY <1>1, <1>2 DEF vars, FlowInv, CopiesMatch, Loaded
<1>3. CASE Next
  BY <1>1, <1>3, CopiesEdit, CopiesResave, CopiesPush, CopiesTakeVersion,
     CopiesTakeCatalogue DEF Next
<1> QED
  BY <1>2, <1>3

(***************************************************************************)
(* The next sync of a file that nobody edited since it was pulled, pushed   *)
(* or taken from the catalogue finds it equal to that version of the store, *)
(* for any providers, devices and number of versions: what a device loads   *)
(* and saves, the texts on the way and the store's columns keep the hash.   *)
(* It holds of configurations without header maps that have no entries and  *)
(* with the keys of codex.auth in the store's order, and not of others.     *)
(***************************************************************************)
THEOREM CopiesAgree ==
  ASSUME PlainInputs
  PROVE  Spec => []CopiesMatch
<1>1. Init => FlowInv
  BY CopiesInit
<1>2. FlowInv /\ [Next]_vars => FlowInv'
  BY CopiesNext
<1>3. FlowInv => CopiesMatch
  BY DEF FlowInv
<1> QED
  BY <1>1, <1>2, <1>3, PTL DEF Spec

(***************************************************************************)
(* The push of such a configuration is not refused because of its hash: the *)
(* server finds in what it received what the client found in its file.      *)
(* ConfigDocHash has the counterexample with an empty header map.           *)
(***************************************************************************)
THEOREM PushesAccepted ==
  ASSUME PlainInputs
  PROVE  Spec => []PushIsNotRefused
<1>1. Init => FlowInv
  BY CopiesInit
<1>2. FlowInv /\ [Next]_vars => FlowInv'
  BY CopiesNext
<1>3. FlowInv => PushIsNotRefused
  BY PlainFile DEF PushIsNotRefused, OutcomeOf, Received
<1> QED
  BY <1>1, <1>2, <1>3, PTL DEF Spec

-------------------------------------------------------------------------------
(* Sums *)

\* One pair for each unit of the weights w of the members of s.
Units(w, s) == {u \in s \X Nat : 1 <= u[2] /\ u[2] <= w[u[1]]}

LEMMA UnitsAdd ==
  ASSUME NEW S, NEW w \in [S -> Nat], NEW s \in SUBSET S, NEW x \in s,
         IsFiniteSet(Units(w, s \ {x}))
  PROVE  /\ IsFiniteSet(Units(w, s))
         /\ Cardinality(Units(w, s)) = w[x] + Cardinality(Units(w, s \ {x}))
<1> DEFINE own == {u \in {x} \X Nat : 1 <= u[2] /\ u[2] <= w[x]}
           rest == Units(w, s \ {x})
           f == [i \in 1 .. w[x] |-> <<x, i>>]
<1>1. w[x] \in Nat
  OBVIOUS
<1>2. IsFiniteSet(1 .. w[x]) /\ Cardinality(1 .. w[x]) = w[x]
  BY <1>1, FS_Interval
<1>3. f \in Bijection(1 .. w[x], own)
  <2>1. f \in [1 .. w[x] -> own]
    BY <1>1
  <2>2. \A i, j \in 1 .. w[x] : f[i] = f[j] => i = j
    OBVIOUS
  <2>3. \A u \in own : \E i \in 1 .. w[x] : f[i] = u
    <3> SUFFICES ASSUME NEW u \in own PROVE \E i \in 1 .. w[x] : f[i] = u
      OBVIOUS
    <3>1. u[2] \in 1 .. w[x] /\ u = <<x, u[2]>>
      BY <1>1
    <3> QED
      BY <3>1
  <2> QED
    BY <2>1, <2>2, <2>3 DEF Bijection, Injection, IsInjective, Surjection
<1>4. IsFiniteSet(own) /\ Cardinality(own) = w[x]
  BY <1>2, <1>3, FS_Bijection DEF ExistsBijection
<1>5. Units(w, s) = own \cup rest /\ own \cap rest = {}
  BY DEF Units
<1> HIDE DEF own, rest
<1>6. IsFiniteSet(rest)
  BY DEF rest
<1>7. Cardinality(rest) \in Nat
  BY <1>6, FS_CardinalityType
<1>8. /\ IsFiniteSet(own \cup rest)
      /\ Cardinality(own \cup rest) = Cardinality(own) + Cardinality(rest) - 0
  BY <1>4, <1>5, <1>6, FS_Union, FS_EmptySet
<1>9. Cardinality(own \cup rest) = w[x] + Cardinality(rest)
  BY <1>1, <1>4, <1>7, <1>8
<1> QED
  BY <1>5, <1>8, <1>9 DEF rest

LEMMA UnitsFinite ==
  ASSUME NEW S, NEW w \in [S -> Nat], NEW s \in SUBSET S, IsFiniteSet(s)
  PROVE  IsFiniteSet(Units(w, s)) /\ Cardinality(Units(w, s)) \in Nat
<1> DEFINE T == {n \in Nat : \A t \in SUBSET S :
                   IsFiniteSet(t) /\ Cardinality(t) = n => IsFiniteSet(Units(w, t))}
<1>1. 0 \in T
  <2> SUFFICES ASSUME NEW t \in SUBSET S, IsFiniteSet(t), Cardinality(t) = 0
               PROVE  IsFiniteSet(Units(w, t))
    OBVIOUS
  <2>1. t = {}
    BY FS_EmptySet
  <2>2. Units(w, t) = {}
    BY <2>1 DEF Units
  <2> QED
    BY <2>2, FS_EmptySet
<1>2. ASSUME NEW n \in Nat, n \in T PROVE n + 1 \in T
  <2> SUFFICES ASSUME NEW t \in SUBSET S, IsFiniteSet(t), Cardinality(t) = n + 1
               PROVE  IsFiniteSet(Units(w, t))
    OBVIOUS
  <2>1. PICK x : x \in t
    BY FS_EmptySet
  <2>2. IsFiniteSet(t \ {x}) /\ Cardinality(t \ {x}) = n
    <3>1. IsFiniteSet(t \ {x}) /\ Cardinality(t \ {x}) = Cardinality(t) - 1
      BY <2>1, FS_RemoveElement
    <3> QED
      BY <3>1
  <2>3. IsFiniteSet(Units(w, t \ {x}))
    BY <1>2, <2>2
  <2> HIDE DEF T
  <2> QED
    BY <2>1, <2>3, UnitsAdd
<1> HIDE DEF T
<1>3. Nat \subseteq T
  BY <1>1, <1>2, SetInduction
<1>4. Cardinality(s) \in T
  BY <1>3, FS_CardinalityType
<1>5. IsFiniteSet(Units(w, s))
  BY <1>4 DEF T
<1> QED
  BY <1>5, FS_CardinalityType

\* iter is the table that MapThenSumSet fills in: the sums over the subsets of
\* S, member by member.
Member(s) == CHOOSE x \in s : TRUE
Sums(iter, w, S) ==
  iter = [s \in SUBSET S |->
            IF s = {} THEN 0 ELSE w[Member(s)] + iter[s \ {Member(s)}]]

LEMMA MemberOf ==
  ASSUME NEW s, s # {}
  PROVE  Member(s) \in s
BY DEF Member

LEMMA SumsExist ==
  ASSUME NEW D, NEW w \in [D -> Nat], NEW S \in SUBSET D, IsFiniteSet(S)
  PROVE  \E iter : Sums(iter, w, S)
<1> DEFINE iter == [s \in SUBSET S |-> Cardinality(Units(w, s))]
<1>1. ASSUME NEW s \in SUBSET S
      PROVE  iter[s] = IF s = {} THEN 0 ELSE w[Member(s)] + iter[s \ {Member(s)}]
  <2>1. CASE s = {}
    <3>1. Units(w, s) = {}
      BY <2>1 DEF Units
    <3> QED
      BY <2>1, <3>1, FS_EmptySet
  <2>2. CASE s # {}
    <3>1. Member(s) \in s
      BY <2>2, MemberOf
    <3>2. IsFiniteSet(s \ {Member(s)})
      BY FS_Subset
    <3>3. IsFiniteSet(Units(w, s \ {Member(s)}))
      BY <3>2, UnitsFinite
    <3>4. Cardinality(Units(w, s)) = w[Member(s)] + Cardinality(Units(w, s \ {Member(s)}))
      BY <3>1, <3>3, UnitsAdd
    <3> QED
      BY <2>2, <3>4
  <2> QED
    BY <2>1, <2>2
<1>2. iter = [s \in SUBSET S |-> iter[s]]
  OBVIOUS
<1> HIDE DEF iter
<1> QED
  BY <1>1, <1>2 DEF Sums

LEMMA SumsCount ==
  ASSUME NEW D, NEW w \in [D -> Nat], NEW S \in SUBSET D, IsFiniteSet(S),
         NEW iter, Sums(iter, w, S)
  PROVE  iter[S] = Cardinality(Units(w, S))
<1> DEFINE T == {n \in Nat : \A s \in SUBSET S :
                   Cardinality(s) = n => iter[s] = Cardinality(Units(w, s))}
<1>0. ASSUME NEW s \in SUBSET S
      PROVE  iter[s] = IF s = {} THEN 0 ELSE w[Member(s)] + iter[s \ {Member(s)}]
  BY DEF Sums
<1>1. 0 \in T
  <2> SUFFICES ASSUME NEW s \in SUBSET S, Cardinality(s) = 0
               PROVE  iter[s] = Cardinality(Units(w, s))
    OBVIOUS
  <2>1. s = {}
    BY FS_EmptySet, FS_Subset
  <2>2. Units(w, s) = {}
    BY <2>1 DEF Units
  <2> QED
    BY <1>0, <2>1, <2>2, FS_EmptySet
<1>2. ASSUME NEW n \in Nat, n \in T PROVE n + 1 \in T
  <2> SUFFICES ASSUME NEW s \in SUBSET S, Cardinality(s) = n + 1
               PROVE  iter[s] = Cardinality(Units(w, s))
    OBVIOUS
  <2> DEFINE x == Member(s)
  <2>1. s # {} /\ IsFiniteSet(s)
    BY FS_EmptySet, FS_Subset
  <2>2. x \in s
    BY <2>1, MemberOf
  <2>3. IsFiniteSet(s \ {x}) /\ Cardinality(s \ {x}) = n
    <3>1. IsFiniteSet(s \ {x}) /\ Cardinality(s \ {x}) = Cardinality(s) - 1
      BY <2>1, <2>2, FS_RemoveElement
    <3> QED
      BY <3>1
  <2>4. iter[s \ {x}] = Cardinality(Units(w, s \ {x}))
    BY <1>2, <2>3
  <2>5. IsFiniteSet(Units(w, s \ {x}))
    BY <2>3, UnitsFinite
  <2>6. Cardinality(Units(w, s)) = w[x] + Cardinality(Units(w, s \ {x}))
    BY <2>2, <2>5, UnitsAdd
  <2> QED
    BY <1>0, <2>1, <2>4, <2>6
<1> HIDE DEF T
<1>3. Nat \subseteq T
  BY <1>1, <1>2, SetInduction
<1>4. Cardinality(S) \in T
  BY <1>3, FS_CardinalityType
<1> QED
  BY <1>4 DEF T

\* Weight, of RoutesFollowWeights, summed up.
LEMMA WeightSum ==
  ASSUME NEW m \in Seq(ModelMapping), NEW K \in SUBSET DOMAIN m
  PROVE  LET Weight(k) == IF m[k].weight > 1 THEN m[k].weight ELSE 1
         IN MapThenSumSet(Weight, K)
              = Cardinality(Units([k \in DOMAIN m |-> Copies(m[k])], K))
<1> DEFINE w == [k \in DOMAIN m |-> Copies(m[k])]
           Weight(k) == IF m[k].weight > 1 THEN m[k].weight ELSE 1
           Adds(iter) == iter = [s \in SUBSET K |->
                                   IF s = {} THEN 0
                                   ELSE Weight(Member(s)) + iter[s \ {Member(s)}]]
           iter == CHOOSE f : Adds(f)
<1>1. MapThenSumSet(Weight, K) = iter[K]
  BY DEF MapThenSumSet, MapThenFoldSet, Member
<1>2. ASSUME NEW k \in DOMAIN m PROVE w[k] = Weight(k) /\ w[k] \in Nat
  <2>1. m[k] \in ModelMapping
    OBVIOUS
  <2>2. m[k].weight \in Int
    BY <2>1 DEF ModelMapping
  <2> QED
    BY <2>2 DEF Copies
<1>3. w \in [DOMAIN m -> Nat] /\ IsFiniteSet(K)
  <2>1. IsFiniteSet(1 .. Len(m)) /\ DOMAIN m = 1 .. Len(m)
    BY FS_Interval
  <2>2. IsFiniteSet(K)
    BY <2>1, FS_Subset
  <2> QED
    BY <1>2, <2>2
<1> HIDE DEF w, Weight
<1>4. ASSUME NEW f PROVE Adds(f) <=> Sums(f, w, K)
  <2>1. ASSUME NEW s \in SUBSET K, s # {} PROVE Weight(Member(s)) = w[Member(s)]
    BY <1>2, <2>1, MemberOf
  <2>2. [s \in SUBSET K |->
           IF s = {} THEN 0 ELSE Weight(Member(s)) + f[s \ {Member(s)}]]
          = [s \in SUBSET K |->
           IF s = {} THEN 0 ELSE w[Member(s)] + f[s \ {Member(s)}]]
    BY <2>1
  <2> QED
    BY <2>2 DEF Sums
<1> HIDE DEF Adds
<1>5. \E f : Adds(f)
  BY <1>3, <1>4, SumsExist
<1>6. Sums(iter, w, K)
  BY <1>4, <1>5
<1> HIDE DEF iter
<1>7. iter[K] = Cardinality(Units(w, K))
  BY <1>3, <1>6, SumsCount
<1> QED
  BY <1>1, <1>7 DEF w, Weight

-------------------------------------------------------------------------------
(* Counting in sequences *)

Places(s, x) == {j \in DOMAIN s : s[j] = x}
Count(s, x) == Cardinality(Places(s, x))

LEMMA CountType ==
  ASSUME NEW S, NEW s \in Seq(S), NEW x
  PROVE  IsFiniteSet(Places(s, x)) /\ Count(s, x) \in Nat
<1>1. DOMAIN s = 1 .. Len(s) /\ IsFiniteSet(1 .. Len(s))
  BY FS_Interval
<1>2. IsFiniteSet(Places(s, x))
  BY <1>1, FS_Subset DEF Places
<1> QED
  BY <1>2, FS_CardinalityType DEF Count

LEMMA CountConcat ==
  ASSUME NEW S, NEW s \in Seq(S), NEW t \in Seq(S), NEW x
  PROVE  Count(s \o t, x) = Count(s, x) + Count(t, x)
<1> DEFINE moved == {j \in Len(s) + 1 .. Len(s) + Len(t) : t[j - Len(s)] = x}
           f == [j \in Places(t, x) |-> j + Len(s)]
<1>1. Len(s) \in Nat /\ Len(t) \in Nat
  OBVIOUS
<1>2. f \in Bijection(Places(t, x), moved)
  <2>1. f \in [Places(t, x) -> moved]
    BY <1>1 DEF Places
  <2>2. \A i, j \in Places(t, x) : f[i] = f[j] => i = j
    BY <1>1 DEF Places
  <2>3. ASSUME NEW k \in moved PROVE \E j \in Places(t, x) : f[j] = k
    <3>1. k - Len(s) \in Places(t, x)
      BY <1>1 DEF Places
    <3>2. f[k - Len(s)] = k
      BY <1>1, <3>1
    <3> QED
      BY <3>1, <3>2
  <2> HIDE DEF f, moved
  <2> QED
    BY <2>1, <2>2, <2>3 DEF Bijection, Injection, IsInjective, Surjection
<1>3. IsFiniteSet(moved) /\ Cardinality(moved) = Count(t, x)
  BY <1>2, CountType, FS_Bijection DEF ExistsBijection, Count
<1>4. Places(s \o t, x) = Places(s, x) \cup moved /\ Places(s, x) \cap moved = {}
  BY <1>1 DEF Places
<1> HIDE DEF moved
<1>5. IsFiniteSet(Places(s, x)) /\ Count(s, x) \in Nat /\ Count(t, x) \in Nat
  BY CountType
<1>6. Cardinality(Places(s, x) \cup moved)
        = Cardinality(Places(s, x)) + Cardinality(moved) - 0
  BY <1>3, <1>4, <1>5, FS_Union, FS_EmptySet
<1> QED
  BY <1>3, <1>4, <1>5, <1>6 DEF Count

\* c[i] is the count in the first i rows.
LEMMA CountFlatten ==
  ASSUME NEW S, NEW seqs \in Seq(Seq(S)), Len(seqs) # 0, NEW x,
         NEW c \in [0 .. Len(seqs) -> Nat], c[0] = 0,
         \A i \in 1 .. Len(seqs) : c[i] = c[i - 1] + Count(seqs[i], x)
  PROVE  Count(FlattenSeq(seqs), x) = c[Len(seqs)]
<1>1. Len(seqs) \in Nat /\ Len(seqs) \in 1 .. Len(seqs) /\ 1 \in 1 .. Len(seqs)
  OBVIOUS
<1>2. PICK f \in [1 .. Len(seqs) -> Seq(S)] : IsRow(f, seqs)
  BY FlattenUnfolds
<1> DEFINE T == {n \in Nat : n + 1 \in 1 .. Len(seqs) => Count(f[n + 1], x) = c[n + 1]}
<1>3. 0 \in T
  <2>1. c[1] = c[0] + Count(seqs[1], x)
    BY <1>1
  <2>2. Count(seqs[1], x) \in Nat
    BY <1>1, CountType
  <2>3. f[1] = seqs[1]
    BY <1>2 DEF IsRow
  <2> QED
    BY <2>1, <2>2, <2>3
<1>4. ASSUME NEW n \in Nat, n \in T PROVE n + 1 \in T
  <2> SUFFICES ASSUME n + 2 \in 1 .. Len(seqs) PROVE Count(f[n + 2], x) = c[n + 2]
    OBVIOUS
  <2>1. Count(f[n + 1], x) = c[n + 1]
    BY <1>1, <1>4
  <2> HIDE DEF T
  <2>2. PICK k \in 2 .. Len(seqs) : k = n + 2
    OBVIOUS
  <2>3. k - 1 = n + 1 /\ k \in 1 .. Len(seqs) /\ k - 1 \in 1 .. Len(seqs)
    BY <1>1, <2>2
  <2>4. f[k] = f[k - 1] \o seqs[k]
    BY <1>2 DEF IsRow
  <2>5. Count(f[k], x) = Count(f[k - 1], x) + Count(seqs[k], x)
    <3>1. f[k - 1] \in Seq(S)
      BY <1>2, <2>3
    <3>2. seqs[k] \in Seq(S)
      BY <2>3
    <3> QED
      BY <2>4, <3>1, <3>2, CountConcat
  <2>6. c[k] = c[k - 1] + Count(seqs[k], x)
    BY <2>3
  <2>7. Count(f[k - 1], x) = c[k - 1]
    BY <2>1, <2>3
  <2> QED
    BY <2>2, <2>5, <2>6, <2>7
<1> HIDE DEF T
<1>5. Nat \subseteq T
  BY <1>3, <1>4, SetInduction
<1>6. Len(seqs) - 1 \in T
  BY <1>1, <1>5
<1>7. Count(f[Len(seqs)], x) = c[Len(seqs)]
  <2>1. Len(seqs) - 1 + 1 = Len(seqs)
    BY <1>1
  <2> QED
    BY <1>1, <1>6, <2>1 DEF T
<1> QED
  BY <1>2, <1>7 DEF IsRow

-------------------------------------------------------------------------------
(* Routes by weight *)

Weights(p) == [k \in DOMAIN p.models |-> Copies(p.models[k])]
MappingsOf(p, a) == {k \in DOMAIN p.models : p.models[k].alias = a}

LEMMA RoutesOfCount ==
  ASSUME NEW p \in Provider, p.models # <<>>, NEW a, NEW g
  PROVE  Count(RoutesOf(p), [alias |-> a, group |-> g])
           = IF g = p.name THEN Cardinality(Units(Weights(p), MappingsOf(p, a))) ELSE 0
<1> DEFINE m == p.models
           x == [alias |-> a, group |-> g]
           w == Weights(p)
           row(k) == [i \in 1 .. Copies(m[k]) |-> [alias |-> m[k].alias, group |-> p.name]]
           rows == [k \in DOMAIN m |-> row(k)]
           M(n) == {k \in 1 .. n : m[k].alias = a /\ p.name = g}
           c == [n \in 0 .. Len(m) |-> Cardinality(Units(w, M(n)))]
<1>1. m \in Seq(ModelMapping) /\ p.name \in ProviderName
  BY DEF Provider
<1>2. DOMAIN m = 1 .. Len(m) /\ Len(m) \in Nat \ {0}
  BY <1>1
<1>3. ASSUME NEW k \in DOMAIN m
      PROVE  /\ Copies(m[k]) \in Nat /\ w[k] = Copies(m[k])
             /\ row(k) \in Seq(Route)
             /\ Count(row(k), x) = IF m[k].alias = a /\ p.name = g THEN w[k] ELSE 0
  <2>1. m[k] \in ModelMapping
    BY <1>1
  <2>2. m[k].weight \in Int /\ m[k].alias \in Alias
    BY <2>1 DEF ModelMapping
  <2>3. Copies(m[k]) \in Nat /\ w[k] = Copies(m[k])
    BY <2>2 DEF Copies, Weights
  <2>4. row(k) \in Seq(Route)
    <3>1. [alias |-> m[k].alias, group |-> p.name] \in Route
      BY <1>1, <2>2 DEF Route
    <3> QED
      BY <2>3, <3>1
  <2>5. Places(row(k), x) = IF m[k].alias = a /\ p.name = g THEN 1 .. w[k] ELSE {}
    BY <2>3 DEF Places
  <2>6. w[k] \in Nat
    BY <2>3
  <2>7. Cardinality(1 .. w[k]) = w[k]
    <3> HIDE DEF w
    <3> QED
      BY <2>6, FS_Interval
  <2> QED
    BY <2>3, <2>4, <2>5, <2>7, FS_EmptySet DEF Count
<1>4. w \in [DOMAIN m -> Nat]
  BY <1>3 DEF Weights
<1>5. ASSUME NEW n \in 0 .. Len(m)
      PROVE  /\ M(n) \in SUBSET DOMAIN m /\ IsFiniteSet(M(n))
             /\ IsFiniteSet(Units(w, M(n))) /\ c[n] \in Nat
  <2>1. M(n) \in SUBSET (1 .. n) /\ M(n) \in SUBSET DOMAIN m
    BY <1>2
  <2>2. IsFiniteSet(M(n))
    <3>1. n \in Nat
      BY <1>2
    <3>2. IsFiniteSet(1 .. n)
      BY <3>1, FS_Interval
    <3> QED
      BY <2>1, <3>2, FS_Subset
  <2> HIDE DEF M, w
  <2> QED
    BY <1>4, <2>1, <2>2, UnitsFinite
<1>6. rows \in Seq(Seq(Route)) /\ Len(rows) = Len(m)
  <2> HIDE DEF row
  <2> QED
    BY <1>2, <1>3
<1>7. c[0] = 0
  <2>1. Units(w, M(0)) = {}
    BY DEF Units
  <2> QED
    BY <1>2, <2>1, FS_EmptySet
<1>8. ASSUME NEW i \in 1 .. Len(m) PROVE c[i] = c[i - 1] + Count(rows[i], x)
  <2>1. i - 1 \in 0 .. Len(m) /\ i \in 0 .. Len(m) /\ i \in DOMAIN m
    BY <1>2
  <2>2. rows[i] = row(i)
    BY <2>1
  <2>3. CASE m[i].alias = a /\ p.name = g
    <3>1. i \in M(i) /\ M(i) \ {i} = M(i - 1)
      BY <1>2, <2>3
    <3>2. IsFiniteSet(Units(w, M(i - 1))) /\ M(i) \in SUBSET DOMAIN m
      BY <1>5, <2>1
    <3> HIDE DEF M, w
    <3>3. Cardinality(Units(w, M(i))) = w[i] + Cardinality(Units(w, M(i - 1)))
      BY <1>4, <3>1, <3>2, UnitsAdd
    <3>4. c[i] = w[i] + c[i - 1]
      BY <2>1, <3>3
    <3>5. Count(rows[i], x) = w[i] /\ w[i] \in Nat /\ c[i - 1] \in Nat
      BY <1>3, <1>5, <2>1, <2>2, <2>3
    <3> HIDE DEF c, rows, x
    <3> QED
      BY <3>4, <3>5
  <2>4. CASE ~ (m[i].alias = a /\ p.name = g)
    <3>1. M(i) = M(i - 1)
      BY <1>2, <2>4
    <3>2. c[i] = c[i - 1] /\ c[i - 1] \in Nat
      BY <1>5, <2>1, <3>1
    <3>3. Count(rows[i], x) = 0
      BY <1>3, <2>1, <2>2, <2>4
    <3> HIDE DEF c, rows, x
    <3> QED
      BY <3>2, <3>3
  <2> QED
    BY <2>3, <2>4
<1>9. c \in [0 .. Len(m) -> Nat]
  BY <1>5
<1>10. RoutesOf(p) = FlattenSeq(rows)
  BY DEF RoutesOf
<1>11. M(Len(m)) = IF g = p.name THEN MappingsOf(p, a) ELSE {}
  BY <1>2 DEF MappingsOf
<1>12. Units(w, {}) = {}
  BY DEF Units
<1>13. c[Len(m)] = Cardinality(Units(w, M(Len(m))))
  BY <1>2
<1> HIDE DEF c, rows, x, M, w
<1>14. Count(FlattenSeq(rows), x) = c[Len(m)]
  <2>1. /\ Len(rows) # 0
        /\ c \in [0 .. Len(rows) -> Nat]
        /\ \A i \in 1 .. Len(rows) : c[i] = c[i - 1] + Count(rows[i], x)
    BY <1>2, <1>6, <1>8, <1>9
  <2>2. Count(FlattenSeq(rows), x) = c[Len(rows)]
    BY <1>6, <1>7, <2>1, CountFlatten
  <2> QED
    BY <1>6, <2>2
<1>15. Cardinality({}) = 0
  BY FS_EmptySet
<1> QED
  BY <1>10, <1>11, <1>12, <1>13, <1>14, <1>15 DEF x, w

\* All routes to a provider come from it.
LEMMA CompiledCount ==
  ASSUME NEW s \in Snapshot, Compiles(s.providers), NEW i \in DOMAIN s.providers, NEW a
  PROVE  Count(CompiledRoutes(s), [alias |-> a, group |-> s.providers[i].name])
           = Cardinality(Units(Weights(s.providers[i]), MappingsOf(s.providers[i], a)))
<1> DEFINE list == s.providers
           x == [alias |-> a, group |-> list[i].name]
           total == Cardinality(Units(Weights(list[i]), MappingsOf(list[i], a)))
           rows == [k \in DOMAIN list |-> RoutesOf(list[k])]
           c == [n \in 0 .. Len(list) |-> IF n >= i THEN total ELSE 0]
<1>1. list \in Seq(Provider)
  BY DEF Snapshot
<1>2. DOMAIN list = 1 .. Len(list) /\ Len(list) \in Nat \ {0} /\ i \in 1 .. Len(list)
  BY <1>1
<1>3. ASSUME NEW k \in DOMAIN list
      PROVE  /\ RoutesOf(list[k]) \in Seq(Route)
             /\ Count(RoutesOf(list[k]), x) = IF k = i THEN total ELSE 0
  <2>1. list[k] \in Provider /\ list[k].models # <<>>
    BY <1>1 DEF Compiles
  <2>2. list[i].name = list[k].name <=> k = i
    BY DEF Compiles
  <2>3. Count(RoutesOf(list[k]), x)
          = IF list[i].name = list[k].name
              THEN Cardinality(Units(Weights(list[k]), MappingsOf(list[k], a))) ELSE 0
    BY <2>1, RoutesOfCount
  <2> HIDE DEF x
  <2> QED
    BY <2>1, <2>2, <2>3, RoutesOfType
<1>4. rows \in Seq(Seq(Route)) /\ Len(rows) = Len(list)
  BY <1>2, <1>3
<1>5. total \in Nat
  <2>1. Count(RoutesOf(list[i]), x) = total /\ RoutesOf(list[i]) \in Seq(Route)
    BY <1>3
  <2> HIDE DEF x, total
  <2> QED
    BY <2>1, CountType
<1> HIDE DEF total, x
<1>6. c \in [0 .. Len(list) -> Nat] /\ c[0] = 0 /\ c[Len(list)] = total
  BY <1>2, <1>5
<1>7. ASSUME NEW k \in 1 .. Len(list) PROVE c[k] = c[k - 1] + Count(rows[k], x)
  <2>1. Count(rows[k], x) = IF k = i THEN total ELSE 0
    BY <1>2, <1>3
  <2>2. /\ c[k] = IF k >= i THEN total ELSE 0
        /\ c[k - 1] = IF k - 1 >= i THEN total ELSE 0
    BY <1>2
  <2> HIDE DEF rows, c
  <2> QED
    BY <1>2, <1>5, <2>1, <2>2
<1> HIDE DEF rows, c
<1>8. Count(FlattenSeq(rows), x) = c[Len(list)]
  <2>1. /\ Len(rows) # 0
        /\ c \in [0 .. Len(rows) -> Nat]
        /\ \A k \in 1 .. Len(rows) : c[k] = c[k - 1] + Count(rows[k], x)
    BY <1>2, <1>4, <1>6, <1>7
  <2>2. Count(FlattenSeq(rows), x) = c[Len(rows)]
    BY <1>4, <1>6, <2>1, CountFlatten
  <2> QED
    BY <1>4, <2>2
<1>9. CompiledRoutes(s) = FlattenSeq(rows)
  BY DEF CompiledRoutes, rows
<1> QED
  BY <1>6, <1>8, <1>9 DEF total, x

LEMMA TypeWeights == TypeOK => RoutesFollowWeights
<1> SUFFICES ASSUME TypeOK, NEW d \in Device, Compiles(Loaded(d).providers),
                    NEW i \in DOMAIN Loaded(d).providers
             PROVE  LET s == Loaded(d)
                        provider == s.providers[i]
                        mappings == provider.models
                        Weight(k) == IF mappings[k].weight > 1
                                       THEN mappings[k].weight ELSE 1
                    IN /\ s.groups[i] = [name |-> provider.name,
                                         headers |-> provider.headers,
                                         auth |-> provider.auth]
                       /\ \A a \in Alias :
                            Cardinality({j \in DOMAIN s.routes : s.routes[j] =
                                           [alias |-> a, group |-> provider.name]})
                              = MapThenSumSet(Weight,
                                  {k \in DOMAIN mappings : mappings[k].alias = a})
  BY DEF RoutesFollowWeights
<1> DEFINE t == file[d]
           s == Loaded(d)
           provider == s.providers[i]
           mappings == provider.models
           Weight(k) == IF mappings[k].weight > 1 THEN mappings[k].weight ELSE 1
<1>1. t \in Snapshot /\ s = Normalize(t)
  BY DEF TypeOK, Loaded
<1>2. s.providers = t.providers /\ s.providers \in Seq(Provider)
  BY <1>1, NormalizeFields DEF Snapshot
<1>3. s.providers # <<>> /\ provider \in Provider
  BY <1>2
<1>4. s.routes = CompiledRoutes(t) /\ s.groups = CompiledGroups(t)
  BY <1>1, <1>2, <1>3, NormalizeFields
<1>5. mappings \in Seq(ModelMapping)
  BY <1>3 DEF Provider
<1>6. s.groups[i] = [name |-> provider.name, headers |-> provider.headers,
                     auth |-> provider.auth]
  BY <1>2, <1>4 DEF CompiledGroups, GroupOf
<1>7. ASSUME NEW a \in Alias
      PROVE  Cardinality({j \in DOMAIN s.routes : s.routes[j] =
                            [alias |-> a, group |-> provider.name]})
               = MapThenSumSet(Weight, {k \in DOMAIN mappings : mappings[k].alias = a})
  <2> DEFINE K == {k \in DOMAIN mappings : mappings[k].alias = a}
             x == [alias |-> a, group |-> provider.name]
  <2>1. Count(CompiledRoutes(t), x)
          = Cardinality(Units(Weights(provider), MappingsOf(provider, a)))
    BY <1>1, <1>2, CompiledCount
  <2>2. Count(CompiledRoutes(t), x) = Cardinality({j \in DOMAIN s.routes : s.routes[j] = x})
    BY <1>4 DEF Count, Places
  <2>3. K = MappingsOf(provider, a) /\ Weights(provider) = [k \in DOMAIN mappings |-> Copies(mappings[k])]
    BY DEF MappingsOf, Weights
  <2>4. MapThenSumSet(Weight, K)
          = Cardinality(Units([k \in DOMAIN mappings |-> Copies(mappings[k])], K))
    BY <1>5, WeightSum
  <2> QED
    BY <2>1, <2>2, <2>3, <2>4
<1> QED
  BY <1>6, <1>7

(***************************************************************************)
(* Requests spread over the providers by their weights, for any lists of    *)
(* providers and mappings, any weights, and whatever routes an earlier save *)
(* left in the file.                                                        *)
(***************************************************************************)
THEOREM WeightsDecide == Spec => []RoutesFollowWeights
BY TypeCorrect, TypeWeights, PTL
===============================================================================
