------------------------------- MODULE Snapshots -------------------------------
(***************************************************************************)
(* internal/core/runtimeconfig: the shared part of a configuration as       *)
(* data.  A snapshot has a list of providers and the routes and groups      *)
(* compiled from it; without providers the routes and groups are written    *)
(* by hand.  A snapshot is told apart from another by the hash of its JSON  *)
(* text, so this module says what the text keeps.                           *)
(*                                                                          *)
(* Names, addresses and keys are one model value, `name`; `complete` stands *)
(* for the fields that compiling asks for (protocol, base_url, real_model). *)
(***************************************************************************)
EXTENDS Integers, Sequences, SequencesExt

CONSTANTS
  ProviderName,   \* names of providers, and of the groups made of them
  Alias           \* model aliases

\* A header map in Go: nil, made but without entries, or with entries.
HeaderMap == {"nil", "empty", "some"}

\* The raw JSON of codex.auth: absent, with its keys in the order in which
\* the store's JSON column keeps them, or in another order.
RawJson == {"nil", "sorted", "unsorted"}

ModelMapping == [alias : Alias, weight : Int]
Provider == [name : ProviderName, complete : BOOLEAN, headers : HeaderMap,
             auth : RawJson, models : Seq(ModelMapping)]
Route == [alias : Alias, group : ProviderName]
Group == [name : ProviderName, headers : HeaderMap, auth : RawJson]
Snapshot == [providers : Seq(Provider), routes : Seq(Route), groups : Seq(Group)]

-------------------------------------------------------------------------------
(* Compiling *)

\* compileProviders has no error to return.
Compiles(providers) ==
  /\ \A i \in DOMAIN providers :
       providers[i].complete /\ providers[i].models # <<>>
  /\ \A i, j \in DOMAIN providers :
       providers[i].name = providers[j].name => i = j

\* A weight that is not positive counts as one.
Copies(mapping) == IF mapping.weight <= 0 THEN 1 ELSE mapping.weight

\* One route for each unit of weight of each mapping.
RoutesOf(provider) ==
  FlattenSeq([k \in DOMAIN provider.models |->
    [i \in 1 .. Copies(provider.models[k]) |->
       [alias |-> provider.models[k].alias, group |-> provider.name]]])

\* A group of one node; the node has the provider's headers (cloneHeaders).
GroupOf(provider) ==
  [name |-> provider.name, headers |-> provider.headers, auth |-> provider.auth]

\* The routes that a file was saved with are kept.
Normalize_Once(s) ==
  IF s.providers = <<>> \/ ~ Compiles(s.providers) \/ s.routes # <<>> THEN s
  ELSE [s EXCEPT
    !.routes = FlattenSeq([i \in DOMAIN s.providers |-> RoutesOf(s.providers[i])]),
    !.groups = [i \in DOMAIN s.providers |-> GroupOf(s.providers[i])]]

\* NormalizeSnapshot, NormalizeFile: what the providers compile to takes the
\* place of routes and groups.  Providers that do not compile change nothing,
\* so the routes and groups that were compiled before stay.
Normalize(s) ==
  IF s.providers = <<>> \/ ~ Compiles(s.providers) THEN s
  ELSE [s EXCEPT
    !.routes = FlattenSeq([i \in DOMAIN s.providers |-> RoutesOf(s.providers[i])]),
    !.groups = [i \in DOMAIN s.providers |-> GroupOf(s.providers[i])]]

\* Validate, runtimeFromParts: the snapshot has routes and groups, no two
\* groups of one name, and no route to a group it does not have.
Valid(s) ==
  LET n == Normalize(s)
      names == {n.groups[i].name : i \in DOMAIN n.groups}
  IN /\ n.routes # <<>> /\ n.groups # <<>>
     /\ \A i, j \in DOMAIN n.groups : n.groups[i].name = n.groups[j].name => i = j
     /\ \A i \in DOMAIN n.routes : n.routes[i].group \in names

-------------------------------------------------------------------------------
(* JSON *)

\* A provider's headers are left out when they are empty (omitempty), a
\* node's headers are not.
Written(provider) ==
  [provider EXCEPT !.headers = IF @ = "empty" THEN "nil" ELSE @]

\* Writing a snapshot as JSON and reading it back.
Json(s) == [s EXCEPT !.providers = [i \in DOMAIN @ |-> Written(@[i])]]

\* The hash, for which the text it is the digest of stands.
HashSnapshot(s) == Json(Normalize(s))

SortKeys(raw) == IF raw = "unsorted" THEN "sorted" ELSE raw

\* Saving a snapshot in the store's JSON column and reading it back: the
\* database puts the keys of every object into its own order.
Stored(s) ==
  LET sorted(list) == [i \in DOMAIN list |->
                         [list[i] EXCEPT !.auth = SortKeys(@)]]
      text == Json(s)
  IN [text EXCEPT !.providers = sorted(@), !.groups = sorted(@)]
===============================================================================
