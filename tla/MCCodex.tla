-------------------------------- MODULE MCCodex --------------------------------
(* Small Codex installations for model checking CodexSwitch. *)
EXTENDS CodexSwitch, TLC

CONSTANTS a, b, ida, idb, mine, openai, zenhub

MCGroup == {a, b}
MCId == {ida, idb, mine, openai, zenhub}
MCReserved == {openai}

New(g) == [origin |-> g, edits |-> 0]
Plain(g, id) == [active |-> id, tables |-> id :> New(g), parses |-> TRUE]

\* Two providers under their own names.
OwnIds == [g \in MCGroup |->
  [auth |-> New(g), config |-> Plain(g, IF g = a THEN ida ELSE idb)]]

\* Provider a under a reserved id, provider b without a table of its own.
OddIds == [g \in MCGroup |->
  [auth |-> New(g),
   config |-> IF g = a THEN Plain(a, openai)
                       ELSE [active |-> openai, tables |-> <<>>, parses |-> TRUE]]]

\* What the user had before.
Custom == [auth |-> New(User), config |-> Plain(User, mine)]
Stock == [auth |-> New(User), config |-> Plain(User, openai)]
LoggedOut == [auth |-> None, config |-> Plain(User, mine)]

Installed(template, original, fromProviders) ==
  [template |-> template, original |-> original,
   fromProviders |-> fromProviders]

MCInstallations ==
  {Installed(OwnIds, Custom, FALSE), Installed(OddIds, Stock, FALSE),
   Installed(OwnIds, LoggedOut, TRUE)}
===============================================================================
