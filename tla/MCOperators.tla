---------------------------- MODULE MCOperators ----------------------------
(***************************************************************************)
(* An instance of Operators for TLC: two shells, the command lines worth   *)
(* interleaving, the manifests and the bundles they go by.                 *)
(***************************************************************************)
EXTENDS MCEscrow, Operators, TLC

CONSTANTS h2, c1, c2, s1, s2

MCKeys == [admin |-> op1, verifier |-> ver, buyer |-> p1]

Edition1 == <<"edition", 1>>
Trip2 == <<"trip", 2>>
Method == <<"method", 0>>

\* Behind c1 is the bundle of edition 1; behind c2, other bytes under the
\* same names, and a travel edition.
MCBundle ==
  c1 :> (Edition1 :> h1 @@ Method :> h2)
    @@ c2 :> (Edition1 :> h2 @@ Method :> h2 @@ Trip2 :> h1)

Good == [edition |-> 1, file |-> Edition1, sha256 |-> h1,
         files |-> Edition1 :> h1 @@ Method :> h2]

\* The committed file's entry is not the manifest's hash.
Disagreeing == [Good EXCEPT !.files = Edition1 :> h2 @@ Method :> h2]

\* The committed file's number is not the manifest's edition.
Misnumbered == [Good EXCEPT !.file = Trip2, !.files = Trip2 :> h1]

Creating(price, seats, flag, length) ==
  [cmd |-> "create", manifest |-> [Good EXCEPT !.file = <<>>], price |-> price,
   seats |-> seats, flag |-> flag, length |-> length, dry |-> FALSE]

Calling(cmd, role, id) ==
  [cmd |-> cmd, role |-> role, id |-> id, count |-> 1, seat |-> 0]

Releasing(manifest, cid, skip) ==
  [cmd |-> "release_edition", id |-> 1, manifest |-> manifest, cid |-> cid,
   gateways |-> {"origin", "blank"}, skip |-> skip, dry |-> FALSE, runway |-> 1]

Plain(no_edition_note) ==
  [cmd |-> "release", id |-> 1, sha256 |-> h1, no_edition_note |-> no_edition_note]

\* Two shells, one command line each, and what is opened elsewhere.
Side(a, b, offers) == [jobs |-> s1 :> a @@ s2 :> b, offers |-> offers]

CreateScenes ==
  {Side(<<Creating(1, 2, "none", 0)>>, <<Creating(2, 2, "minutes", 1)>>, {OnHash(1, 1, 1)}),
   Side(<<Creating(1, 3, "days", 1)>>, <<Creating(0, 2, "days", 1)>>, {}),
   Side(<<Creating(1, 0, "days", 1)>>, <<>>, {})}

DrainScenes ==
  {Side(<<Calling("drain", "admin", 1)>>, <<other>>, {OnHash(2, 1, 1)}) :
     other \in {Calling("drain", "buyer", 1), Calling("refund", "admin", 1)}}
    \cup {Side(<<Calling("drain", "admin", 1)>>, <<other>>, {Quorum(2, 1, 1)}) :
            other \in {Calling("claim", "buyer", 1), Calling("close", "admin", 1)}}
    \cup {Side(<<Calling("expire", "buyer", 1)>>, <<>>, {Quorum(2, 1, 1)})}

ReleaseScenes ==
  {Side(<<Releasing(Good, c1, FALSE)>>, <<Plain(TRUE)>>, {OnHash(2, 1, 2)}),
   Side(<<Releasing(Good, c2, TRUE)>>, <<Plain(FALSE)>>, {OnHash(2, 1, 2)})}
    \cup {Side(<<Releasing(m, c2, FALSE)>>, <<>>, {OnHash(2, 1, 2)}) :
            m \in {Good, Disagreeing, Misnumbered}}

MCScenes == CreateScenes \cup DrainScenes \cup ReleaseScenes

Transfers == {Transfer(p, n) : p \in Payers, n \in 1..2}
=============================================================================
