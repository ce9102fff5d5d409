----------------------------- MODULE MCWikiSync -----------------------------
(***************************************************************************)
(* TLC instance of WikiSync: two pages, of which page "b" can be named by  *)
(* its path and by its basename, a URL, a path outside the root, and an    *)
(* explicit id that pages and graph commands can claim.                    *)
(***************************************************************************)
EXTENDS WikiSync, TLC

CONSTANTS a, b, named, toB, url, spelled, outside

MCRefKind == [r \in Ref |-> IF r = toB THEN "wiki" ELSE IF r = url THEN "url"
                          ELSE IF r = outside THEN "outside" ELSE "id"]
MCRefPath == [r \in Ref |-> IF r = toB THEN b ELSE NoPath]
MCRefBase == [r \in Ref |-> IF r = toB THEN {b} ELSE {}]
MCRefId   == [r \in Ref |-> IF r = spelled THEN named ELSE NoId]

Page(id, sources, related) == [explicit |-> id, sources |-> sources, related |-> related]

MCRelateKey ==
    {[from |-> PageHash(a), kind |-> k, to |-> PageHash(b)] : k \in {"DERIVED_FROM", "RELATED_TO"}}

\* Syncs are interchangeable; no liveness is checked.
Symmetry == Permutations(Proc)

\* Two contents claim the same id, as those of a page that moves and changes.
MCContent ==
    {Page(NoId, <<toB, spelled>>, <<toB>>), Page(named, <<url, outside>>, << >>),
     Page(named, <<spelled>>, <<toB>>)}
=============================================================================
