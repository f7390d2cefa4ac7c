-------------------------- MODULE MCSearchRequests --------------------------
(* Instances of SearchRequests for TLC. *)
EXTENDS SearchRequests, TLC

CONSTANTS i1, i2, t1, t2, r1, r2, r3, w1, w2, s1, s2

\* Two folders, one of them with two mapping files.
TwoFolders == {<<i1, t1>>, <<i1, t2>>, <<i2, t2>>}

Filled(name, company, halal, codes) ==
  [value |-> [f \in Fields |-> CASE f = "name" -> name [] f = "companyId" -> company
                                 [] OTHER -> halal],
   codes |-> codes]

\* Three restaurants; company w2 and specialty s2 are not one plain token.
Documents == (r1 :> Filled({w1}, {w2}, {w1}, {s1, s2})) @@ (r2 :> Filled({w1, w2}, {w1}, {}, {s2}))
               @@ (r3 :> Filled({w2}, {w2}, {w1}, {s1}))

\* No criteria, a word and a specialty, two words and a company, a flag and a specialty,
\* a specialty that analysis changes, and a text that does not parse.
Asked == {Filled({}, {}, {}, {}), Filled({w1}, {}, {}, {s1}), Filled({w1, w2}, {w2}, {}, {}),
          Filled({}, {}, {w1}, {s1, s2}), Filled({}, {}, {}, {s2}), Filled({Malformed}, {}, {}, {})}

Newest  == (r1 :> 0) @@ (r2 :> 1) @@ (r3 :> 2)
Nearest == (r1 :> 2) @@ (r2 :> 0) @@ (r3 :> 1)
=============================================================================
