------------------------------- MODULE MCBooks ------------------------------
(***************************************************************************)
(* Books and Imports for TLC.  A run either imports files of two rows, of  *)
(* every kind, or works on the books; the last workload does both.  Phones *)
(* 1 and 2 are one number written in two ways.                             *)
(***************************************************************************)
EXTENDS Books, TLC

CONSTANTS b1, b2, c1, c2, c3, ann, bob, j1, j2

MCDialled == <<1, 1, 3>>
MCQuote   == (j1 :> 20) @@ (j2 :> 40)
MCOwners  == (j1 :> c1) @@ (j2 :> c2)

Only(kinds, counts) == [k \in kinds |-> IF k \in DOMAIN counts THEN counts[k] ELSE 0]
Row(n, p) == [name |-> n, phone |-> p]
File(kind, rows) == [kind |-> kind, rows |-> rows]
Scenario(f1, f2, second, counts) ==
    [file |-> (b1 :> f1) @@ (b2 :> f2),
     customer |-> (c1 :> Row(ann, 1)) @@ (c2 :> second) @@ (c3 :> None),
     budget |-> Only(Sorts, counts)]

Balances  == File("OPENING_BALANCE", <<Row(ann, 1), Row(bob, 1)>>)
Twice     == File("OPENING_BALANCE", <<Row(ann, 1), Row(ann, 1)>>)
People    == File("CUSTOMER", <<Row(bob, 2), Row(bob, 3)>>)
Vendors   == File("VENDOR", <<Row(ann, 1), Row(bob, 1)>>)
Items     == File("ITEM", <<Row(ann, 1), Row(ann, 1)>>)

ImportScenarios == {
    Scenario(Balances, Twice, None, [preview |-> 2, commit |-> 3, kill |-> 1]),
    Scenario(Balances, People, None, [preview |-> 2, commit |-> 2, edit |-> 1, kill |-> 1]),
    Scenario(People, People, None, [preview |-> 2, commit |-> 2, edit |-> 1, discard |-> 1]),
    Scenario(Vendors, Items, None, [preview |-> 2, commit |-> 3, kill |-> 1]),
    Scenario(Items, Items, None, [preview |-> 2, commit |-> 2, discard |-> 1, kill |-> 1])}

NoFiles  == Scenario(Balances, Balances, Row(bob, 3), <<>>)
OneFile  == Scenario(Balances, Balances, Row(bob, 3), [preview |-> 1, commit |-> 1])

Load1 == [generate |-> 1, rebook |-> 2, send |-> 2, deliver |-> 2, void |-> 2, reissue |-> 1]
Load2 == [generate |-> 1, advance |-> 1, pay |-> 1, rebook |-> 1, send |-> 1, deliver |-> 1,
          void |-> 1]
Load3 == [generate |-> 2, advance |-> 1, pay |-> 1, transfer |-> 1]
Load4 == [generate |-> 1, rebook |-> 1, flip |-> 1, send |-> 1, deliver |-> 1, void |-> 1,
          emirate |-> 1, reissue |-> 1]
Load5 == [generate |-> 1, spend |-> 2, unspend |-> 2]
Load6 == [generate |-> 1, pay |-> 1]
Load7 == [generate |-> 1, rebook |-> 2, flip |-> 2]

Idles == Only(Works, <<>>)
MCScenarios == ImportScenarios \union {NoFiles, OneFile}
Loads       == {Load1, Load2, Load3, Load4, Load5, Load6, Load7}
MCWorkloads == {Idles} \union {Only(Works, l) : l \in Loads}

\* Which workload goes with which files; cogsEnabled matters to the books only.
Together ==
    CASE budget = OneFile.budget -> work = Only(Works, Load6)
      [] budget = NoFiles.budget -> work \notin {Idles, Only(Works, Load6)}
      [] OTHER                   -> work = Idles /\ ~garage.cogs

MCInit == BooksInit /\ Together

MCSpec == MCInit /\ [][BooksNext]_<<vars, bookVars>>

Symmetry == Permutations(Runs) \union Permutations(Invs) \union Permutations(Advs)
                \union Permutations(Papers)
=============================================================================
