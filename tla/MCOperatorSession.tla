-------------------------- MODULE MCOperatorSession --------------------------
(* Three variables in an order that is not their own, a table with few free
   entries, a cache of three entries.                                         *)
EXTENDS DomainSession

Shuffled == [level \in 0..(VarCount - 1) |-> (level + 1) % VarCount]

Majority == {a \in M!Assignments : Cardinality(a) >= 2}
OneOf    == {a \in M!Assignments : Cardinality(a) = 1}
Odd      == {a \in M!Assignments : Cardinality(a) % 2 = 1}
Either   == {a \in M!Assignments : 0 \in a \/ 2 \in a}
Implies  == {a \in M!Assignments : 1 \in a => 2 \in a}
Choice   == {a \in M!Assignments : IF 1 \in a THEN 0 \in a ELSE 2 \in a}

Set(variables) == [variables |-> variables, value |-> 2^Len(variables) - 1]
Cube(variables, value) == [variables |-> variables, value |-> value]

Menu(functions, sets, names, bound) ==
    [order |-> Shuffled, functions |-> functions, cubes |-> sets, calls |-> names, bound |-> bound,
     vectors |-> {}, domains |-> {}]

MCMenus ==
    { Menu(<<Majority, Choice>>, <<Set(<<1>>), Set(<<0, 2>>)>>, {"exist", "forall", "unique"}, 3),
      Menu(<<Odd, Choice>>, <<Set(<<1>>), Set(<<2, 0>>)>>, {"exist", "appex", "appall"}, 2),
      Menu(<<Odd, Choice>>, <<Set(<<1>>), Set(<<2, 0>>)>>, {"appex", "appuni", "apply"}, 2),
      Menu(<<Majority, Implies>>, <<Cube(<<0, 1>>, 1), Set(<<2>>)>>, {"ite", "restrict"}, 2),
      Menu(<<Choice, Either>>, <<Set(<<2>>)>>, {"constrain", "simplify", "compose"}, 3),
      Menu(<<Choice, Either>>, <<>>, {"pairs", "replace", "veccompose"}, 4),
      Menu(<<OneOf, Implies>>, <<Set(<<0, 1, 2>>), Set(<<1>>)>>,
           {"satone", "satoneset", "support", "count"}, 2) }

\* Numbers of two bits, the second with bits that are not variables, and of three.
Is(v) == {a \in M!Assignments : v \in a}

Numbers(functions, vecs, names, bound) ==
    [order |-> Shuffled, functions |-> functions, cubes |-> <<>>, calls |-> names, bound |-> bound,
     vectors |-> vecs, domains |-> {}]

MCVectors ==
    { Numbers(<<Is(0), Is(1), Is(2), Choice>>, {<<1, 2>>, <<3, 4>>}, {"sum", "compare"}, 2),
      Numbers(<<Is(0), Is(1), Is(2), Majority>>, {<<1, 2>>, <<3, 4>>}, {"mul", "mulfixed", "map"}, 2),
      Numbers(<<Is(0), Is(1), Is(2), M!Assignments, Choice>>, {<<5, 2>>, <<4, 3>>}, {"div", "fixed"}, 2),
      Numbers(<<{}, M!Assignments>>, {<<2, 1, 2>>}, {"divfixed", "compare"}, 2),
      Numbers(<<Is(0), Is(1), Choice, Is(2), {}>>, {<<1, 2, 3>>, <<4, 5, 5>>}, {"shift"}, 1) }

\* A domain whose size is not a power of two next to one of two, two alike, and one
\* of two bits.
MCDomains ==
    { [Menu(<<Majority, Choice>>, <<Set(<<1>>), Set(<<0, 2>>)>>, {"domains"}, 3) EXCEPT
         !.domains = {<<3, 2>>, <<2, 2>>, <<4>>}],
      [Menu(<<Choice, Either>>, <<>>, {"domains", "pairs", "replace"}, 4) EXCEPT
         !.domains = {<<2, 2>>}] }

MCAllMenus == MCMenus \cup MCVectors \cup MCDomains

MCBinaryOps == {bddop_and, bddop_xor, bddop_nand}
==============================================================================
