----------------------------- MODULE MCRewrite -----------------------------
EXTENDS Rewrite
CONSTANTS x, q, z
MCSize == [i64 |-> 2, u64 |-> 2, f64 |-> 2, bool |-> 1]
Field(n, t) == [name |-> n, type |-> t]
Inner == [name |-> "S", fields |-> <<Field(z, Scalar("i64"))>>]
Outer == [name |-> "P", fields |-> <<Field(x, Scalar("bool")), Field(q, Record(Inner))>>]
MCEnvTypes == <<Tuple(<<Scalar("f64"), Record(Outer)>>), Scalar("f64")>>

Env(id, i) == Node(id, "env", <<i>>, <<>>)
Param(id) == Node(id, "param", <<1>>, <<>>)
Take(id, n, i) == Node(id, "extract", <<i>>, <<n>>)
Get(id, n, f) == Node(id, "field", <<f>>, <<n>>)
Op(id, op, args) == Node(id, op, <<>>, args)

\* Expressions whose nodes have the addresses from i.
Leaf(i) == Take(i, Env(i + 1, 1), 1)
Deep(i) == Get(i, Get(i + 1, Take(i + 2, Env(i + 3, 1), 2), q), z)
Flag(i) == Op(i, "neg", <<Get(i + 1, Take(i + 2, Env(i + 3, 1), 2), x)>>)
Whole(i) == Op(i, "sinh", <<Take(i + 1, Env(i + 2, 1), 2)>>)
\* An element of a tuple built in the body, and of a tuple in it.
Built(i) == Take(i, Op(i + 1, "tuple", <<Op(i + 2, "sinh", <<Leaf(i + 3)>>), Env(i + 6, 2)>>), 1)
Within(i) == Take(i, Take(i + 1, Op(i + 2, "tuple", <<Param(i + 3),
               Op(i + 4, "tuple", <<Op(i + 5, "sinh", <<Env(i + 6, 2)>>), Leaf(i + 7)>>)>>), 2), 1)
Exprs(i) == {Leaf(i), Deep(i), Flag(i), Whole(i), Built(i), Within(i)}

\* Two results that share an operand or are apart, a result that is shared.
Yield(args) == Op(1, "yield", args)
\* The last has two ops that are decomposed in two steps.
MCPrograms == {Yield(<<e, f>>) : e \in Exprs(10), f \in Exprs(20)}
         \cup {Yield(<<e, Op(2, "add", <<e, Op(3, "sinh", <<e>>)>>), e>>) : e \in Exprs(10)}
         \cup {Yield(<<Op(10, "tanh", <<Leaf(11)>>), e>>) : e \in {Leaf(20), Deep(20)}}
         \cup {Yield(<<Op(3, "tanh", <<Param(2)>>), Op(5, "tanh", <<Env(4, 2)>>)>>)}
MCDecompositions == {<<>>, <<"fold tuple", "sinh">>, <<"fold tuple", "grow">>, <<"tanh", "sinh">>}
=============================================================================
