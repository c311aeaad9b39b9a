---------------------------- MODULE MCManagedEnv ----------------------------
EXTENDS ManagedEnv, TLC

\* Only null values; a value of each kind: nothing to quote, to be quoted, to be
\* quoted and escaped, trimmed when it is read, refused by os.Setenv; a removal;
\* bodies that name both keys; and values whose further lines set the other key,
\* at once or when the file is next rewritten.
MCBody ==
    LET K1 == <<"K1">>
        K2 == <<"K2">>
    IN  {<<>>, K1 :> <<"a">>, K1 :> <<"#">>, K1 :> <<"\"">>, K1 :> <<"NUL", "\r">>,
         K1 :> Removed, K2 :> <<"a">>, K1 :> <<"#">> @@ K2 :> Removed,
         K1 :> <<"a">> @@ K2 :> <<"a", "\n", "K1", "=">>,
         K2 :> <<"\n", "export", " ", "export", " ", "K1", "=", "$">>}

Symmetry == Permutations(Req)
=============================================================================
