---------------------------- MODULE MCConfigFile ----------------------------
(* Instances of ConfigFile for TLC. *)
EXTENDS ConfigFile

SmallLetters == "K" :> "k" @@ "S" :> "s"
MCSections   == {<<"s">>, <<"t">>}
MCKeys       == {<<"k">>, <<"l">>}
HighBytes    == {"h1", "h2"}
MCValues     == {<<"v">>, <<"w", " ", "k">>}

\* Capitals, spaces, both line ends, an empty value, a value with a key for a
\* word and a double-byte character, a header behind spaces, an empty line, a
\* name that ends in a key.
MCLines ==
    { Header(<<"s">>, <<"[", "S", "]", "\n">>),
      Header(<<"t">>, <<" ", "[", "t", "]", " ", "\r", "\n">>),
      Item(<<"k">>, <<"v">>, <<"K", "\t", "=", " ", "v", "\n">>),
      Item(<<"k">>, <<>>, <<" ", "k", "=", "\n">>),
      Item(<<"l">>, <<"w", " ", "k", "h1", "h2">>,
           <<"l", "=", "w", " ", "k", "h1", "h2", "\r", "\n">>),
      Item(<<"l">>, <<"=", "[">>, <<"l", "=", "=", "[", "\n">>),
      Item(<<"v", "k">>, <<"w">>, <<"v", "k", "=", "w", "\n">>),
      Item(<<>>, <<>>, <<"\n">>) }

MCOtherLines ==
    {Header(<<"s">>, <<"[", "s", "]", "\n">>), Header(<<"t">>, <<"[", "t", "]", "\n">>)}

MCTexts == {<<"[", "t", "]", "\n", "[", "s", "]", "\n">>}
=============================================================================
