---------------------------- MODULE MCUrlRouter ----------------------------
(* Instances of UrlRouter for TLC: routes that share prefixes, that repeat   *)
(* each other, and that have names and stars in all places.                  *)
EXTENDS UrlRouter

MCTexts == {
  <<"/", "a">>, <<"/", "b">>, <<"/", "a", "b">>, <<"/", "a", "c">>,
  <<"/", "a", "b", "c">>, <<"a", "/">>,
  <<"/", "a", "*">>, <<"/", "b", "/", "*">>,
  <<"/", "<", "x", ">">>, <<"/", "a", "/", "<", "x", ">">>,
  <<"/", "a", "/", "b", "/", "<", "x", ">">>,
  <<"/", "<", "y", ">", "/", "b", "/", "<", "x", ">">>,
  <<"/", "a", "<", "x", ">">>, <<"/", "<", "x">> }

MCPlain == {
  <<"/", "a">>, <<"/", "b">>, <<"/", "a", "b">>, <<"/", "a", "c">> }

MCUrls == {
  <<"/", "a">>, <<"/", "b">>, <<"/", "a", "b">>, <<"/", "a", "c">>,
  <<"/", "a", "b", "c">>, <<"/", "a", "/">>, <<"/", "b", "/">>,
  <<"/", "a", "/", "b">>, <<"/", "c", "/", "b", "/", "c">>,
  <<"/", "a", "/", "b", "/", "c">>, <<"/">>, <<>> }

=============================================================================
