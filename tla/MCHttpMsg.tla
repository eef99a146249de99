----------------------------- MODULE MCHttpMsg -----------------------------
(***************************************************************************)
(* The exchanges that are checked, over blocks of five bytes, so that      *)
(* every message goes over several.                                        *)
(***************************************************************************)
EXTENDS HttpMsg

\* n times the same symbol.
Run(sym, n) == [i \in 1 .. n |-> sym]

\* A header with a name and a value of k and v bytes.
Header(k, v) ==
  Run("k", k) \o <<"c">> \o Run("v", v) \o <<IF v = 0 THEN "w" ELSE "n">>
Expect == <<"x", "x", "c", "v", "n">>

RqstLine(u) == <<"m">> \o Run("u", u) \o <<"m">>

\* Requests without a body, with one, with a chunked one of two chunks, and
\* with one that the client sends when it is told to.
Get == RqstLine(2) \o Header(1, 2) \o Header(2, 0) \o <<"f">>
Put == RqstLine(1) \o Header(1, 1) \o <<"e", "b", "b", "t">>
Chunks == RqstLine(1) \o <<"e", "h", "b", "b", "d", "h", "b", "d", "z">>
PutExpect == RqstLine(1) \o Expect \o Header(1, 0) \o <<"e", "b", "t">>
Short == RqstLine(2) \o <<"f">>

\* Responses.
NoBody == <<"m">> \o Header(1, 1) \o <<"f">>
WithBody == <<"m">> \o Header(1, 2) \o <<"e", "b", "b", "t">>
ChunkedBody == <<"m", "e", "h", "b", "d", "h", "b", "b", "d", "z">>
ToTheEnd == <<"m", "e", "b", "b">>
ToHead == <<"m">> \o Header(1, 1) \o <<"s">>
Continue == <<"m", "i">>

X(side, save, patient, wires) ==
  [side |-> side, save |-> save, patient |-> patient, wires |-> wires]

MCExchanges ==
  {X("rqst", TRUE, TRUE, w) :
     w \in {<<Get, Short>>, <<Put, Get>>, <<Chunks, Short>>, <<PutExpect, Put>>}} \union
  {X("rqst", TRUE, FALSE, <<PutExpect, Short>>)} \union
  {X("resp", s, FALSE, w) :
     s \in BOOLEAN,
     w \in {<<WithBody, NoBody>>, <<ChunkedBody, WithBody>>, <<ToTheEnd>>,
            <<ToHead, NoBody>>, <<Continue \o WithBody>>}}
=============================================================================
