---------------------------- MODULE MCNconnPool -----------------------------
(* Instance of NconnPool for TLC: one label per scheme.                    *)
EXTENDS NconnPool

MCLabels == {"http://a", "https://b"}
MCSchemeOf == [l \in MCLabels |-> IF l = "http://a" THEN "tcp" ELSE "tls"]

=============================================================================
